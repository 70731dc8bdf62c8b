------------------------------ MODULE RunGateProofs ------------------------------
(***************************************************************************)
(* Theorems about Selection and RunGate: for every catalog without a cycle *)
(* and every request, what _include collects; for any options, any edits   *)
(* of the installation and any number of commands, what stands between a   *)
(* command and the data, and what its exit status tells.                   *)
(***************************************************************************)
EXTENDS RunGate, SequenceFacts, FiniteSetTheorems

----------------------------------------------------------------------------
(* FoldLeft                                                                *)

(* The greatest of the numbers from 1 to n + 1 in a set that holds n + 1.  *)
LEMMA MaxIs ==
    ASSUME NEW n \in Nat, NEW s \in SUBSET (1 .. n), n \in s PROVE Max(s) = n
<1>1. \A y \in s : n >= y
  OBVIOUS
<1>2. ASSUME NEW x \in s, \A y \in s : x >= y PROVE x = n
  <2>1. x \in 1 .. n /\ x >= n
    BY <1>2
  <2> QED BY <2>1
<1>3. Max(s) \in s /\ \A y \in s : Max(s) >= y
  BY <1>1, Zenon DEF Max
<1> QED BY <1>2, <1>3

(* FoldLeft, for a function that takes the third argument b at every step, *)
(* goes through the sequence from the left.                                *)
At(f, x, y, b) == f[Call(x, y, b)]
Folded(f, base, seq, b) == FoldLeft(LAMBDA s, d : f[Call(s, d, b)], base, seq)
Runs(h, f, base, seq, b, n) ==
    /\ h[0] = base
    /\ \A i \in 1 .. n : h[i] = At(f, h[i - 1], seq[i], b)
    /\ Folded(f, base, seq, b) = h[n]
LEMMA FoldSteps ==
    ASSUME NEW f, NEW base, NEW seq, NEW b, NEW n \in Nat, DOMAIN seq = 1 .. n
    PROVE  \E h : Runs(h, f, base, seq, b, n)
<1> DEFINE Step(x, y) == At(f, x, y, b)
           Solves(g, k) == g = [s \in SUBSET (1 .. k) |->
                  IF s = {} THEN base ELSE Step(g[s \ {Max(s)}], seq[Max(s)])]
           iter == CHOOSE g : Solves(g, n)
           h == [i \in 0 .. n |-> iter[1 .. i]]
<1>1. Folded(f, base, seq, b)
        = (CHOOSE g : g = [s \in SUBSET (DOMAIN seq) |->
              IF s = {} THEN base ELSE f[Call(g[s \ {Max(s)}], seq[Max(s)], b)]])[DOMAIN seq]
  BY Zenon DEF Folded, FoldLeft, MapThenFoldSet
<1>2. Folded(f, base, seq, b) = iter[1 .. n]
  BY <1>1, Zenon DEF At
<1> HIDE DEF Step, iter, h
<1>3. Solves(iter, n)
  <2> DEFINE S == {k \in Nat : \E g : Solves(g, k)}
  <2>1. 0 \in S
    <3> DEFINE g == [s \in {{}} |-> base]
    <3>1. SUBSET (1 .. 0) = {{}}
      OBVIOUS
    <3>2. Solves(g, 0)
      BY <3>1, Zenon
    <3> QED BY <3>2
  <2>2. ASSUME NEW k \in Nat, k \in S PROVE k + 1 \in S
    <3>1. PICK g : Solves(g, k)
      BY <2>2
    <3> DEFINE more == [s \in SUBSET (1 .. k + 1) |->
                          IF k + 1 \in s THEN Step(g[s \ {k + 1}], seq[k + 1]) ELSE g[s]]
    <3>2. ASSUME NEW s \in SUBSET (1 .. k + 1)
          PROVE  more[s] = IF s = {} THEN base ELSE Step(more[s \ {Max(s)}], seq[Max(s)])
      <4>1. CASE k + 1 \in s
        <5>1. Max(s) = k + 1
          BY <4>1, MaxIs
        <5>2. s \ {k + 1} \in SUBSET (1 .. k + 1) /\ k + 1 \notin s \ {k + 1} /\ s # {}
          BY <4>1
        <5>3. more[s \ {k + 1}] = g[s \ {k + 1}]
          BY <5>2, Zenon
        <5>4. more[s] = Step(g[s \ {k + 1}], seq[k + 1])
          BY <4>1, Zenon
        <5> HIDE DEF more
        <5> QED BY <5>1, <5>2, <5>3, <5>4, Zenon
      <4>2. CASE k + 1 \notin s
        <5>1. s \in SUBSET (1 .. k)
          BY <4>2
        <5>2. ASSUME NEW u \in SUBSET (1 .. k) PROVE more[u] = g[u]
          <6>1. u \in SUBSET (1 .. k + 1) /\ k + 1 \notin u
            OBVIOUS
          <6> QED BY <6>1, Zenon
        <5>3. s \ {Max(s)} \in SUBSET (1 .. k)
          BY <5>1
        <5>4. g[s] = IF s = {} THEN base ELSE Step(g[s \ {Max(s)}], seq[Max(s)])
          BY <3>1, <5>1, Zenon
        <5> HIDE DEF more
        <5> QED BY <5>1, <5>2, <5>3, <5>4, Zenon
      <4> QED BY <4>1, <4>2
    <3>3. Solves(more, k + 1)
      <4>1. more = [s \in SUBSET (1 .. k + 1) |-> more[s]]
        BY Zenon
      <4> HIDE DEF more
      <4> QED BY <3>2, <4>1, Zenon
    <3> HIDE DEF more, Solves
    <3> QED BY <3>3
  <2>3. n \in S
    <3> HIDE DEF S
    <3> QED BY <2>1, <2>2, SetInduction
  <2> QED BY <2>3, Zenon DEF iter
<1> USE DEF h
<1>4. h[0] = base
  <2>1. 1 .. 0 = {} /\ {} \in SUBSET (1 .. n)
    OBVIOUS
  <2> QED BY <1>3, <2>1
<1>5. ASSUME NEW i \in 1 .. n PROVE h[i] = Step(h[i - 1], seq[i])
  <2>1. /\ 1 .. i \in SUBSET (1 .. n) /\ 1 .. i # {} /\ i \in 1 .. i
        /\ (1 .. i) \ {i} = 1 .. i - 1 /\ i - 1 \in 0 .. n /\ i \in 0 .. n
    <3>1. /\ i \in Nat /\ 1 <= i /\ i <= n /\ i - 1 \in 0 .. n /\ i \in 0 .. n
      OBVIOUS
    <3>2. 1 .. i \in SUBSET (1 .. n) /\ i \in 1 .. i
      BY <3>1
    <3>3. (1 .. i) \ {i} = 1 .. i - 1
      BY <3>1
    <3> QED BY <3>1, <3>2, <3>3
  <2>2. Max(1 .. i) = i
    BY <2>1, MaxIs
  <2>3. iter[1 .. i] = Step(iter[1 .. i - 1], seq[i])
    BY <1>3, <2>1, <2>2, Zenon
  <2> QED BY <2>1, <2>3, Zenon
<1>6. h[n] = iter[1 .. n]
  OBVIOUS
<1> HIDE DEF h
<1> QED BY <1>2, <1>4, <1>5, <1>6, Zenon DEF Step, Runs

(* What every step passes on from I[i - 1] to I[i] holds of the result.    *)
LEMMA FoldIn ==
    ASSUME NEW f, NEW base, NEW seq, NEW b, NEW n \in Nat, DOMAIN seq = 1 .. n,
           NEW I, base \in I[0],
           \A i \in 1 .. n : \A s \in I[i - 1] : At(f, s, seq[i], b) \in I[i]
    PROVE  Folded(f, base, seq, b) \in I[n]
<1>1. PICK h : Runs(h, f, base, seq, b, n)
  BY FoldSteps
<1> DEFINE S == {i \in Nat : i <= n => h[i] \in I[i]}
<1>3. 0 \in S
  BY <1>1 DEF Runs
<1>4. ASSUME NEW i \in Nat, i \in S PROVE i + 1 \in S
  <2> SUFFICES ASSUME i + 1 <= n PROVE h[i + 1] \in I[i + 1]
    OBVIOUS
  <2>1. i + 1 \in 1 .. n /\ (i + 1) - 1 = i /\ i <= n
    OBVIOUS
  <2>2. h[i] \in I[i]
    BY <1>4, <2>1
  <2>3. h[i + 1] = At(f, h[i], seq[i + 1], b)
    BY <1>1, <2>1 DEF Runs
  <2> QED BY <2>1, <2>2, <2>3
<1>5. n \in S
  <2> HIDE DEF S
  <2> QED BY <1>3, <1>4, SetInduction
<1> QED BY <1>1, <1>5 DEF Runs

(* Functions that agree wherever the fold can get to have one result.      *)
Agree(f, g, S, seq, b, n) ==
    \A i \in 1 .. n : \A s \in S :
        At(f, s, seq[i], b) \in S /\ At(f, s, seq[i], b) = At(g, s, seq[i], b)
LEMMA FoldSame ==
    ASSUME NEW f, NEW g, NEW base, NEW seq, NEW b, NEW n \in Nat, DOMAIN seq = 1 .. n,
           NEW S, base \in S, Agree(f, g, S, seq, b, n)
    PROVE  Folded(f, base, seq, b) = Folded(g, base, seq, b)
<1>1. PICK h : Runs(h, f, base, seq, b, n)
  BY FoldSteps
<1>2. PICK k : Runs(k, g, base, seq, b, n)
  BY FoldSteps
<1> DEFINE E == {i \in Nat : i <= n => h[i] \in S /\ h[i] = k[i]}
<1>4. 0 \in E
  BY <1>1, <1>2 DEF Runs
<1>5. ASSUME NEW i \in Nat, i \in E PROVE i + 1 \in E
  <2> SUFFICES ASSUME i + 1 <= n PROVE h[i + 1] \in S /\ h[i + 1] = k[i + 1]
    OBVIOUS
  <2>1. i + 1 \in 1 .. n /\ (i + 1) - 1 = i /\ i <= n
    OBVIOUS
  <2>2. h[i] \in S /\ h[i] = k[i]
    BY <1>5, <2>1
  <2>3. h[i + 1] = At(f, h[i], seq[i + 1], b) /\ k[i + 1] = At(g, h[i], seq[i + 1], b)
    BY <1>1, <1>2, <2>1, <2>2 DEF Runs
  <2> QED BY <2>1, <2>2, <2>3 DEF Agree
<1>6. n \in E
  <2> HIDE DEF E
  <2> QED BY <1>4, <1>5, SetInduction
<1> QED BY <1>1, <1>2, <1>6 DEF Runs

----------------------------------------------------------------------------
(* The catalog                                                             *)

LEMMA DatasetIsFinite == IsFiniteSet(Dataset)
<1>1. Registry \in [1 .. Len(Registry) -> Dataset] /\ Len(Registry) \in Nat
  BY RegistryAssumption, LenProperties
<1>2. \A d \in Dataset : \E i \in 1 .. Len(Registry) : Registry[i] = d
  BY <1>1 DEF Dataset, Range
<1>3. Registry \in Surjection(1 .. Len(Registry), Dataset)
  BY <1>1, <1>2 DEF Surjection
<1>4. IsFiniteSet(1 .. Len(Registry))
  BY <1>1, FS_Interval
<1> QED BY <1>3, <1>4, FS_Surjection

LEMMA DependsType ==
    ASSUME NEW d \in Dataset
    PROVE  /\ DependsOn[d] \in Seq(Dataset) /\ Dependencies(d) = DependsOn[d]
           /\ Range(DependsOn[d]) \in SUBSET Dataset
           /\ \A x : Contains(DependsOn[d], x) <=> x \in Range(DependsOn[d])
<1>1. DependsOn[d] \in Seq(Dataset)
  BY RegistryAssumption
<1>2. Range(DependsOn[d]) \in SUBSET Dataset
  BY <1>1 DEF Range
<1> QED BY <1>1, <1>2 DEF Dependencies, Contains, Range

(* Needed[S] is the least set with S that depends_on does not lead out of. *)
Closed(T) == \A d \in T : Range(DependsOn[d]) \subseteq T
LEMMA NeededFacts ==
    ASSUME NEW S \in SUBSET Dataset
    PROVE  /\ Needed[S] \in SUBSET Dataset /\ S \subseteq Needed[S] /\ Closed(Needed[S])
           /\ \A T \in SUBSET Dataset : S \subseteq T /\ Closed(T) => Needed[S] \subseteq T
<1> DEFINE More(U) == U \cup UNION {Range(DependsOn[d]) : d \in U}
           Least(U) == {d \in Dataset : \A T \in SUBSET Dataset :
                           U \subseteq T /\ Closed(T) => d \in T}
           least == [U \in SUBSET Dataset |-> Least(U)]
           Solves(g) == g = [U \in SUBSET Dataset |->
                                IF More(U) = U THEN U ELSE g[More(U)]]
<1>1. ASSUME NEW U \in SUBSET Dataset
      PROVE  /\ More(U) \in SUBSET Dataset /\ U \subseteq More(U)
             /\ More(U) = U <=> Closed(U)
             /\ \A T \in SUBSET Dataset : U \subseteq T /\ Closed(T) => More(U) \subseteq T
  BY DependsType DEF Closed
<1> HIDE DEF More
<1>2. ASSUME NEW U \in SUBSET Dataset
      PROVE  /\ Least(U) \in SUBSET Dataset
             /\ Least(U) = IF More(U) = U THEN U ELSE Least(More(U))
  BY <1>1
<1>3. Solves(least)
  <2>1. ASSUME NEW U \in SUBSET Dataset
        PROVE  Least(U) = IF More(U) = U THEN U ELSE least[More(U)]
    BY <1>1, <1>2
  <2> HIDE DEF Least
  <2> QED BY <2>1, Zenon
<1>4. Solves(Needed)
  <2>1. Needed = CHOOSE g : Solves(g)
    BY Zenon DEF Needed, More
  <2> HIDE DEF least
  <2> QED BY <1>3, <2>1, Zenon
<1>5. \A U \in SUBSET Dataset : Needed[U] = Least(U)
  <2> DEFINE Wrong == {U \in SUBSET Dataset : Needed[U] # Least(U)}
             Rests == {Dataset \ U : U \in Wrong}
  <2> SUFFICES ASSUME Wrong # {} PROVE FALSE
    OBVIOUS
  <2>1. Rests # {} /\ Rests \subseteq FiniteSubsetsOf(Dataset)
    <3>1. FiniteSubsetsOf(Dataset) = SUBSET Dataset
      BY DatasetIsFinite, FS_FiniteSubsetsOfFinite
    <3>2. Rests # {}
      OBVIOUS
    <3>3. Rests \subseteq SUBSET Dataset
      OBVIOUS
    <3> HIDE DEF Rests
    <3> QED BY <3>1, <3>2, <3>3
  <2>2. PICK R \in Rests : \A Q \in Rests : ~(<<Q, R>> \in StrictSubsetOrdering(Dataset))
    <3> HIDE DEF Rests
    <3> QED BY <2>1, FS_StrictSubsetOrderingWellFounded, WFMin
  <2>3. PICK U \in Wrong : R = Dataset \ U
    BY <2>2
  <2>4. /\ U \in SUBSET Dataset /\ Needed[U] # Least(U)
        /\ Needed[U] = IF More(U) = U THEN U ELSE Needed[More(U)]
    BY <1>4, <2>3
  <2>5. More(U) # U /\ Needed[More(U)] # Least(More(U)) /\ More(U) \in Wrong
    <3> HIDE DEF Least
    <3> QED BY <1>1, <1>2, <2>4
  <2>6. Dataset \ More(U) \in Rests /\ Dataset \ More(U) \subseteq R /\ Dataset \ More(U) # R
    BY <1>1, <2>3, <2>4, <2>5
  <2>7. <<Dataset \ More(U), R>> \in StrictSubsetOrdering(Dataset)
    BY <2>3, <2>6 DEF StrictSubsetOrdering
  <2> QED BY <2>2, <2>6, <2>7
<1>6. Needed[S] = Least(S)
  BY <1>5
<1>7. /\ Least(S) \in SUBSET Dataset /\ S \subseteq Least(S) /\ Closed(Least(S))
      /\ \A T \in SUBSET Dataset : S \subseteq T /\ Closed(T) => Least(S) \subseteq T
  BY DependsType DEF Closed
<1> QED BY <1>6, <1>7

(* How far depends_on leads from a dataset: less far from those it names.  *)
Depth(d) == Cardinality(Needed[Range(DependsOn[d])])
LEMMA DepthFacts ==
    ASSUME NEW d \in Dataset
    PROVE  /\ Depth(d) \in Nat
           /\ \A e \in Range(DependsOn[d]) :
                 e \in Dataset /\ Depth(e) \in Nat /\ Depth(e) < Depth(d)
<1> DEFINE Below(x) == Needed[Range(DependsOn[x])]
<1>1. ASSUME NEW x \in Dataset
      PROVE  /\ Below(x) \in SUBSET Dataset /\ Range(DependsOn[x]) \subseteq Below(x)
             /\ Closed(Below(x)) /\ x \notin Below(x) /\ IsFiniteSet(Below(x))
             /\ \A T \in SUBSET Dataset : Range(DependsOn[x]) \subseteq T /\ Closed(T)
                   => Below(x) \subseteq T
  <2>1. Range(DependsOn[x]) \in SUBSET Dataset
    BY DependsType
  <2>2. Below(x) \in SUBSET Dataset
    BY <2>1, NeededFacts
  <2>3. IsFiniteSet(Below(x))
    BY <2>2, DatasetIsFinite, FS_Subset
  <2> QED BY <2>1, <2>2, <2>3, NeededFacts, AcyclicAssumption
<1>2. ASSUME NEW x \in Dataset PROVE Cardinality(Below(x)) \in Nat
  BY <1>1, FS_CardinalityType
<1>3. ASSUME NEW e \in Range(DependsOn[d])
      PROVE  e \in Dataset /\ Cardinality(Below(e)) < Cardinality(Below(d))
  <2>1. e \in Dataset /\ e \in Below(d) /\ Range(DependsOn[e]) \subseteq Below(d)
    BY <1>1, DependsType DEF Closed
  <2>2. Below(e) \subseteq Below(d) /\ Below(e) # Below(d)
    BY <1>1, <2>1
  <2>3. Cardinality(Below(e)) <= Cardinality(Below(d))
        /\ Cardinality(Below(e)) # Cardinality(Below(d))
    BY <1>1, <2>2, FS_Subset
  <2> QED BY <1>2, <2>1, <2>3
<1> QED BY <1>2, <1>3 DEF Depth

----------------------------------------------------------------------------
(* Include has the value its recursion describes: the dependencies of a    *)
(* dataset lie less deep.                                                  *)

(* _include, calling F where it calls itself.                              *)
Domain == [selection : Selected, name : Dataset, explicit : BOOLEAN]
Body(F, s, d, e) ==
    IF Contains(s.names, d) THEN s
    ELSE LET joined == Folded(F, s, Dependencies(d), FALSE)
         IN  [names |-> Append(joined.names, d),
              auto  |-> IF e THEN joined.auto ELSE Append(joined.auto, d)]

LEMMA CallFacts ==
    ASSUME NEW s \in Selected, NEW d \in Dataset, NEW e \in BOOLEAN
    PROVE  /\ Call(s, d, e) \in Domain /\ Call(s, d, e).selection = s
           /\ Call(s, d, e).name = d /\ Call(s, d, e).explicit = e
BY DEF Call, Domain

LEMMA BodyIn ==
    ASSUME NEW F, NEW s \in Selected, NEW d \in Dataset, NEW e \in BOOLEAN,
           \A x \in Selected, c \in Range(DependsOn[d]) : At(F, x, c, FALSE) \in Selected
    PROVE  /\ Folded(F, s, Dependencies(d), FALSE) \in Selected
           /\ Body(F, s, d, e) \in Selected
<1> DEFINE n == Len(DependsOn[d])
           I == [i \in 0 .. n |-> Selected]
<1>1. n \in Nat /\ DOMAIN DependsOn[d] = 1 .. n
  BY DependsType, LenProperties
<1>2. \A i \in 1 .. n : DependsOn[d][i] \in Range(DependsOn[d])
  BY <1>1 DEF Range
<1>3. \A i \in 1 .. n : \A x \in I[i - 1] : At(F, x, DependsOn[d][i], FALSE) \in I[i]
  <2>1. \A i \in 1 .. n : i \in 0 .. n /\ i - 1 \in 0 .. n
    BY <1>1
  <2> QED BY <1>2, <2>1
<1>4. s \in I[0] /\ I[n] = Selected
  BY <1>1
<1>5. Folded(F, s, DependsOn[d], FALSE) \in I[n]
  <2> HIDE DEF I, n
  <2> QED BY <1>1, <1>3, <1>4, FoldIn
<1>6. Folded(F, s, Dependencies(d), FALSE) \in Selected
  BY <1>4, <1>5, DependsType
<1>7. Body(F, s, d, e) \in Selected
  <2> DEFINE joined == Folded(F, s, Dependencies(d), FALSE)
  <2>1. joined.names \in Seq(Dataset) /\ joined.auto \in Seq(Dataset)
    BY <1>6 DEF Selected
  <2>2. Append(joined.names, d) \in Seq(Dataset) /\ Append(joined.auto, d) \in Seq(Dataset)
    BY <2>1, AppendFacts
  <2> HIDE DEF joined
  <2>3. [names |-> Append(joined.names, d),
         auto  |-> IF e THEN joined.auto ELSE Append(joined.auto, d)] \in Selected
    BY <2>1, <2>2 DEF Selected
  <2> QED BY <2>3 DEF Body, joined
<1> QED BY <1>6, <1>7

LEMMA BodySame ==
    ASSUME NEW F, NEW G, NEW s \in Selected, NEW d \in Dataset, NEW e \in BOOLEAN,
           \A x \in Selected, c \in Range(DependsOn[d]) :
              At(F, x, c, FALSE) \in Selected /\ At(F, x, c, FALSE) = At(G, x, c, FALSE)
    PROVE  Body(F, s, d, e) = Body(G, s, d, e)
<1> DEFINE seq == DependsOn[d]
           n == Len(seq)
           b == FALSE
<1>1. n \in Nat /\ DOMAIN seq = 1 .. n
  BY DependsType, LenProperties
<1>2. Agree(F, G, Selected, seq, b, n)
  <2>1. \A i \in 1 .. n : seq[i] \in Range(seq)
    BY <1>1 DEF Range
  <2> QED BY <2>1 DEF Agree
<1> HIDE DEF seq, n, b
<1>3. Folded(F, s, seq, b) = Folded(G, s, seq, b)
  BY <1>1, <1>2, FoldSame
<1> QED BY <1>3, DependsType DEF Body, seq, b

LEMMA IncludeFacts ==
    ASSUME NEW s \in Selected, NEW d \in Dataset, NEW e \in BOOLEAN
    PROVE  /\ At(Include, s, d, e) \in Selected
           /\ At(Include, s, d, e) = Body(Include, s, d, e)
<1> DEFINE Fine(F) == \A x \in Selected, c \in Dataset, b \in BOOLEAN :
                         At(F, x, c, b) \in Selected
           Made(F) == [x \in Domain |-> Body(F, x.selection, x.name, x.explicit)]
           Right(F, k) == \A x \in Selected, c \in Dataset, b \in BOOLEAN :
                             Depth(c) < k => At(F, x, c, b) = Body(F, x, c, b)
           S == {k \in Nat : \E F : Fine(F) /\ Right(F, k)}
<1>1. ASSUME NEW F, NEW x \in Selected, NEW c \in Dataset, NEW b \in BOOLEAN
      PROVE  At(Made(F), x, c, b) = Body(F, x, c, b)
  BY CallFacts DEF At
<1> HIDE DEF Made
<1>2. 0 \in S
  <2> DEFINE F == [x \in Domain |-> x.selection]
  <2>1. \A x \in Selected, c \in Dataset, b \in BOOLEAN : At(F, x, c, b) = x
    BY CallFacts DEF At
  <2> HIDE DEF F
  <2>2. Fine(F)
    BY <2>1
  <2>3. Right(F, 0)
    BY DepthFacts
  <2> QED BY <2>2, <2>3
<1>3. ASSUME NEW F, Fine(F) PROVE Fine(Made(F))
  <2>1. ASSUME NEW x \in Selected, NEW c \in Dataset, NEW b \in BOOLEAN
        PROVE  At(Made(F), x, c, b) \in Selected
    <3>1. \A y \in Selected, a \in Range(DependsOn[c]) : At(F, y, a, FALSE) \in Selected
      BY <1>3, DependsType
    <3>2. Body(F, x, c, b) \in Selected
      BY <3>1, BodyIn
    <3> QED BY <1>1, <3>2
  <2> QED BY <2>1
<1>4. ASSUME NEW k \in Nat, NEW F, Fine(F), Right(F, k)
      PROVE  Right(Made(F), k + 1)
  <2>1. ASSUME NEW x \in Selected, NEW c \in Dataset, NEW b \in BOOLEAN, Depth(c) < k + 1
        PROVE  At(Made(F), x, c, b) = Body(Made(F), x, c, b)
    <3>1. ASSUME NEW y \in Selected, NEW a \in Range(DependsOn[c])
          PROVE  /\ At(F, y, a, FALSE) \in Selected
                 /\ At(F, y, a, FALSE) = At(Made(F), y, a, FALSE)
      <4>1. a \in Dataset /\ Depth(a) < k
        BY <2>1, DepthFacts
      <4>2. At(F, y, a, FALSE) \in Selected /\ At(F, y, a, FALSE) = Body(F, y, a, FALSE)
        BY <1>4, <4>1
      <4>3. At(Made(F), y, a, FALSE) = Body(F, y, a, FALSE)
        BY <1>1, <4>1
      <4> QED BY <4>2, <4>3, Zenon
    <3>2. Body(F, x, c, b) = Body(Made(F), x, c, b)
      BY <3>1, BodySame
    <3> QED BY <1>1, <3>2
  <2> QED BY <2>1
<1>5. ASSUME NEW k \in Nat, k \in S PROVE k + 1 \in S
  <2>1. PICK F : Fine(F) /\ Right(F, k)
    BY <1>5
  <2>2. Fine(Made(F)) /\ Right(Made(F), k + 1)
    BY <1>3, <1>4, <2>1
  <2> HIDE DEF Fine, Right
  <2> QED BY <2>2
<1>6. PICK k \in Nat : \A c \in Dataset : Depth(c) < k
  <2>1. Cardinality(Dataset) \in Nat
    BY DatasetIsFinite, FS_CardinalityType
  <2>2. ASSUME NEW c \in Dataset PROVE Depth(c) <= Cardinality(Dataset)
    BY DatasetIsFinite, DependsType, NeededFacts, FS_Subset DEF Depth
  <2>3. ASSUME NEW c \in Dataset PROVE Depth(c) < Cardinality(Dataset) + 1
    BY <2>1, <2>2, DepthFacts
  <2> QED BY <2>1, <2>3
<1>7. k \in S
  <2> HIDE DEF S
  <2> QED BY <1>2, <1>5, SetInduction
<1>8. PICK F : Fine(F) /\ Right(F, k)
  BY <1>7
<1>9. Made(F) = Made(Made(F))
  <2>1. ASSUME NEW x \in Selected, NEW c \in Dataset, NEW b \in BOOLEAN
        PROVE  Body(F, x, c, b) = Body(Made(F), x, c, b)
    <3>1. Fine(Made(F)) /\ Right(Made(F), k + 1)
      BY <1>3, <1>4, <1>8
    <3>2. Depth(c) < k + 1
      BY <1>6, DepthFacts
    <3> QED BY <1>1, <3>1, <3>2
  <2>2. ASSUME NEW x \in Domain
        PROVE  Body(F, x.selection, x.name, x.explicit)
                  = Body(Made(F), x.selection, x.name, x.explicit)
    BY <2>1 DEF Domain
  <2> QED BY <2>2, Zenon DEF Made
<1>10. Include = Made(Include)
  <2>1. Include = CHOOSE G : G = Made(G)
    BY Zenon DEF Include, Made, Domain, Body, Folded
  <2> QED BY <1>9, <2>1, Zenon
<1>11. Right(Include, k)
  BY <1>1, <1>10
<1>12. Fine(Include)
  <2> DEFINE T == {j \in Nat : \A x \in Selected, c \in Dataset, b \in BOOLEAN :
                      Depth(c) < j => At(Include, x, c, b) \in Selected}
  <2>1. 0 \in T
    BY DepthFacts
  <2>2. ASSUME NEW j \in Nat, j \in T PROVE j + 1 \in T
    <3>1. ASSUME NEW x \in Selected, NEW c \in Dataset, NEW b \in BOOLEAN, Depth(c) < j + 1
          PROVE  At(Include, x, c, b) \in Selected
      <4>1. ASSUME NEW y \in Selected, NEW a \in Range(DependsOn[c])
            PROVE  At(Include, y, a, FALSE) \in Selected
        <5>1. a \in Dataset /\ Depth(a) < j
          BY <3>1, DepthFacts
        <5> QED BY <2>2, <5>1
      <4>2. Body(Include, x, c, b) \in Selected
        BY <4>1, BodyIn
      <4> QED BY <1>6, <1>11, <4>2
    <3> QED BY <3>1
  <2>3. k \in T
    <3> HIDE DEF T
    <3> QED BY <2>1, <2>2, SetInduction
  <2> QED BY <1>6, <2>3
<1> QED BY <1>6, <1>11, <1>12

(* dict.fromkeys: the names that were given, each once.                    *)
Noted(seen, d) == IF Contains(seen, d) THEN seen ELSE Append(seen, d)
LEMMA DeduplicatedSteps ==
    ASSUME NEW seq, NEW n \in Nat, DOMAIN seq = 1 .. n
    PROVE  \E h : /\ h[0] = <<>>
                  /\ \A i \in 1 .. n : h[i] = Noted(h[i - 1], seq[i])
                  /\ Deduplicated(seq) = h[n]
<1> DEFINE Step(x, y) == Noted(x, y)
           Solves(g, k) == g = [s \in SUBSET (1 .. k) |->
                  IF s = {} THEN <<>> ELSE Step(g[s \ {Max(s)}], seq[Max(s)])]
           iter == CHOOSE g : Solves(g, n)
           h == [i \in 0 .. n |-> iter[1 .. i]]
<1>1. Deduplicated(seq)
        = (CHOOSE g : g = [s \in SUBSET (DOMAIN seq) |->
              IF s = {} THEN <<>> ELSE Noted(g[s \ {Max(s)}], seq[Max(s)])])[DOMAIN seq]
  BY Zenon DEF Deduplicated, Noted, FoldLeft, MapThenFoldSet
<1>2. Deduplicated(seq) = iter[1 .. n]
  BY <1>1, Zenon
<1> HIDE DEF Step, iter, h
<1>3. Solves(iter, n)
  <2> DEFINE S == {k \in Nat : \E g : Solves(g, k)}
  <2>1. 0 \in S
    <3> DEFINE g == [s \in {{}} |-> <<>>]
    <3>1. SUBSET (1 .. 0) = {{}}
      OBVIOUS
    <3>2. Solves(g, 0)
      BY <3>1, Zenon
    <3> QED BY <3>2
  <2>2. ASSUME NEW k \in Nat, k \in S PROVE k + 1 \in S
    <3>1. PICK g : Solves(g, k)
      BY <2>2
    <3> DEFINE more == [s \in SUBSET (1 .. k + 1) |->
                          IF k + 1 \in s THEN Step(g[s \ {k + 1}], seq[k + 1]) ELSE g[s]]
    <3>2. ASSUME NEW s \in SUBSET (1 .. k + 1)
          PROVE  more[s] = IF s = {} THEN <<>> ELSE Step(more[s \ {Max(s)}], seq[Max(s)])
      <4>1. CASE k + 1 \in s
        <5>1. Max(s) = k + 1
          BY <4>1, MaxIs
        <5>2. s \ {k + 1} \in SUBSET (1 .. k + 1) /\ k + 1 \notin s \ {k + 1} /\ s # {}
          BY <4>1
        <5>3. more[s \ {k + 1}] = g[s \ {k + 1}]
          BY <5>2, Zenon
        <5>4. more[s] = Step(g[s \ {k + 1}], seq[k + 1])
          BY <4>1, Zenon
        <5> HIDE DEF more
        <5> QED BY <5>1, <5>2, <5>3, <5>4, Zenon
      <4>2. CASE k + 1 \notin s
        <5>1. s \in SUBSET (1 .. k)
          BY <4>2
        <5>2. ASSUME NEW u \in SUBSET (1 .. k) PROVE more[u] = g[u]
          <6>1. u \in SUBSET (1 .. k + 1) /\ k + 1 \notin u
            OBVIOUS
          <6> QED BY <6>1, Zenon
        <5>3. s \ {Max(s)} \in SUBSET (1 .. k)
          BY <5>1
        <5>4. g[s] = IF s = {} THEN <<>> ELSE Step(g[s \ {Max(s)}], seq[Max(s)])
          BY <3>1, <5>1, Zenon
        <5> HIDE DEF more
        <5> QED BY <5>1, <5>2, <5>3, <5>4, Zenon
      <4> QED BY <4>1, <4>2
    <3>3. Solves(more, k + 1)
      <4>1. more = [s \in SUBSET (1 .. k + 1) |-> more[s]]
        BY Zenon
      <4> HIDE DEF more
      <4> QED BY <3>2, <4>1, Zenon
    <3> HIDE DEF more, Solves
    <3> QED BY <3>3
  <2>3. n \in S
    <3> HIDE DEF S
    <3> QED BY <2>1, <2>2, SetInduction
  <2> QED BY <2>3, Zenon DEF iter
<1> USE DEF h
<1>4. h[0] = <<>>
  <2>1. 1 .. 0 = {} /\ {} \in SUBSET (1 .. n)
    OBVIOUS
  <2> QED BY <1>3, <2>1
<1>5. ASSUME NEW i \in 1 .. n PROVE h[i] = Step(h[i - 1], seq[i])
  <2>1. /\ 1 .. i \in SUBSET (1 .. n) /\ 1 .. i # {} /\ i \in 1 .. i
        /\ (1 .. i) \ {i} = 1 .. i - 1 /\ i - 1 \in 0 .. n /\ i \in 0 .. n
    <3>1. /\ i \in Nat /\ 1 <= i /\ i <= n /\ i - 1 \in 0 .. n /\ i \in 0 .. n
      OBVIOUS
    <3>2. 1 .. i \in SUBSET (1 .. n) /\ i \in 1 .. i
      BY <3>1
    <3>3. (1 .. i) \ {i} = 1 .. i - 1
      BY <3>1
    <3> QED BY <3>1, <3>2, <3>3
  <2>2. Max(1 .. i) = i
    BY <2>1, MaxIs
  <2>3. iter[1 .. i] = Step(iter[1 .. i - 1], seq[i])
    BY <1>3, <2>1, <2>2, Zenon
  <2> QED BY <2>1, <2>3, Zenon
<1>6. h[n] = iter[1 .. n]
  OBVIOUS
<1> HIDE DEF h
<1> QED BY <1>2, <1>4, <1>5, <1>6, Zenon DEF Step

LEMMA DeduplicatedFacts ==
    ASSUME NEW names \in Seq(Dataset)
    PROVE  /\ Deduplicated(names) \in Seq(Dataset)
           /\ Range(Deduplicated(names)) = Range(names)
<1> DEFINE n == Len(names)
<1>1. n \in Nat /\ DOMAIN names = 1 .. n /\ \A i \in 1 .. n : names[i] \in Dataset
  BY LenProperties, ElementOfSeq
<1>2. PICK h : /\ h[0] = <<>>
               /\ \A i \in 1 .. n : h[i] = Noted(h[i - 1], names[i])
               /\ Deduplicated(names) = h[n]
  BY <1>1, DeduplicatedSteps
<1> HIDE DEF n
<1> DEFINE Upto(i) == {names[j] : j \in 1 .. i}
           S == {i \in Nat : i <= n => h[i] \in Seq(Dataset) /\ Range(h[i]) = Upto(i)}
<1>3. 0 \in S
  <2>1. Upto(0) = {}
    OBVIOUS
  <2>2. h[0] \in Seq(Dataset) /\ Range(h[0]) = {}
    BY <1>2, EmptyFacts
  <2> HIDE DEF Upto
  <2> QED BY <2>1, <2>2
<1>4. ASSUME NEW i \in Nat, i \in S PROVE i + 1 \in S
  <2> SUFFICES ASSUME i + 1 <= n
               PROVE  h[i + 1] \in Seq(Dataset) /\ Range(h[i + 1]) = Upto(i + 1)
    OBVIOUS
  <2>1. i + 1 \in 1 .. n /\ (i + 1) - 1 = i /\ i <= n
    BY <1>1
  <2>2. h[i] \in Seq(Dataset) /\ Range(h[i]) = Upto(i) /\ names[i + 1] \in Dataset
    BY <1>1, <1>4, <2>1
  <2>3. h[i + 1] = Noted(h[i], names[i + 1])
    BY <1>2, <2>1
  <2>4. Upto(i + 1) = Upto(i) \cup {names[i + 1]}
    <3>1. 1 .. i + 1 = (1 .. i) \cup {i + 1}
      OBVIOUS
    <3> QED BY <3>1
  <2>5. Contains(h[i], names[i + 1]) <=> names[i + 1] \in Range(h[i])
    BY DEF Contains, Range
  <2> HIDE DEF Upto
  <2>6. /\ Append(h[i], names[i + 1]) \in Seq(Dataset)
        /\ Range(Append(h[i], names[i + 1])) = Range(h[i]) \cup {names[i + 1]}
    BY <2>2, AppendFacts
  <2>7. CASE names[i + 1] \in Range(h[i])
    <3>1. h[i + 1] = h[i]
      BY <2>3, <2>5, <2>7 DEF Noted
    <3>2. Upto(i + 1) = Upto(i)
      BY <2>2, <2>4, <2>7
    <3> QED BY <2>2, <3>1, <3>2
  <2>8. CASE names[i + 1] \notin Range(h[i])
    <3>1. h[i + 1] = Append(h[i], names[i + 1])
      BY <2>3, <2>5, <2>8 DEF Noted
    <3> QED BY <2>2, <2>4, <2>6, <3>1
  <2> QED BY <2>7, <2>8
<1>5. n \in S
  <2> HIDE DEF S
  <2> QED BY <1>1, <1>3, <1>4, SetInduction
<1>6. Upto(n) = Range(names)
  BY <1>1 DEF Range
<1>7. h[n] \in Seq(Dataset) /\ Range(h[n]) = Upto(n)
  BY <1>1, <1>5
<1> HIDE DEF Upto, S
<1> QED BY <1>2, <1>6, <1>7

----------------------------------------------------------------------------
(* What Include and Resolved collect                                       *)

(* A selection without repetition, each dataset after all it depends on.   *)
Good(s) ==
    /\ s \in Selected /\ IsInjective(s.names) /\ Closed(Range(s.names))
    /\ \A i, j \in DOMAIN s.names :
          s.names[i] \in Range(DependsOn[s.names[j]]) => i < j

(* t has what s has, and besides only datasets of N, each of which is      *)
(* reported unless it is in X.                                             *)
Extends(s, t, N, X) ==
    /\ Good(t)
    /\ Range(s.names) \subseteq Range(t.names)
    /\ Range(t.names) \subseteq Range(s.names) \cup N
    /\ Range(s.auto) \subseteq Range(t.auto)
    /\ Range(t.names) \subseteq Range(s.names) \cup Range(t.auto) \cup X

LEMMA ExtendsTransitive ==
    ASSUME NEW s, NEW t, NEW u, NEW N, NEW X, NEW M \in SUBSET N, NEW Y \in SUBSET X,
           Extends(s, t, N, X), Extends(t, u, M, Y)
    PROVE  Extends(s, u, N, X)
<1>1. /\ Range(s.names) \subseteq Range(t.names)
      /\ Range(t.names) \subseteq Range(s.names) \cup N
      /\ Range(s.auto) \subseteq Range(t.auto)
      /\ Range(t.names) \subseteq Range(s.names) \cup Range(t.auto) \cup X
  BY Zenon DEF Extends
<1>2. /\ Range(t.names) \subseteq Range(u.names)
      /\ Range(u.names) \subseteq Range(t.names) \cup M
      /\ Range(t.auto) \subseteq Range(u.auto)
      /\ Range(u.names) \subseteq Range(t.names) \cup Range(u.auto) \cup Y
      /\ Good(u)
  BY Zenon DEF Extends
<1> DEFINE sn == Range(s.names)  tn == Range(t.names)  un == Range(u.names)
           sa == Range(s.auto)   ta == Range(t.auto)   ua == Range(u.auto)
<1>3. /\ sn \subseteq un /\ un \subseteq sn \cup N /\ sa \subseteq ua
      /\ un \subseteq sn \cup ua \cup X
  <2> HIDE DEF sn, tn, un, sa, ta, ua
  <2> USE <1>1, <1>2 DEF sn, tn, un, sa, ta, ua
  <2> QED BY Zenon
<1> QED BY <1>2, <1>3 DEF Extends

(* The name that follows all it depends on.                                *)
LEMMA AppendExtends ==
    ASSUME NEW s, NEW t, NEW N \in SUBSET Dataset, NEW d \in Dataset, NEW e \in BOOLEAN,
           Extends(s, t, N, {}), s \in Selected,
           d \notin Range(t.names), Range(DependsOn[d]) \subseteq Range(t.names)
    PROVE  LET u == [names |-> Append(t.names, d),
                     auto  |-> IF e THEN t.auto ELSE Append(t.auto, d)]
           IN  Extends(s, u, N \cup {d}, IF e THEN {d} ELSE {}) /\ d \in Range(u.names)
<1> DEFINE u == [names |-> Append(t.names, d),
                 auto  |-> IF e THEN t.auto ELSE Append(t.auto, d)]
           m == Len(t.names)
<1>1. /\ Good(t) /\ t \in Selected /\ t.names \in Seq(Dataset) /\ t.auto \in Seq(Dataset)
      /\ IsInjective(t.names) /\ Closed(Range(t.names))
  BY DEF Extends, Good, Selected
<1>2. /\ u.names = Append(t.names, d) /\ u.names \in Seq(Dataset)
      /\ Range(u.names) = Range(t.names) \cup {d} /\ IsInjective(u.names)
  BY <1>1, AppendFacts
<1>3. /\ u.auto \in Seq(Dataset)
      /\ Range(u.auto) = Range(t.auto) \cup IF e THEN {} ELSE {d}
  BY <1>1, AppendFacts
<1>4. u \in Selected
  BY <1>2, <1>3 DEF Selected
<1>5. Closed(Range(u.names))
  BY <1>1, <1>2 DEF Closed
<1>6. ASSUME NEW i \in DOMAIN u.names, NEW j \in DOMAIN u.names,
             u.names[i] \in Range(DependsOn[u.names[j]])
      PROVE  i < j
  <2>1. /\ m \in Nat /\ DOMAIN t.names = 1 .. m /\ DOMAIN u.names = 1 .. m + 1
        /\ u.names[m + 1] = d /\ \A k \in 1 .. m : u.names[k] = t.names[k]
    BY <1>1, AppendProperties, LenProperties
  <2>2. \A k \in 1 .. m : t.names[k] \in Range(t.names)
    BY <2>1 DEF Range
  <2> HIDE DEF u, m
  <2>3. CASE i <= m /\ j <= m
    <3>1. i \in 1 .. m /\ j \in 1 .. m
      BY <2>1, <2>3
    <3> QED BY <1>1, <1>6, <2>1, <3>1 DEF Good
  <2>4. CASE i = m + 1 /\ j <= m
    <3>1. j \in 1 .. m /\ u.names[j] \in Range(t.names)
      BY <2>1, <2>2, <2>4
    <3>2. d \in Range(t.names)
      BY <1>1, <1>6, <2>1, <2>4, <3>1 DEF Closed
    <3> QED BY <3>2
  <2>5. CASE j = m + 1
    <3>1. d \notin Range(DependsOn[d])
      OBVIOUS
    <3>2. i # m + 1
      BY <1>6, <2>1, <2>5, <3>1
    <3> QED BY <2>1, <2>5, <3>2
  <2> QED BY <2>1, <2>3, <2>4, <2>5
<1>7. Good(u)
  <2> HIDE DEF u
  <2> QED BY <1>2, <1>4, <1>5, <1>6 DEF Good
<1>8. /\ Range(s.names) \subseteq Range(t.names)
      /\ Range(t.names) \subseteq Range(s.names) \cup N
      /\ Range(s.auto) \subseteq Range(t.auto)
      /\ Range(t.names) \subseteq Range(s.names) \cup Range(t.auto)
  BY DEF Extends
<1> DEFINE X == IF e THEN {d} ELSE {}
<1>9. /\ Range(s.names) \subseteq Range(u.names)
      /\ Range(u.names) \subseteq Range(s.names) \cup (N \cup {d})
      /\ Range(s.auto) \subseteq Range(u.auto)
      /\ Range(u.names) \subseteq Range(s.names) \cup Range(u.auto) \cup X
  <2> HIDE DEF u
  <2> QED BY <1>2, <1>3, <1>8
<1>10. Extends(s, u, N \cup {d}, X)
  <2> HIDE DEF u, X
  <2> QED BY <1>7, <1>9 DEF Extends
<1>11. d \in Range(u.names)
  BY <1>2
<1> QED BY <1>10, <1>11

(* What Include adds to a selection.                                       *)
Aside(d, e) == IF e THEN {d} ELSE {}
LEMMA IncludeExtends ==
    ASSUME NEW s, Good(s), NEW d \in Dataset, NEW e \in BOOLEAN
    PROVE  /\ Extends(s, At(Include, s, d, e), Needed[{d}], Aside(d, e))
           /\ d \in Range(At(Include, s, d, e).names)
<1> DEFINE Adds(x, c, b) == /\ Extends(x, At(Include, x, c, b), Needed[{c}], Aside(c, b))
                            /\ c \in Range(At(Include, x, c, b).names)
           S == {k \in Nat : \A x \in Selected, c \in Dataset, b \in BOOLEAN :
                                Good(x) /\ Depth(c) < k => Adds(x, c, b)}
<1>1. 0 \in S
  <2> HIDE DEF Adds
  <2> QED BY DepthFacts
<1>2. ASSUME NEW k \in Nat, k \in S PROVE k + 1 \in S
  <2>1. ASSUME NEW x \in Selected, NEW c \in Dataset, NEW b \in BOOLEAN,
               Good(x), Depth(c) < k + 1
        PROVE  Adds(x, c, b)
    <3> DEFINE deps == DependsOn[c]
               n == Len(deps)
               N == Needed[Range(deps)]
               joined == Folded(Include, x, deps, FALSE)
               I == [i \in 0 .. n |-> {y \in Selected : /\ Extends(x, y, N, {})
                                          /\ \A j \in 1 .. i : deps[j] \in Range(y.names)}]
    <3>1. /\ x \in Selected /\ {c} \in SUBSET Dataset /\ Range(deps) \in SUBSET Dataset
          /\ n \in Nat /\ DOMAIN deps = 1 .. n /\ \A i \in 1 .. n : deps[i] \in Range(deps)
      <4>1. deps \in Seq(Dataset) /\ Range(deps) \in SUBSET Dataset
        BY <2>1, DependsType
      <4>2. n \in Nat /\ DOMAIN deps = 1 .. n
        BY <4>1, LenProperties
      <4> QED BY <2>1, <4>1, <4>2 DEF Good, Range
    <3>2. /\ N \in SUBSET Dataset /\ Closed(N) /\ Range(deps) \subseteq N /\ c \notin N
          /\ N \subseteq Needed[{c}] /\ c \in Needed[{c}]
      <4>1. /\ N \in SUBSET Dataset /\ Closed(N) /\ Range(deps) \subseteq N /\ c \notin N
            /\ \A T \in SUBSET Dataset : Range(deps) \subseteq T /\ Closed(T) => N \subseteq T
        BY <2>1, <3>1, NeededFacts, AcyclicAssumption
      <4>2. Needed[{c}] \in SUBSET Dataset /\ {c} \subseteq Needed[{c}] /\ Closed(Needed[{c}])
        BY <3>1, NeededFacts
      <4>3. Range(deps) \subseteq Needed[{c}]
        BY <4>2 DEF Closed
      <4> HIDE DEF deps, N
      <4> QED BY <4>1, <4>2, <4>3
    <3>3. At(Include, x, c, b) = IF c \in Range(x.names) THEN x
                                 ELSE [names |-> Append(joined.names, c),
                                       auto  |-> IF b THEN joined.auto
                                                      ELSE Append(joined.auto, c)]
      <4>1. At(Include, x, c, b) = Body(Include, x, c, b) /\ Dependencies(c) = deps
        BY <2>1, <3>1, IncludeFacts, DependsType
      <4>2. Contains(x.names, c) <=> c \in Range(x.names)
        BY DEF Contains, Range
      <4> QED BY <4>1, <4>2 DEF Body
    <3>4. CASE c \in Range(x.names)
      BY <2>1, <3>3, <3>4 DEF Extends
    <3>5. CASE c \notin Range(x.names)
      <4>1. x \in I[0]
        <5>1. Extends(x, x, N, {})
          BY <2>1 DEF Extends
        <5> HIDE DEF N, deps
        <5> QED BY <3>1, <5>1
      <4>2. ASSUME NEW i \in 1 .. n, NEW y \in I[i - 1]
            PROVE  At(Include, y, deps[i], FALSE) \in I[i]
        <5> DEFINE z == At(Include, y, deps[i], FALSE)
        <5>1. /\ i \in 0 .. n /\ i - 1 \in 0 .. n /\ 1 .. i = (1 .. i - 1) \cup {i}
          BY <3>1
        <5>2. /\ y \in Selected /\ Extends(x, y, N, {}) /\ Good(y)
              /\ \A j \in 1 .. i - 1 : deps[j] \in Range(y.names)
          BY <5>1 DEF Extends
        <5>3. deps[i] \in Dataset /\ Depth(deps[i]) < k /\ {deps[i]} \in SUBSET N
          BY <2>1, <3>1, <3>2, DepthFacts
        <5>4. z \in Selected
          BY <5>2, <5>3, IncludeFacts
        <5>5. Extends(y, z, Needed[{deps[i]}], {}) /\ deps[i] \in Range(z.names)
          <6>1. Adds(y, deps[i], FALSE)
            BY <1>2, <5>2, <5>3
          <6> QED BY <6>1 DEF Aside
        <5>6. Needed[{deps[i]}] \in SUBSET N
          BY <3>2, <5>3, NeededFacts
        <5> HIDE DEF z, deps, N
        <5>7. Extends(x, z, N, {})
          <6>1. {} \in SUBSET {}
            OBVIOUS
          <6> QED BY <5>2, <5>5, <5>6, <6>1, ExtendsTransitive
        <5>8. \A j \in 1 .. i : deps[j] \in Range(z.names)
          BY <5>1, <5>2, <5>5 DEF Extends
        <5> QED BY <5>1, <5>4, <5>7, <5>8 DEF z
      <4>3. joined \in I[n]
        <5> HIDE DEF deps, n, I
        <5> QED BY <3>1, <4>1, <4>2, FoldIn
      <4>4. Extends(x, joined, N, {}) /\ \A j \in 1 .. n : deps[j] \in Range(joined.names)
        BY <3>1, <4>3
      <4>5. Range(deps) \subseteq Range(joined.names)
        BY <3>1, <4>4 DEF Range
      <4>6. c \notin Range(joined.names)
        BY <3>2, <3>5, <4>4 DEF Extends
      <4> DEFINE u == [names |-> Append(joined.names, c),
                       auto  |-> IF b THEN joined.auto ELSE Append(joined.auto, c)]
      <4>7. Extends(x, u, N \cup {c}, Aside(c, b)) /\ c \in Range(u.names)
        <5> HIDE DEF joined, N
        <5> QED BY <2>1, <3>1, <3>2, <4>4, <4>5, <4>6, AppendExtends DEF Aside
      <4>8. Extends(x, u, Needed[{c}], Aside(c, b))
        <5> HIDE DEF u, N
        <5> QED BY <3>2, <4>7 DEF Extends
      <4> QED BY <3>3, <3>5, <4>7, <4>8
    <3> QED BY <3>4, <3>5
  <2> HIDE DEF Adds
  <2> QED BY <2>1
<1>3. Depth(d) + 1 \in S
  <2>1. Depth(d) + 1 \in Nat
    BY DepthFacts
  <2> HIDE DEF S
  <2> QED BY <1>1, <1>2, <2>1, SetInduction
<1>4. Depth(d) < Depth(d) + 1
  BY DepthFacts
<1> HIDE DEF Adds
<1>5. Adds(s, d, e)
  BY <1>3, <1>4 DEF Good
<1> QED BY <1>5 DEF Adds

(* Which datasets a run gets, for every request that names them: those it  *)
(* needs, in an order that respects depends_on.                            *)
THEOREM ResolvedIsClosure ==
    ASSUME NEW request \in Seq(Dataset), request # None
    PROVE  Resolved(request) \in Selected /\ IsClosureOf(Resolved(request), request)
<1> DEFINE seq == Deduplicated(request)
           n == Len(seq)
           R == Range(request)
           none == [names |-> <<>>, auto |-> <<>>]
           I == [i \in 0 .. n |-> {y \in Selected : /\ Extends(none, y, Needed[R], R)
                                      /\ \A j \in 1 .. i : seq[j] \in Range(y.names)}]
           r == Folded(Include, none, seq, TRUE)
<1>1. /\ seq \in Seq(Dataset) /\ Range(seq) = R /\ n \in Nat /\ DOMAIN seq = 1 .. n
      /\ \A i \in 1 .. n : seq[i] \in R /\ seq[i] \in Dataset
  <2>1. seq \in Seq(Dataset) /\ Range(seq) = R
    BY DeduplicatedFacts
  <2>2. n \in Nat /\ DOMAIN seq = 1 .. n
    BY <2>1, LenProperties
  <2>3. \A i \in 1 .. n : seq[i] \in Range(seq) /\ seq[i] \in Dataset
    BY <2>1, <2>2, ElementOfSeq DEF Range
  <2> QED BY <2>1, <2>2, <2>3
<1>2. R \in SUBSET Dataset
  BY DEF Range
<1>3. Resolved(request) = r
  BY Zenon DEF Resolved, Folded
<1>4. none \in Selected /\ Good(none) /\ Range(none.names) = {} /\ Range(none.auto) = {}
  BY EmptyFacts DEF Selected, Good, Closed
<1>5. none \in I[0]
  <2>1. Extends(none, none, Needed[R], R)
    BY <1>4 DEF Extends
  <2> HIDE DEF none, seq
  <2> QED BY <1>1, <1>4, <2>1
<1>6. ASSUME NEW i \in 1 .. n, NEW y \in I[i - 1]
      PROVE  At(Include, y, seq[i], TRUE) \in I[i]
  <2> DEFINE z == At(Include, y, seq[i], TRUE)
  <2>1. /\ i \in 0 .. n /\ i - 1 \in 0 .. n /\ 1 .. i = (1 .. i - 1) \cup {i}
    BY <1>1
  <2> HIDE DEF none
  <2>2. /\ y \in Selected /\ Extends(none, y, Needed[R], R) /\ Good(y)
        /\ \A j \in 1 .. i - 1 : seq[j] \in Range(y.names)
    BY <2>1 DEF Extends
  <2>3. seq[i] \in Dataset /\ seq[i] \in R
    BY <1>1
  <2>4. z \in Selected
    BY <2>2, <2>3, IncludeFacts
  <2>5. Extends(y, z, Needed[{seq[i]}], {seq[i]}) /\ seq[i] \in Range(z.names)
    <3>1. Aside(seq[i], TRUE) = {seq[i]}
      BY DEF Aside
    <3> QED BY <2>2, <2>3, <3>1, IncludeExtends
  <2>6. Needed[{seq[i]}] \in SUBSET Needed[R] /\ {seq[i]} \in SUBSET R
    <3>1. {seq[i]} \in SUBSET Dataset /\ {seq[i]} \subseteq Needed[R]
      BY <1>2, <2>3, NeededFacts
    <3>2. Needed[R] \in SUBSET Dataset /\ Closed(Needed[R])
      BY <1>2, NeededFacts
    <3> QED BY <2>3, <3>1, <3>2, NeededFacts
  <2> HIDE DEF z, seq, R
  <2>7. Extends(none, z, Needed[R], R)
    BY <2>2, <2>5, <2>6, ExtendsTransitive
  <2>8. \A j \in 1 .. i : seq[j] \in Range(z.names)
    BY <2>1, <2>2, <2>5 DEF Extends
  <2> QED BY <2>1, <2>4, <2>7, <2>8 DEF z
<1>7. r \in I[n]
  <2> DEFINE b == TRUE
  <2>1. \A i \in 1 .. n : \A y \in I[i - 1] : At(Include, y, seq[i], b) \in I[i]
    BY <1>6
  <2> HIDE DEF seq, n, none, I, b
  <2>2. Folded(Include, none, seq, b) \in I[n]
    BY <1>1, <1>5, <2>1, FoldIn
  <2> QED BY <2>2 DEF b
<1>8. /\ r \in Selected /\ Good(r) /\ Range(r.names) \subseteq Needed[R]
      /\ Range(r.names) \subseteq Range(r.auto) \cup R /\ R \subseteq Range(r.names)
  <2>1. /\ r \in Selected /\ Extends(none, r, Needed[R], R)
        /\ \A j \in 1 .. n : seq[j] \in Range(r.names)
    <3> HIDE DEF seq, r, R, none
    <3> QED BY <1>1, <1>7
  <2>2. R \subseteq Range(r.names)
    <3>1. \A x \in Range(seq) : \E j \in 1 .. n : seq[j] = x
      BY <1>1 DEF Range
    <3> HIDE DEF seq, r, R, none
    <3> QED BY <1>1, <2>1, <3>1
  <2> HIDE DEF r, R
  <2> QED BY <1>4, <2>1, <2>2 DEF Extends
<1>9. Range(r.names) = Needed[R]
  <2>1. Range(r.names) \in SUBSET Dataset /\ Closed(Range(r.names))
    <3> HIDE DEF r, R
    <3> QED BY <1>8 DEF Good, Selected, Range
  <2>2. Needed[R] \subseteq Range(r.names)
    <3> HIDE DEF r, R
    <3> QED BY <1>2, <1>8, <2>1, NeededFacts
  <2> HIDE DEF r, R
  <2> QED BY <1>8, <2>2
<1>10. \A i, j \in DOMAIN r.names :
          Contains(DependsOn[r.names[j]], r.names[i]) => i < j
  <2> HIDE DEF r
  <2>1. ASSUME NEW i \in DOMAIN r.names, NEW j \in DOMAIN r.names
        PROVE  Contains(DependsOn[r.names[j]], r.names[i]) => i < j
    <3>1. r.names[j] \in Dataset
      BY <1>8, ElementOfSeq, LenProperties DEF Good, Selected
    <3> QED BY <1>8, <3>1, DependsType DEF Good
  <2> QED BY <2>1
<1> HIDE DEF r, R
<1>11. Needed[R] \ R \subseteq Range(r.auto)
  BY <1>8, <1>9
<1>12. IsInjective(r.names)
  BY <1>8 DEF Good
<1> QED BY <1>3, <1>8, <1>9, <1>10, <1>11, <1>12, Zenon DEF IsClosureOf, R

----------------------------------------------------------------------------
(* The inductive invariant                                                 *)

Scopes == [datasets : SUBSET Dataset, repos : SUBSET Repo]

(* What the variables are made of.                                         *)
WorldTypes ==
    /\ clock \in Tick /\ version \in Nat
    /\ installation \in Installations /\ form \in {"app", "static"}
DiskTypes ==
    /\ dirs \subseteq 0 .. clock
    /\ checkpoint \in [Tick -> Checkpoints \cup {None}]
    /\ manifest \in [Tick -> Manifests \cup {None}]
MemoryTypes ==
    /\ command \in {"run", "retry"} /\ snap \in Tick \cup {None}
    /\ selection \in Reach \cup {None}
    /\ permissions \in {i.granted : i \in Installations} \cup {None}
    /\ scope_restricted \in BOOLEAN /\ found \subseteq Dataset
ResultTypes ==
    /\ exit \in Nat \cup {None} /\ report \in Tick \cup {None} /\ raised \in BOOLEAN
HistoryTypes ==
    /\ scopes \in [Tick -> SUBSET Scopes] /\ listed \in [Tick -> SUBSET Reach]
    /\ stirred \subseteq Tick \cup {None} /\ odd \subseteq Tick
TypeOK == WorldTypes /\ DiskTypes /\ MemoryTypes /\ ResultTypes /\ HistoryTypes

(* What a command at work may count on: its place, its options and its     *)
(* snapshot.                                                               *)
Phases == {"phase1", "phase2", "finalize"}
Placed ==
    /\ pc \in {"off", "start", "claim", "preflight", "mkdir", "create", "retry"} \cup Phases
    /\ pc = "retry" => command = "retry" /\ snap # None /\ manifest[snap] # None
    /\ pc \notin {"off", "retry"} => command = "run" /\ asked \in Ask
    /\ pc \notin {"off", "start", "retry"} => Resolvable(asked.request)
    /\ pc \in {"off", "start", "mkdir"} => snap = None
    /\ pc \in {"claim", "preflight"} /\ snap # None =>
          snap \in dirs /\ checkpoint[snap] # None
    /\ pc = "create" => snap = clock /\ snap \in dirs
    /\ pc \in Phases => snap \in dirs /\ checkpoint[snap] # None
    /\ pc \in {"off", "start", "claim"} => selection = None /\ permissions = None
    /\ pc # "off" => exit = None /\ report = None /\ ~raised

(* What is in the snapshot directories.                                    *)
Kept ==
    /\ \A s \in Tick \ dirs : checkpoint[s] = None /\ listed[s] = {}
    /\ \A s \in Tick : checkpoint[s] = None => manifest[s] = None /\ scopes[s] = {}
    /\ pc = "create" /\ snap \notin odd => checkpoint[snap] = None

(* A command has written no manifest before it ends, and a run has         *)
(* changed nothing before it makes its snapshot.                           *)
Untouched ==
    /\ pc # "off" => manifest = before[3]
    /\ command = "run" /\ pc \in {"start", "claim", "preflight", "mkdir"} => disk = before

(* The snapshot a run works on is the one its options ask for.             *)
InHand == pc \in Phases \/ (pc \in {"claim", "preflight"} /\ snap # None)
AheadOf(c) == \A s \in Incomplete : s <= c
Asked ==
    /\ InHand => Compatible(snap, asked)
    /\ (InHand \/ pc = "create") /\ asked.resume \in {Automatic, Fresh} => AheadOf(snap)

(* Of a snapshot no run has created twice and no retry has listed again,   *)
(* all that was worked on is what its checkpoint tells.                    *)
ScopeOf(c) == Scope(Range(c.datasets),
                    [names |-> c.names, noArchived |-> c.noArchived, noForks |-> c.noForks])
Scoped ==
    \A s \in dirs \ odd : \A sc \in scopes[s] : sc.repos # {} => sc = ScopeOf(checkpoint[s])

(* As long as no edit fell in the life of the snapshot, what the tokens    *)
(* told and what the listing saw is what the installation is now.          *)
Unstirred == snap \notin stirred
Seen ==
    form = "app" =>
        /\ selection = None <=> permissions = None
        /\ Unstirred => /\ selection # None => selection = installation.reach
                        /\ permissions # None => permissions = installation.granted
        /\ pc \in {"phase2", "finalize"} /\ Unstirred =>
              (scope_restricted <=> installation.reach = "selected")
        /\ \A s \in dirs \ stirred :
              /\ listed[s] \subseteq {installation.reach}
              /\ manifest[s] # None =>
                    (manifest[s].restricted <=> installation.reach = "selected")

(* The preflight gate has let a run pass that asked for fail-fast.         *)
Granted ==
    /\ form = "app" /\ asked.fail_fast /\ pc \in {"mkdir", "create"} \cup Phases /\ Unstirred
    => \A d \in Chosen : Required[d] \subseteq installation.granted

(* StoppedIsResumable, also after an upgrade.                              *)
Resumable ==
    /\ command = "run" /\ report # None
    /\ exit \in {ExitStatus.STOPPED_RESUMABLE, ExitStatus.USER_INTERRUPT}
    /\ before[3][report] = None
    => Compatible(report, asked) /\ (asked.resume \in {Automatic, Fresh} => Newest = report)

IInv == /\ TypeOK /\ Placed /\ Kept /\ Untouched /\ Asked /\ Scoped /\ Seen /\ Granted
        /\ ExitTellsOutcome /\ RefusalLeavesNoTrace /\ Resumable

----------------------------------------------------------------------------
(* What the operators of RunGate make                                      *)

(* What the bound on the options tells of one choice of them.              *)
LEMMA AskFacts ==
    ASSUME NEW ask \in Ask
    PROVE  /\ ask.filter \in Filters /\ ask.resume \in {Automatic, Fresh} \cup Nat
           /\ Stored(ask.filter.names) \in {None} \cup SUBSET Repo
BY GateAssumption DEF Filters, Stored

(* The names a run resolves are datasets, for any request it accepts.      *)
LEMMA ResolvedType ==
    ASSUME NEW ask \in Ask, Resolvable(ask.request)
    PROVE  /\ Resolved(ask.request).names \in Seq(Dataset)
           /\ Range(Resolved(ask.request).names) \subseteq Dataset
<1>1. Resolved(ask.request).names \in Seq(Dataset)
  <2>1. CASE ask.request = None
    BY <2>1, RegistryAssumption DEF Resolved
  <2>2. CASE ask.request # None
    <3>1. ask.request \in Seq(Range(ask.request)) /\ Range(ask.request) \subseteq Dataset
      BY <2>2, GateAssumption DEF Resolvable
    <3>2. ask.request \in Seq(Dataset)
      BY <3>1
    <3> QED BY <2>2, <3>2, ResolvedIsClosure DEF Selected
  <2> QED BY <2>1, <2>2
<1> QED BY <1>1 DEF Range

(* What a new checkpoint holds.                                            *)
LEMMA CreatedFacts ==
    ASSUME NEW ask \in Ask, Resolvable(ask.request), version \in Nat
    PROVE  /\ Created(ask) \in Checkpoints /\ Created(ask) # None
           /\ Created(ask).datasets = Resolved(ask.request).names
           /\ Created(ask).names = Stored(ask.filter.names)
           /\ Created(ask).noArchived = ask.filter.noArchived
           /\ Created(ask).noForks = ask.filter.noForks
BY AskFacts, ResolvedType, MarkerAssumption DEF Created, Checkpoints, Filters

(* A listing that goes on or ends changes nothing else of a checkpoint.    *)
LEMMA ListedFacts ==
    ASSUME NEW c \in Checkpoints, NEW now \in {"open", "complete", "gapped"}
    PROVE  LET d == [c EXCEPT !.listing = now]
           IN  /\ d \in Checkpoints /\ d # None
               /\ d.datasets = c.datasets /\ d.names = c.names
               /\ d.noArchived = c.noArchived /\ d.noForks = c.noForks
BY MarkerAssumption DEF Checkpoints

(* Gaps are of datasets.                                                   *)
LEMMA GapsType ==
    ASSUME NEW S \in SUBSET Dataset, NEW g \in GapsIn(S) PROVE g \subseteq Dataset
BY DEF GapsIn

(* Snapshots are ticks no later than now, and None is no tick.             *)
LEMMA TickFacts ==
    ASSUME TypeOK
    PROVE  /\ Tick \subseteq Nat /\ None \notin Tick
           /\ clock \in Nat /\ clock \in Tick /\ dirs \subseteq 0 .. clock /\ dirs \subseteq Tick
<1>1. MaxClock \in Nat
  BY GateAssumption
<1>2. Tick \subseteq Nat /\ clock \in Tick /\ clock <= MaxClock /\ dirs \subseteq 0 .. clock
  BY <1>1 DEF TypeOK, WorldTypes, DiskTypes, Tick
<1>3. dirs \subseteq Tick
  BY <1>1, <1>2 DEF Tick
<1> QED BY <1>2, <1>3, MarkerAssumption

(* A set of numbers up to n that is not empty has a greatest.              *)
LEMMA MaxFacts ==
    ASSUME NEW n \in Nat, NEW S \in SUBSET (0 .. n), S # {}
    PROVE  Max(S) \in S /\ \A t \in S : t <= Max(S)
<1> DEFINE D == {n - t : t \in S}
<1>1. D \in SUBSET Nat /\ D # {}
  <2>1. \A t \in S : n - t \in Nat
    OBVIOUS
  <2> QED BY <2>1
<1>2. PICK x \in D : \A y \in D : ~(<<y, x>> \in OpToRel(<, Nat))
  <2> HIDE DEF D
  <2> QED BY <1>1, NatLessThanWellFounded, WFMin
<1>3. PICK m \in S : x = n - m
  BY <1>2
<1>4. ASSUME NEW t \in S PROVE m >= t
  <2>1. n - t \in D /\ n - t \in Nat /\ x \in Nat
    BY <1>1, <1>2
  <2>2. ~(n - t < x)
    BY <1>2, <2>1 DEF OpToRel
  <2> QED BY <1>3, <2>2
<1>5. Max(S) \in S /\ \A t \in S : Max(S) >= t
  BY <1>4, Zenon DEF Max
<1> QED BY <1>5

(* ... and it is the one no other exceeds.                                 *)
LEMMA MaxIsThe ==
    ASSUME NEW n \in Nat, NEW S \in SUBSET (0 .. n), NEW m \in S, \A t \in S : t <= m
    PROVE  Max(S) = m
<1>1. Max(S) \in S /\ m <= Max(S) /\ Max(S) <= m
  BY MaxFacts
<1>2. \A t \in S : t \in Int
  OBVIOUS
<1>3. Max(S) \in Int /\ m \in Int
  BY <1>1, <1>2
<1> QED BY <1>1, <1>3

(* The snapshot a run may take up.                                         *)
LEMMA CandidateFacts ==
    ASSUME TypeOK, asked \in Ask, Acceptable
    PROVE  /\ Candidate \in Tick \cup {None}
           /\ Candidate # None => /\ Candidate \in dirs /\ checkpoint[Candidate] # None
                                  /\ Compatible(Candidate, asked)
                                  /\ asked.resume \in {Automatic, Fresh} => AheadOf(Candidate)
<1>1. Incomplete \in SUBSET (0 .. clock) /\ clock \in Nat /\ dirs \subseteq Tick
  BY TickFacts DEF Incomplete
<1>2. CASE asked.resume = Fresh
  <2>1. Candidate = None
    BY <1>2, MarkerAssumption DEF Candidate
  <2> QED BY <2>1
<1>3. CASE asked.resume = Automatic
  <2>1. Candidate = Newest
    BY <1>3, MarkerAssumption DEF Candidate
  <2>2. CASE Incomplete = {}
    BY <2>1, <2>2 DEF Newest
  <2>3. CASE Incomplete # {}
    <3>1. Candidate \in Incomplete /\ AheadOf(Candidate)
      BY <1>1, <2>1, <2>3, MaxFacts DEF Newest, AheadOf
    <3> QED BY <1>1, <3>1 DEF Incomplete, Acceptable, MayResume
  <2> QED BY <2>2, <2>3
<1>4. CASE asked.resume \notin {Automatic, Fresh}
  <2>1. Candidate = asked.resume /\ Candidate \in dirs /\ Candidate # None
    BY <1>1, <1>4, TickFacts DEF Candidate, Acceptable
  <2> QED BY <1>1, <1>4, <2>1 DEF Acceptable, MayResume
<1> QED BY <1>2, <1>3, <1>4

(* No error stands for success, for gaps or for an interrupt.              *)
LEMMA StatusFacts ==
    /\ \A kind \in PreflightErrors \cup PhaseErrors \cup FirstErrors :
          StatusOf(kind) \in Nat \ {0, 1, 130}
    /\ StatusOf("CREDENTIAL_CONFLICT") \in Nat \ {0, 1, 130}
    /\ {ExitStatus.INVALID_USAGE, ExitStatus.CONCURRENT_RUN_REFUSED,
        ExitStatus.PREFLIGHT_BLOCKED} \subseteq Nat \ {0, 1, 130}
    /\ ExitStatus.SUCCESS = 0 /\ ExitStatus.COMPLETED_WITH_GAPS = 1
    /\ ExitStatus.STOPPED_RESUMABLE = 2 /\ ExitStatus.USER_INTERRUPT = 130
    /\ ExitStatus.INVALID_USAGE = 3
<1> DEFINE Kinds == {"CREDENTIAL_CONFLICT", "CREDENTIAL_INVALID", "AUTH_EXPIRED",
                     "AUTH_FAILED", "ORG_NOT_FOUND", "APP_NOT_INSTALLED",
                     "RATE_LIMIT_WAIT_EXCEEDED", "SYSTEMIC_FAILURE", "REQUEST_FAILED"}
<1>1. \A kind \in Kinds : StatusOf(kind) \in {2, 3, 4, 7}
  BY DEF StatusOf, ExitStatus
<1>2. PreflightErrors \cup PhaseErrors \cup FirstErrors \subseteq Kinds
  BY DEF PreflightErrors, PhaseErrors, FirstErrors, AuthErrors
<1>3. /\ ExitStatus.INVALID_USAGE = 3 /\ ExitStatus.CONCURRENT_RUN_REFUSED = 5
      /\ ExitStatus.PREFLIGHT_BLOCKED = 6
      /\ ExitStatus.SUCCESS = 0 /\ ExitStatus.COMPLETED_WITH_GAPS = 1
      /\ ExitStatus.STOPPED_RESUMABLE = 2 /\ ExitStatus.USER_INTERRUPT = 130
  BY DEF ExitStatus
<1>4. "CREDENTIAL_CONFLICT" \in Kinds
  OBVIOUS
<1> HIDE DEF Kinds
<1> QED BY <1>1, <1>2, <1>3, <1>4

----------------------------------------------------------------------------
(* The steps, by what they have in common                                  *)

(* A command in its phases, and a retry, have a snapshot in hand.          *)
LEMMA AtWork ==
    ASSUME TypeOK, Placed, Kept, pc \in Phases \cup {"retry"}
    PROVE  /\ snap \in Tick /\ snap # None
           /\ checkpoint[snap] \in Checkpoints /\ checkpoint[snap] # None
           /\ pc = "retry" => manifest[snap] \in Manifests
<1>1. snap # None
  BY TickFacts DEF Placed, Phases
<1>2. snap \in Tick
  BY <1>1 DEF TypeOK, MemoryTypes
<1>3. checkpoint[snap] # None
  BY <1>2 DEF Placed, Kept
<1> QED BY <1>1, <1>2, <1>3 DEF TypeOK, DiskTypes, Placed

(* What a run works on is a scope.                                         *)
LEMMA ChosenType ==
    ASSUME asked \in Ask, Resolvable(asked.request)
    PROVE  Chosen \subseteq Dataset /\ Scope(Chosen, asked.filter) \in Scopes
BY ResolvedType DEF Chosen, Scope, Scopes, Considered

(* A command that stops with an error, is refused or is interrupted.       *)
Halt ==
    \E status \in Nat \ {0, 1}, where \in {None, snap} :
        /\ Stop(status, where) /\ pc # "off"
        /\ where # None => pc \in {"phase1", "phase2"}
        /\ where = None => \/ command = "retry" \/ status = ExitStatus.USER_INTERRUPT
                           \/ pc \in {"start", "claim", "preflight"}

(* A command that writes a manifest.                                       *)
Finish ==
    \E m \in Manifests :
        /\ Write(m)
        /\ \/ pc = "finalize" /\ m.restricted = scope_restricted
           \/ pc = "retry" /\ m.restricted = manifest[snap].restricted

(* Every error, refusal and interrupt of a command is a Halt.              *)
LEMMA HaltIs ==
    ASSUME TypeOK, Placed, Kept,
           \/ RefuseCredentials \/ Refuse \/ ClaimRefused \/ PreflightFails \/ PreflightBlocks
           \/ PhaseFails \/ RetryFails \/ Interrupt \/ KeyboardInterrupt
    PROVE  Halt
<1>1. CASE RefuseCredentials
  BY <1>1, StatusFacts DEF RefuseCredentials, Halt
<1>2. CASE Refuse
  BY <1>2, StatusFacts DEF Refuse, Halt
<1>3. CASE ClaimRefused
  BY <1>3, StatusFacts DEF ClaimRefused, Halt
<1>4. CASE PreflightFails
  BY <1>4, StatusFacts DEF PreflightFails, Halt
<1>5. CASE PreflightBlocks
  BY <1>5, StatusFacts DEF PreflightBlocks, Halt
<1>6. CASE PhaseFails
  <2>1. snap # None
    BY <1>6, AtWork DEF PhaseFails, Phases
  <2> QED BY <1>6, <2>1, StatusFacts DEF PhaseFails, Halt
<1>7. CASE RetryFails
  BY <1>7, StatusFacts DEF RetryFails, Halt, Placed
<1>8. CASE Interrupt
  BY <1>8, StatusFacts DEF Interrupt, Halt
<1>9. CASE KeyboardInterrupt
  BY <1>9, StatusFacts DEF KeyboardInterrupt, Halt
<1> QED BY <1>1, <1>2, <1>3, <1>4, <1>5, <1>6, <1>7, <1>8, <1>9

(* Both commands finish with a manifest made in the same way.              *)
LEMMA FinishIs ==
    ASSUME TypeOK, Placed, Kept, Publish \/ RetryEnds PROVE Finish
<1>1. CASE Publish
  <2>1. PICK unconverted \in SUBSET (Flaky \cap Chosen) :
           Write([gaps |-> found \cup unconverted, restricted |-> scope_restricted])
    BY <1>1 DEF Publish
  <2> DEFINE m == [gaps |-> found \cup unconverted, restricted |-> scope_restricted]
  <2>2. m \in Manifests /\ m.restricted = scope_restricted
    BY GateAssumption DEF TypeOK, MemoryTypes, Manifests
  <2> HIDE DEF m
  <2> QED BY <1>1, <2>1, <2>2 DEF Publish, Finish, m
<1>2. CASE RetryEnds
  <2>1. manifest[snap] \in Manifests
    BY <1>2, AtWork DEF RetryEnds
  <2>2. PICK gaps \in GapsIn(manifest[snap].gaps),
             unconverted \in SUBSET (Flaky \cap Range(checkpoint[snap].datasets)) :
           Write([gaps |-> gaps \cup unconverted, restricted |-> manifest[snap].restricted])
    BY <1>2 DEF RetryEnds
  <2> DEFINE m == [gaps |-> gaps \cup unconverted, restricted |-> manifest[snap].restricted]
  <2>3. gaps \subseteq Dataset
    BY <2>1, GapsType DEF Manifests
  <2>4. m \in Manifests /\ m.restricted = manifest[snap].restricted
    BY <2>1, <2>3, GateAssumption DEF Manifests
  <2> HIDE DEF m
  <2> QED BY <1>2, <2>2, <2>4 DEF RetryEnds, Finish, m
<1> QED BY <1>1, <1>2

(* Every step is one of these.                                             *)
Step ==
    \/ \E ask \in Ask : Invoke(ask)
    \/ \E s \in Tick : InvokeRetry(s)
    \/ Halt \/ Finish \/ Raise \/ Kill
    \/ Accept \/ ClaimTaken \/ MintToken \/ PreflightPasses
    \/ MakeDirectory \/ CreateCheckpoint
    \/ ListPage \/ ListingFails \/ EndPhase1 \/ EndPhase2
    \/ TimePasses \/ Edit \/ Upgrade \/ UNCHANGED vars

(* Every step of the model is one of those.                                *)
LEMMA StepIs == ASSUME TypeOK, Placed, Kept, [Next]_vars PROVE Step
BY HaltIs, FinishIs DEF Next, Step

(* The steps that change what lasts beyond a command.                      *)
LEMMA Frame ==
    ASSUME Step
    PROVE  /\ UNCHANGED form /\ clock' \in {clock, clock + 1}
           /\ UNCHANGED dirs \/ (MakeDirectory /\ dirs' = dirs \cup {clock})
           /\ ~Finish => UNCHANGED manifest
           /\ ~(PreflightPasses \/ CreateCheckpoint \/ ListPage) => UNCHANGED scopes
           /\ ~ListPage => UNCHANGED listed
           /\ odd \subseteq odd'
           /\ ~(\/ CreateCheckpoint \/ ListPage \/ ListingFails
                \/ \E s \in Tick : InvokeRetry(s)) => UNCHANGED checkpoint
           /\ pc' = "create" /\ ~MakeDirectory =>
                 pc = "create" /\ UNCHANGED <<snap, odd, checkpoint>>
<1> USE DEF fixed, github, disk, known, outcome, result, history
<1>1. CASE \E ask \in Ask : Invoke(ask)
  BY <1>1 DEF Invoke, Begin
<1>2. CASE \E s \in Tick : InvokeRetry(s)
  BY <1>2 DEF InvokeRetry, Begin
<1>3. CASE Halt \/ Raise \/ Kill
  BY <1>3 DEF Halt, Stop, End, Gone, Raise, Kill
<1>4. CASE Finish
  BY <1>4 DEF Finish, Write, End, Gone
<1>5. CASE Accept \/ ClaimTaken \/ MintToken \/ PreflightPasses
  BY <1>5 DEF Accept, ClaimTaken, MintToken, PreflightPasses
<1>6. CASE MakeDirectory \/ CreateCheckpoint
  BY <1>6 DEF MakeDirectory, CreateCheckpoint
<1>7. CASE ListPage \/ ListingFails \/ EndPhase1 \/ EndPhase2
  BY <1>7 DEF ListPage, ListingFails, Listing, EndPhase1, EndPhase2
<1>8. CASE TimePasses \/ Edit \/ Upgrade \/ UNCHANGED vars
  BY <1>8 DEF TimePasses, Edit, Upgrade, vars
<1> QED BY <1>1, <1>2, <1>3, <1>4, <1>5, <1>6, <1>7, <1>8 DEF Step

(* Only the creation of a checkpoint changes what a snapshot is for.       *)
SameScope(c, d) == /\ d.datasets = c.datasets /\ d.names = c.names
                   /\ d.noArchived = c.noArchived /\ d.noForks = c.noForks
LEMMA CheckpointSteps ==
    ASSUME TypeOK, Placed, Kept, Step
    PROVE  \/ /\ CreateCheckpoint /\ snap \in Tick
              /\ Created(asked) \in Checkpoints /\ Created(asked) # None
              /\ checkpoint' = [checkpoint EXCEPT ![snap] = Created(asked)]
              /\ checkpoint' \in [Tick -> Checkpoints \cup {None}]
           \/ /\ checkpoint' \in [Tick -> Checkpoints \cup {None}]
              /\ \A s \in Tick :
                    /\ checkpoint'[s] = None <=> checkpoint[s] = None
                    /\ checkpoint[s] # None => SameScope(checkpoint[s], checkpoint'[s])
<1> DEFINE Same == /\ checkpoint' \in [Tick -> Checkpoints \cup {None}]
                   /\ \A s \in Tick :
                         /\ checkpoint'[s] = None <=> checkpoint[s] = None
                         /\ checkpoint[s] # None => SameScope(checkpoint[s], checkpoint'[s])
<1> USE DEF fixed, github, disk, known, outcome, result, history
<1>1. checkpoint \in [Tick -> Checkpoints \cup {None}]
  BY DEF TypeOK, DiskTypes
<1>2. ASSUME NEW s \in Tick, checkpoint[s] # None,
             NEW now \in {"open", "complete", "gapped"},
             checkpoint' = [checkpoint EXCEPT ![s].listing = now]
      PROVE  Same
  <2> DEFINE d == [checkpoint[s] EXCEPT !.listing = now]
  <2>1. checkpoint[s] \in Checkpoints
    BY <1>1, <1>2
  <2>2. d \in Checkpoints /\ d # None /\ SameScope(checkpoint[s], d)
    BY <2>1, ListedFacts DEF SameScope
  <2>3. checkpoint' = [checkpoint EXCEPT ![s] = d]
    BY <1>2
  <2> HIDE DEF d
  <2> QED BY <1>1, <1>2, <2>2, <2>3 DEF SameScope
<1>3. CASE UNCHANGED checkpoint
  BY <1>1, <1>3 DEF SameScope
<1>4. CASE CreateCheckpoint
  <2>1. asked \in Ask /\ Resolvable(asked.request) /\ version \in Nat /\ snap \in Tick
    BY <1>4, TickFacts DEF CreateCheckpoint, Placed, Phases, TypeOK, WorldTypes
  <2>2. Created(asked) \in Checkpoints /\ Created(asked) # None
    BY <2>1, CreatedFacts
  <2> QED BY <1>1, <1>4, <2>1, <2>2 DEF CreateCheckpoint
<1>5. CASE ListPage \/ ListingFails
  <2>1. pc \in Phases \cup {"retry"}
    BY <1>5 DEF ListPage, ListingFails, Listing, Phases
  <2>2. snap \in Tick /\ checkpoint[snap] # None
    BY <2>1, AtWork
  <2>3. \E now \in {"open", "complete", "gapped"} :
           checkpoint' = [checkpoint EXCEPT ![snap].listing = now]
    BY <1>5 DEF ListPage, ListingFails
  <2> HIDE DEF Same
  <2> QED BY <1>2, <2>2, <2>3 DEF Same
<1>6. CASE \E s \in Tick : InvokeRetry(s)
  <2>1. PICK s \in Tick : InvokeRetry(s)
    BY <1>6
  <2>2. CASE UNCHANGED checkpoint
    BY <1>3, <2>2
  <2>3. CASE manifest[s] # None /\ checkpoint' = [checkpoint EXCEPT ![s].listing = "open"]
    <3>1. checkpoint[s] # None
      BY <2>3 DEF Kept
    <3> HIDE DEF Same
    <3> QED BY <1>2, <2>3, <3>1 DEF Same
  <2> QED BY <2>1, <2>2, <2>3 DEF InvokeRetry
<1>7. CASE ~(CreateCheckpoint \/ ListPage \/ ListingFails \/ \E s \in Tick : InvokeRetry(s))
  <2>1. UNCHANGED checkpoint
    BY <1>7, Frame
  <2> QED BY <1>3, <2>1
<1> QED BY <1>3, <1>4, <1>5, <1>6, <1>7

(* A step keeps the types of the clock, the version and GitHub.            *)
LEMMA WorldTypesStep ==
    ASSUME TypeOK, Step
    PROVE  WorldTypes'
<1> USE DEF fixed, github, disk, known, outcome, result, history
<1>1. CASE \E ask \in Ask : Invoke(ask)
  BY <1>1, GateAssumption DEF Invoke, Begin, TypeOK, WorldTypes, Tick
<1>2. CASE \E s \in Tick : InvokeRetry(s)
  BY <1>2, GateAssumption DEF InvokeRetry, Begin, TypeOK, WorldTypes, Tick
<1>3. CASE Halt
  BY <1>3, GateAssumption DEF Halt, Stop, End, Gone, TypeOK, WorldTypes, Tick
<1>4. CASE Finish
  BY <1>4, GateAssumption DEF Finish, Write, End, Gone, TypeOK, WorldTypes, Tick
<1>5. CASE Raise
  BY <1>5, GateAssumption DEF Raise, End, Gone, TypeOK, WorldTypes, Tick
<1>6. CASE Kill
  BY <1>6, GateAssumption DEF Kill, Gone, TypeOK, WorldTypes, Tick
<1>7. CASE Accept \/ ClaimTaken
  BY <1>7, GateAssumption DEF Accept, ClaimTaken, TypeOK, WorldTypes, Tick
<1>8. CASE MintToken
  BY <1>8, GateAssumption DEF MintToken, Told, TypeOK, WorldTypes, Tick
<1>9. CASE PreflightPasses \/ MakeDirectory
  BY <1>9, GateAssumption
  DEF PreflightPasses, WorkOn, MakeDirectory, TypeOK, WorldTypes, Tick
<1>10. CASE CreateCheckpoint \/ ListPage
  BY <1>10, GateAssumption
  DEF CreateCheckpoint, WorkOn, ListPage, Listing, TypeOK, WorldTypes, Tick
<1>11. CASE ListingFails
  BY <1>11, GateAssumption DEF ListingFails, Listing, TypeOK, WorldTypes, Tick
<1>12. CASE EndPhase1 \/ EndPhase2
  BY <1>12, GateAssumption DEF EndPhase1, EndPhase2, TypeOK, WorldTypes, Tick
<1>13. CASE TimePasses \/ Edit
  BY <1>13, GateAssumption DEF TimePasses, Edit, TypeOK, WorldTypes, Tick
<1>14. CASE Upgrade \/ UNCHANGED vars
  BY <1>14, GateAssumption DEF Upgrade, vars, TypeOK, WorldTypes, Tick
<1> QED BY <1>1, <1>2, <1>3, <1>4, <1>5, <1>6, <1>7, <1>8, <1>9, <1>10, <1>11, <1>12,
           <1>13, <1>14
        DEF Step

(* A step keeps the types of the disk.                                     *)
LEMMA DiskTypesStep ==
    ASSUME TypeOK, Placed, Kept, Step
    PROVE  DiskTypes'
<1> USE DEF fixed, github, disk, known, outcome, result, history
<1>1. checkpoint' \in [Tick -> Checkpoints \cup {None}]
  BY CheckpointSteps
<1>2. dirs' \subseteq 0 .. clock'
  <2>1. dirs \subseteq 0 .. clock /\ clock \in Nat
    BY TickFacts
  <2>2. clock' \in Nat /\ clock <= clock' /\ (dirs' = dirs \/ dirs' = dirs \cup {clock})
    BY <2>1, Frame
  <2>3. 0 .. clock \subseteq 0 .. clock' /\ clock \in 0 .. clock'
    BY <2>1, <2>2
  <2> QED BY <2>1, <2>2, <2>3
<1>3. manifest' \in [Tick -> Manifests \cup {None}]
  <2>1. manifest \in [Tick -> Manifests \cup {None}]
    BY DEF TypeOK, DiskTypes
  <2>2. UNCHANGED manifest \/ \E m \in Manifests : manifest' = [manifest EXCEPT ![snap] = m]
    BY Frame DEF Finish, Write
  <2> QED BY <2>1, <2>2
<1> QED BY <1>1, <1>2, <1>3 DEF DiskTypes

(* A step keeps the types of what a command knows.                         *)
LEMMA MemoryTypesStep ==
    ASSUME TypeOK, Placed, Kept, Step
    PROVE  MemoryTypes'
<1> USE DEF fixed, github, disk, known, outcome, result, history
<1>1. CASE \E ask \in Ask : Invoke(ask)
  BY <1>1 DEF Invoke, Begin, TypeOK, MemoryTypes
<1>2. CASE \E s \in Tick : InvokeRetry(s)
  BY <1>2 DEF InvokeRetry, Begin, TypeOK, MemoryTypes
<1>3. CASE Halt
  BY <1>3 DEF Halt, Stop, End, Gone, TypeOK, MemoryTypes
<1>4. CASE Finish
  BY <1>4 DEF Finish, Write, End, Gone, TypeOK, MemoryTypes
<1>5. CASE Raise
  BY <1>5 DEF Raise, End, Gone, TypeOK, MemoryTypes
<1>6. CASE Kill
  BY <1>6 DEF Kill, Gone, TypeOK, MemoryTypes
<1>7. CASE Accept
  <2>1. Candidate \in Tick \cup {None}
    BY <1>7, CandidateFacts DEF Accept, Placed
  <2> QED BY <1>7, <2>1 DEF Accept, TypeOK, MemoryTypes
<1>8. CASE ClaimTaken
  BY <1>8 DEF ClaimTaken, TypeOK, MemoryTypes
<1>9. CASE MintToken
  <2>1. installation.reach \in Reach /\ installation \in Installations
    BY GateAssumption DEF TypeOK, WorldTypes
  <2> QED BY <1>9, <2>1 DEF MintToken, Told, TypeOK, MemoryTypes
<1>10. CASE PreflightPasses
  BY <1>10 DEF PreflightPasses, WorkOn, TypeOK, MemoryTypes
<1>11. CASE MakeDirectory
  BY <1>11, TickFacts DEF MakeDirectory, TypeOK, MemoryTypes
<1>12. CASE CreateCheckpoint
  BY <1>12 DEF CreateCheckpoint, WorkOn, TypeOK, MemoryTypes
<1>13. CASE ListPage
  BY <1>13 DEF ListPage, Listing, TypeOK, MemoryTypes
<1>14. CASE ListingFails
  BY <1>14 DEF ListingFails, Listing, TypeOK, MemoryTypes
<1>15. CASE EndPhase1
  <2>1. Chosen \subseteq Dataset
    BY <1>15, ChosenType DEF EndPhase1, Placed
  <2>2. found' \subseteq Dataset
    BY <1>15, <2>1, GapsType DEF EndPhase1
  <2> QED BY <1>15, <2>2 DEF EndPhase1, Restricted, TypeOK, MemoryTypes
<1>16. CASE EndPhase2
  <2>1. Chosen \subseteq Dataset
    BY <1>16, ChosenType DEF EndPhase2, Placed
  <2>2. PICK gaps \in GapsIn(Chosen \ OrgLevel) : found' = found \cup gaps
    BY <1>16 DEF EndPhase2
  <2>3. gaps \subseteq Dataset
    BY <2>1, GapsType
  <2> QED BY <1>16, <2>2, <2>3 DEF EndPhase2, TypeOK, MemoryTypes
<1>17. CASE TimePasses
  BY <1>17 DEF TimePasses, TypeOK, MemoryTypes
<1>18. CASE Edit
  BY <1>18 DEF Edit, TypeOK, MemoryTypes
<1>19. CASE Upgrade \/ UNCHANGED vars
  BY <1>19 DEF Upgrade, vars, TypeOK, MemoryTypes
<1> QED BY <1>1, <1>2, <1>3, <1>4, <1>5, <1>6, <1>7, <1>8, <1>9, <1>10, <1>11, <1>12,
           <1>13, <1>14, <1>15, <1>16, <1>17, <1>18, <1>19
        DEF Step

(* A step keeps the types of a result.                                     *)
LEMMA ResultTypesStep ==
    ASSUME TypeOK, Placed, Kept, Step
    PROVE  ResultTypes'
<1> USE DEF fixed, github, disk, known, outcome, result, history
<1>1. CASE \E ask \in Ask : Invoke(ask)
  BY <1>1 DEF Invoke, Begin, TypeOK, ResultTypes
<1>2. CASE \E s \in Tick : InvokeRetry(s)
  <2>1. PICK s \in Tick : InvokeRetry(s)
    BY <1>2
  <2>2. raised' = FALSE
    BY <2>1 DEF InvokeRetry, Begin
  <2>3. /\ exit' \in {None, ExitStatus.INVALID_USAGE, ExitStatus.SUCCESS}
        /\ report' \in {None, s}
    BY <2>1 DEF InvokeRetry
  <2>4. exit' \in Nat \cup {None}
    BY <2>3 DEF ExitStatus
  <2> QED BY <2>2, <2>3, <2>4 DEF ResultTypes
<1>3. CASE Halt
  BY <1>3 DEF Halt, Stop, End, TypeOK, ResultTypes, MemoryTypes
<1>4. CASE Finish
  <2>1. snap \in Tick
    BY <1>4, AtWork DEF Finish, Phases
  <2> QED BY <1>4, <2>1, StatusFacts
          DEF Finish, Write, End, StatusBy, TypeOK, ResultTypes
<1>5. CASE Raise
  BY <1>5 DEF Raise, End, Uncaught, TypeOK, ResultTypes
<1>6. CASE Kill
  BY <1>6 DEF Kill, Gone, TypeOK, ResultTypes
<1>7. CASE Accept \/ ClaimTaken
  BY <1>7 DEF Accept, ClaimTaken, TypeOK, ResultTypes
<1>8. CASE MintToken
  BY <1>8 DEF MintToken, Told, TypeOK, ResultTypes
<1>9. CASE PreflightPasses \/ MakeDirectory
  BY <1>9 DEF PreflightPasses, WorkOn, MakeDirectory, TypeOK, ResultTypes
<1>10. CASE CreateCheckpoint \/ ListPage
  BY <1>10 DEF CreateCheckpoint, WorkOn, ListPage, Listing, TypeOK, ResultTypes
<1>11. CASE ListingFails
  BY <1>11 DEF ListingFails, Listing, TypeOK, ResultTypes
<1>12. CASE EndPhase1 \/ EndPhase2
  BY <1>12 DEF EndPhase1, EndPhase2, TypeOK, ResultTypes
<1>13. CASE TimePasses \/ Edit
  BY <1>13 DEF TimePasses, Edit, TypeOK, ResultTypes
<1>14. CASE Upgrade \/ UNCHANGED vars
  BY <1>14 DEF Upgrade, vars, TypeOK, ResultTypes
<1> QED BY <1>1, <1>2, <1>3, <1>4, <1>5, <1>6, <1>7, <1>8, <1>9, <1>10, <1>11, <1>12,
           <1>13, <1>14
        DEF Step

(* A step keeps the types of the history.                                  *)
LEMMA HistoryTypesStep ==
    ASSUME TypeOK, Placed, Kept, Step
    PROVE  HistoryTypes'
<1> USE DEF fixed, github, disk, known, outcome, result, history
<1>1. CASE \E ask \in Ask : Invoke(ask)
  BY <1>1 DEF Invoke, Begin, TypeOK, HistoryTypes
<1>2. CASE \E s \in Tick : InvokeRetry(s)
  BY <1>2 DEF InvokeRetry, Begin, TypeOK, HistoryTypes
<1>3. CASE Halt
  BY <1>3 DEF Halt, Stop, End, Gone, TypeOK, HistoryTypes
<1>4. CASE Finish
  BY <1>4 DEF Finish, Write, End, Gone, TypeOK, HistoryTypes
<1>5. CASE Raise
  BY <1>5 DEF Raise, End, Gone, TypeOK, HistoryTypes
<1>6. CASE Kill
  BY <1>6 DEF Kill, Gone, TypeOK, HistoryTypes
<1>7. CASE Accept \/ ClaimTaken
  BY <1>7 DEF Accept, ClaimTaken, TypeOK, HistoryTypes
<1>8. CASE MintToken
  BY <1>8 DEF MintToken, Told, TypeOK, HistoryTypes
<1>9. CASE PreflightPasses
  <2>1. Scope(Chosen, asked.filter) \in Scopes
    BY <1>9, ChosenType DEF PreflightPasses, Placed
  <2> QED BY <1>9, <2>1 DEF PreflightPasses, WorkOn, TypeOK, HistoryTypes
<1>10. CASE MakeDirectory
  BY <1>10, TickFacts DEF MakeDirectory, TypeOK, HistoryTypes
<1>11. CASE CreateCheckpoint
  <2>1. Scope(Chosen, asked.filter) \in Scopes
    BY <1>11, ChosenType DEF CreateCheckpoint, Placed
  <2> QED BY <1>11, <2>1 DEF CreateCheckpoint, WorkOn, TypeOK, HistoryTypes
<1>12. CASE ListPage
  <2>1. snap \in Tick /\ checkpoint[snap] \in Checkpoints
    BY <1>12, AtWork DEF ListPage, Listing, Phases
  <2>2. Scope(Range(checkpoint[snap].datasets), NoFilter) \in Scopes
    <3>1. Range(checkpoint[snap].datasets) \subseteq Dataset
      BY <2>1 DEF Checkpoints, Range
    <3> QED BY <3>1 DEF Scope, Scopes, Considered
  <2>3. scopes' \in [Tick -> SUBSET Scopes] /\ odd' \subseteq Tick /\ UNCHANGED stirred
    BY <1>12, <2>1, <2>2 DEF ListPage, TypeOK, HistoryTypes
  <2>4. listed' \in [Tick -> SUBSET Reach]
    BY <1>12, <2>1, GateAssumption DEF ListPage, TypeOK, HistoryTypes, WorldTypes
  <2> QED BY <2>3, <2>4 DEF TypeOK, HistoryTypes
<1>13. CASE ListingFails
  BY <1>13 DEF ListingFails, Listing, TypeOK, HistoryTypes
<1>14. CASE EndPhase1 \/ EndPhase2
  BY <1>14 DEF EndPhase1, EndPhase2, TypeOK, HistoryTypes
<1>15. CASE TimePasses
  BY <1>15 DEF TimePasses, TypeOK, HistoryTypes
<1>16. CASE Edit
  BY <1>16, TickFacts DEF Edit, TypeOK, HistoryTypes
<1>17. CASE Upgrade \/ UNCHANGED vars
  BY <1>17 DEF Upgrade, vars, TypeOK, HistoryTypes
<1> QED BY <1>1, <1>2, <1>3, <1>4, <1>5, <1>6, <1>7, <1>8, <1>9, <1>10, <1>11, <1>12,
           <1>13, <1>14, <1>15, <1>16, <1>17
        DEF Step

(* A step keeps all types.                                                 *)
LEMMA TypeStep ==
    ASSUME TypeOK, Placed, Kept, Step
    PROVE  TypeOK'
BY WorldTypesStep, DiskTypesStep, MemoryTypesStep, ResultTypesStep, HistoryTypesStep
   DEF TypeOK

(* A step leads a command to a place where it may count on what it needs   *)
(* there.                                                                  *)
LEMMA PlacedStep ==
    ASSUME TypeOK, Placed, Kept, Step
    PROVE  Placed'
<1> USE DEF fixed, github, disk, known, outcome, result, history
<1>1. CASE \E ask \in Ask : Invoke(ask)
  BY <1>1 DEF Invoke, Begin, Placed, Phases
<1>2. CASE \E s \in Tick : InvokeRetry(s)
  <2>1. PICK s \in Tick : InvokeRetry(s)
    BY <1>2
  <2>2. /\ pc = "off" /\ command' = "retry" /\ raised' = FALSE
        /\ selection' = None /\ permissions' = None
    BY <2>1 DEF InvokeRetry, Begin, Placed
  <2>3. CASE manifest[s] = None \/ manifest[s].gaps = {}
    BY <2>1, <2>2, <2>3 DEF InvokeRetry, Placed, Phases
  <2>4. CASE ~(manifest[s] = None \/ manifest[s].gaps = {})
    <3>1. pc' = "retry" /\ snap' = s /\ exit' = None /\ report' = None
      BY <2>1, <2>4 DEF InvokeRetry
    <3>2. UNCHANGED manifest
      BY <2>1 DEF InvokeRetry, Begin
    <3> QED BY <2>2, <2>4, <3>1, <3>2, TickFacts DEF Placed, Phases
  <2> QED BY <2>3, <2>4
<1>3. CASE Halt
  <2>1. pc' = "off" /\ snap' = None /\ selection' = None /\ permissions' = None
    BY <1>3 DEF Halt, Stop, End, Gone
  <2> QED BY <2>1 DEF Placed, Phases
<1>4. CASE Finish
  <2>1. pc' = "off" /\ snap' = None /\ selection' = None /\ permissions' = None
    BY <1>4 DEF Finish, Write, End, Gone
  <2> QED BY <2>1 DEF Placed, Phases
<1>5. CASE Raise
  <2>1. pc' = "off" /\ snap' = None /\ selection' = None /\ permissions' = None
    BY <1>5 DEF Raise, End, Gone
  <2> QED BY <2>1 DEF Placed, Phases
<1>6. CASE Kill
  <2>1. pc' = "off" /\ snap' = None /\ selection' = None /\ permissions' = None
    BY <1>6 DEF Kill, Gone
  <2> QED BY <2>1 DEF Placed, Phases
<1>7. CASE Accept
  <2>1. asked \in Ask
    BY <1>7 DEF Accept, Placed
  <2> QED BY <1>7, <2>1, CandidateFacts DEF Accept, Acceptable, Placed, Phases
<1>8. CASE ClaimTaken
  BY <1>8 DEF ClaimTaken, Placed, Phases
<1>9. CASE MintToken
  BY <1>9 DEF MintToken, Told, Placed, Phases
<1>10. CASE PreflightPasses
  BY <1>10 DEF PreflightPasses, WorkOn, Placed, Phases
<1>11. CASE MakeDirectory
  BY <1>11 DEF MakeDirectory, Placed, Phases
<1>12. CASE CreateCheckpoint
  <2>1. snap \in dirs /\ snap = clock /\ asked \in Ask /\ Resolvable(asked.request)
    BY <1>12 DEF CreateCheckpoint, Placed, Phases
  <2>2. /\ snap \in Tick /\ Created(asked) # None
        /\ checkpoint' = [checkpoint EXCEPT ![snap] = Created(asked)]
    BY <1>12, <2>1, TickFacts, CreatedFacts DEF CreateCheckpoint, TypeOK, WorldTypes
  <2>3. checkpoint'[snap] # None
    BY <2>2 DEF TypeOK, DiskTypes
  <2> QED BY <1>12, <2>1, <2>3 DEF CreateCheckpoint, Placed, Phases
<1>13. CASE ListPage
  <2>1. pc \in Phases \cup {"retry"} /\ ~CreateCheckpoint
    BY <1>13 DEF ListPage, Listing, Phases, CreateCheckpoint
  <2>2. snap \in Tick /\ checkpoint'[snap] # None
    BY <2>1, AtWork, CheckpointSteps
  <2> QED BY <1>13, <2>2 DEF ListPage, Placed, Phases
<1>14. CASE ListingFails
  <2>1. pc \in Phases \cup {"retry"} /\ ~CreateCheckpoint
    BY <1>14 DEF ListingFails, Listing, Phases, CreateCheckpoint
  <2>2. snap \in Tick /\ checkpoint'[snap] # None
    BY <2>1, AtWork, CheckpointSteps
  <2> QED BY <1>14, <2>2 DEF ListingFails, Placed, Phases
<1>15. CASE EndPhase1
  BY <1>15 DEF EndPhase1, Placed, Phases
<1>16. CASE EndPhase2
  BY <1>16 DEF EndPhase2, Placed, Phases
<1>17. CASE TimePasses
  BY <1>17 DEF TimePasses, Placed, Phases
<1>18. CASE Edit
  BY <1>18 DEF Edit, Placed, Phases
<1>19. CASE Upgrade
  BY <1>19 DEF Upgrade, Placed, Phases
<1>20. CASE UNCHANGED vars
  BY <1>20 DEF vars, Placed, Phases
<1> QED BY <1>1, <1>2, <1>3, <1>4, <1>5, <1>6, <1>7, <1>8, <1>9, <1>10, <1>11, <1>12,
           <1>13, <1>14, <1>15, <1>16, <1>17, <1>18, <1>19, <1>20
        DEF Step

(* A step keeps what is in the snapshot directories.                       *)
LEMMA KeptStep ==
    ASSUME TypeOK, Placed, Kept, Step
    PROVE  Kept'
<1> USE DEF fixed, github, disk, known, outcome, result, history
<1>1. /\ dirs \subseteq dirs'
      /\ pc' = "create" /\ ~MakeDirectory =>
            pc = "create" /\ UNCHANGED <<snap, odd, checkpoint>>
  BY Frame
<1>2. \A s \in Tick : checkpoint'[s] = None => checkpoint[s] = None
  BY CheckpointSteps DEF TypeOK, DiskTypes
<1>3. ASSUME NEW s \in Tick, s \notin dirs' PROVE checkpoint'[s] = None /\ listed'[s] = {}
  <2>1. checkpoint[s] = None /\ listed[s] = {} /\ s \notin dirs
    BY <1>1, <1>3 DEF Kept
  <2>2. checkpoint'[s] = None
    <3>1. CASE CreateCheckpoint
      <4>1. snap \in dirs
        BY <3>1 DEF CreateCheckpoint, Placed, Phases
      <4> QED BY <2>1, <3>1, <4>1, <1>1 DEF CreateCheckpoint, TypeOK, DiskTypes
    <3>2. CASE ~CreateCheckpoint
      BY <2>1, <3>2, CheckpointSteps
    <3> QED BY <3>1, <3>2
  <2>3. listed'[s] = {}
    <3>1. CASE ListPage
      <4>1. checkpoint[snap] # None
        BY <3>1, AtWork DEF ListPage, Listing, Phases
      <4>2. snap # s
        BY <2>1, <4>1
      <4> QED BY <2>1, <3>1, <4>2 DEF ListPage, TypeOK, HistoryTypes
    <3>2. CASE ~ListPage
      <4>1. UNCHANGED listed
        BY <3>2, Frame
      <4> QED BY <2>1, <4>1
    <3> QED BY <3>1, <3>2
  <2> QED BY <2>2, <2>3
<1>4. ASSUME NEW s \in Tick, checkpoint'[s] = None
      PROVE  manifest'[s] = None /\ scopes'[s] = {}
  <2>1. checkpoint[s] = None /\ manifest[s] = None /\ scopes[s] = {}
    BY <1>2, <1>4 DEF Kept
  <2>2. manifest'[s] = None
    <3>1. CASE Finish
      <4>1. checkpoint[snap] # None
        BY <3>1, AtWork DEF Finish, Phases
      <4>2. snap # s
        BY <2>1, <4>1
      <4> QED BY <2>1, <3>1, <4>2 DEF Finish, Write, TypeOK, DiskTypes
    <3>2. CASE ~Finish
      <4>1. UNCHANGED manifest
        BY <3>2, Frame
      <4> QED BY <2>1, <4>1
    <3> QED BY <3>1, <3>2
  <2>3. scopes'[s] = {}
    <3>1. CASE PreflightPasses
      <4>1. snap # None => checkpoint[snap] # None
        BY <3>1 DEF PreflightPasses, Placed
      <4>2. snap = None \/ snap # s
        BY <2>1, <4>1
      <4> QED BY <2>1, <3>1, <4>2 DEF PreflightPasses, WorkOn, TypeOK, HistoryTypes
    <3>2. CASE CreateCheckpoint
      <4>1. checkpoint'[snap] # None
        BY <3>2, PlacedStep DEF CreateCheckpoint, Placed, Phases
      <4>2. snap # s
        BY <1>4, <4>1
      <4> QED BY <2>1, <3>2, <4>2 DEF CreateCheckpoint, WorkOn, TypeOK, HistoryTypes
    <3>3. CASE ListPage
      <4>1. checkpoint[snap] # None
        BY <3>3, AtWork DEF ListPage, Listing, Phases
      <4>2. snap # s
        BY <2>1, <4>1
      <4> QED BY <2>1, <3>3, <4>2 DEF ListPage, TypeOK, HistoryTypes
    <3>4. CASE ~(PreflightPasses \/ CreateCheckpoint \/ ListPage)
      <4>1. UNCHANGED scopes
        BY <3>4, Frame
      <4> QED BY <2>1, <4>1
    <3> QED BY <3>1, <3>2, <3>3, <3>4
  <2> QED BY <2>2, <2>3
<1>5. pc' = "create" /\ snap' \notin odd' => checkpoint'[snap'] = None
  <2>1. CASE MakeDirectory
    <3>1. clock \in Tick
      BY TickFacts
    <3> QED BY <2>1, <3>1 DEF MakeDirectory, Kept
  <2>2. CASE ~MakeDirectory
    BY <1>1, <2>2 DEF Kept
  <2> QED BY <2>1, <2>2
<1> QED BY <1>3, <1>4, <1>5 DEF Kept

(* A step writes no manifest that does not end the command, and a run      *)
(* makes none of its changes before its snapshot.                          *)
LEMMA UntouchedStep ==
    ASSUME TypeOK, Placed, Kept, Untouched, Step
    PROVE  Untouched'
<1> USE DEF fixed, github, disk, known, outcome, result, history
<1>1. CASE \E ask \in Ask : Invoke(ask)
  BY <1>1 DEF Invoke, Begin, Untouched, Placed, Phases
<1>2. CASE \E s \in Tick : InvokeRetry(s)
  BY <1>2 DEF InvokeRetry, Begin, Untouched, Placed, Phases
<1>3. CASE Halt
  BY <1>3 DEF Halt, Stop, End, Gone, Untouched, Placed, Phases
<1>4. CASE Finish
  BY <1>4 DEF Finish, Write, End, Gone, Untouched, Placed, Phases
<1>5. CASE Raise
  BY <1>5 DEF Raise, End, Gone, Untouched, Placed, Phases
<1>6. CASE Kill
  BY <1>6 DEF Kill, Gone, Untouched, Placed, Phases
<1>7. CASE Accept
  BY <1>7 DEF Accept, Untouched, Placed, Phases
<1>8. CASE ClaimTaken
  BY <1>8 DEF ClaimTaken, Untouched, Placed, Phases
<1>9. CASE MintToken
  BY <1>9 DEF MintToken, Told, Untouched, Placed, Phases
<1>10. CASE PreflightPasses
  BY <1>10 DEF PreflightPasses, WorkOn, Untouched, Placed, Phases
<1>11. CASE MakeDirectory
  BY <1>11 DEF MakeDirectory, Untouched, Placed, Phases
<1>12. CASE CreateCheckpoint
  BY <1>12 DEF CreateCheckpoint, WorkOn, Untouched, Placed, Phases
<1>13. CASE ListPage
  BY <1>13 DEF ListPage, Listing, Untouched, Placed, Phases
<1>14. CASE ListingFails
  BY <1>14 DEF ListingFails, Listing, Untouched, Placed, Phases
<1>15. CASE EndPhase1
  BY <1>15 DEF EndPhase1, Untouched, Placed, Phases
<1>16. CASE EndPhase2
  BY <1>16 DEF EndPhase2, Untouched, Placed, Phases
<1>17. CASE TimePasses
  BY <1>17 DEF TimePasses, Untouched, Placed, Phases
<1>18. CASE Edit
  BY <1>18 DEF Edit, Untouched, Placed, Phases
<1>19. CASE Upgrade
  BY <1>19 DEF Upgrade, Untouched, Placed, Phases
<1>20. CASE UNCHANGED vars
  BY <1>20 DEF vars, Untouched, Placed, Phases
<1> QED BY <1>1, <1>2, <1>3, <1>4, <1>5, <1>6, <1>7, <1>8, <1>9, <1>10, <1>11, <1>12,
           <1>13, <1>14, <1>15, <1>16, <1>17, <1>18, <1>19, <1>20
        DEF Step

(* A step that creates no checkpoint leaves a snapshot to those it was     *)
(* for.                                                                    *)
LEMMA CompatibleStep ==
    ASSUME TypeOK, Placed, Kept, Step, ~CreateCheckpoint, NEW c \in Tick,
           checkpoint[c] # None, Compatible(c, asked), UNCHANGED asked
    PROVE  Compatible(c, asked)'
BY CheckpointSteps DEF Compatible, SameScope

(* A step keeps the snapshot in hand the one that was asked for.           *)
LEMMA AskedStep ==
    ASSUME TypeOK, Placed, Kept, Asked, Step
    PROVE  Asked'
<1> USE DEF fixed, github, disk, known, outcome, result, history
<1>1. TypeOK' /\ Placed' /\ Kept'
  BY TypeStep, PlacedStep, KeptStep
<1>2. CASE Accept
  <2>1. UNCHANGED <<asked, checkpoint, manifest, dirs>> /\ pc' = "claim" /\ snap' = Candidate
    BY <1>2 DEF Accept
  <2>2. asked \in Ask /\ Acceptable
    BY <1>2 DEF Accept, Placed
  <2>3. Candidate # None => /\ Compatible(Candidate, asked)
                            /\ asked.resume \in {Automatic, Fresh} => AheadOf(Candidate)
    BY <2>2, CandidateFacts
  <2>4. snap' # None => /\ Compatible(snap, asked)'
                        /\ (asked.resume \in {Automatic, Fresh})' => AheadOf(snap)'
    BY <2>1, <2>3 DEF Compatible, AheadOf, Incomplete
  <2>5. pc' # "create" /\ (InHand' => snap' # None)
    BY <2>1 DEF InHand, Phases
  <2> QED BY <2>4, <2>5 DEF Asked
<1>3. CASE MakeDirectory
  <2>1. pc' = "create" /\ snap' = clock' /\ clock' \in Nat
    BY <1>3, TickFacts DEF MakeDirectory
  <2>2. Incomplete' \subseteq 0 .. clock'
    BY <1>1 DEF TypeOK, DiskTypes, Incomplete
  <2>3. AheadOf(snap)'
    BY <2>1, <2>2 DEF AheadOf
  <2> QED BY <2>1, <2>3 DEF Asked, InHand, Phases
<1>4. CASE CreateCheckpoint
  <2>1. asked \in Ask /\ Resolvable(asked.request) /\ snap = clock /\ version \in Nat
    BY <1>4 DEF CreateCheckpoint, Placed, Phases, TypeOK, WorldTypes
  <2>2. snap' = clock' /\ clock' \in Nat /\ UNCHANGED <<asked, snap>>
    BY <1>4, <2>1, TickFacts DEF CreateCheckpoint
  <2>3. Incomplete' \subseteq 0 .. clock'
    BY <1>1 DEF TypeOK, DiskTypes, Incomplete
  <2>4. AheadOf(snap)'
    BY <2>2, <2>3 DEF AheadOf
  <2>5. checkpoint'[snap] = Created(asked)
    <3>1. snap \in Tick
      BY <2>1, TickFacts
    <3> QED BY <1>4, <3>1 DEF CreateCheckpoint, TypeOK, DiskTypes
  <2>6. Compatible(snap, asked)'
    BY <2>1, <2>2, <2>5, CreatedFacts DEF Compatible
  <2> QED BY <2>4, <2>6 DEF Asked
<1>5. CASE ~(Accept \/ MakeDirectory \/ CreateCheckpoint)
  <2>1. /\ InHand' => InHand
        /\ InHand' \/ pc' = "create" =>
              (InHand \/ pc = "create") /\ UNCHANGED <<asked, snap, manifest, dirs>>
    BY <1>5
    DEF InHand, Phases, Invoke, Begin, InvokeRetry, Halt, Stop, End, Gone, Finish,
        Write, Raise, Kill, ClaimTaken, MintToken, Told, PreflightPasses, WorkOn,
        ListPage, Listing, ListingFails, EndPhase1, EndPhase2, TimePasses, Edit,
        Upgrade, vars, Step
  <2>2. ASSUME InHand' PROVE Compatible(snap, asked)'
    <3>1. InHand /\ UNCHANGED <<asked, snap>> /\ Compatible(snap, asked)
      BY <2>1, <2>2 DEF Asked
    <3>2. snap \in Tick /\ checkpoint[snap] # None
      BY <3>1, AtWork, TickFacts DEF InHand, Placed
    <3>3. \A c \in Tick : c = snap => Compatible(c, asked)'
      BY <1>5, <3>1, <3>2, CompatibleStep
    <3> QED BY <3>1, <3>2, <3>3 DEF Compatible
  <2>3. ASSUME InHand' \/ pc' = "create", (asked.resume \in {Automatic, Fresh})'
        PROVE  AheadOf(snap)'
    <3>1. AheadOf(snap) /\ UNCHANGED <<asked, snap, manifest, dirs>>
      BY <2>1, <2>3 DEF Asked
    <3>2. \A s \in dirs : checkpoint'[s] # None => checkpoint[s] # None
      BY <1>5, CheckpointSteps, TickFacts
    <3> QED BY <3>1, <3>2 DEF AheadOf, Incomplete
  <2> QED BY <2>2, <2>3 DEF Asked
<1> QED BY <1>2, <1>3, <1>4, <1>5

(* A checkpoint compatible with a command has the scope of the command,    *)
(* unless the filter allows nothing.                                       *)
LEMMA ScopeIs ==
    ASSUME NEW ask \in Ask, NEW c,
           Range(c.datasets) = Range(Resolved(ask.request).names),
           c.names = Stored(ask.filter.names),
           c.noArchived = ask.filter.noArchived, c.noForks = ask.filter.noForks,
           Considered(ask.filter) # {}
    PROVE  Scope(Range(Resolved(ask.request).names), ask.filter) = ScopeOf(c)
<1>1. ask.filter \in Filters
  BY AskFacts
<1>2. ask.filter.names # {}
  BY <1>1, MarkerAssumption DEF Considered, Allows, Filters
<1>3. c.names = ask.filter.names
  BY <1>2 DEF Stored
<1>4. ask.filter = [names |-> c.names, noArchived |-> c.noArchived, noForks |-> c.noForks]
  BY <1>1, <1>3 DEF Filters
<1> QED BY <1>4 DEF ScopeOf, Scope

(* A step adds no scope a checkpoint does not tell.                        *)
LEMMA ScopedStep ==
    ASSUME TypeOK, Placed, Kept, Asked, Scoped, Step
    PROVE  Scoped'
<1> USE DEF fixed, github, disk, known, outcome, result, history
<1> SUFFICES ASSUME NEW s \in dirs', s \notin odd', NEW sc \in scopes'[s], sc.repos # {}
             PROVE  sc = ScopeOf(checkpoint'[s])
  BY DEF Scoped, ScopeOf, Scope
<1>1. TypeOK'
  BY TypeStep
<1>2. s \in Tick /\ odd \subseteq odd'
  <2>1. s \in 0 .. clock' /\ clock' \in Tick /\ MaxClock \in Nat
    BY <1>1, GateAssumption DEF TypeOK, DiskTypes, WorldTypes
  <2>2. odd \subseteq odd'
    BY Frame
  <2> QED BY <2>1, <2>2 DEF Tick
<1>3. ASSUME sc \in scopes[s], ~(CreateCheckpoint /\ s = snap)
      PROVE  sc = ScopeOf(checkpoint'[s])
  <2>1. checkpoint[s] # None /\ s \in dirs \ odd
    BY <1>2, <1>3 DEF Kept
  <2>2. sc = ScopeOf(checkpoint[s])
    BY <1>3, <2>1 DEF Scoped
  <2>3. SameScope(checkpoint[s], checkpoint'[s])
    <3>1. CASE CreateCheckpoint
      BY <1>2, <1>3, <3>1 DEF CreateCheckpoint, TypeOK, DiskTypes, SameScope
    <3>2. CASE ~CreateCheckpoint
      BY <1>2, <2>1, <3>2, CheckpointSteps
    <3> QED BY <3>1, <3>2
  <2> QED BY <2>2, <2>3 DEF ScopeOf, SameScope
<1>4. CASE CreateCheckpoint
  <2>1. asked \in Ask /\ Resolvable(asked.request) /\ version \in Nat /\ snap \in Tick
    BY <1>4, TickFacts DEF CreateCheckpoint, Placed, Phases, TypeOK, WorldTypes
  <2>2. CASE s # snap
    BY <1>2, <1>3, <1>4, <2>1, <2>2 DEF CreateCheckpoint, WorkOn, TypeOK, HistoryTypes
  <2>3. CASE s = snap
    <3>1. scopes[s] = {}
      BY <1>2, <1>4, <2>3 DEF CreateCheckpoint, Kept
    <3>2. sc = Scope(Chosen, asked.filter)
      BY <1>2, <1>4, <2>3, <3>1 DEF CreateCheckpoint, WorkOn, TypeOK, HistoryTypes
    <3>3. checkpoint'[s] = Created(asked)
      BY <1>2, <1>4, <2>3 DEF CreateCheckpoint, TypeOK, DiskTypes
    <3>4. Considered(asked.filter) # {}
      BY <3>2 DEF Scope
    <3> QED BY <2>1, <3>2, <3>3, <3>4, CreatedFacts, ScopeIs DEF Chosen
  <2> QED BY <2>2, <2>3
<1>5. CASE PreflightPasses
  <2>1. sc \in scopes[s] \/ (s = snap /\ snap # None /\ sc = Scope(Chosen, asked.filter))
    BY <1>2, <1>5 DEF PreflightPasses, WorkOn, TypeOK, HistoryTypes
  <2>2. CASE sc \in scopes[s]
    BY <1>3, <1>5, <2>2 DEF CreateCheckpoint, PreflightPasses
  <2>3. CASE s = snap /\ snap # None /\ sc = Scope(Chosen, asked.filter)
    <3>1. asked \in Ask /\ Compatible(snap, asked) /\ Considered(asked.filter) # {}
      BY <1>5, <2>3 DEF PreflightPasses, Placed, Asked, InHand, Scope
    <3>2. sc = ScopeOf(checkpoint[snap])
      BY <2>3, <3>1, ScopeIs DEF Compatible, Chosen
    <3> QED BY <1>5, <2>3, <3>2 DEF PreflightPasses
  <2> QED BY <2>1, <2>2, <2>3
<1>6. CASE ListPage
  <2>1. snap \in Tick
    BY <1>6, AtWork DEF ListPage, Listing, Phases
  <2>2. sc \in scopes[s] \/ (s = snap /\ snap \in odd')
    BY <1>2, <1>6, <2>1 DEF ListPage, TypeOK, HistoryTypes
  <2> QED BY <1>3, <1>6, <2>2 DEF CreateCheckpoint, ListPage, Listing
<1>7. CASE ~(CreateCheckpoint \/ PreflightPasses \/ ListPage)
  <2>1. UNCHANGED scopes
    BY <1>7, Frame
  <2> QED BY <1>3, <1>7, <2>1
<1> QED BY <1>4, <1>5, <1>6, <1>7

(* After an edit no snapshot in hand is unstirred.                         *)
LEMMA EditStirs ==
    ASSUME TypeOK, Placed, Kept, Edit
    PROVE  ~Unstirred'
<1>1. snap = None \/ snap \in dirs
  <2>1. CASE pc = "retry"
    BY <2>1, AtWork, TickFacts DEF Kept, TypeOK, MemoryTypes
  <2>2. CASE pc # "retry"
    BY <2>2 DEF Edit, Placed, Phases
  <2> QED BY <2>1, <2>2
<1> QED BY <1>1 DEF Edit, Unstirred

(* A step keeps what was seen of the installation what it is.              *)
LEMMA SeenStep ==
    ASSUME TypeOK, Placed, Kept, Seen, Step
    PROVE  Seen'
<1> USE DEF fixed, github, disk, known, outcome, result, history
<1> SUFFICES ASSUME form' = "app" PROVE Seen'
  BY DEF Seen
<1>1. form = "app"
  BY Frame
<1>2. dirs \subseteq Tick /\ None \notin Tick
  BY TickFacts
<1>3. CASE Finish
  <2>1. snap \in Tick
    BY <1>3, AtWork DEF Finish, Phases
  <2>2. PICK m \in Manifests :
           /\ Write(m)
           /\ \/ pc = "finalize" /\ m.restricted = scope_restricted
              \/ pc = "retry" /\ m.restricted = manifest[snap].restricted
    BY <1>3 DEF Finish
  <2>3. ASSUME NEW s \in dirs \ stirred, manifest'[s] # None
        PROVE  manifest'[s].restricted <=> installation.reach = "selected"
    <3>1. CASE s # snap
      BY <1>1, <1>2, <2>1, <2>2, <2>3, <3>1 DEF Write, Seen, TypeOK, DiskTypes
    <3>2. CASE s = snap
      <4>1. manifest'[s] = m /\ Unstirred
        BY <1>2, <2>1, <2>2, <3>2 DEF Write, TypeOK, DiskTypes, Unstirred
      <4>2. CASE pc = "finalize"
        BY <1>1, <2>2, <4>1, <4>2 DEF Seen
      <4>3. CASE pc = "retry"
        BY <1>1, <2>2, <2>3, <3>2, <4>1, <4>3 DEF Seen, Placed
      <4> QED BY <2>2, <4>2, <4>3
    <3> QED BY <3>1, <3>2
  <2>4. /\ selection' = None /\ permissions' = None /\ pc' = "off"
        /\ UNCHANGED <<dirs, stirred, listed, installation>>
    BY <2>2 DEF Write, End, Gone
  <2> QED BY <1>1, <2>3, <2>4 DEF Seen
<1>4. CASE MintToken
  <2>1. /\ installation \in Installations
        /\ installation.reach # None /\ installation.granted # None
    BY MarkerAssumption, GateAssumption DEF TypeOK, WorldTypes
  <2>2. /\ selection' \in {installation.reach, selection} /\ selection' # None
        /\ permissions' = installation.granted
    BY <1>4, <2>1 DEF MintToken, Told
  <2>3. UNCHANGED <<installation, dirs, manifest, listed, stirred, snap, pc,
                    scope_restricted>>
    BY <1>4 DEF MintToken
  <2>4. Unstirred' <=> Unstirred
    BY <2>3 DEF Unstirred
  <2> QED BY <1>1, <2>1, <2>2, <2>3, <2>4 DEF Seen
<1>5. CASE MakeDirectory
  <2>1. clock \in Tick /\ snap = None
    BY <1>5, TickFacts DEF MakeDirectory, Placed
  <2>2. Unstirred' => Unstirred
    BY <1>5, <2>1 DEF MakeDirectory, Unstirred
  <2>3. ASSUME NEW s \in dirs' \ stirred'
        PROVE  /\ listed[s] \subseteq {installation.reach}
               /\ manifest[s] # None =>
                     (manifest[s].restricted <=> installation.reach = "selected")
    <3>1. CASE s \in dirs
      BY <1>1, <1>5, <2>3, <3>1 DEF MakeDirectory, Seen
    <3>2. CASE s \notin dirs
      BY <1>5, <2>1, <2>3, <3>2 DEF MakeDirectory, Kept
    <3> QED BY <3>1, <3>2
  <2>4. /\ UNCHANGED <<installation, manifest, listed, selection, permissions>>
        /\ pc' = "create"
    BY <1>5 DEF MakeDirectory
  <2> QED BY <1>1, <2>2, <2>3, <2>4 DEF Seen
<1>6. CASE ListPage
  <2>1. snap \in Tick
    BY <1>6, AtWork DEF ListPage, Listing, Phases
  <2>2. UNCHANGED <<installation, manifest, dirs, stirred, snap, pc, selection,
                    permissions, scope_restricted>>
    BY <1>6 DEF ListPage
  <2>3. \A s \in Tick : listed'[s] \subseteq listed[s] \cup {installation.reach}
    BY <1>6, <2>1 DEF ListPage, TypeOK, HistoryTypes
  <2>4. Unstirred' <=> Unstirred
    BY <2>2 DEF Unstirred
  <2> QED BY <1>1, <1>2, <2>2, <2>3, <2>4 DEF Seen
<1>7. CASE EndPhase1
  <2>1. selection # None
    BY <1>1, <1>7 DEF EndPhase1, TokenInHand, Seen
  <2>2. UNCHANGED <<installation, manifest, dirs, stirred, snap, listed, selection,
                    permissions>>
    BY <1>7 DEF EndPhase1
  <2>3. Unstirred' <=> Unstirred
    BY <2>2 DEF Unstirred
  <2>4. scope_restricted' <=> selection = "selected"
    BY <1>7 DEF EndPhase1, Restricted
  <2> QED BY <1>1, <2>1, <2>2, <2>3, <2>4 DEF Seen
<1>8. CASE Edit
  <2>1. ~Unstirred' /\ dirs' \ stirred' = {}
    BY <1>8, EditStirs DEF Edit
  <2>2. UNCHANGED <<selection, permissions>>
    BY <1>8 DEF Edit
  <2> QED BY <1>1, <2>1, <2>2 DEF Seen
<1>9. CASE (\E ask \in Ask : Invoke(ask)) \/ (\E s \in Tick : InvokeRetry(s)) \/ Accept
  <2>1. selection = None /\ permissions = None
    BY <1>9 DEF Invoke, InvokeRetry, Begin, Accept, Placed
  <2>2. /\ UNCHANGED <<installation, manifest, dirs, listed, selection, permissions>>
        /\ pc' \notin {"phase2", "finalize"}
    BY <1>9 DEF Invoke, InvokeRetry, Begin, Accept
  <2>3. stirred \subseteq stirred' \cup {None}
    BY <1>9 DEF Invoke, InvokeRetry, Begin, Accept
  <2> QED BY <1>1, <1>2, <2>1, <2>2, <2>3 DEF Seen
<1>10. CASE Halt \/ Raise \/ Kill
  <2>1. selection' = None /\ permissions' = None /\ pc' = "off"
    BY <1>10 DEF Halt, Stop, End, Gone, Raise, Kill
  <2>2. UNCHANGED <<installation, manifest, dirs, listed, stirred>>
    BY <1>10 DEF Halt, Stop, End, Raise, Kill
  <2> QED BY <1>1, <2>1, <2>2 DEF Seen
<1>11. CASE \/ ClaimTaken \/ PreflightPasses \/ CreateCheckpoint \/ ListingFails \/ EndPhase2
            \/ TimePasses \/ Upgrade \/ UNCHANGED vars
  <2>1. /\ UNCHANGED <<installation, manifest, dirs, listed, selection, permissions,
                       stirred, snap, scope_restricted>>
        /\ pc' \in {"phase2", "finalize"} => pc \in {"phase2", "finalize"}
    BY <1>11 DEF ClaimTaken, PreflightPasses, CreateCheckpoint, ListingFails, Listing,
                 EndPhase2, TimePasses, Upgrade, vars
  <2>2. Unstirred' <=> Unstirred
    BY <2>1 DEF Unstirred
  <2> QED BY <1>1, <2>1, <2>2 DEF Seen
<1> QED BY <1>3, <1>4, <1>5, <1>6, <1>7, <1>8, <1>9, <1>10, <1>11 DEF Step

(* No step takes a run with fail-fast past the gate but that of            *)
(* preflight.                                                              *)
LEMMA GrantedStep ==
    ASSUME TypeOK, Placed, Kept, Seen, Granted, Step
    PROVE  Granted'
<1> USE DEF fixed, github, disk, known, outcome, result, history
<1>1. CASE PreflightPasses
  <2>1. UNCHANGED <<form, asked, installation, snap, stirred>>
    BY <1>1 DEF PreflightPasses
  <2>2. ASSUME form = "app", asked.fail_fast, Unstirred
        PROVE  \A d \in Chosen : Required[d] \subseteq installation.granted
    <3>1. permissions # None /\ ~AnyBlocked
      BY <1>1, <2>2 DEF PreflightPasses, TokenInHand
    <3>2. permissions = installation.granted
      BY <2>2, <3>1 DEF Seen
    <3> QED BY <3>1, <3>2 DEF AnyBlocked, Blocked
  <2> QED BY <2>1, <2>2 DEF Granted, Unstirred, Chosen
<1>2. CASE MakeDirectory
  <2>1. UNCHANGED <<form, asked, installation>> /\ pc = "mkdir"
    BY <1>2 DEF MakeDirectory
  <2>2. Unstirred' => Unstirred
    BY <1>2 DEF MakeDirectory, Unstirred, Placed
  <2> QED BY <2>1, <2>2 DEF Granted, Chosen
<1>3. CASE Edit
  BY <1>3, EditStirs DEF Granted
<1>4. CASE ~(PreflightPasses \/ MakeDirectory \/ Edit)
  <2>1. pc' \in {"mkdir", "create"} \cup Phases =>
           /\ pc \in {"mkdir", "create"} \cup Phases
           /\ UNCHANGED <<form, asked, installation, snap, stirred>>
    BY <1>4
    DEF Phases, Invoke, Begin, InvokeRetry, Halt, Stop, End, Gone, Finish, Write, Raise,
        Kill, Accept, ClaimTaken, MintToken, Told, CreateCheckpoint, WorkOn, ListPage,
        Listing, ListingFails, EndPhase1, EndPhase2, TimePasses, Upgrade, vars, Step
  <2> QED BY <2>1 DEF Granted, Unstirred, Chosen
<1> QED BY <1>1, <1>2, <1>3, <1>4

(* What the other steps leave alone of the outcome of a command: its       *)
(* report before it ends, and all of it once it has ended.                 *)
Quiet ==
    /\ UNCHANGED <<exit, report, raised>>
    /\ pc # "off" \/ UNCHANGED <<command, asked, before, dirs, checkpoint, manifest>>

LEMMA QuietSteps ==
    ASSUME Placed, Step,
           ~(\/ \E ask \in Ask : Invoke(ask)
             \/ \E s \in Tick : InvokeRetry(s)
             \/ Halt \/ Finish \/ Raise)
    PROVE  Quiet
<1> USE DEF fixed, github, disk, known, outcome, result, history
<1>1. CASE Kill \/ Accept \/ ClaimTaken \/ MintToken \/ PreflightPasses \/ MakeDirectory
  BY <1>1 DEF Kill, Gone, Accept, ClaimTaken, MintToken, PreflightPasses, MakeDirectory,
              Placed, Quiet
<1>2. CASE CreateCheckpoint \/ ListPage \/ ListingFails \/ EndPhase1 \/ EndPhase2
  BY <1>2 DEF CreateCheckpoint, ListPage, ListingFails, Listing, EndPhase1, EndPhase2,
              Placed, Quiet
<1>3. CASE TimePasses \/ Edit \/ Upgrade \/ UNCHANGED vars
  BY <1>3 DEF TimePasses, Edit, Upgrade, vars, Placed, Quiet
<1> QED BY <1>1, <1>2, <1>3 DEF Step

(* A step ends a command with a status that tells the outcome.             *)
LEMMA ExitStep ==
    ASSUME TypeOK, Placed, Kept, Untouched, ExitTellsOutcome, Step
    PROVE  ExitTellsOutcome'
<1> USE DEF fixed, github, disk, known, outcome, result, history
<1>1. CASE \E ask \in Ask : Invoke(ask)
  BY <1>1 DEF Invoke, ExitTellsOutcome
<1>2. CASE \E s \in Tick : InvokeRetry(s)
  <2>1. PICK s \in Tick : InvokeRetry(s)
    BY <1>2
  <2>2. command' = "retry" /\ UNCHANGED manifest /\ before' = disk /\ before'[3] = manifest'
    BY <2>1 DEF InvokeRetry, Begin
  <2>3. CASE manifest[s] = None
    <3>1. exit' = 3 /\ report' = None
      BY <2>1, <2>3, StatusFacts DEF InvokeRetry
    <3> QED BY <2>2, <3>1, StatusFacts DEF ExitTellsOutcome
  <2>4. CASE manifest[s] # None /\ manifest[s].gaps = {}
    <3>1. exit' = 0 /\ report' = s /\ UNCHANGED <<dirs, checkpoint>>
      BY <2>1, <2>4, StatusFacts DEF InvokeRetry, Begin
    <3> QED BY <2>2, <2>4, <3>1, StatusFacts DEF ExitTellsOutcome
  <2>5. CASE manifest[s] # None /\ manifest[s].gaps # {}
    BY <2>1, <2>5 DEF InvokeRetry, ExitTellsOutcome
  <2> QED BY <2>3, <2>4, <2>5
<1>3. CASE Halt
  <2>1. PICK status \in Nat \ {0, 1}, where \in {None, snap} :
           Stop(status, where) /\ pc # "off" /\ (where # None => pc \in {"phase1", "phase2"})
    BY <1>3 DEF Halt
  <2>2. exit' = status /\ report' = where /\ UNCHANGED <<manifest, checkpoint, before>>
    BY <2>1 DEF Stop, End
  <2>3. manifest' = before'[3]
    BY <2>1, <2>2 DEF Untouched
  <2>4. where # None => checkpoint'[where] # None
    BY <2>1, <2>2 DEF Placed, Phases
  <2> QED BY <2>2, <2>3, <2>4, StatusFacts DEF ExitTellsOutcome
<1>4. CASE Finish
  <2>1. snap \in Tick
    BY <1>4, AtWork DEF Finish, Phases
  <2>2. PICK m \in Manifests : Write(m)
    BY <1>4 DEF Finish
  <2>3. exit' = StatusBy(m) /\ report' = snap /\ manifest'[report'] = m /\ m # None
    BY <2>1, <2>2, MarkerAssumption DEF Write, End, TypeOK, DiskTypes
  <2>4. exit' \in {0, 1} /\ (exit' = 0 <=> m.gaps = {} /\ ~m.restricted)
    BY <2>3, StatusFacts DEF StatusBy, Complete
  <2> QED BY <2>3, <2>4, StatusFacts DEF ExitTellsOutcome
<1>5. CASE Raise
  BY <1>5 DEF Raise, ExitTellsOutcome
<1>6. CASE Quiet
  BY <1>6 DEF Quiet, Placed, ExitTellsOutcome
<1> QED BY <1>1, <1>2, <1>3, <1>4, <1>5, <1>6, QuietSteps

(* A step refuses a command only before it has changed anything.           *)
LEMMA RefusalStep ==
    ASSUME TypeOK, Placed, Kept, Untouched, RefusalLeavesNoTrace, Step
    PROVE  RefusalLeavesNoTrace'
<1> USE DEF fixed, github, disk, known, outcome, result, history
<1>1. CASE (\E ask \in Ask : Invoke(ask)) \/ (\E s \in Tick : InvokeRetry(s))
  BY <1>1 DEF Invoke, InvokeRetry, Begin, RefusalLeavesNoTrace
<1>2. CASE Halt
  <2>1. PICK status \in Nat \ {0, 1}, where \in {None, snap} :
           /\ Stop(status, where) /\ pc # "off"
           /\ where = None => \/ command = "retry" \/ status = ExitStatus.USER_INTERRUPT
                              \/ pc \in {"start", "claim", "preflight"}
    BY <1>2 DEF Halt
  <2>2. /\ exit' = status /\ report' = where
        /\ UNCHANGED <<command, dirs, manifest, checkpoint, before>>
    BY <2>1 DEF Stop, End
  <2> QED BY <2>1, <2>2 DEF RefusalLeavesNoTrace, Untouched
<1>3. CASE Finish
  <2>1. report' # None
    BY <1>3, AtWork DEF Finish, Phases, Write, End
  <2> QED BY <2>1 DEF RefusalLeavesNoTrace
<1>4. CASE Raise
  BY <1>4 DEF Raise, RefusalLeavesNoTrace
<1>5. CASE Quiet
  BY <1>5 DEF Quiet, Placed, RefusalLeavesNoTrace
<1> QED BY <1>1, <1>2, <1>3, <1>4, <1>5, QuietSteps

(* A step stops a run only where the same command takes up its snapshot.   *)
LEMMA ResumableStep ==
    ASSUME TypeOK, Placed, Kept, Untouched, Asked, Resumable, Step
    PROVE  Resumable'
<1> USE DEF fixed, github, disk, known, outcome, result, history
<1>1. CASE (\E ask \in Ask : Invoke(ask)) \/ (\E s \in Tick : InvokeRetry(s))
  BY <1>1 DEF Invoke, InvokeRetry, Begin, Resumable
<1>2. CASE Halt
  <2>1. PICK status \in Nat \ {0, 1}, where \in {None, snap} :
           Stop(status, where) /\ pc # "off" /\ (where # None => pc \in {"phase1", "phase2"})
    BY <1>2 DEF Halt
  <2>2. report' = where /\ UNCHANGED <<asked, dirs, manifest, checkpoint, before>>
    BY <2>1 DEF Stop, End
  <2>3. ASSUME where # None, before[3][where] = None
        PROVE  /\ Compatible(where, asked)
               /\ asked.resume \in {Automatic, Fresh} => Newest = where
    <3>1. where = snap /\ pc \in Phases /\ InHand
      BY <2>1, <2>3 DEF Phases, InHand
    <3>2. snap \in Incomplete
      BY <2>1, <2>3, <3>1 DEF Placed, Untouched, Incomplete
    <3>3. asked.resume \in {Automatic, Fresh} => AheadOf(snap)
      BY <3>1 DEF Asked
    <3>4. Incomplete \in SUBSET (0 .. clock) /\ clock \in Nat
      BY TickFacts DEF Incomplete
    <3>5. asked.resume \in {Automatic, Fresh} => Newest = snap
      BY <3>2, <3>3, <3>4, MaxIsThe DEF AheadOf, Newest
    <3> QED BY <3>1, <3>5 DEF Asked
  <2>4. Compatible(report, asked)' <=> Compatible(where, asked)
    BY <2>2 DEF Compatible
  <2>5. Newest' = Newest
    BY <2>2 DEF Newest, Incomplete
  <2> QED BY <2>2, <2>3, <2>4, <2>5 DEF Resumable, Compatible
<1>3. CASE Finish
  <2>1. exit' \in {0, 1}
    BY <1>3, StatusFacts DEF Finish, Write, End, StatusBy
  <2> QED BY <2>1, StatusFacts DEF Resumable
<1>4. CASE Raise
  BY <1>4, StatusFacts DEF Raise, End, Uncaught, Resumable
<1>5. CASE Quiet
  <2>1. CASE pc # "off"
    BY <1>5, <2>1, StatusFacts, MarkerAssumption DEF Quiet, Placed, Resumable
  <2>2. CASE UNCHANGED <<command, asked, before, dirs, checkpoint, manifest>>
    BY <1>5, <2>2 DEF Quiet, Resumable, Compatible, Newest, Incomplete
  <2> QED BY <1>5, <2>1, <2>2 DEF Quiet
<1> QED BY <1>1, <1>2, <1>3, <1>4, <1>5, QuietSteps
----------------------------------------------------------------------------
(* The theorems                                                            *)

(* The invariant holds before the first command.                           *)
THEOREM InitHolds == Init => IInv
<1> SUFFICES ASSUME Init PROVE IInv
  OBVIOUS
<1> USE DEF Init
<1>1. 0 \in Tick /\ \A s \in Tick : s \in Nat
  BY GateAssumption DEF Tick
<1>2. TypeOK
  BY <1>1, MarkerAssumption
  DEF TypeOK, WorldTypes, DiskTypes, MemoryTypes, ResultTypes, HistoryTypes
<1>3. Placed /\ Kept
  BY DEF Placed, Kept, Phases
<1>4. Untouched /\ Asked /\ Scoped
  BY DEF Untouched, disk, Asked, InHand, Phases, Scoped
<1>5. Seen /\ Granted
  BY DEF Seen, Granted, Phases
<1>6. ExitTellsOutcome /\ RefusalLeavesNoTrace /\ Resumable
  BY DEF ExitTellsOutcome, RefusalLeavesNoTrace, Resumable
<1> QED BY <1>2, <1>3, <1>4, <1>5, <1>6 DEF IInv

(* Every step keeps the invariant.                                         *)
THEOREM StepKeeps == IInv /\ [Next]_vars => IInv'
<1> SUFFICES ASSUME IInv, [Next]_vars PROVE IInv'
  OBVIOUS
<1>1. Step
  BY StepIs DEF IInv
<1> QED
  BY <1>1, TypeStep, PlacedStep, KeptStep, UntouchedStep, AskedStep, ScopedStep,
     SeenStep,
     GrantedStep, ExitStep, RefusalStep, ResumableStep
  DEF IInv

(* The inductive invariant holds in every reachable state.                 *)
THEOREM InvariantHolds == Spec => []IInv
BY InitHolds, StepKeeps, PTL DEF Spec

(* The variables keep their types, whatever commands are given (run.py).   *)
THEOREM TypeCorrect == Spec => []TypeOK
<1>1. IInv => TypeOK
  BY DEF IInv
<1> QED BY <1>1, InvariantHolds, PTL

(* A run fetches the closure of its request under depends_on (AC-2.6),     *)
(* for every catalog without a cycle and every request.                    *)
THEOREM RunFetchesClosure == Spec => []SelectionIsClosure
<1>1. IInv => SelectionIsClosure
  <2> SUFFICES ASSUME IInv, pc = "start", asked.request # None, Resolvable(asked.request)
               PROVE  IsClosureOf(Resolved(asked.request), asked.request)
    BY DEF SelectionIsClosure
  <2>1. asked \in Ask
    BY DEF IInv, Placed
  <2>2. asked.request \in Seq(Range(asked.request)) /\ Range(asked.request) \subseteq Dataset
    BY <2>1, GateAssumption DEF Resolvable
  <2>3. asked.request \in Seq(Dataset)
    BY <2>2
  <2> QED BY <2>3, ResolvedIsClosure
<1> QED BY <1>1, InvariantHolds, PTL

(* No command resumes a snapshot under another scope (AC-4.8), whatever    *)
(* options it is given, after any number of runs and retries.              *)
THEOREM ScopeIsKept == Spec => []OneScopePerSnapshot
<1>1. IInv => OneScopePerSnapshot
  <2> SUFFICES ASSUME IInv, NEW s \in dirs \ odd
               PROVE  Cardinality({sc \in scopes[s] : sc.repos # {}}) <= 1
    BY DEF OneScopePerSnapshot
  <2> DEFINE S == {sc \in scopes[s] : sc.repos # {}}
             c == ScopeOf(checkpoint[s])
  <2>1. S \subseteq {c}
    BY DEF IInv, Scoped
  <2>2. S = {} \/ S = {c}
    BY <2>1
  <2>3. Cardinality({}) = 0 /\ Cardinality({c}) = 1
    BY FS_EmptySet, FS_Singleton
  <2>4. Cardinality(S) \in {0, 1}
    BY <2>2, <2>3
  <2> QED BY <2>4
<1> QED BY <1>1, InvariantHolds, PTL

(* A snapshot listed through an installation of selected repositories      *)
(* says so (EC-3), whatever tokens it took and whatever attempts.          *)
THEOREM RestrictionIsReported == Spec => []RestrictionReported
<1>1. IInv => RestrictionReported
  BY DEF IInv, Seen, RestrictionReported
<1> QED BY <1>1, InvariantHolds, PTL

(* With fail-fast the phases begin only when all can be read (EC-20),      *)
(* also when a run resumes.                                                *)
THEOREM FailFastSpares == Spec => []FailFastSparesTheBudget
<1>1. IInv => FailFastSparesTheBudget
  <2>1. IInv /\ pc \in Phases => snap # None
    BY AtWork DEF IInv
  <2> QED BY <2>1 DEF IInv, Granted, FailFastSparesTheBudget, Unstirred, Phases
<1> QED BY <1>1, InvariantHolds, PTL

(* The exit status of a command tells what it left on disk (FR-10),        *)
(* after any sequence of commands.                                         *)
THEOREM ExitTells == Spec => []ExitTellsOutcome
<1>1. IInv => ExitTellsOutcome
  BY DEF IInv
<1> QED BY <1>1, InvariantHolds, PTL

(* A refused run leaves the disk as it found it (AC-2.4, AC-6.4, FR-9).    *)
THEOREM RefusalTraceless == Spec => []RefusalLeavesNoTrace
<1>1. IInv => RefusalLeavesNoTrace
  BY DEF IInv
<1> QED BY <1>1, InvariantHolds, PTL

(* The command that stopped is the command that resumes (AC-4.2).          *)
THEOREM StoppedResumes == Spec => []StoppedIsResumable
<1>1. IInv => StoppedIsResumable
  BY DEF IInv, Resumable, StoppedIsResumable
<1> QED BY <1>1, InvariantHolds, PTL
=============================================================================
