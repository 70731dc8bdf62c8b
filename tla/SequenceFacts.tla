---------------------------- MODULE SequenceFacts ----------------------------
(***************************************************************************)
(* What Tail, \o, SubSeq and Append do to the range of a sequence and to   *)
(* its having no repetition, the facts the proofs about queues rest on;    *)
(* and induction without an operator for its parameter.                    *)
(***************************************************************************)
EXTENDS SequenceTheorems, WellFoundedInduction, TLAPS

(* Induction over the natural numbers, for a set instead of a predicate.   *)
LEMMA SetInduction ==
    ASSUME NEW S, 0 \in S, \A n \in Nat : n \in S => n + 1 \in S
    PROVE  Nat \subseteq S
<1> DEFINE Miss == Nat \ S
<1> SUFFICES ASSUME Miss # {} PROVE FALSE
  OBVIOUS
<1>1. PICK x \in Miss : \A y \in Miss : ~(<<y, x>> \in OpToRel(<, Nat))
  BY NatLessThanWellFounded, WFMin
<1>2. x \in Nat /\ x # 0 /\ x - 1 \in Nat /\ x - 1 < x /\ (x - 1) + 1 = x
  OBVIOUS
<1>3. <<x - 1, x>> \in OpToRel(<, Nat)
  BY <1>2 DEF OpToRel
<1>4. x - 1 \in S
  BY <1>1, <1>2, <1>3
<1> QED BY <1>2, <1>4

(* Taking the head off a sequence.                                         *)
LEMMA TailFacts ==
    ASSUME NEW S, NEW s \in Seq(S), s # <<>>
    PROVE  /\ Head(s) \in S /\ Tail(s) \in Seq(S) /\ Head(s) = s[1]
           /\ Range(s) = {Head(s)} \cup Range(Tail(s))
           /\ IsInjective(s) => IsInjective(Tail(s)) /\ Head(s) \notin Range(Tail(s))
<1>1. /\ Head(s) \in S /\ Tail(s) \in Seq(S)
      /\ Len(Tail(s)) = Len(s) - 1
      /\ \A i \in 1 .. Len(Tail(s)) : Tail(s)[i] = s[i + 1]
  BY HeadTailProperties
<1>2. /\ Len(s) \in Nat \ {0} /\ DOMAIN s = 1 .. Len(s) /\ Head(s) = s[1]
      /\ DOMAIN Tail(s) = 1 .. Len(s) - 1
  BY <1>1, EmptySeq, LenProperties
<1>3. ASSUME NEW x PROVE x \in Range(s) <=> x = Head(s) \/ x \in Range(Tail(s))
  <2>1. ASSUME x \in Range(s), x # Head(s) PROVE x \in Range(Tail(s))
    <3>1. PICK i \in DOMAIN s : x = s[i]
      BY <2>1 DEF Range
    <3>2. i - 1 \in DOMAIN Tail(s) /\ Tail(s)[i - 1] = x
      BY <3>1, <2>1, <1>1, <1>2
    <3> QED BY <3>2 DEF Range
  <2>2. ASSUME x \in Range(Tail(s)) PROVE x \in Range(s)
    <3>1. PICK i \in DOMAIN Tail(s) : x = Tail(s)[i]
      BY <2>2 DEF Range
    <3>2. i + 1 \in DOMAIN s /\ s[i + 1] = x
      BY <3>1, <1>1, <1>2
    <3> QED BY <3>2 DEF Range
  <2>3. Head(s) \in Range(s)
    BY <1>2 DEF Range
  <2> QED BY <2>1, <2>2, <2>3
<1>4. ASSUME IsInjective(s)
      PROVE  IsInjective(Tail(s)) /\ Head(s) \notin Range(Tail(s))
  BY <1>1, <1>2, <1>4 DEF IsInjective, Range
<1> QED BY <1>1, <1>2, <1>3, <1>4

(* Putting two sequences one after the other.                              *)
LEMMA ConcatFacts ==
    ASSUME NEW S, NEW s \in Seq(S), NEW t \in Seq(S)
    PROVE  /\ s \o t \in Seq(S)
           /\ Range(s \o t) = Range(s) \cup Range(t)
           /\ IsInjective(s) /\ IsInjective(t) /\ Range(s) \cap Range(t) = {}
                => IsInjective(s \o t)
<1>1. /\ s \o t \in Seq(S) /\ Len(s \o t) = Len(s) + Len(t)
      /\ \A i \in 1 .. Len(s) + Len(t) :
            (s \o t)[i] = IF i <= Len(s) THEN s[i] ELSE t[i - Len(s)]
  BY ConcatProperties
<1>2. /\ DOMAIN s = 1 .. Len(s) /\ DOMAIN t = 1 .. Len(t)
      /\ DOMAIN (s \o t) = 1 .. Len(s) + Len(t) /\ Len(s) \in Nat /\ Len(t) \in Nat
  BY <1>1, LenProperties
<1>3. ASSUME IsInjective(s), IsInjective(t), Range(s) \cap Range(t) = {},
             NEW i \in DOMAIN (s \o t), NEW j \in DOMAIN (s \o t),
             (s \o t)[i] = (s \o t)[j]
      PROVE  i = j
  <2>1. CASE i <= Len(s) /\ j <= Len(s)
    BY <1>1, <1>2, <1>3, <2>1 DEF IsInjective
  <2>2. CASE i > Len(s) /\ j > Len(s)
    <3>1. i - Len(s) \in DOMAIN t /\ j - Len(s) \in DOMAIN t
      BY <1>2, <2>2
    <3>2. t[i - Len(s)] = t[j - Len(s)]
      BY <1>1, <1>2, <1>3, <2>2
    <3>3. i - Len(s) = j - Len(s)
      BY <3>1, <3>2, <1>3 DEF IsInjective
    <3> QED BY <3>3, <1>2
  <2>3. ASSUME NEW k \in 1 .. Len(s) + Len(t), NEW l \in 1 .. Len(s) + Len(t),
               k <= Len(s), l > Len(s), (s \o t)[k] = (s \o t)[l]
        PROVE  FALSE
    <3>1. s[k] \in Range(s) /\ t[l - Len(s)] \in Range(t)
      <4>1. k \in DOMAIN s /\ l - Len(s) \in DOMAIN t
        BY <1>2, <2>3
      <4> QED BY <4>1 DEF Range
    <3>2. s[k] = t[l - Len(s)]
      BY <1>1, <1>2, <2>3
    <3> QED BY <3>1, <3>2, <1>3
  <2> QED BY <2>1, <2>2, <2>3, <1>2, <1>3
<1> QED BY <1>1, <1>3, RangeConcatenation DEF IsInjective

(* Cutting a sequence in two.                                              *)
LEMMA CutFacts ==
    ASSUME NEW S, NEW s \in Seq(S), NEW n \in 0 .. Len(s)
    PROVE  LET u == SubSeq(s, 1, n)  v == SubSeq(s, n + 1, Len(s))
           IN  /\ u \in Seq(S) /\ v \in Seq(S)
               /\ Range(s) = Range(u) \cup Range(v)
               /\ IsInjective(s) => /\ IsInjective(u) /\ IsInjective(v)
                                    /\ Range(u) \cap Range(v) = {}
<1> DEFINE u == SubSeq(s, 1, n)
           v == SubSeq(s, n + 1, Len(s))
<1>1. Len(s) \in Nat /\ DOMAIN s = 1 .. Len(s) /\ \A i \in 1 .. Len(s) : s[i] \in S
  BY LenProperties, ElementOfSeq
<1>2. /\ u \in Seq(S) /\ Len(u) = n /\ \A i \in 1 .. n : u[i] = s[i]
  BY <1>1, SubSeqProperties
<1>3. /\ v \in Seq(S) /\ Len(v) = Len(s) - n
      /\ \A i \in 1 .. Len(s) - n : v[i] = s[n + i]
  <2>1. \A i \in n + 1 .. Len(s) : s[i] \in S
    BY <1>1
  <2> HIDE DEF u
  <2>2. /\ v \in Seq(S)
        /\ Len(v) = IF n + 1 <= Len(s) THEN Len(s) - (n + 1) + 1 ELSE 0
        /\ \A i \in 1 .. Len(s) - (n + 1) + 1 : v[i] = s[(n + 1) + i - 1]
    BY <1>1, <2>1, SubSeqProperties
  <2> HIDE DEF v
  <2>3. Len(v) = Len(s) - n
    <3>1. Len(v) = IF n + 1 <= Len(s) THEN Len(s) - (n + 1) + 1 ELSE 0
      BY <2>2
    <3>2. Len(s) \in Nat /\ n \in Nat /\ n <= Len(s)
      BY <1>1
    <3> QED BY <3>1, <3>2
  <2>4. ASSUME NEW i \in 1 .. Len(s) - n PROVE v[i] = s[n + i]
    <3>1. i \in 1 .. Len(s) - (n + 1) + 1 /\ (n + 1) + i - 1 = n + i
      BY <1>1
    <3> QED BY <3>1, <2>2
  <2> QED BY <2>2, <2>3, <2>4
<1>4. DOMAIN u = 1 .. n /\ DOMAIN v = 1 .. Len(s) - n
  BY <1>2, <1>3, LenProperties
<1> HIDE DEF u, v
<1>5. Range(s) = Range(u) \cup Range(v)
  <2>1. ASSUME NEW x \in Range(s) PROVE x \in Range(u) \cup Range(v)
    <3>1. PICK i \in DOMAIN s : x = s[i]
      BY <2>1 DEF Range
    <3>2. CASE i <= n
      BY <3>1, <3>2, <1>1, <1>2, <1>4 DEF Range
    <3>3. CASE i > n
      <4>1. i - n \in DOMAIN v /\ v[i - n] = x
        BY <3>1, <3>3, <1>1, <1>3, <1>4
      <4> QED BY <4>1 DEF Range
    <3> QED BY <3>1, <3>2, <3>3, <1>1
  <2>2. Range(u) \subseteq Range(s)
    BY <1>1, <1>2, <1>4 DEF Range
  <2>3. ASSUME NEW x \in Range(v) PROVE x \in Range(s)
    <3>1. PICK i \in DOMAIN v : x = v[i]
      BY <2>3 DEF Range
    <3>2. n + i \in DOMAIN s /\ s[n + i] = x
      BY <3>1, <1>1, <1>3, <1>4
    <3> QED BY <3>2 DEF Range
  <2> QED BY <2>1, <2>2, <2>3
<1>6. ASSUME IsInjective(s)
      PROVE  IsInjective(u) /\ IsInjective(v) /\ Range(u) \cap Range(v) = {}
  <2>1. IsInjective(u)
    BY <1>1, <1>2, <1>4, <1>6 DEF IsInjective
  <2>2. ASSUME NEW i \in DOMAIN v, NEW j \in DOMAIN v, v[i] = v[j] PROVE i = j
    <3>1. n + i \in DOMAIN s /\ n + j \in DOMAIN s /\ s[n + i] = s[n + j]
      BY <2>2, <1>1, <1>3, <1>4
    <3>2. n + i = n + j
      BY <3>1, <1>6 DEF IsInjective
    <3> QED BY <3>2, <1>4
  <2>3. ASSUME NEW x \in Range(u), x \in Range(v) PROVE FALSE
    <3>1. PICK i \in DOMAIN u : x = u[i]
      BY DEF Range
    <3>2. PICK j \in DOMAIN v : x = v[j]
      BY <2>3 DEF Range
    <3>3. /\ i \in 1 .. n /\ j \in 1 .. Len(s) - n
          /\ s[i] = x /\ s[n + j] = x
      BY <3>1, <3>2, <1>2, <1>3, <1>4
    <3>4. i \in DOMAIN s /\ n + j \in DOMAIN s /\ i # n + j
      BY <3>3, <1>1
    <3> QED BY <3>3, <3>4, <1>6 DEF IsInjective
  <2> QED BY <2>1, <2>2, <2>3 DEF IsInjective
<1> QED BY <1>2, <1>3, <1>5, <1>6 DEF u, v

(* Adding an element at the end.                                           *)
LEMMA AppendFacts ==
    ASSUME NEW S, NEW s \in Seq(S), NEW e \in S
    PROVE  /\ Append(s, e) \in Seq(S)
           /\ Range(Append(s, e)) = Range(s) \cup {e}
           /\ IsInjective(s) /\ e \notin Range(s) => IsInjective(Append(s, e))
<1>1. <<e>> \in Seq(S) /\ Append(s, e) = s \o <<e>>
  BY AppendIsConcat
<1>2. Range(<<e>>) = {e} /\ IsInjective(<<e>>)
  BY DEF Range, IsInjective
<1>3. Range(s) \cap Range(<<e>>) = {} <=> e \notin Range(s)
  BY <1>2
<1>4. /\ s \o <<e>> \in Seq(S)
      /\ Range(s \o <<e>>) = Range(s) \cup Range(<<e>>)
      /\ IsInjective(s) /\ IsInjective(<<e>>) /\ Range(s) \cap Range(<<e>>) = {}
           => IsInjective(s \o <<e>>)
  BY <1>1, ConcatFacts
<1> QED BY <1>1, <1>2, <1>3, <1>4

(* The empty sequence.                                                     *)
LEMMA EmptyFacts == /\ Range(<<>>) = {} /\ IsInjective(<<>>) /\ Len(<<>>) = 0
                    /\ \A S : <<>> \in Seq(S)
BY DEF Range, IsInjective
=============================================================================
