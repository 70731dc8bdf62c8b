---------------------------- MODULE SnapshotRunProofs ----------------------------
(***************************************************************************)
(* Theorems about SnapshotRun, for any repositories and datasets, and any  *)
(* number of snapshots, processes and deaths.                              *)
(***************************************************************************)
EXTENDS SnapshotRun, SequenceFacts, FiniteSetTheorems

----------------------------------------------------------------------------
(* The inductive invariant                                                 *)

\* What the variables are made of.  (That counts are numbers: Numbers, below.)
Shapes ==
    /\ made \in Nat /\ made <= MaxSnapshots
    /\ status \in [Snapshot -> SUBSET Dataset]
    /\ cursors \in [Snapshot -> [Dataset -> SUBSET Repo]]
    /\ ledger \in [Snapshot -> SUBSET (Dataset \X Resource)]
    /\ ndjson \in [Snapshot -> [Dataset -> Content]]
    /\ parquet \in [Snapshot -> [Dataset -> Content]]
    /\ DOMAIN manifest = Snapshot
    /\ plan \subseteq Dataset /\ files \subseteq Dataset /\ DOMAIN outcome \subseteq Dataset

\* Where the process is: it visits every dataset that is not complete, and converts
\* every file.
Busy == pc # "idle"
Collecting == pc \in {"fetch", "refetch"}
Converting == pc \in {"convert", "unlink"}
Places ==
    /\ pc \in {"idle", "fetch", "refetch", "convert", "unlink", "index"}
    /\ IF Busy THEN snap \in 1 .. made ELSE IdleMemory
    /\ pc = "refetch" => base # None /\ plan # {} /\ Current \notin status[snap]
    /\ Collecting => Dataset \subseteq status[snap] \cup plan
    /\ Busy /\ ~Collecting => Dataset \subseteq status[snap] /\ plan = {}
    /\ pc = "unlink" => files # {}
    /\ pc = "index" => files = {}
    /\ Converting => \A d \in Dataset :
          /\ d \in files => ndjson[snap][d] # None
          /\ ndjson[snap][d] # None => d \in files \/ <<d, NoResource>> \in failed
    /\ DOMAIN outcome \cap plan = {}
    /\ Busy /\ base = None => Dataset \subseteq DOMAIN outcome \cup plan

\* A directory that has not been made is empty, and nobody has worked on it.
Unmade ==
    /\ \A s \in Snapshot : s > made =>
          /\ manifest[s] = None
          /\ \A d \in Dataset : /\ cursors[s][d] = {}
                                /\ ndjson[s][d] = None /\ parquet[s][d] = None
          /\ status[s] = {}
    /\ reopened \cup retried \subseteq again /\ again \subseteq 1 .. made

\* A retry works from the manifest it has read, on gapped datasets; and in a snapshot
\* with a manifest a dataset that is not complete, or still has lines to convert, has
\* a gap there.
Gapped(gaps, d) == GapsOf(gaps, d) # {}
RetryScope ==
    /\ base # None => snap \in retried
    /\ base # None /\ pc # "index" => base = manifest[snap]
    /\ base # None /\ Collecting => \A d \in plan : Gapped(base.gaps, d)
    /\ \A s \in Snapshot : manifest[s] # None =>
          \A d \in Dataset : ndjson[s][d] # None \/ d \notin status[s]
                                 => Gapped(manifest[s].gaps, d)

\* Without a retry, Parquet is made of complete datasets, and of the same lines.
Whole(s) == Dataset \subseteq status[s]
Kept ==
    /\ \A s \in Snapshot \ retried :
          /\ manifest[s] # None => Whole(s)
          /\ \A d \in Dataset : parquet[s][d] # None =>
                /\ Whole(s)
                /\ ndjson[s][d] # None => ndjson[s][d] = parquet[s][d]
    /\ pc = "unlink" => parquet[snap][NextFile] = ndjson[snap][NextFile]

\* A cursor passes what is stored or has a gap, and so does a complete dataset.
Noted(s, d, u) == Stored(s, d, u) \/ <<d, u>> \in ledger[s]
Accounted ==
    \A s \in Snapshot \ retried :
        /\ status[s] # {} => Repositories \in status[s]
        /\ \A d \in Dataset \ {Repositories}, u \in Repo :
              /\ u \in cursors[s][d] => Noted(s, d, u)
              /\ d \in status[s] /\ Stored(s, Repositories, u) => Noted(s, d, u)

\* The lines a dataset has are counted in its outcome, and then in the manifest.
Latest(s, d) == IF parquet[s][d] # None THEN parquet[s][d] ELSE ndjson[s][d]
Plain(s) == s \notin reopened \cup retried
Counted ==
    /\ Busy /\ Plain(snap) =>
          /\ pc = "fetch" => \A d \in Dataset : parquet[snap][d] = None
          /\ \A d \in DOMAIN outcome : outcome[d].count = Lines(Latest(snap, d))
    /\ \A s \in Snapshot : manifest[s] # None /\ Plain(s) =>
          \A d \in Dataset : manifest[s].counts[d] = Lines(Latest(s, d))

\* The first process on a snapshot fetches every unit once.
Full(content)   == \A u \in Repo : content # None /\ content[u] = 1
NoGaps(d)       == d \in DOMAIN outcome /\ outcome[d].gaps = {}
Clean(d)        == NoGaps(d) /\ NoGaps(Repositories)
FirstProcess ==
    Busy /\ snap \notin again =>
        /\ base = None
        /\ pc # "index" => manifest[snap] = None
        /\ pc = "fetch" =>
              /\ status[snap] \cap plan = {}
              /\ Repositories \in plan => plan = Dataset
              /\ \A d \in Dataset, u \in Repo :
                    ndjson[snap][d] # None /\ ndjson[snap][d][u] # 0
                        => ndjson[snap][d][u] = 1 /\ u \in cursors[snap][d]
              /\ \A d \in plan :
                    IF d = Current
                    THEN \A u \in cursors[snap][d] :
                            Holds(ndjson[snap][d], u) \/ <<d, u>> \in found
                    ELSE cursors[snap][d] = {}
              /\ \A d \in Dataset : Clean(d) => Full(ndjson[snap][d])
        /\ Converting =>
              \A d \in Dataset : Clean(d) =>
                 IF d \in files THEN Full(ndjson[snap][d])
                 ELSE Full(parquet[snap][d]) \/ <<d, NoResource>> \in failed
FirstComplete ==
    \A s \in Snapshot : Complete(s) /\ s \notin again =>
        \A d \in Dataset : Full(parquet[s][d])

\* What the index names, but between a manifest and the index.
LatestComplete ==
    \A s \in 1 .. made :
        (index.latest = s) <=> (Complete(s) /\ \A t \in s + 1 .. made : ~Complete(t))
Listing ==
    /\ index.latest \in 1 .. made \cup {None}
    /\ pc # "index" /\ ~unlisted => LatestComplete

IInv == /\ Shapes /\ Places /\ Unmade /\ RetryScope /\ Kept /\ Accounted /\ Counted
        /\ FirstProcess /\ FirstComplete /\ Listing

----------------------------------------------------------------------------
(* Which dataset comes next                                                *)

LEMMA OrderFacts ==
    /\ Sorted \in Seq(Dataset) /\ Range(Sorted) = Dataset
    /\ Phases \in Seq(Dataset) /\ Range(Phases) = Dataset
    /\ Phases[1] = Repositories /\ 1 \in DOMAIN Phases /\ Repositories \in Dataset
<1>1. Before \in Seq(Dataset) /\ After \in Seq(Dataset) /\ Repositories \in Dataset
  BY OrderAssumption DEF OrderAssumption, Dataset
<1>2. <<Repositories>> \in Seq(Dataset) /\ Range(<<Repositories>>) = {Repositories}
      /\ Len(<<Repositories>>) = 1 /\ <<Repositories>>[1] = Repositories
  BY <1>1 DEF Range
<1>c. \A a, b \in Seq(Dataset) : /\ a \o b \in Seq(Dataset)
                                 /\ Range(a \o b) = Range(a) \cup Range(b)
  BY ConcatFacts
<1>3. /\ Before \o <<Repositories>> \in Seq(Dataset)
      /\ Range(Before \o <<Repositories>>) = Range(Before) \cup {Repositories}
      /\ <<Repositories>> \o Before \in Seq(Dataset)
      /\ Range(<<Repositories>> \o Before) = Range(Before) \cup {Repositories}
  <2>1. PICK one \in Seq(Dataset) : one = <<Repositories>>
    BY <1>2
  <2>2. /\ Before \o one \in Seq(Dataset)
        /\ Range(Before \o one) = Range(Before) \cup Range(one)
        /\ one \o Before \in Seq(Dataset)
        /\ Range(one \o Before) = Range(one) \cup Range(Before)
    BY <1>1, <1>c
  <2>3. Range(one) = {Repositories}
    BY <1>2, <2>1, Zenon
  <2>4. /\ Before \o one \in Seq(Dataset)
        /\ Range(Before \o one) = Range(Before) \cup {Repositories}
        /\ one \o Before \in Seq(Dataset)
        /\ Range(one \o Before) = Range(Before) \cup {Repositories}
    BY <2>2, <2>3
  <2> QED BY <2>1, <2>4, Zenon
<1>4. /\ Sorted \in Seq(Dataset)
      /\ Range(Sorted) = Range(Before) \cup {Repositories} \cup Range(After)
  BY <1>1, <1>3, <1>c DEF Sorted
<1>5. /\ Phases \in Seq(Dataset)
      /\ Range(Phases) = Range(Before) \cup {Repositories} \cup Range(After)
  BY <1>1, <1>3, <1>c DEF Phases
<1>6. Phases[1] = Repositories /\ 1 \in DOMAIN Phases
  <2>1. /\ Len(<<Repositories>> \o Before) = 1 + Len(Before)
        /\ (<<Repositories>> \o Before)[1] = Repositories
    BY <1>1, <1>2, ConcatProperties, LenProperties
  <2>2. /\ Len(Phases) = 1 + Len(Before) + Len(After)
        /\ Phases[1] = (<<Repositories>> \o Before)[1]
    BY <1>1, <1>3, <2>1, ConcatProperties, LenProperties DEF Phases
  <2>3. Len(Before) \in Nat /\ Len(After) \in Nat /\ DOMAIN Phases = 1 .. Len(Phases)
    BY <1>1, <1>5, LenProperties
  <2> QED BY <2>1, <2>2, <2>3
<1> QED BY <1>1, <1>4, <1>5, <1>6 DEF Dataset

\* A set of numbers that is not empty has a smallest one.
LEMMA LeastNumber ==
    ASSUME NEW S \in SUBSET Nat, S # {}
    PROVE  Min(S) \in S /\ \A n \in S : Min(S) <= n
<1>1. PICK x \in S : \A y \in S : ~(<<y, x>> \in OpToRel(<, Nat))
  BY NatLessThanWellFounded, WFMin
<1>2. \A y \in S : x <= y
  <2>1. ASSUME NEW y \in S, y < x PROVE <<y, x>> \in OpToRel(<, Nat)
    BY <2>1 DEF OpToRel
  <2>2. ASSUME NEW y \in S PROVE x <= y
    <3>1. x \in Nat /\ y \in Nat /\ ~(y < x)
      BY <1>1, <2>1
    <3> QED BY <3>1
  <2> QED BY <2>2
<1> QED BY <1>2 DEF Min

LEMMA FirstIs ==
    ASSUME NEW order \in Seq(Dataset), Range(order) = Dataset,
           NEW S, S \subseteq Dataset, S # {}
    PROVE  /\ First(order, S) \in S
           /\ order[1] \in S => First(order, S) = order[1]
<1> DEFINE I == {i \in DOMAIN order : order[i] \in S}
<1>1. DOMAIN order = 1 .. Len(order) /\ Len(order) \in Nat
  BY LenProperties
<1>2. I \in SUBSET Nat /\ I # {}
  <2>1. PICK d \in S : TRUE
    OBVIOUS
  <2>2. PICK i \in DOMAIN order : order[i] = d
    BY <2>1 DEF Range
  <2> QED BY <1>1, <2>1, <2>2
<1>3. Min(I) \in I /\ \A n \in I : Min(I) <= n
  <2> HIDE DEF I
  <2> QED BY <1>2, LeastNumber
<1>4. First(order, S) = order[Min(I)]
  BY DEF First
<1>5. order[1] \in S => Min(I) = 1
  <2>1. Min(I) \in 1 .. Len(order)
    BY <1>1, <1>3
  <2>2. ASSUME order[1] \in S PROVE 1 \in I
    BY <1>1, <2>1, <2>2
  <2>3. ASSUME order[1] \in S PROVE Min(I) <= 1
    <3> HIDE DEF I
    <3> QED BY <1>3, <2>2, <2>3
  <2> HIDE DEF I
  <2> QED BY <1>1, <2>1, <2>3
<1> HIDE DEF I
<1> QED BY <1>3, <1>4, <1>5 DEF I

LEMMA CurrentIs ==
    ASSUME Shapes, plan # {}
    PROVE  /\ Current \in plan /\ Current \in Dataset
           /\ base = None /\ Repositories \in plan => Current = Repositories
BY FirstIs, OrderFacts DEF Current, Shapes

LEMMA NextFileIs ==
    ASSUME Shapes, files # {} PROVE NextFile \in files /\ NextFile \in Dataset
BY FirstIs, OrderFacts DEF NextFile, Shapes

----------------------------------------------------------------------------
(* What each action does, snapshot by snapshot                             *)

LEMMA NewestIs ==
    ASSUME NEW n \in Nat, NEW S \in SUBSET (1 .. n), S # {}
    PROVE  Newest(S) \in S /\ \A t \in S : t <= Newest(S)
<1> DEFINE D == {n - t : t \in S}
<1>1. D \in SUBSET Nat /\ D # {}
  <2>1. \A t \in S : n - t \in Nat
    OBVIOUS
  <2> QED BY <2>1
<1>2. Min(D) \in D /\ \A k \in D : Min(D) <= k
  <2> HIDE DEF D
  <2> QED BY <1>1, LeastNumber
<1>3. PICK x \in S : Min(D) = n - x
  BY <1>2
<1>4. ASSUME NEW t \in S PROVE t <= x
  <2>1. n - x <= n - t
    BY <1>2, <1>3
  <2> QED BY <2>1
<1> QED BY <1>4 DEF Newest

LEMMA BeginIs ==
    ASSUME Shapes, Places, RunFresh \/ RunResume \/ RunNamed \/ RetryGaps
    PROVE  /\ pc = "idle" /\ IdleMemory /\ pc' = "fetch"
           /\ UNCHANGED <<found, outcome, files, failed, deaths, unlisted,
                          checkpoint, output, published>>
           /\ made' \in Nat /\ made' <= MaxSnapshots /\ snap' \in 1 .. made' /\ snap' \in Snapshot
           /\ \/ /\ made' = made + 1 /\ snap' = made + 1 /\ plan' = Dataset /\ base' = None
                 /\ UNCHANGED <<again, reopened, retried>>
              \/ /\ made' = made /\ Reopen(snap')
                 /\ \/ plan' = Dataset /\ base' = None /\ retried' = retried
                    \/ /\ plan' = RetryPlan(snap') /\ base' = manifest[snap']
                       /\ base' # None /\ retried' = retried \cup {snap'}
<1>0. made \in Nat /\ made <= MaxSnapshots /\ MaxSnapshots \in Nat /\ Snapshot = 1 .. MaxSnapshots
  BY BoundAssumption DEF Shapes, BoundAssumption, Snapshot
<1>1. ASSUME NEW s, NEW work, NEW from, Begin(s, work, from)
      PROVE  /\ pc = "idle" /\ IdleMemory /\ pc' = "fetch"
             /\ snap' = s /\ plan' = work /\ base' = from
             /\ UNCHANGED <<found, outcome, files, failed, deaths, unlisted,
                            checkpoint, output, published>>
  BY <1>1 DEF Begin, Places, Busy
<1>2. CASE RunFresh
  <2>1. Begin(made + 1, Dataset, None) /\ made < MaxSnapshots /\ made' = made + 1
        /\ UNCHANGED <<again, reopened, retried>>
    BY <1>2 DEF RunFresh
  <2> QED BY <1>0, <1>1, <2>1
<1>3. CASE RunResume
  <2>1. Newest({t \in Snapshot : Incomplete(t)}) \in 1 .. made
    <3>1. {t \in Snapshot : Incomplete(t)} \in SUBSET (1 .. MaxSnapshots)
          /\ {t \in Snapshot : Incomplete(t)} # {}
      BY <1>0, <1>3 DEF RunResume
    <3>2. Newest({t \in Snapshot : Incomplete(t)}) \in {t \in Snapshot : Incomplete(t)}
      BY <1>0, <3>1, NewestIs
    <3> QED BY <1>0, <3>2 DEF Incomplete
  <2>2. PICK s \in 1 .. made : Begin(s, Dataset, None) /\ Reopen(s)
    BY <1>3, <2>1 DEF RunResume
  <2>3. made' = made /\ retried' = retried
    BY <1>3 DEF RunResume
  <2> QED BY <1>0, <1>1, <2>2, <2>3
<1>4. CASE RunNamed
  <2>1. PICK s \in 1 .. made : Begin(s, Dataset, None) /\ Reopen(s)
    BY <1>4 DEF RunNamed
  <2>2. made' = made /\ retried' = retried
    BY <1>4 DEF RunNamed
  <2> QED BY <1>0, <1>1, <2>1, <2>2
<1>5. CASE RetryGaps
  <2>1. PICK s \in 1 .. made : /\ manifest[s] # None
                               /\ Begin(s, RetryPlan(s), manifest[s]) /\ Reopen(s)
                               /\ retried' = retried \cup {s}
    BY <1>5 DEF RetryGaps
  <2>2. made' = made
    BY <1>5 DEF RetryGaps
  <2> QED BY <1>0, <1>1, <2>1, <2>2
<1> QED BY <1>2, <1>3, <1>4, <1>5

\* The process at work, and the dataset it is at.
LEMMA BusyIs ==
    ASSUME Shapes, Places, pc # "idle" PROVE snap \in Snapshot /\ snap \in 1 .. made
BY BoundAssumption DEF Shapes, Places, Busy, BoundAssumption, Snapshot

LEMMA EnteredIs ==
    ASSUME Shapes, Places, Entered
    PROVE  /\ snap \in Snapshot /\ snap \in 1 .. made /\ Collecting /\ pc # "idle"
           /\ Current \in plan /\ Current \in Dataset /\ Current \notin status[snap]
           /\ base = None /\ Repositories \in plan => Current = Repositories
<1>1. Collecting /\ pc # "idle" /\ plan # {} /\ Current \notin status[snap]
  BY DEF Entered, Places, Collecting
<1> QED BY <1>1, BusyIs, CurrentIs

LEMMA ResetIs ==
    ASSUME Shapes, Places, ResetDataset
    PROVE  /\ snap \in Snapshot /\ snap \in 1 .. made /\ Current \in plan /\ Current \in Dataset
           /\ base # None /\ pc = "fetch" /\ pc' = "refetch" /\ Current' = Current
           /\ UNCHANGED <<made, output, published, snap, memory, history>>
           /\ status' \in [Snapshot -> SUBSET Dataset]
           /\ cursors' \in [Snapshot -> [Dataset -> SUBSET Repo]]
           /\ ledger' \in [Snapshot -> SUBSET (Dataset \X Resource)]
           /\ status'[snap] = status[snap] \ {Current}
           /\ \A s \in Snapshot \ {snap} : /\ status'[s] = status[s] /\ cursors'[s] = cursors[s]
                                           /\ ledger'[s] = ledger[s]
<1>1. /\ snap \in Snapshot /\ snap \in 1 .. made /\ Current \in plan /\ Current \in Dataset
      /\ pc = "fetch" /\ base # None
  BY BusyIs, CurrentIs DEF ResetDataset
<1>2. /\ status' = [status EXCEPT ![snap] = @ \ {Current}]
      /\ ledger' = [ledger EXCEPT ![snap] = @ \ GapsOf(@, Current)]
      /\ cursors' = [cursors EXCEPT ![snap][Current] = CursorsKept(Current)]
      /\ pc' = "refetch" /\ UNCHANGED <<made, output, published, snap, memory, history>>
  BY DEF ResetDataset
<1>3. Current' = Current
  BY <1>2 DEF memory, Current
<1>4. CursorsKept(Current) \in SUBSET Repo
  BY <1>1 DEF CursorsKept, Shapes
<1>5. /\ cursors' \in [Snapshot -> [Dataset -> SUBSET Repo]]
      /\ \A s \in Snapshot \ {snap} : cursors'[s] = cursors[s]
  BY <1>1, <1>2, <1>4 DEF Shapes
<1>6. /\ ledger' \in [Snapshot -> SUBSET (Dataset \X Resource)]
      /\ \A s \in Snapshot \ {snap} : ledger'[s] = ledger[s]
  BY <1>1, <1>2 DEF Shapes
<1>7. /\ status' \in [Snapshot -> SUBSET Dataset]
      /\ status'[snap] = status[snap] \ {Current}
      /\ \A s \in Snapshot \ {snap} : status'[s] = status[s]
  BY <1>1, <1>2 DEF Shapes
<1> QED BY <1>1, <1>2, <1>3, <1>5, <1>6, <1>7

LEMMA OpenIs ==
    ASSUME Shapes, Places, OpenFile
    PROVE  /\ Entered /\ ndjson[snap][Current] = None /\ Current = Repositories
           /\ UNCHANGED <<made, checkpoint, parquet, published, pc, snap, memory, history>>
           /\ Current' = Current
           /\ ndjson' \in [Snapshot -> [Dataset -> Content]]
           /\ ndjson'[snap][Current] = [u \in Repo |-> 0] /\ ndjson'[snap][Current] # None
           /\ \A s \in Snapshot, d \in Dataset : s # snap \/ d # Current
                  => ndjson'[s][d] = ndjson[s][d]
<1>1. /\ Entered /\ ndjson[snap][Current] = None /\ Current = Repositories
      /\ ndjson' = [ndjson EXCEPT ![snap][Current] = [u \in Repo |-> 0]]
      /\ UNCHANGED <<made, checkpoint, parquet, published, pc, snap, memory, history>>
  BY DEF OpenFile, Unopened
<1>2. snap \in Snapshot /\ Current \in Dataset
  BY <1>1, EnteredIs
<1>3. [u \in Repo |-> 0] \in Content /\ [u \in Repo |-> 0] # None
  BY NameAssumption DEF NameAssumption, Content
<1>4. Current' = Current
  BY <1>1 DEF memory, Current
<1> QED BY <1>1, <1>2, <1>3, <1>4 DEF Shapes

\* A line more for unit u.
LEMMA AddIs ==
    ASSUME NEW content \in Content, NEW u \in Repo
    PROVE  /\ Add(content, u) \in Content /\ Add(content, u) # None
           /\ \A v \in Repo : Add(content, u)[v] =
                 (IF content = None THEN 0 ELSE content[v]) + (IF v = u THEN 1 ELSE 0)
           /\ \A v \in Repo : Holds(content, v) \/ v = u => Holds(Add(content, u), v)
           /\ \A v \in Repo : Holds(Add(content, u), v) => Holds(content, v) \/ v = u
<1>1. ASSUME NEW v \in Repo
      PROVE  /\ (IF content = None THEN 0 ELSE content[v]) \in Nat
             /\ (IF v = u THEN 1 ELSE 0) \in Nat
  BY DEF Content
<1>2. Add(content, u) \in [Repo -> Nat]
  BY <1>1 DEF Add
<1>3. Add(content, u) \in Content /\ Add(content, u) # None
  BY <1>2, NameAssumption DEF NameAssumption, Content
<1>4. \A v \in Repo : Add(content, u)[v] =
          (IF content = None THEN 0 ELSE content[v]) + (IF v = u THEN 1 ELSE 0)
  BY DEF Add
<1>5. ASSUME NEW v \in Repo, Holds(content, v) \/ v = u PROVE Add(content, u)[v] > 0
  BY <1>1, <1>4, <1>5 DEF Holds
<1>6. ASSUME NEW v \in Repo, Add(content, u)[v] > 0 PROVE Holds(content, v) \/ v = u
  BY <1>1, <1>4, <1>6 DEF Holds
<1> QED BY <1>3, <1>4, <1>5, <1>6 DEF Holds

LEMMA RecordIs ==
    ASSUME Shapes, Places, FetchRecord
    PROVE  \E u \in Unfetched :
           /\ Entered /\ u \in Repo /\ u \notin cursors[snap][Current]
           /\ UNCHANGED <<made, status, ledger, parquet, published, pc, snap, memory, history>>
           /\ Current' = Current
           /\ ndjson' \in [Snapshot -> [Dataset -> Content]]
           /\ ndjson'[snap][Current] = Add(ndjson[snap][Current], u)
           /\ cursors' \in [Snapshot -> [Dataset -> SUBSET Repo]]
           /\ cursors'[snap][Current] = cursors[snap][Current] \cup {u}
           /\ \A s \in Snapshot, d \in Dataset : s # snap \/ d # Current
                  => ndjson'[s][d] = ndjson[s][d] /\ cursors'[s][d] = cursors[s][d]
<1>1. PICK u \in Unfetched :
         /\ ndjson' = [ndjson EXCEPT ![snap][Current] = Add(@, u)]
         /\ cursors' = [cursors EXCEPT ![snap][Current] = @ \cup {u}]
  BY DEF FetchRecord
<1>2. /\ Entered
      /\ UNCHANGED <<made, status, ledger, parquet, published, pc, snap, memory, history>>
  BY DEF FetchRecord, Fetching
<1>3. snap \in Snapshot /\ Current \in Dataset
  BY <1>2, EnteredIs
<1>4. u \in Repo /\ u \notin cursors[snap][Current]
  BY DEF Unfetched, Units
<1>5. Add(ndjson[snap][Current], u) \in Content
  BY <1>3, <1>4, AddIs DEF Shapes
<1>6. Current' = Current
  BY <1>2 DEF memory, Current
<1>7. /\ ndjson' \in [Snapshot -> [Dataset -> Content]]
      /\ ndjson'[snap][Current] = Add(ndjson[snap][Current], u)
      /\ \A s \in Snapshot, d \in Dataset : s # snap \/ d # Current
             => ndjson'[s][d] = ndjson[s][d]
  BY <1>1, <1>3, <1>5 DEF Shapes
<1>8. /\ cursors' \in [Snapshot -> [Dataset -> SUBSET Repo]]
      /\ cursors'[snap][Current] = cursors[snap][Current] \cup {u}
      /\ \A s \in Snapshot, d \in Dataset : s # snap \/ d # Current
             => cursors'[s][d] = cursors[s][d]
  BY <1>1, <1>3, <1>4 DEF Shapes
<1> QED BY <1>2, <1>4, <1>6, <1>7, <1>8

LEMMA GapIs ==
    ASSUME Shapes, Places, FetchGap
    PROVE  \E u \in Unfetched :
           /\ Entered /\ u \in Repo /\ Current # Repositories
           /\ UNCHANGED <<made, status, output, published, pc, snap, plan, outcome, files,
                          failed, base, history>>
           /\ Current' = Current
           /\ found' = found \cup {<<Current, u>>}
           /\ ledger' \in [Snapshot -> SUBSET (Dataset \X Resource)]
           /\ ledger'[snap] = ledger[snap] \cup {<<Current, u>>}
           /\ \A s \in Snapshot \ {snap} : ledger'[s] = ledger[s]
           /\ cursors' \in [Snapshot -> [Dataset -> SUBSET Repo]]
           /\ cursors'[snap][Current] = cursors[snap][Current] \cup {u}
           /\ \A s \in Snapshot, d \in Dataset : s # snap \/ d # Current
                  => cursors'[s][d] = cursors[s][d]
<1>1. PICK u \in Unfetched :
         /\ ledger' = [ledger EXCEPT ![snap] = Recorded(<<Current, u>>)]
         /\ found' = found \cup {<<Current, u>>}
         /\ cursors' = [cursors EXCEPT ![snap][Current] = @ \cup {u}]
  BY DEF FetchGap
<1>2. /\ Entered /\ Current # Repositories
      /\ UNCHANGED <<made, status, output, published, pc, snap, plan, outcome, files,
                     failed, base, history>>
  BY DEF FetchGap, Fetching
<1>3. snap \in Snapshot /\ Current \in Dataset
  BY <1>2, EnteredIs
<1>4. u \in Repo
  BY DEF Unfetched, Units
<1>5. Current' = Current
  BY <1>2 DEF Current
<1>6. Recorded(<<Current, u>>) = ledger[snap] \cup {<<Current, u>>}
  BY DEF Recorded
<1>7. <<Current, u>> \in Dataset \X Resource
  BY <1>3, <1>4 DEF Resource
<1>8. /\ ledger' \in [Snapshot -> SUBSET (Dataset \X Resource)]
      /\ ledger'[snap] = ledger[snap] \cup {<<Current, u>>}
      /\ \A s \in Snapshot \ {snap} : ledger'[s] = ledger[s]
  BY <1>1, <1>3, <1>6, <1>7 DEF Shapes
<1>9. /\ cursors' \in [Snapshot -> [Dataset -> SUBSET Repo]]
      /\ cursors'[snap][Current] = cursors[snap][Current] \cup {u}
      /\ \A s \in Snapshot, d \in Dataset : s # snap \/ d # Current
             => cursors'[s][d] = cursors[s][d]
  BY <1>1, <1>3, <1>4 DEF Shapes
<1> QED BY <1>1, <1>2, <1>4, <1>5, <1>8, <1>9

\* The outcome a dataset returns.
LEMMA ReturnIs ==
    ASSUME Current \in Dataset, NEW gaps, Return(gaps)
    PROVE  /\ DOMAIN outcome' = DOMAIN outcome \cup {Current}
           /\ outcome'[Current] = [count |-> Lines(ndjson[snap][Current]), gaps |-> gaps]
           /\ \A d \in DOMAIN outcome \ {Current} : outcome'[d] = outcome[d]
BY DEF Return, Outcome

\* A dataset ends, the organization's connection perhaps with a gap.
LEMMA DatasetEndIs ==
    ASSUME Shapes, Places, ConnectionFails \/ EndDataset
    PROVE  /\ Fetching /\ Entered
           /\ UNCHANGED <<made, cursors, output, published, snap, files, failed, base, history>>
           /\ plan' = plan \ {Current} /\ found' = {} /\ pc' = "fetch"
           /\ status' \in [Snapshot -> SUBSET Dataset]
           /\ status'[snap] = status[snap] \cup {Current}
           /\ ledger' \in [Snapshot -> SUBSET (Dataset \X Resource)]
           /\ ledger[snap] \subseteq ledger'[snap]
           /\ \A s \in Snapshot \ {snap} : status'[s] = status[s] /\ ledger'[s] = ledger[s]
           /\ \E gaps : /\ Return(gaps)
                        /\ \/ Current = Repositories /\ gaps # {}
                           \/ Unfetched = {} /\ gaps = found
<1>1. /\ Fetching /\ Entered /\ NextDataset
  BY DEF ConnectionFails, EndDataset, Fetching
<1>2. snap \in Snapshot /\ Current \in Dataset
  BY <1>1, EnteredIs
<1>3. /\ status' = [status EXCEPT ![snap] = @ \cup {Current}]
      /\ plan' = plan \ {Current} /\ found' = {} /\ pc' = "fetch"
      /\ UNCHANGED <<made, output, published, snap, files, failed, base, history>>
      /\ cursors' = cursors
  BY <1>1 DEF NextDataset, ConnectionFails, EndDataset
<1>4. /\ status' \in [Snapshot -> SUBSET Dataset]
      /\ status'[snap] = status[snap] \cup {Current}
      /\ \A s \in Snapshot \ {snap} : status'[s] = status[s]
  BY <1>2, <1>3 DEF Shapes
<1>5. CASE ConnectionFails
  <2>1. /\ Current = Repositories
        /\ ledger' = [ledger EXCEPT ![snap] = Recorded(<<Current, Org>>)]
        /\ Return(found \cup {<<Current, Org>>})
    BY <1>5 DEF ConnectionFails
  <2>2. Recorded(<<Current, Org>>) = ledger[snap] \cup {<<Current, Org>>}
    BY DEF Recorded
  <2>3. <<Current, Org>> \in Dataset \X Resource
    BY <1>2 DEF Resource
  <2>4. /\ ledger' \in [Snapshot -> SUBSET (Dataset \X Resource)]
        /\ ledger[snap] \subseteq ledger'[snap]
        /\ \A s \in Snapshot \ {snap} : ledger'[s] = ledger[s]
    BY <1>2, <2>1, <2>2, <2>3 DEF Shapes
  <2>5. found \cup {<<Current, Org>>} # {}
    OBVIOUS
  <2> QED BY <1>1, <1>3, <1>4, <2>1, <2>4, <2>5
<1>6. CASE EndDataset
  <2>1. Unfetched = {} /\ Return(found) /\ ledger' = ledger
    BY <1>6 DEF EndDataset
  <2> QED BY <1>1, <1>3, <1>4, <2>1 DEF Shapes
<1> QED BY <1>5, <1>6

LEMMA SkipIs ==
    ASSUME Shapes, Places, SkipDataset
    PROVE  /\ snap \in Snapshot /\ Current \in plan /\ Current \in Dataset
           /\ base = None /\ Current \in status[snap] /\ pc = "fetch"
           /\ UNCHANGED <<made, checkpoint, output, published, pc, snap, found, files,
                          failed, base, history>>
           /\ plan' = plan \ {Current}
           /\ Return(GapsOf(ledger[snap], Current))
BY BusyIs, CurrentIs DEF SkipDataset

LEMMA ConvertIs ==
    ASSUME Shapes, Places, Convert
    PROVE  /\ snap \in Snapshot /\ snap \in 1 .. made /\ NextFile \in files /\ NextFile \in Dataset
           /\ pc = "convert" /\ pc' = "unlink" /\ NextFile' = NextFile
           /\ UNCHANGED <<made, checkpoint, ndjson, published, snap, memory, history>>
           /\ parquet' \in [Snapshot -> [Dataset -> Content]]
           /\ ndjson[snap][NextFile] # None
           /\ parquet'[snap][NextFile] = ndjson[snap][NextFile]
           /\ \A s \in Snapshot, d \in Dataset : s # snap \/ d # NextFile
                  => parquet'[s][d] = parquet[s][d]
<1>1. /\ snap \in Snapshot /\ snap \in 1 .. made /\ NextFile \in files /\ NextFile \in Dataset
      /\ pc = "convert"
  BY BusyIs, NextFileIs DEF Convert
<1>2. /\ parquet' = [parquet EXCEPT ![snap][NextFile] = ndjson[snap][NextFile]]
      /\ pc' = "unlink"
      /\ UNCHANGED <<made, checkpoint, ndjson, published, snap, memory, history>>
  BY DEF Convert, Converted
<1>3. NextFile' = NextFile
  BY <1>2 DEF memory, NextFile
<1>4. ndjson[snap][NextFile] # None
  BY <1>1 DEF Places, Converting
<1>5. ndjson[snap][NextFile] \in Content
  BY <1>1 DEF Shapes
<1> QED BY <1>1, <1>2, <1>3, <1>4, <1>5 DEF Shapes

LEMMA UnlinkIs ==
    ASSUME Shapes, Places, Unlink
    PROVE  /\ snap \in Snapshot /\ snap \in 1 .. made /\ NextFile \in files /\ NextFile \in Dataset
           /\ pc = "unlink" /\ pc' = "convert"
           /\ UNCHANGED <<made, checkpoint, parquet, published, snap, plan, found, outcome,
                          failed, base, history>>
           /\ ndjson[snap][NextFile] # None /\ files' = files \ {NextFile}
           /\ ndjson' \in [Snapshot -> [Dataset -> Content]]
           /\ ndjson'[snap][NextFile] = None
           /\ \A s \in Snapshot, d \in Dataset : s # snap \/ d # NextFile
                  => ndjson'[s][d] = ndjson[s][d]
<1>1. /\ snap \in Snapshot /\ snap \in 1 .. made /\ NextFile \in files /\ NextFile \in Dataset
      /\ pc = "unlink"
  <2>1. pc = "unlink" /\ files # {}
    BY DEF Unlink, Places
  <2> QED BY <2>1, BusyIs, NextFileIs
<1>2. /\ ndjson' = [ndjson EXCEPT ![snap][NextFile] = None]
      /\ pc' = "convert" /\ files' = files \ {NextFile}
      /\ UNCHANGED <<made, checkpoint, parquet, published, snap, plan, found, outcome,
                     failed, base, history>>
  BY DEF Unlink
<1>3. ndjson[snap][NextFile] # None
  BY <1>1 DEF Places, Converting
<1>4. None \in Content
  BY DEF Content
<1> QED BY <1>1, <1>2, <1>3, <1>4 DEF Shapes

LEMMA ConvertFailsIs ==
    ASSUME Shapes, Places, ConvertFails
    PROVE  /\ snap \in Snapshot /\ NextFile \in files /\ NextFile \in Dataset /\ pc = "convert"
           /\ UNCHANGED <<made, checkpoint, output, published, pc, snap, plan, found, outcome,
                          base, history>>
           /\ failed' = failed \cup {<<NextFile, NoResource>>}
           /\ files' = files \ {NextFile}
BY BusyIs, NextFileIs DEF ConvertFails

LEMMA WriteIs ==
    ASSUME Shapes, Places, WriteManifest
    PROVE  /\ snap \in Snapshot /\ snap \in 1 .. made /\ pc = "convert" /\ files = {}
           /\ pc' = "index"
           /\ UNCHANGED <<made, checkpoint, output, index, snap, memory, history>>
           /\ DOMAIN manifest' = Snapshot /\ manifest'[snap] = BuiltManifest
           /\ \A s \in Snapshot \ {snap} : manifest'[s] = manifest[s]
<1>1. snap \in Snapshot /\ snap \in 1 .. made
  BY BusyIs DEF WriteManifest
<1>2. manifest' = [manifest EXCEPT ![snap] = BuiltManifest]
  BY DEF WriteManifest
<1> QED BY <1>1, <1>2 DEF WriteManifest, Shapes

\* A process that ends forgets everything.
LEMMA ForgetIs == Forget => pc' = "idle" /\ IdleMemory' /\ files' = {} /\ plan' = {}
                            /\ DOMAIN outcome' = {}
BY DEF Forget, IdleMemory

LEMMA ShapesStep ==
    ASSUME Shapes, Places, [Next]_vars PROVE Shapes'
<1> USE DEF checkpoint, output, published, memory, history
<1>1. CASE RunFresh \/ RunResume \/ RunNamed \/ RetryGaps
  <2>1. plan' \subseteq Dataset
    BY <1>1, BeginIs DEF RetryPlan
  <2> QED BY <1>1, <2>1, BeginIs DEF Shapes
<1>2. CASE ResetDataset
  BY <1>2, ResetIs DEF Shapes
<1>3. CASE OpenFile
  BY <1>3, OpenIs DEF Shapes
<1>4. CASE FetchRecord
  BY <1>4, RecordIs DEF Shapes
<1>5. CASE FetchGap
  BY <1>5, GapIs DEF Shapes
<1>6. CASE ConnectionFails \/ EndDataset
  <2>1. Current \in Dataset
    BY <1>6, DatasetEndIs, EnteredIs
  <2>2. PICK gaps : Return(gaps)
    BY <1>6, DatasetEndIs
  <2>3. DOMAIN outcome' \subseteq Dataset
    BY <2>1, <2>2, ReturnIs DEF Shapes
  <2> QED BY <1>6, <2>3, DatasetEndIs DEF Shapes
<1>7. CASE SkipDataset
  <2>1. DOMAIN outcome' \subseteq Dataset
    BY <1>7, SkipIs, ReturnIs DEF Shapes
  <2> QED BY <1>7, <2>1, SkipIs DEF Shapes
<1>8. CASE StartFinalize
  BY <1>8 DEF StartFinalize, Shapes
<1>9. CASE Convert
  BY <1>9, ConvertIs DEF Shapes
<1>10. CASE Unlink
  BY <1>10, UnlinkIs DEF Shapes
<1>11. CASE ConvertFails
  BY <1>11, ConvertFailsIs DEF Shapes
<1>12. CASE WriteManifest
  BY <1>12, WriteIs DEF Shapes
<1>13. CASE RebuildIndex \/ Die
  BY <1>13, ForgetIs DEF RebuildIndex, Die, Shapes
<1>14. CASE UNCHANGED vars
  BY <1>14 DEF vars, Shapes
<1> QED BY <1>1, <1>2, <1>3, <1>4, <1>5, <1>6, <1>7, <1>8, <1>9, <1>10, <1>11, <1>12, <1>13,
           <1>14 DEF Next

\* The process goes from dataset to dataset and leaves none out.
LEMMA PlacesStep ==
    ASSUME Shapes, Places, RetryScope, [Next]_vars PROVE Places'
<1> USE DEF checkpoint, output, published, memory, history, Busy, Collecting, Converting
<1>1. CASE RunFresh \/ RunResume \/ RunNamed \/ RetryGaps
  <2>1. plan' = Dataset \/ plan' = RetryPlan(snap')
    BY <1>1, BeginIs
  <2>2. ASSUME plan' # Dataset
        PROVE  /\ Dataset \subseteq status[snap'] \cup plan' /\ base' # None
               /\ snap' \in Snapshot
    <3>1. /\ snap' \in Snapshot /\ plan' = RetryPlan(snap')
          /\ base' # None /\ base' = manifest[snap']
      BY <1>1, <2>2, BeginIs
    <3>2. \A d \in Dataset : d \notin status[snap'] => Gapped(manifest[snap'].gaps, d)
      BY <3>1 DEF RetryScope
    <3> QED BY <3>1, <3>2 DEF RetryPlan, Gapped
  <2>3. status' = status /\ pc' = "fetch" /\ snap' \in 1 .. made' /\ DOMAIN outcome' = {}
    BY <1>1, BeginIs DEF IdleMemory
  <2> QED BY <2>2, <2>3 DEF Places
<1>2. CASE SkipDataset
  <2>1. DOMAIN outcome' = DOMAIN outcome \cup {Current}
    BY <1>2, SkipIs, ReturnIs
  <2> QED BY <1>2, <2>1, SkipIs DEF Places
<1>3. CASE ResetDataset
  BY <1>3, ResetIs DEF Places
<1>4. CASE OpenFile
  BY <1>4, OpenIs, EnteredIs DEF Places
<1>5. CASE FetchRecord
  BY <1>5, RecordIs, EnteredIs DEF Places
<1>6. CASE FetchGap
  BY <1>6, GapIs, EnteredIs DEF Places
<1>7. CASE ConnectionFails \/ EndDataset
  <2>1. PICK gaps : Return(gaps)
    BY <1>7, DatasetEndIs
  <2>2. Current \in Dataset /\ Current \in plan /\ Collecting /\ snap \in 1 .. made
    BY <1>7, DatasetEndIs, EnteredIs
  <2>3. DOMAIN outcome' = DOMAIN outcome \cup {Current}
    BY <2>1, <2>2, ReturnIs
  <2> QED BY <1>7, <2>2, <2>3, DatasetEndIs DEF Places
<1>8. CASE StartFinalize
  BY <1>8 DEF StartFinalize, Places
<1>9. CASE Convert
  BY <1>9, ConvertIs DEF Places
<1>10. CASE Unlink
  <2>1. snap' = snap /\ snap \in Snapshot
    BY <1>10, UnlinkIs
  <2>2. ASSUME NEW d \in Dataset
        PROVE  /\ d \in files' => ndjson'[snap'][d] # None
               /\ ndjson'[snap'][d] # None => d \in files' \/ <<d, NoResource>> \in failed'
    BY <1>10, <2>1, UnlinkIs DEF Places
  <2> QED BY <1>10, <2>1, <2>2, UnlinkIs DEF Places
<1>11. CASE ConvertFails
  <2>1. snap' = snap /\ ndjson' = ndjson
    BY <1>11, ConvertFailsIs
  <2>2. ASSUME NEW d \in Dataset
        PROVE  /\ d \in files' => ndjson[snap][d] # None
               /\ ndjson[snap][d] # None => d \in files' \/ <<d, NoResource>> \in failed'
    BY <1>11, ConvertFailsIs DEF Places
  <2> QED BY <1>11, <2>1, <2>2, ConvertFailsIs DEF Places
<1>12. CASE WriteManifest
  BY <1>12, WriteIs DEF Places
<1>13. CASE RebuildIndex \/ Die
  BY <1>13, ForgetIs DEF RebuildIndex, Die, Places
<1>14. CASE UNCHANGED vars
  BY <1>14 DEF vars, Places, IdleMemory, Current
<1> QED BY <1>1, <1>2, <1>3, <1>4, <1>5, <1>6, <1>7, <1>8, <1>9, <1>10, <1>11, <1>12, <1>13,
           <1>14 DEF Next

\* A process writes to its own snapshot only, and to none when it begins.
LEMMA OthersKept ==
    ASSUME Shapes, Places, [Next]_vars, NEW s \in Snapshot, s # snap \/ pc = "idle"
    PROVE  /\ status'[s] = status[s] /\ ledger'[s] = ledger[s] /\ manifest'[s] = manifest[s]
           /\ \A d \in Dataset : /\ cursors'[s][d] = cursors[s][d]
                                 /\ ndjson'[s][d] = ndjson[s][d]
                                 /\ parquet'[s][d] = parquet[s][d]
<1> USE DEF checkpoint, output, published, memory, history
<1>1. CASE RunFresh \/ RunResume \/ RunNamed \/ RetryGaps
  BY <1>1, BeginIs
<1>2. CASE SkipDataset
  BY <1>2, SkipIs
<1>3. CASE ResetDataset
  BY <1>3, ResetIs
<1>4. CASE OpenFile
  BY <1>4, OpenIs, EnteredIs
<1>5. CASE FetchRecord
  BY <1>5, RecordIs, EnteredIs
<1>6. CASE FetchGap
  BY <1>6, GapIs, EnteredIs
<1>7. CASE ConnectionFails \/ EndDataset
  BY <1>7, DatasetEndIs, EnteredIs
<1>8. CASE StartFinalize
  BY <1>8 DEF StartFinalize
<1>9. CASE Convert
  BY <1>9, ConvertIs
<1>10. CASE Unlink
  BY <1>10, UnlinkIs
<1>11. CASE ConvertFails
  BY <1>11, ConvertFailsIs
<1>12. CASE WriteManifest
  BY <1>12, WriteIs
<1>13. CASE RebuildIndex \/ Die
  BY <1>13 DEF RebuildIndex, Die
<1>14. CASE UNCHANGED vars
  BY <1>14 DEF vars
<1> QED BY <1>1, <1>2, <1>3, <1>4, <1>5, <1>6, <1>7, <1>8, <1>9, <1>10, <1>11, <1>12, <1>13,
           <1>14 DEF Next

\* Who has worked where is noted when a process begins, and only then.
LEMMA NotedAtBegin ==
    ASSUME Shapes, Places, [Next]_vars
    PROVE  \/ /\ pc = "idle" /\ pc' = "fetch" /\ made' = made + 1 /\ snap' = made + 1
              /\ UNCHANGED <<again, reopened, retried>>
           \/ /\ pc = "idle" /\ pc' = "fetch" /\ made' = made /\ snap' \in 1 .. made
              /\ Reopen(snap') /\ retried \subseteq retried'
              /\ retried' \subseteq retried \cup {snap'}
              /\ base' # None => retried' = retried \cup {snap'}
           \/ /\ UNCHANGED <<made, again, reopened, retried>>
              /\ pc # "idle" => (snap' = snap /\ pc' # "idle") \/ (pc' = "idle")
              /\ pc = "idle" => pc' = "idle"
<1> USE DEF checkpoint, output, published, memory, history
<1>1. CASE RunFresh \/ RunResume \/ RunNamed \/ RetryGaps
  BY <1>1, BeginIs
<1>2. CASE SkipDataset \/ StartFinalize \/ ConvertFails \/ Convert \/ Unlink \/ WriteManifest
  BY <1>2 DEF SkipDataset, StartFinalize, ConvertFails, Convert, Unlink, WriteManifest
<1>3. CASE ResetDataset \/ OpenFile \/ FetchRecord \/ FetchGap
  BY <1>3 DEF ResetDataset, OpenFile, FetchRecord, FetchGap, Fetching, Entered
<1>4. CASE ConnectionFails \/ EndDataset
  BY <1>4, DatasetEndIs, EnteredIs
<1>5. CASE RebuildIndex \/ Die
  BY <1>5 DEF RebuildIndex, Die, Forget
<1>6. CASE UNCHANGED vars
  BY <1>6 DEF vars
<1> QED BY <1>1, <1>2, <1>3, <1>4, <1>5, <1>6 DEF Next

LEMMA UnmadeStep ==
    ASSUME Shapes, Places, Unmade, [Next]_vars PROVE Unmade'
<1>0. made \in Nat
  BY DEF Shapes
<1>1. /\ made' = made \/ made' = made + 1
      /\ reopened' \cup retried' \subseteq again' /\ again' \subseteq 1 .. made'
  <2>1. CASE made' = made + 1 /\ UNCHANGED <<again, reopened, retried>>
    BY <1>0, <2>1 DEF Unmade
  <2>2. CASE UNCHANGED <<made, again, reopened, retried>>
    BY <2>2 DEF Unmade
  <2>3. ASSUME made' = made, snap' \in 1 .. made, Reopen(snap'),
               retried' \subseteq retried \cup {snap'}
        PROVE  made' = made /\ reopened' \cup retried' \subseteq again' /\ again' \subseteq 1 .. made'
    <3>1. PICK s \in 1 .. made : s = snap'
      BY <2>3
    <3>2. again' = again \cup {s} /\ reopened' \subseteq reopened \cup {s}
      BY <2>3, <3>1 DEF Reopen
    <3> QED BY <2>3, <3>1, <3>2 DEF Unmade
  <2> QED BY <2>1, <2>2, <2>3, NotedAtBegin
<1>2. ASSUME NEW s \in Snapshot, s > made'
      PROVE  /\ manifest'[s] = None /\ status'[s] = {}
             /\ \A d \in Dataset : /\ cursors'[s][d] = {}
                                   /\ ndjson'[s][d] = None /\ parquet'[s][d] = None
  <2>1. s \in Nat /\ s > made
    BY <1>0, <1>1, <1>2, BoundAssumption DEF BoundAssumption, Snapshot
  <2>2. pc = "idle" \/ s # snap
    BY <1>0, <2>1, BusyIs
  <2>3. /\ manifest[s] = None /\ status[s] = {}
        /\ \A d \in Dataset : /\ cursors[s][d] = {}
                              /\ ndjson[s][d] = None /\ parquet[s][d] = None
    BY <2>1 DEF Unmade
  <2> QED BY <2>2, <2>3, OthersKept
<1> QED BY <1>1, <1>2 DEF Unmade

LEMMA BuiltParts ==
    /\ \A d \in Dataset : BuiltManifest.counts[d] = Reported(d).count
                          /\ Reported(d).gaps \subseteq BuiltManifest.gaps
    /\ failed \subseteq BuiltManifest.gaps
<1>1. BuiltManifest.gaps = (UNION {Reported(d).gaps : d \in Dataset}) \cup failed
  BY Zenon DEF BuiltManifest, ConversionGaps
<1>2. BuiltManifest.counts = [d \in Dataset |-> Reported(d).count]
  BY Zenon DEF BuiltManifest
<1>3. ASSUME NEW d \in Dataset PROVE BuiltManifest.counts[d] = Reported(d).count
  BY <1>2, Zenon
<1>4. ASSUME NEW d \in Dataset PROVE Reported(d).gaps \subseteq BuiltManifest.gaps
  <2>1. Reported(d).gaps \subseteq UNION {Reported(e).gaps : e \in Dataset}
    OBVIOUS
  <2> QED BY <1>1, <2>1, Zenon
<1>5. failed \subseteq BuiltManifest.gaps
  BY <1>1, Zenon
<1> QED BY <1>3, <1>4, <1>5

\* A manifest has a gap for every dataset with lines that were not converted.
LEMMA BuiltIs ==
    ASSUME Shapes, Places, WriteManifest, NEW d \in Dataset, ndjson[snap][d] # None
    PROVE  Gapped(BuiltManifest.gaps, d)
<1>1. <<d, NoResource>> \in failed
  BY DEF Places, WriteManifest, Converting
<1>2. <<d, NoResource>> \in BuiltManifest.gaps
  BY <1>1, BuiltParts
<1> QED BY <1>2 DEF Gapped, GapsOf

\* What the process is at, and the manifest it works from or replaces.
RetryBase ==
    /\ base # None => snap \in retried
    /\ base # None /\ pc # "index" => base = manifest[snap]
    /\ base # None /\ Collecting => \A d \in plan : Gapped(base.gaps, d)
\* What a snapshot with a manifest still has to do is gapped there.
GapScope(s) ==
    manifest[s] # None =>
        \A d \in Dataset : ndjson[s][d] # None \/ d \notin status[s]
                               => Gapped(manifest[s].gaps, d)
LEMMA RetryScopeParts == RetryScope <=> RetryBase /\ \A s \in Snapshot : GapScope(s)
BY DEF RetryScope, RetryBase, GapScope

LEMMA RetryBaseStep ==
    ASSUME Shapes, Places, Unmade, RetryBase, [Next]_vars PROVE RetryBase'
<1> USE DEF checkpoint, output, published, memory, history, Collecting, RetryBase
<1>1. CASE RunFresh \/ RunResume \/ RunNamed \/ RetryGaps
  <2>1. base' = None \/ /\ base' = manifest'[snap'] /\ snap' \in retried'
                        /\ plan' = RetryPlan(snap')
    BY <1>1, BeginIs
  <2>2. manifest' = manifest
    BY <1>1, BeginIs
  <2>3. ASSUME base' # None PROVE \A d \in plan' : Gapped(base'.gaps, d)
    BY <2>1, <2>2, <2>3 DEF RetryPlan, Gapped
  <2> QED BY <2>1, <2>3
<1>2. CASE SkipDataset
  BY <1>2, SkipIs
<1>3. CASE ResetDataset
  BY <1>3, ResetIs
<1>4. CASE OpenFile
  BY <1>4, OpenIs, EnteredIs
<1>5. CASE FetchRecord
  BY <1>5, RecordIs, EnteredIs
<1>6. CASE FetchGap
  BY <1>6, GapIs, EnteredIs
<1>7. CASE ConnectionFails \/ EndDataset
  BY <1>7, DatasetEndIs, EnteredIs
<1>8. CASE StartFinalize
  BY <1>8 DEF StartFinalize
<1>9. CASE Convert
  BY <1>9, ConvertIs
<1>10. CASE Unlink
  BY <1>10, UnlinkIs
<1>11. CASE ConvertFails
  BY <1>11, ConvertFailsIs
<1>12. CASE WriteManifest
  BY <1>12, WriteIs
<1>13. CASE RebuildIndex \/ Die
  BY <1>13, ForgetIs DEF RebuildIndex, Die, IdleMemory
<1>14. CASE UNCHANGED vars
  BY <1>14 DEF vars
<1> QED BY <1>1, <1>2, <1>3, <1>4, <1>5, <1>6, <1>7, <1>8, <1>9, <1>10, <1>11, <1>12, <1>13,
           <1>14 DEF Next

LEMMA RetryScopeStep ==
    ASSUME Shapes, Places, Unmade, RetryScope, [Next]_vars PROVE RetryScope'
<1> USE DEF checkpoint, output, published, memory, history
<1>0. RetryBase /\ \A s \in Snapshot : GapScope(s)
  BY RetryScopeParts
<1>1. ASSUME NEW s \in Snapshot, s # snap \/ pc = "idle" PROVE GapScope(s)'
  <2>1. /\ manifest'[s] = manifest[s] /\ status'[s] = status[s]
        /\ \A d \in Dataset : ndjson'[s][d] = ndjson[s][d]
    BY <1>1, OthersKept
  <2> QED BY <1>0, <2>1 DEF GapScope
<1>2. ASSUME Entered, manifest[snap] # None PROVE Gapped(manifest[snap].gaps, Current)
  <2>1. Current \in plan /\ Current \in Dataset /\ Current \notin status[snap] /\ snap \in Snapshot
    BY <1>2, EnteredIs
  <2> QED BY <1>0, <1>2, <2>1 DEF GapScope
<1>3. ASSUME NEW s \in Snapshot, s = snap, pc # "idle" PROVE GapScope(s)'
  <2>1. CASE SkipDataset \/ StartFinalize \/ Convert \/ ConvertFails
    BY <1>0, <2>1 DEF SkipDataset, StartFinalize, Convert, ConvertFails, GapScope
  <2>2. CASE ResetDataset
    <3>1. Gapped(manifest[s].gaps, Current)
      <4>1. base # None /\ pc = "fetch" /\ Current \in plan
        BY <2>2, ResetIs
      <4> QED BY <1>0, <1>3, <4>1 DEF RetryBase, Collecting
    <3>2. /\ status'[s] = status[s] \ {Current} /\ ndjson' = ndjson /\ manifest' = manifest
      BY <1>3, <2>2, ResetIs
    <3> QED BY <1>0, <3>1, <3>2 DEF GapScope
  <2>3. CASE OpenFile
    <3>1. /\ status' = status /\ manifest' = manifest /\ Entered
          /\ \A d \in Dataset : d # Current => ndjson'[s][d] = ndjson[s][d]
      BY <1>3, <2>3, OpenIs
    <3> QED BY <1>0, <1>2, <1>3, <3>1 DEF GapScope
  <2>4. CASE FetchRecord
    <3>1. /\ status' = status /\ manifest' = manifest /\ Entered
          /\ \A d \in Dataset : d # Current => ndjson'[s][d] = ndjson[s][d]
      BY <1>3, <2>4, RecordIs
    <3> QED BY <1>0, <1>2, <1>3, <3>1 DEF GapScope
  <2>5. CASE FetchGap
    BY <1>0, <2>5, GapIs DEF GapScope
  <2>6. CASE ConnectionFails \/ EndDataset
    <3>1. status'[s] = status[s] \cup {Current} /\ manifest' = manifest /\ ndjson' = ndjson
      BY <1>3, <2>6, DatasetEndIs
    <3> QED BY <1>0, <3>1 DEF GapScope
  <2>7. CASE Unlink
    <3>1. /\ status' = status /\ manifest' = manifest
          /\ \A d \in Dataset : ndjson'[s][d] = ndjson[s][d] \/ ndjson'[s][d] = None
      BY <1>3, <2>7, UnlinkIs
    <3> QED BY <1>0, <3>1 DEF GapScope
  <2>8. CASE WriteManifest
    <3>1. /\ status' = status /\ ndjson' = ndjson /\ manifest'[s] = BuiltManifest
      BY <1>3, <2>8, WriteIs
    <3>2. Dataset \subseteq status[s]
      BY <1>3, <2>8 DEF Places, Busy, Collecting, WriteManifest
    <3> QED BY <1>3, <2>8, <3>1, <3>2, BuiltIs DEF GapScope
  <2>9. CASE RebuildIndex \/ Die
    BY <1>0, <2>9 DEF RebuildIndex, Die, GapScope
  <2>10. CASE UNCHANGED vars
    BY <1>0, <2>10 DEF vars, GapScope
  <2>11. CASE RunFresh \/ RunResume \/ RunNamed \/ RetryGaps
    BY <1>3, <2>11, BeginIs
  <2> QED BY <2>1, <2>2, <2>3, <2>4, <2>5, <2>6, <2>7, <2>8, <2>9, <2>10, <2>11 DEF Next
<1>4. RetryBase'
  BY <1>0, RetryBaseStep
<1> QED BY <1>1, <1>3, <1>4 DEF RetryScope, RetryBase, GapScope

\* Without a retry, a snapshot still being fetched has neither a manifest nor Parquet files.
KeptAt(s) ==
    /\ manifest[s] # None => Whole(s)
    /\ \A d \in Dataset : parquet[s][d] # None =>
          /\ Whole(s)
          /\ ndjson[s][d] # None => ndjson[s][d] = parquet[s][d]
LEMMA StillFetching ==
    ASSUME Shapes, Places, Entered, KeptAt(snap)
    PROVE  manifest[snap] = None /\ \A d \in Dataset : parquet[snap][d] = None
<1>1. Current \in Dataset /\ Current \notin status[snap]
  BY EnteredIs
<1> QED BY <1>1 DEF KeptAt, Whole

LEMMA KeptStep ==
    ASSUME Shapes, Places, Unmade, RetryScope, Kept, [Next]_vars PROVE Kept'
<1> USE DEF checkpoint, output, published, memory, history
<1>0. \A s \in Snapshot \ retried : KeptAt(s)
  BY DEF Kept, KeptAt
<1>1. retried \subseteq retried'
  BY NotedAtBegin
<1>2. ASSUME NEW s \in Snapshot \ retried, s # snap \/ pc = "idle" PROVE KeptAt(s)'
  <2>1. /\ manifest'[s] = manifest[s] /\ status'[s] = status[s]
        /\ \A d \in Dataset : ndjson'[s][d] = ndjson[s][d] /\ parquet'[s][d] = parquet[s][d]
    BY <1>2, OthersKept
  <2> QED BY <1>0, <2>1 DEF KeptAt, Whole
<1>3. ASSUME NEW s \in Snapshot \ retried, s = snap, pc # "idle" PROVE KeptAt(s)'
  <2>0. base = None /\ KeptAt(s)
    BY <1>0, <1>3 DEF RetryScope
  <2>1. CASE SkipDataset \/ StartFinalize \/ ConvertFails \/ FetchGap
    BY <2>0, <2>1 DEF SkipDataset, StartFinalize, ConvertFails, FetchGap, KeptAt, Whole
  <2>2. CASE ResetDataset
    BY <2>0, <2>2 DEF ResetDataset
  <2>3. CASE OpenFile
    <3>1. Entered /\ manifest' = manifest /\ parquet' = parquet
      BY <2>3, OpenIs
    <3> QED BY <1>3, <2>0, <3>1, StillFetching DEF KeptAt
  <2>4. CASE FetchRecord
    <3>1. Entered /\ manifest' = manifest /\ parquet' = parquet
      BY <2>4, RecordIs
    <3> QED BY <1>3, <2>0, <3>1, StillFetching DEF KeptAt
  <2>5. CASE ConnectionFails \/ EndDataset
    <3>1. Entered /\ manifest' = manifest /\ parquet' = parquet
      BY <2>5, DatasetEndIs
    <3> QED BY <1>3, <2>0, <3>1, StillFetching DEF KeptAt
  <2>6. CASE Convert
    <3>1. Whole(s)
      BY <1>3, <2>6 DEF Places, Busy, Collecting, Convert, Whole
    <3>2. /\ ndjson' = ndjson /\ manifest' = manifest /\ status' = status
          /\ \A d \in Dataset : parquet'[s][d] = parquet[s][d] \/ parquet'[s][d] = ndjson[s][d]
      BY <1>3, <2>6, ConvertIs
    <3> QED BY <2>0, <3>1, <3>2 DEF KeptAt, Whole
  <2>7. CASE Unlink
    <3>1. /\ parquet' = parquet /\ status' = status /\ manifest' = manifest
          /\ \A d \in Dataset : ndjson'[s][d] = ndjson[s][d] \/ ndjson'[s][d] = None
      BY <1>3, <2>7, UnlinkIs
    <3> QED BY <2>0, <3>1 DEF KeptAt, Whole
  <2>8. CASE WriteManifest
    <3>1. Whole(s)
      BY <1>3, <2>8 DEF Places, Busy, Collecting, WriteManifest, Whole
    <3>2. ndjson' = ndjson /\ parquet' = parquet /\ status' = status
      BY <2>8, WriteIs
    <3> QED BY <2>0, <3>1, <3>2 DEF KeptAt, Whole
  <2>9. CASE RebuildIndex \/ Die
    BY <2>0, <2>9 DEF RebuildIndex, Die, KeptAt, Whole
  <2>10. CASE UNCHANGED vars
    BY <2>0, <2>10 DEF vars, KeptAt, Whole
  <2>11. CASE RunFresh \/ RunResume \/ RunNamed \/ RetryGaps
    BY <1>3, <2>11, BeginIs
  <2> QED BY <2>1, <2>2, <2>3, <2>4, <2>5, <2>6, <2>7, <2>8, <2>9, <2>10, <2>11 DEF Next
<1>4. ASSUME pc' = "unlink" PROVE parquet'[snap'][NextFile'] = ndjson'[snap'][NextFile']
  <2>1. CASE Convert
    BY <2>1, ConvertIs
  <2>2. CASE UNCHANGED vars
    BY <1>4, <2>2 DEF vars, Kept, NextFile
  <2>3. CASE RunFresh \/ RunResume \/ RunNamed \/ RetryGaps
    BY <1>4, <2>3, BeginIs
  <2>4. CASE SkipDataset \/ ConvertFails \/ Unlink \/ ResetDataset \/ StartFinalize
                \/ WriteManifest
    BY <1>4, <2>4 DEF SkipDataset, ConvertFails, Unlink, ResetDataset, StartFinalize,
                      WriteManifest
  <2>5. CASE OpenFile \/ FetchRecord \/ FetchGap
    <3>1. Entered /\ pc' = pc
      BY <2>5, OpenIs, RecordIs, GapIs
    <3> QED BY <1>4, <3>1 DEF Entered
  <2>6. CASE ConnectionFails \/ EndDataset
    BY <1>4, <2>6, DatasetEndIs
  <2>7. CASE RebuildIndex \/ Die
    BY <1>4, <2>7, ForgetIs DEF RebuildIndex, Die
  <2> QED BY <2>1, <2>2, <2>3, <2>4, <2>5, <2>6, <2>7 DEF Next
<1> QED BY <1>1, <1>2, <1>3, <1>4 DEF Kept, KeptAt

\* Converting a file and removing it moves the lines from one to the other.
LEMMA ConvertKeeps ==
    ASSUME Shapes, Places, Kept, Convert \/ Unlink, NEW s \in Snapshot \ retried,
           NEW d \in Dataset
    PROVE  /\ \A u \in Repo : Stored(s, d, u)' <=> Stored(s, d, u)
           /\ Latest(s, d)' = Latest(s, d)
<1> USE DEF checkpoint, output, published, memory, history
<1>1. CASE Convert
  <2>1. \/ ndjson'[s][d] = ndjson[s][d] /\ parquet'[s][d] = parquet[s][d]
        \/ /\ ndjson'[s][d] = ndjson[s][d] /\ parquet'[s][d] = ndjson[s][d]
           /\ ndjson[s][d] # None
    BY <1>1, ConvertIs
  <2>2. ndjson[s][d] # None /\ parquet[s][d] # None => ndjson[s][d] = parquet[s][d]
    BY DEF Kept
  <2> QED BY <2>1, <2>2 DEF Stored, Holds, Latest
<1>2. CASE Unlink
  <2>1. \/ ndjson'[s][d] = ndjson[s][d] /\ parquet'[s][d] = parquet[s][d]
        \/ /\ ndjson'[s][d] = None /\ parquet'[s][d] = ndjson[s][d]
           /\ parquet[s][d] = ndjson[s][d] /\ ndjson[s][d] # None
    BY <1>2, UnlinkIs DEF Kept
  <2> QED BY <2>1 DEF Stored, Holds, Latest
<1> QED BY <1>1, <1>2

AccountedAt(s) ==
    /\ status[s] # {} => Repositories \in status[s]
    /\ \A d \in Dataset \ {Repositories}, u \in Repo :
          /\ u \in cursors[s][d] => Noted(s, d, u)
          /\ d \in status[s] /\ Stored(s, Repositories, u) => Noted(s, d, u)

\* What keeps lines, gaps and cursors keeps the account.
LEMMA AccountedKept ==
    ASSUME NEW s \in Snapshot, AccountedAt(s), status'[s] = status[s],
           ledger[s] \subseteq ledger'[s],
           \A d \in Dataset : cursors'[s][d] = cursors[s][d],
           \A d \in Dataset, u \in Repo : Stored(s, d, u)' <=> Stored(s, d, u)
    PROVE  AccountedAt(s)'
<1>1. Repositories \in Dataset
  BY OrderFacts
<1>2. \A d \in Dataset, u \in Repo : Noted(s, d, u) => Noted(s, d, u)'
  BY DEF Noted
<1> QED BY <1>1, <1>2 DEF AccountedAt

LEMMA AccountedStep ==
    ASSUME Shapes, Places, Unmade, RetryScope, Kept, Accounted, [Next]_vars PROVE Accounted'
<1> USE DEF checkpoint, output, published, memory, history
<1>0. (\A s \in Snapshot \ retried : AccountedAt(s) /\ KeptAt(s)) /\ Repositories \in Dataset
  BY OrderFacts DEF Accounted, AccountedAt, Kept, KeptAt
<1>1. retried \subseteq retried'
  BY NotedAtBegin
<1>2. ASSUME NEW s \in Snapshot \ retried, s # snap \/ pc = "idle" PROVE AccountedAt(s)'
  <2>1. /\ ledger'[s] = ledger[s] /\ status'[s] = status[s]
        /\ \A d \in Dataset : /\ ndjson'[s][d] = ndjson[s][d] /\ parquet'[s][d] = parquet[s][d]
                              /\ cursors'[s][d] = cursors[s][d]
    BY <1>2, OthersKept
  <2>2. \A d \in Dataset, u \in Repo : Stored(s, d, u)' <=> Stored(s, d, u)
    BY <2>1 DEF Stored
  <2> QED BY <1>0, <2>1, <2>2, AccountedKept
<1>3. ASSUME NEW s \in Snapshot \ retried, s = snap, pc # "idle" PROVE AccountedAt(s)'
  <2>0. base = None /\ AccountedAt(s) /\ KeptAt(s)
    BY <1>0, <1>3 DEF RetryScope
  <2>a. ASSUME Entered
        PROVE  /\ \A d \in Dataset : parquet[s][d] = None
               /\ Current # Repositories => Repositories \in status[s]
               /\ Current = Repositories => status[s] = {}
    <3>1. \A d \in Dataset : parquet[s][d] = None
      BY <1>3, <2>0, <2>a, StillFetching
    <3>2. /\ Repositories \in plan => Current = Repositories
          /\ Current \notin status[s] /\ Dataset \subseteq status[s] \cup plan
      BY <1>3, <2>0, <2>a, EnteredIs DEF Places
    <3> QED BY <1>0, <2>0, <3>1, <3>2 DEF AccountedAt
  <2>1. CASE SkipDataset \/ StartFinalize \/ ConvertFails \/ WriteManifest \/ RebuildIndex \/ Die
             \/ UNCHANGED vars
    <3>1. UNCHANGED <<checkpoint, output>>
      BY <2>1 DEF vars, SkipDataset, StartFinalize, ConvertFails, WriteManifest, RebuildIndex, Die
    <3>2. \A d \in Dataset, u \in Repo : Stored(s, d, u)' <=> Stored(s, d, u)
      BY <3>1 DEF Stored
    <3> QED BY <2>0, <3>1, <3>2, AccountedKept
  <2>2. CASE ResetDataset
    BY <2>0, <2>2 DEF ResetDataset
  <2>3. CASE OpenFile
    <3>1. /\ Entered /\ UNCHANGED <<checkpoint, parquet>>
          /\ \A d \in Dataset : \/ ndjson'[s][d] = ndjson[s][d]
                                \/ ndjson[s][d] = None /\ ndjson'[s][d] = [u \in Repo |-> 0]
      BY <1>3, <2>3, OpenIs
    <3>2. \A d \in Dataset, u \in Repo : Stored(s, d, u)' <=> Stored(s, d, u)
      BY <3>1 DEF Stored, Holds
    <3> QED BY <2>0, <3>1, <3>2, AccountedKept
  <2>4. CASE FetchRecord
    <3>1. PICK u \in Repo :
             /\ Entered /\ UNCHANGED <<status, ledger, parquet>>
             /\ ndjson'[s][Current] = Add(ndjson[s][Current], u)
             /\ cursors'[s][Current] = cursors[s][Current] \cup {u}
             /\ \A d \in Dataset : d # Current
                  => ndjson'[s][d] = ndjson[s][d] /\ cursors'[s][d] = cursors[s][d]
      BY <1>3, <2>4, RecordIs
    <3>2. PICK c \in Dataset : c = Current
      BY <3>1, EnteredIs
    <3>3. ndjson[s][c] \in Content
      BY DEF Shapes
    <3>4. /\ Holds(ndjson'[s][c], u)
          /\ \A v \in Repo : Holds(ndjson[s][c], v) => Holds(ndjson'[s][c], v)
      BY <3>1, <3>2, <3>3, AddIs
    <3>5. /\ Stored(s, c, u)'
          /\ \A d \in Dataset, v \in Repo : Stored(s, d, v) => Stored(s, d, v)'
      BY <3>1, <3>2, <3>4 DEF Stored
    <3>6. /\ c # Repositories =>
             \A v \in Repo : Stored(s, Repositories, v)' => Stored(s, Repositories, v)
          /\ c = Repositories => status[s] = {}
      BY <1>0, <2>a, <3>1, <3>2 DEF Stored
    <3>7. \A d \in Dataset, v \in Repo : Noted(s, d, v) => Noted(s, d, v)'
      BY <3>1, <3>5 DEF Noted
    <3>8. Noted(s, c, u)'
      BY <3>5 DEF Noted
    <3>9. ASSUME NEW d \in Dataset \ {Repositories}, NEW v \in Repo, v \in cursors'[s][d]
          PROVE  Noted(s, d, v)'
      <4>1. v \in cursors[s][d] \/ (d = c /\ v = u)
        BY <3>1, <3>2, <3>9
      <4> QED BY <2>0, <3>7, <3>8, <4>1 DEF AccountedAt
    <3>10. ASSUME NEW d \in Dataset \ {Repositories}, NEW v \in Repo,
                  d \in status'[s], Stored(s, Repositories, v)'
           PROVE  Noted(s, d, v)'
      BY <2>0, <3>1, <3>6, <3>7, <3>10 DEF AccountedAt
    <3> QED BY <2>0, <3>1, <3>9, <3>10 DEF AccountedAt
  <2>5. CASE FetchGap
    <3>1. PICK u \in Repo :
             /\ Entered /\ UNCHANGED <<status, ndjson, parquet>>
             /\ ledger'[s] = ledger[s] \cup {<<Current, u>>}
             /\ cursors'[s][Current] = cursors[s][Current] \cup {u}
             /\ \A d \in Dataset : d # Current => cursors'[s][d] = cursors[s][d]
      BY <1>3, <2>5, GapIs
    <3>2. \A d \in Dataset, v \in Repo : Stored(s, d, v)' <=> Stored(s, d, v)
      BY <3>1 DEF Stored
    <3>3. /\ \A d \in Dataset, v \in Repo : Noted(s, d, v) => Noted(s, d, v)'
          /\ <<Current, u>> \in ledger'[s]
      BY <3>1, <3>2 DEF Noted
    <3>4. ASSUME NEW d \in Dataset \ {Repositories}, NEW v \in Repo, v \in cursors'[s][d]
          PROVE  Noted(s, d, v)'
      <4>1. v \in cursors[s][d] \/ (d = Current /\ v = u)
        BY <3>1, <3>4
      <4>2. CASE d = Current /\ v = u
        BY <3>3, <4>2 DEF Noted
      <4>3. CASE v \in cursors[s][d]
        BY <2>0, <3>3, <4>3 DEF AccountedAt
      <4> QED BY <4>1, <4>2, <4>3
    <3> QED BY <1>0, <2>0, <3>1, <3>2, <3>3, <3>4 DEF AccountedAt
  <2>6. CASE ConnectionFails \/ EndDataset
    <3>1. /\ Entered /\ UNCHANGED <<cursors, ndjson, parquet>>
          /\ status'[s] = status[s] \cup {Current} /\ ledger[s] \subseteq ledger'[s]
          /\ Current = Repositories \/ Unfetched = {}
      BY <1>3, <2>6, DatasetEndIs
    <3>2. \A d \in Dataset, v \in Repo : /\ Stored(s, d, v)' <=> Stored(s, d, v)
                                         /\ Noted(s, d, v) => Noted(s, d, v)'
      BY <3>1 DEF Stored, Noted
    <3>3. CASE Current = Repositories
      <4>1. status'[s] = {Repositories}
        BY <2>a, <3>1, <3>3
      <4> QED BY <2>0, <3>1, <3>2, <4>1 DEF AccountedAt
    <3>4. CASE Current # Repositories
      <4>1. {v \in Repo : Holds(ndjson[s][Repositories], v)} \subseteq cursors[s][Current]
        BY <1>3, <2>0, <3>1, <3>4 DEF Unfetched, Units
      <4>2. \A v \in Repo : Stored(s, Repositories, v) => v \in cursors[s][Current]
        BY <1>0, <2>a, <3>1, <4>1 DEF Stored, Holds
      <4>3. Current \in Dataset
        BY <3>1, EnteredIs
      <4> QED BY <1>0, <2>0, <2>a, <3>1, <3>2, <3>4, <4>2, <4>3 DEF AccountedAt
    <3> QED BY <3>3, <3>4
  <2>7. CASE Convert \/ Unlink
    <3>1. \A d \in Dataset, u \in Repo : Stored(s, d, u)' <=> Stored(s, d, u)
      BY <2>7, ConvertKeeps
    <3>2. UNCHANGED checkpoint
      BY <2>7 DEF Convert, Unlink
    <3> QED BY <2>0, <3>1, <3>2, AccountedKept
  <2>8. CASE RunFresh \/ RunResume \/ RunNamed \/ RetryGaps
    BY <1>3, <2>8, BeginIs
  <2> QED BY <2>1, <2>2, <2>3, <2>4, <2>5, <2>6, <2>7, <2>8 DEF Next
<1> QED BY <1>1, <1>2, <1>3 DEF Accounted, AccountedAt

CountedAt(s) ==
    manifest[s] # None => \A d \in Dataset : manifest[s].counts[d] = Lines(Latest(s, d))
Returned ==
    /\ pc = "fetch" => \A d \in Dataset : parquet[snap][d] = None
    /\ \A d \in DOMAIN outcome : outcome[d].count = Lines(Latest(snap, d))

LEMMA LatestKept ==
    ASSUME NEW s \in Snapshot, NEW d \in Dataset, ndjson'[s][d] = ndjson[s][d],
           parquet'[s][d] = parquet[s][d]
    PROVE  Latest(s, d)' = Latest(s, d)
BY DEF Latest

\* A process that begins has returned nothing, and found no Parquet file if none is noted.
LEMMA OnlyBegins ==
    ASSUME Shapes, Places, [Next]_vars, pc = "idle", pc' # "idle"
    PROVE  RunFresh \/ RunResume \/ RunNamed \/ RetryGaps
BY OpenIs, EnteredIs, RecordIs, GapIs, DatasetEndIs
   DEF Next, SkipDataset, ResetDataset, StartFinalize, Convert, Unlink, ConvertFails,
       WriteManifest, RebuildIndex, Die, vars

LEMMA BeginsBare ==
    ASSUME Shapes, Places, Unmade, RunFresh \/ RunResume \/ RunNamed \/ RetryGaps
    PROVE  /\ DOMAIN outcome' = {}
           /\ Plain(snap)' => \A d \in Dataset : parquet'[snap'][d] = None
<1>1. DOMAIN outcome' = {} /\ parquet' = parquet /\ snap' \in Snapshot
  BY BeginIs DEF IdleMemory, output
<1>2. CASE snap' = made + 1
  <2>1. made \in Nat /\ snap' > made
    BY <1>2 DEF Shapes
  <2> QED BY <1>1, <2>1 DEF Unmade
<1>3. CASE Reopen(snap')
  BY <1>1, <1>3 DEF Reopen, Plain
<1> QED BY <1>1, <1>2, <1>3, BeginIs

\* The outcomes of the process at work count what is in the files.
LEMMA ReturnedStep ==
    ASSUME Shapes, Places, Unmade, RetryScope, Kept, pc # "idle", snap \notin retried,
           Returned, [Next]_vars, pc' # "idle"
    PROVE  snap' = snap /\ Returned'
<1> USE DEF checkpoint, output, published, memory, history
<1>0. base = None /\ KeptAt(snap) /\ snap \in Snapshot /\ DOMAIN outcome \subseteq Dataset
  BY BusyIs DEF RetryScope, Kept, KeptAt, Shapes
<1>a. ASSUME Entered
      PROVE  /\ \A d \in Dataset : parquet[snap][d] = None
             /\ Current \in Dataset /\ Current \notin DOMAIN outcome
  BY <1>0, <1>a, StillFetching, EnteredIs DEF Places
<1>b. ASSUME Current \in Dataset, NEW gaps, Return(gaps), UNCHANGED <<output, snap>>,
             \A d \in Dataset : parquet[snap][d] = None
      PROVE  Returned'
  <2>1. PICK c \in Dataset : c = Current
    BY <1>b
  <2>2. /\ DOMAIN outcome' = DOMAIN outcome \cup {c}
        /\ outcome'[c].count = Lines(ndjson[snap][c])
        /\ \A d \in DOMAIN outcome \ {c} : outcome'[d] = outcome[d]
    <3>1. /\ DOMAIN outcome' = DOMAIN outcome \cup {Current}
          /\ outcome'[Current] = [count |-> Lines(ndjson[snap][Current]), gaps |-> gaps]
          /\ \A d \in DOMAIN outcome \ {Current} : outcome'[d] = outcome[d]
      BY <1>b, ReturnIs
    <3> QED BY <2>1, <3>1
  <2>3. \A d \in Dataset : Latest(snap, d)' = Latest(snap, d)
    BY <1>b DEF Latest
  <2>4. Latest(snap, c) = ndjson[snap][c]
    BY <1>b DEF Latest
  <2>5. ASSUME NEW d \in DOMAIN outcome'
        PROVE  outcome'[d].count = Lines(Latest(snap, d))
    BY <2>2, <2>4 DEF Returned
  <2>6. \A d \in DOMAIN outcome' : d \in Dataset
    BY <1>0, <2>2
  <2> QED BY <1>b, <2>3, <2>5, <2>6 DEF Returned
<1>1. CASE SkipDataset
  <2>1. /\ Current \in Dataset /\ Return(GapsOf(ledger[snap], Current))
        /\ UNCHANGED <<output, snap>> /\ pc = "fetch"
    BY <1>1, SkipIs
  <2> QED BY <1>b, <2>1 DEF Returned
<1>2. CASE ConnectionFails \/ EndDataset
  <2>1. PICK gaps : Return(gaps)
    BY <1>2, DatasetEndIs
  <2>2. Entered /\ UNCHANGED <<output, snap>>
    BY <1>2, DatasetEndIs
  <2> QED BY <1>a, <1>b, <2>1, <2>2
<1>3. CASE OpenFile
  <2>1. /\ Entered /\ UNCHANGED <<outcome, snap, parquet, pc>>
        /\ \A d \in Dataset : d # Current => ndjson'[snap][d] = ndjson[snap][d]
    BY <1>0, <1>3, OpenIs
  <2>2. \A d \in DOMAIN outcome : Latest(snap, d)' = Latest(snap, d)
    BY <1>0, <1>a, <2>1, LatestKept
  <2> QED BY <2>1, <2>2 DEF Returned
<1>4. CASE FetchRecord
  <2>1. /\ Entered /\ UNCHANGED <<outcome, snap, parquet, pc>>
        /\ \A d \in Dataset : d # Current => ndjson'[snap][d] = ndjson[snap][d]
    BY <1>0, <1>4, RecordIs
  <2>2. \A d \in DOMAIN outcome : Latest(snap, d)' = Latest(snap, d)
    BY <1>0, <1>a, <2>1, LatestKept
  <2> QED BY <2>1, <2>2 DEF Returned
<1>5. CASE FetchGap
  <2>1. UNCHANGED <<outcome, snap, output, pc>>
    BY <1>5, GapIs
  <2> QED BY <2>1 DEF Returned, Latest
<1>6. CASE ConvertFails \/ StartFinalize \/ WriteManifest \/ UNCHANGED vars
  <2>1. UNCHANGED <<outcome, snap, output>> /\ (pc' = "fetch" => pc = "fetch")
    BY <1>6 DEF ConvertFails, StartFinalize, WriteManifest, vars
  <2> QED BY <2>1 DEF Returned, Latest
<1>7. CASE Convert \/ Unlink
  <2>1. UNCHANGED <<outcome, snap>> /\ pc' # "fetch"
    BY <1>7, ConvertIs, UnlinkIs
  <2>2. PICK s \in Snapshot \ retried : s = snap
    BY <1>0
  <2>3. \A d \in Dataset : Latest(s, d)' = Latest(s, d)
    BY <1>7, ConvertKeeps
  <2>4. \A d \in DOMAIN outcome : Latest(snap, d)' = Latest(snap, d)
    BY <1>0, <2>1, <2>2, <2>3 DEF Latest
  <2> QED BY <2>1, <2>4 DEF Returned
<1>8. CASE ResetDataset
  BY <1>0, <1>8 DEF ResetDataset
<1>9. CASE RebuildIndex \/ Die
  BY <1>9, ForgetIs DEF RebuildIndex, Die
<1>10. CASE RunFresh \/ RunResume \/ RunNamed \/ RetryGaps
  BY <1>10, BeginIs
<1> QED BY <1>1, <1>2, <1>3, <1>4, <1>5, <1>6, <1>7, <1>8, <1>9, <1>10 DEF Next

\* The counts of a manifest stay those of the files.
LEMMA CountedAtStep ==
    ASSUME Shapes, Places, Unmade, RetryScope, Kept, pc # "idle", snap \notin retried,
           Returned, CountedAt(snap), [Next]_vars, NEW s \in Snapshot, s = snap
    PROVE  CountedAt(s)'
<1> USE DEF checkpoint, output, published, memory, history
<1>0. base = None /\ KeptAt(snap) /\ snap \in Snapshot
  BY BusyIs DEF RetryScope, Kept, KeptAt
<1>1. CASE SkipDataset \/ FetchGap \/ StartFinalize \/ ConvertFails \/ RebuildIndex \/ Die
           \/ UNCHANGED vars
  <2>1. UNCHANGED <<manifest, output>>
    BY <1>1 DEF SkipDataset, FetchGap, StartFinalize, ConvertFails, RebuildIndex, Die, vars
  <2> QED BY <2>1 DEF CountedAt, Latest
<1>2. CASE OpenFile \/ FetchRecord \/ ConnectionFails \/ EndDataset
  <2>1. Entered /\ manifest' = manifest
    BY <1>2, OpenIs, RecordIs, DatasetEndIs
  <2> QED BY <1>0, <2>1, StillFetching DEF CountedAt
<1>3. CASE Convert \/ Unlink
  <2>1. manifest' = manifest
    BY <1>3, ConvertIs, UnlinkIs
  <2>2. \A d \in Dataset : Latest(s, d)' = Latest(s, d)
    BY <1>3, ConvertKeeps
  <2> QED BY <2>1, <2>2 DEF CountedAt
<1>4. CASE WriteManifest
  <2>1. manifest'[s] = BuiltManifest /\ UNCHANGED output
    BY <1>4, WriteIs
  <2>2. Dataset \subseteq DOMAIN outcome
    BY <1>0, <1>4 DEF Places, Busy, Collecting, WriteManifest
  <2>3. ASSUME NEW d \in Dataset PROVE BuiltManifest.counts[d] = Lines(Latest(s, d))
    BY <2>2, BuiltParts DEF Reported, Returned
  <2>4. \A d \in Dataset : Latest(s, d)' = Latest(s, d)
    BY <2>1, LatestKept
  <2> QED BY <2>1, <2>3, <2>4 DEF CountedAt
<1>5. CASE ResetDataset
  BY <1>0, <1>5 DEF ResetDataset
<1>6. CASE RunFresh \/ RunResume \/ RunNamed \/ RetryGaps
  BY <1>6, BeginIs
<1> QED BY <1>1, <1>2, <1>3, <1>4, <1>5, <1>6 DEF Next

LEMMA CountedStep ==
    ASSUME Shapes, Places, Unmade, RetryScope, Kept, Counted, [Next]_vars PROVE Counted'
<1> USE DEF checkpoint, output, published, memory, history
<1>0. /\ \A s \in Snapshot : Plain(s) => CountedAt(s)
      /\ pc # "idle" /\ Plain(snap) => Returned
  BY DEF Counted, CountedAt, Returned, Busy
<1>1. retried \subseteq retried' /\ reopened \subseteq reopened'
  BY NotedAtBegin DEF Reopen
<1>2. ASSUME NEW s \in Snapshot, Plain(s)' PROVE Plain(s) /\ CountedAt(s)'
  <2>1. Plain(s)
    BY <1>1, <1>2 DEF Plain
  <2>2. CASE s # snap \/ pc = "idle"
    <3>1. /\ manifest'[s] = manifest[s]
          /\ \A d \in Dataset : ndjson'[s][d] = ndjson[s][d] /\ parquet'[s][d] = parquet[s][d]
      BY <2>2, OthersKept
    <3>2. \A d \in Dataset : Latest(s, d)' = Latest(s, d)
      BY <3>1, LatestKept
    <3> QED BY <1>0, <2>1, <3>1, <3>2 DEF CountedAt
  <2>3. CASE s = snap /\ pc # "idle"
    <3>1. CountedAt(snap) /\ Returned /\ snap \notin retried
      BY <1>0, <2>1, <2>3 DEF Plain
    <3> QED BY <2>1, <2>3, <3>1, CountedAtStep
  <2> QED BY <2>1, <2>2, <2>3
<1>3. ASSUME pc' # "idle", Plain(snap)' PROVE Returned'
  <2>1. CASE pc # "idle"
    <3>1. snap' = snap
      BY <1>3, <2>1, NotedAtBegin
    <3>2. Returned /\ snap \notin retried
      BY <1>0, <1>1, <1>3, <2>1, <3>1 DEF Plain
    <3> QED BY <1>3, <2>1, <3>2, ReturnedStep
  <2>2. CASE pc = "idle"
    <3>1. /\ RunFresh \/ RunResume \/ RunNamed \/ RetryGaps
          /\ DOMAIN outcome' = {} /\ \A d \in Dataset : parquet'[snap'][d] = None
      BY <1>3, <2>2, OnlyBegins, BeginsBare
    <3> QED BY <3>1 DEF Returned
  <2> QED BY <2>1, <2>2
<1> QED BY <1>2, <1>3 DEF Counted, CountedAt, Returned, Busy

\* What the first process on a snapshot finds there while it fetches, and while it converts.
FirstFetch ==
    /\ status[snap] \cap plan = {}
    /\ Repositories \in plan => plan = Dataset
    /\ \A d \in Dataset, u \in Repo :
          ndjson[snap][d] # None /\ ndjson[snap][d][u] # 0
              => ndjson[snap][d][u] = 1 /\ u \in cursors[snap][d]
    /\ \A d \in plan :
          IF d = Current
          THEN \A u \in cursors[snap][d] : Holds(ndjson[snap][d], u) \/ <<d, u>> \in found
          ELSE cursors[snap][d] = {}
    /\ \A d \in Dataset : Clean(d) => Full(ndjson[snap][d])
FirstConvert ==
    \A d \in Dataset : Clean(d) =>
        IF d \in files THEN Full(ndjson[snap][d])
        ELSE Full(parquet[snap][d]) \/ <<d, NoResource>> \in failed

\* A dataset that ends without a gap is full.
LEMMA EndsFull ==
    ASSUME Shapes, Places, Entered, base = None, FirstFetch, Unfetched = {}, found = {},
           Current # Repositories => NoGaps(Repositories)
    PROVE  Full(ndjson[snap][Current])
<1>1. PICK c \in Dataset : c = Current
  BY EnteredIs
<1>2. snap \in Snapshot /\ c \in plan /\ Repositories \in Dataset
  BY <1>1, EnteredIs, OrderFacts
<1>3. Repo \subseteq cursors[snap][c]
  <2>1. CASE c = Repositories
    BY <1>1, <2>1 DEF Unfetched, Units
  <2>2. CASE c # Repositories
    <3>1. Full(ndjson[snap][Repositories])
      BY <1>1, <1>2, <2>2 DEF Clean, FirstFetch
    <3>2. \A u \in Repo : Holds(ndjson[snap][Repositories], u)
      BY <3>1 DEF Full, Holds
    <3> QED BY <1>1, <2>2, <3>2 DEF Unfetched, Units
  <2> QED BY <2>1, <2>2
<1>4. ASSUME NEW u \in Repo PROVE ndjson[snap][c] # None /\ ndjson[snap][c][u] = 1
  <2>1. Holds(ndjson[snap][c], u)
    BY <1>1, <1>2, <1>3 DEF FirstFetch
  <2>2. ndjson[snap][c] # None /\ ndjson[snap][c][u] # 0
    BY <2>1 DEF Holds
  <2> QED BY <2>2 DEF FirstFetch
<1> QED BY <1>1, <1>4 DEF Full

LEMMA FirstFetchStep ==
    ASSUME Shapes, Places, base = None, pc = "fetch", FirstFetch, [Next]_vars, pc' = "fetch"
    PROVE  FirstFetch'
<1> USE DEF checkpoint, output, published, memory, history
<1>0. snap \in Snapshot /\ Repositories \in Dataset
  BY BusyIs, OrderFacts
<1>1. CASE SkipDataset
  BY <1>1, SkipIs DEF FirstFetch
<1>2. CASE OpenFile
  <2>1. PICK c \in Dataset : c = Current /\ c = Repositories
    BY <1>2, OpenIs, EnteredIs
  <2>2. /\ UNCHANGED <<checkpoint, snap, memory>> /\ Current' = c /\ c \in plan
        /\ ndjson[snap][c] = None
        /\ ndjson'[snap][c] = [u \in Repo |-> 0]
        /\ \A d \in Dataset : d # c => ndjson'[snap][d] = ndjson[snap][d]
    BY <1>0, <1>2, <2>1, OpenIs, EnteredIs
  <2>3. ASSUME NEW d \in Dataset, NEW u \in Repo, ndjson'[snap][d] # None, ndjson'[snap][d][u] # 0
        PROVE  ndjson'[snap][d][u] = 1 /\ u \in cursors[snap][d]
    BY <2>2, <2>3 DEF FirstFetch
  <2>4. ASSUME NEW d \in plan
        PROVE  IF d = c
               THEN \A u \in cursors[snap][d] : Holds(ndjson'[snap][d], u) \/ <<d, u>> \in found
               ELSE cursors[snap][d] = {}
    BY <2>1, <2>2 DEF FirstFetch, Holds
  <2>5. \A d \in Dataset : ~Clean(d)
    BY <2>1, <2>2 DEF Places, Clean, NoGaps
  <2>6. /\ status[snap] \cap plan = {}
        /\ Repositories \in plan => plan = Dataset
    BY DEF FirstFetch
  <2> QED BY <2>2, <2>3, <2>4, <2>5, <2>6 DEF FirstFetch, Clean, NoGaps
<1>3. CASE FetchRecord
  <2>1. PICK c \in Dataset : c = Current /\ c \in plan
    BY <1>3, RecordIs, EnteredIs
  <2>2. PICK u \in Repo :
           /\ UNCHANGED <<status, snap, memory>> /\ Current' = c
           /\ u \notin cursors[snap][c]
           /\ ndjson'[snap][c] = Add(ndjson[snap][c], u)
           /\ cursors'[snap][c] = cursors[snap][c] \cup {u}
           /\ \A d \in Dataset : d # c
                => ndjson'[snap][d] = ndjson[snap][d] /\ cursors'[snap][d] = cursors[snap][d]
    BY <1>0, <1>3, <2>1, RecordIs
  <2>3. ndjson[snap][c] \in Content
    BY <1>0 DEF Shapes
  <2>4. /\ \A v \in Repo : ndjson'[snap][c][v] =
              (IF ndjson[snap][c] = None THEN 0 ELSE ndjson[snap][c][v])
                  + (IF v = u THEN 1 ELSE 0)
        /\ Holds(ndjson'[snap][c], u)
        /\ \A v \in Repo : Holds(ndjson[snap][c], v) => Holds(ndjson'[snap][c], v)
    BY <2>2, <2>3, AddIs
  <2>5. ASSUME NEW v \in Repo, ndjson'[snap][c][v] # 0
        PROVE  ndjson'[snap][c][v] = 1 /\ v \in cursors'[snap][c]
    <3>1. CASE v = u
      <4>1. ndjson[snap][c] = None \/ ndjson[snap][c][v] = 0
        BY <2>2, <3>1 DEF FirstFetch
      <4> QED BY <2>2, <2>4, <3>1, <4>1
    <3>2. CASE v # u
      <4>1. ndjson[snap][c] # None => ndjson[snap][c][v] \in Nat
        BY <2>3 DEF Content
      <4>2. ndjson[snap][c] # None /\ ndjson'[snap][c][v] = ndjson[snap][c][v]
        BY <2>4, <2>5, <3>2, <4>1
      <4> QED BY <2>2, <2>5, <4>2 DEF FirstFetch
    <3> QED BY <3>1, <3>2
  <2>6. ASSUME NEW d \in Dataset, NEW v \in Repo, ndjson'[snap][d] # None, ndjson'[snap][d][v] # 0
        PROVE  ndjson'[snap][d][v] = 1 /\ v \in cursors'[snap][d]
    BY <2>2, <2>5, <2>6 DEF FirstFetch
  <2>7. ASSUME NEW d \in plan
        PROVE  IF d = c
               THEN \A v \in cursors'[snap][d] : Holds(ndjson'[snap][d], v) \/ <<d, v>> \in found
               ELSE cursors'[snap][d] = {}
    <3>1. d \in Dataset
      BY DEF Shapes
    <3>2. CASE d = c
      <4>1. ASSUME NEW v \in cursors'[snap][c]
            PROVE  Holds(ndjson'[snap][c], v) \/ <<c, v>> \in found
        <5>1. v = u \/ v \in cursors[snap][c]
          BY <2>2
        <5>2. v \in Repo
          BY <1>0, <5>1 DEF Shapes
        <5>3. v \in cursors[snap][c] => Holds(ndjson[snap][c], v) \/ <<c, v>> \in found
          BY <2>1 DEF FirstFetch
        <5> QED BY <2>4, <5>1, <5>2, <5>3
      <4> QED BY <3>2, <4>1
    <3>3. CASE d # c
      BY <2>1, <2>2, <3>1, <3>3 DEF FirstFetch
    <3> QED BY <3>2, <3>3
  <2>8. ASSUME NEW d \in Dataset, Clean(d) PROVE Full(ndjson'[snap][d])
    <3>1. d # c
      BY <2>1, <2>8 DEF Places, Clean, NoGaps
    <3> QED BY <2>2, <2>8, <3>1 DEF FirstFetch
  <2>9. /\ status[snap] \cap plan = {}
        /\ Repositories \in plan => plan = Dataset
    BY DEF FirstFetch
  <2> QED BY <2>2, <2>6, <2>7, <2>8, <2>9 DEF FirstFetch, Clean, NoGaps

<1>4. CASE FetchGap
  <2>1. PICK c \in Dataset : c = Current /\ c \in plan
    BY <1>4, GapIs, EnteredIs
  <2>2. PICK u \in Repo :
           /\ UNCHANGED <<status, ndjson, snap, plan, outcome>> /\ Current' = c
           /\ found' = found \cup {<<c, u>>}
           /\ cursors'[snap][c] = cursors[snap][c] \cup {u}
           /\ \A d \in Dataset : d # c => cursors'[snap][d] = cursors[snap][d]
    BY <1>0, <1>4, <2>1, GapIs
  <2>3. ASSUME NEW d \in Dataset, NEW v \in Repo, ndjson[snap][d] # None, ndjson[snap][d][v] # 0
        PROVE  ndjson[snap][d][v] = 1 /\ v \in cursors'[snap][d]
    BY <2>2, <2>3 DEF FirstFetch
  <2>4. ASSUME NEW d \in plan
        PROVE  IF d = c
               THEN \A v \in cursors'[snap][d] : Holds(ndjson[snap][d], v) \/ <<d, v>> \in found'
               ELSE cursors'[snap][d] = {}
    <3>1. d \in Dataset
      BY DEF Shapes
    <3>2. CASE d = c
      BY <2>1, <2>2, <3>2 DEF FirstFetch
    <3>3. CASE d # c
      BY <2>1, <2>2, <3>1, <3>3 DEF FirstFetch
    <3> QED BY <3>2, <3>3
  <2>5. \A d \in Dataset : Clean(d) => Full(ndjson[snap][d])
    BY DEF FirstFetch
  <2>6. /\ status[snap] \cap plan = {}
        /\ Repositories \in plan => plan = Dataset
    BY DEF FirstFetch
  <2> QED BY <2>2, <2>3, <2>4, <2>5, <2>6 DEF FirstFetch, Clean, NoGaps
<1>5. CASE ConnectionFails \/ EndDataset
  <2>1. PICK c \in Dataset : c = Current /\ c \in plan
    BY <1>5, DatasetEndIs, EnteredIs
  <2>2. PICK gaps : /\ Return(gaps)
                    /\ \/ c = Repositories /\ gaps # {}
                       \/ Unfetched = {} /\ gaps = found
    BY <1>5, <2>1, DatasetEndIs
  <2>3. /\ Entered /\ UNCHANGED <<cursors, ndjson, snap>> /\ plan' = plan \ {c}
        /\ status'[snap] = status[snap] \cup {c}
        /\ Repositories \in plan => c = Repositories
    BY <1>0, <1>5, <2>1, DatasetEndIs, EnteredIs
  <2>4. /\ DOMAIN outcome' = DOMAIN outcome \cup {c} /\ c \notin DOMAIN outcome
        /\ outcome'[c].gaps = gaps
        /\ \A d \in DOMAIN outcome : outcome'[d] = outcome[d]
    <3>1. /\ DOMAIN outcome' = DOMAIN outcome \cup {Current}
          /\ outcome'[Current] = [count |-> Lines(ndjson[snap][Current]), gaps |-> gaps]
          /\ \A d \in DOMAIN outcome \ {Current} : outcome'[d] = outcome[d]
      BY <2>1, <2>2, ReturnIs
    <3>2. c \notin DOMAIN outcome
      BY <2>1 DEF Places
    <3> QED BY <2>1, <3>1, <3>2
  <2>5. status'[snap] \cap plan' = {} /\ Repositories \notin plan'
    BY <2>3 DEF FirstFetch
  <2>6. \A d \in plan' : cursors[snap][d] = {}
    BY <2>1, <2>3 DEF FirstFetch
  <2>7. \A d \in Dataset \ {c} : NoGaps(d)' <=> NoGaps(d)
    BY <2>4 DEF NoGaps
  <2>8. ASSUME NEW d \in Dataset, Clean(d)' PROVE Full(ndjson[snap][d])
    <3>1. NoGaps(d)' /\ NoGaps(Repositories)'
      BY <2>8 DEF Clean
    <3>2. CASE d = c
      <4>1. outcome'[c].gaps = {}
        BY <3>1, <3>2 DEF NoGaps
      <4>2. Unfetched = {} /\ found = {}
        BY <2>2, <2>4, <3>1, <3>2, <4>1 DEF NoGaps
      <4>3. c # Repositories => NoGaps(Repositories)
        BY <1>0, <2>7, <3>1
      <4> QED BY <2>1, <2>3, <3>2, <4>2, <4>3, EndsFull
    <3>3. CASE d # c
      <4>1. NoGaps(d)
        BY <2>7, <3>1, <3>3
      <4>2. c # Repositories
        BY <2>1, <4>1 DEF FirstFetch, Places, NoGaps
      <4>3. NoGaps(Repositories)
        BY <1>0, <2>7, <3>1, <4>2
      <4> QED BY <4>1, <4>3 DEF FirstFetch, Clean
    <3> QED BY <3>2, <3>3
  <2>9. \A d \in Dataset, u \in Repo :
           ndjson[snap][d] # None /\ ndjson[snap][d][u] # 0
               => ndjson[snap][d][u] = 1 /\ u \in cursors[snap][d]
    BY DEF FirstFetch
  <2>10. \A d \in plan' :
            IF d = Current'
            THEN \A u \in cursors'[snap'][d] : Holds(ndjson'[snap'][d], u) \/ <<d, u>> \in found'
            ELSE cursors'[snap'][d] = {}
    BY <2>3, <2>6
  <2>11. /\ status'[snap'] \cap plan' = {}
         /\ Repositories \in plan' => plan' = Dataset
         /\ \A d \in Dataset, u \in Repo :
               ndjson'[snap'][d] # None /\ ndjson'[snap'][d][u] # 0
                   => ndjson'[snap'][d][u] = 1 /\ u \in cursors'[snap'][d]
    BY <2>3, <2>5, <2>9
  <2>12. \A d \in Dataset : Clean(d)' => Full(ndjson[snap][d])'
    BY <2>3, <2>8 DEF Full
  <2> QED BY <2>10, <2>11, <2>12 DEF FirstFetch
<1>6. CASE UNCHANGED vars
  BY <1>6 DEF vars, FirstFetch, Clean, NoGaps, Full, Holds, Current
<1>7. CASE ResetDataset \/ StartFinalize \/ Convert \/ Unlink \/ ConvertFails \/ WriteManifest
  BY <1>7 DEF ResetDataset, StartFinalize, Convert, Unlink, ConvertFails, WriteManifest
<1>8. CASE RebuildIndex \/ Die
  BY <1>8, ForgetIs DEF RebuildIndex, Die
<1>9. CASE RunFresh \/ RunResume \/ RunNamed \/ RetryGaps
  BY <1>9, BeginIs
<1> QED BY <1>1, <1>2, <1>3, <1>4, <1>5, <1>6, <1>7, <1>8, <1>9 DEF Next

LEMMA FirstConvertStep ==
    ASSUME Shapes, Places, Kept, pc # "idle", base = None, [Next]_vars,
           pc = "fetch" => FirstFetch, Converting => FirstConvert,
           pc' \in {"convert", "unlink"}
    PROVE  FirstConvert'
<1> USE DEF checkpoint, output, published, memory, history
<1>0. snap \in Snapshot
  BY BusyIs
<1>1. CASE StartFinalize
  <2>1. /\ pc = "fetch" /\ UNCHANGED <<output, snap, outcome, failed>>
        /\ files' = {d \in Dataset : ndjson[snap][d] # None}
    BY <1>1 DEF StartFinalize
  <2>2. ASSUME NEW d \in Dataset, Clean(d)
        PROVE  Full(ndjson[snap][d]) /\ (d \notin files' => Full(parquet[snap][d]))
    BY <2>1, <2>2 DEF FirstFetch, Full
  <2> QED BY <2>1, <2>2 DEF FirstConvert, Clean, NoGaps, Full
<1>2. CASE Convert
  <2>1. PICK n \in files : n = NextFile
    BY <1>2, ConvertIs
  <2>2. /\ UNCHANGED <<ndjson, snap, outcome, failed, files>>
        /\ \A d \in Dataset : d # n => parquet'[snap][d] = parquet[snap][d]
    BY <1>0, <1>2, <2>1, ConvertIs
  <2>3. FirstConvert
    BY <1>2 DEF Convert, Converting
  <2> QED BY <2>1, <2>2, <2>3 DEF FirstConvert, Clean, NoGaps, Full
<1>3. CASE Unlink
  <2>1. PICK n \in files : n = NextFile
    BY <1>3, UnlinkIs
  <2>2. /\ UNCHANGED <<parquet, snap, outcome, failed>> /\ files' = files \ {n}
        /\ ndjson[snap][n] = parquet[snap][n]
        /\ \A d \in Dataset : d # n => ndjson'[snap][d] = ndjson[snap][d]
    BY <1>0, <1>3, <2>1, UnlinkIs DEF Kept
  <2>3. FirstConvert
    BY <1>3 DEF Unlink, Converting
  <2>4. ASSUME NEW d \in Dataset, Clean(d)
        PROVE  IF d \in files' THEN Full(ndjson'[snap][d])
               ELSE Full(parquet[snap][d]) \/ <<d, NoResource>> \in failed
    BY <2>1, <2>2, <2>3, <2>4 DEF FirstConvert
  <2> QED BY <2>2, <2>4 DEF FirstConvert, Clean, NoGaps, Full
<1>4. CASE ConvertFails
  <2>1. PICK n \in files : n = NextFile
    BY <1>4, ConvertFailsIs
  <2>2. /\ UNCHANGED <<output, snap, outcome>> /\ files' = files \ {n}
        /\ failed' = failed \cup {<<n, NoResource>>}
    BY <1>4, <2>1, ConvertFailsIs
  <2>3. FirstConvert
    BY <1>4, ConvertFailsIs DEF Converting
  <2>4. ASSUME NEW d \in Dataset, Clean(d)
        PROVE  IF d \in files' THEN Full(ndjson[snap][d])
               ELSE Full(parquet[snap][d]) \/ <<d, NoResource>> \in failed'
    BY <2>1, <2>2, <2>3, <2>4 DEF FirstConvert
  <2> QED BY <2>2, <2>4 DEF FirstConvert, Clean, NoGaps, Full
<1>5. CASE UNCHANGED vars
  <2>1. FirstConvert
    BY <1>5 DEF vars, Converting
  <2> QED BY <1>5, <2>1 DEF vars, FirstConvert, Clean, NoGaps, Full
<1>6. CASE SkipDataset \/ ResetDataset \/ WriteManifest
  BY <1>6 DEF SkipDataset, ResetDataset, WriteManifest
<1>7. CASE OpenFile \/ FetchRecord \/ FetchGap
  <2>1. Entered /\ pc' = pc
    BY <1>7, OpenIs, RecordIs, GapIs
  <2> QED BY <2>1 DEF Entered
<1>8. CASE ConnectionFails \/ EndDataset
  BY <1>8, DatasetEndIs
<1>9. CASE RebuildIndex \/ Die
  BY <1>9, ForgetIs DEF RebuildIndex, Die
<1>10. CASE RunFresh \/ RunResume \/ RunNamed \/ RetryGaps
  BY <1>10, BeginIs
<1> QED BY <1>1, <1>2, <1>3, <1>4, <1>5, <1>6, <1>7, <1>8, <1>9, <1>10 DEF Next

\* A snapshot that has just been made is empty.
LEMMA FirstFetchBegins ==
    ASSUME Shapes, Places, Unmade, RunFresh \/ RunResume \/ RunNamed \/ RetryGaps,
           snap' \notin again'
    PROVE  base' = None /\ manifest'[snap'] = None /\ FirstFetch'
<1> USE DEF checkpoint, output, published, memory, history
<1>1. /\ UNCHANGED <<checkpoint, output, manifest>> /\ snap' \in Snapshot /\ DOMAIN outcome' = {}
  BY BeginIs DEF IdleMemory
<1>2. snap' = made + 1 /\ plan' = Dataset /\ base' = None
  BY BeginIs DEF Reopen
<1>3. PICK s \in Snapshot : s = snap' /\ s > made
  BY <1>1, <1>2 DEF Shapes
<1>4. /\ manifest[s] = None /\ status[s] = {}
      /\ \A d \in Dataset : cursors[s][d] = {} /\ ndjson[s][d] = None
  BY <1>3 DEF Unmade
<1>5. status'[snap'] = {}
  BY <1>1, <1>3, <1>4
<1>6. \A d \in Dataset : cursors'[snap'][d] = {} /\ ndjson'[snap'][d] = None
  BY <1>1, <1>3, <1>4
<1>7. \A d \in Dataset : ~Clean(d)'
  BY <1>1 DEF Clean, NoGaps
<1>8. \A d \in plan' : cursors'[snap'][d] = {}
  BY <1>2, <1>6
<1>9. manifest'[snap'] = None
  BY <1>1, <1>3, <1>4
<1> QED BY <1>2, <1>5, <1>6, <1>7, <1>8, <1>9 DEF FirstFetch

LEMMA FirstProcessStep ==
    ASSUME Shapes, Places, Unmade, RetryScope, Kept, FirstProcess, [Next]_vars
    PROVE  FirstProcess'
<1> USE DEF checkpoint, output, published, memory, history
<1>0. pc # "idle" /\ snap \notin again =>
         /\ base = None
         /\ pc # "index" => manifest[snap] = None
         /\ pc = "fetch" => FirstFetch
         /\ Converting => FirstConvert
  BY DEF FirstProcess, Busy, FirstFetch, FirstConvert
<1>1. ASSUME pc' # "idle", snap' \notin again'
      PROVE  /\ base' = None
             /\ pc' # "index" => manifest'[snap'] = None
             /\ pc' = "fetch" => FirstFetch'
             /\ Converting' => FirstConvert'
  <2>1. CASE pc = "idle"
    <3>1. RunFresh \/ RunResume \/ RunNamed \/ RetryGaps
      BY <1>1, <2>1, OnlyBegins
    <3>2. pc' = "fetch"
      BY <3>1, BeginIs
    <3> QED BY <1>1, <3>1, <3>2, FirstFetchBegins DEF Converting
  <2>2. CASE pc # "idle"
    <3>1. snap' = snap /\ snap \notin again /\ snap \in Snapshot
      BY <1>1, <2>2, NotedAtBegin, BusyIs
    <3>2. base = None /\ (pc # "index" => manifest[snap] = None)
      BY <1>0, <2>2, <3>1
    <3>3. pc' = "fetch" => FirstFetch'
      <4>1. pc' = "fetch" => pc = "fetch"
        BY <2>2, <3>2, OpenIs, RecordIs, GapIs, DatasetEndIs, EnteredIs, BeginIs
           DEF Next, SkipDataset, ResetDataset, StartFinalize, Convert, Unlink, ConvertFails,
               WriteManifest, RebuildIndex, Die, Forget, vars, Places, Collecting
      <4> QED BY <1>0, <2>2, <3>1, <3>2, <4>1, FirstFetchStep
    <3>4. Converting' => FirstConvert'
      <4>1. Converting' => pc' \in {"convert", "unlink"}
        BY DEF Converting
      <4> QED BY <1>0, <2>2, <3>1, <3>2, <4>1, FirstConvertStep
    <3>5. /\ base' = None
          /\ pc' # "index" => manifest'[snap] = None
      <4>1. CASE RunFresh \/ RunResume \/ RunNamed \/ RetryGaps
        BY <2>2, <4>1, BeginIs
      <4>2. CASE WriteManifest
        BY <3>2, <4>2, WriteIs
      <4>3. CASE RebuildIndex \/ Die
        BY <1>1, <4>3, ForgetIs DEF RebuildIndex, Die
      <4>4. CASE ConnectionFails \/ EndDataset
        BY <3>2, <4>4, DatasetEndIs DEF Entered
      <4>5. CASE SkipDataset \/ ResetDataset \/ StartFinalize \/ Convert \/ Unlink
                   \/ ConvertFails \/ UNCHANGED vars
        BY <3>2, <4>5 DEF SkipDataset, ResetDataset, StartFinalize, Convert, Unlink,
                          ConvertFails, vars
      <4>6. CASE OpenFile \/ FetchRecord \/ FetchGap
        BY <3>2, <4>6, OpenIs, RecordIs, GapIs
      <4> QED BY <4>1, <4>2, <4>3, <4>4, <4>5, <4>6 DEF Next
    <3> QED BY <3>1, <3>3, <3>4, <3>5
  <2> QED BY <2>1, <2>2
<1> QED BY <1>1 DEF FirstProcess, Busy, FirstFetch, FirstConvert

LEMMA FirstCompleteStep ==
    ASSUME Shapes, Places, Unmade, FirstProcess, FirstComplete, [Next]_vars
    PROVE  FirstComplete'
<1> USE DEF checkpoint, output, published, memory, history
<1> SUFFICES ASSUME NEW s \in Snapshot, Complete(s)', s \notin again'
             PROVE  \A d \in Dataset : Full(parquet[s][d])'
  BY DEF FirstComplete
<1>1. s \notin again
  BY NotedAtBegin DEF Reopen
<1>2. CASE s # snap \/ pc = "idle"
  <2>1. /\ manifest'[s] = manifest[s]
        /\ \A d \in Dataset : parquet'[s][d] = parquet[s][d]
    BY <1>2, OthersKept
  <2>2. Complete(s)
    BY <2>1 DEF Complete
  <2> QED BY <1>1, <2>1, <2>2 DEF FirstComplete, Full
<1>3. CASE s = snap /\ pc # "idle"
  <2>0. base = None /\ (pc # "index" => manifest[s] = None)
    BY <1>1, <1>3 DEF FirstProcess, Busy
  <2>1. CASE WriteManifest
    <3>1. manifest'[s] = BuiltManifest /\ UNCHANGED parquet /\ pc = "convert" /\ files = {}
      BY <1>3, <2>1, WriteIs
    <3>2. BuiltManifest.gaps = {}
      BY <3>1 DEF Complete
    <3>3. Dataset \subseteq DOMAIN outcome
      BY <2>0, <3>1 DEF Places, Busy, Collecting
    <3>4. ASSUME NEW d \in Dataset PROVE NoGaps(d)
      BY <3>2, <3>3, BuiltParts DEF Reported, NoGaps
    <3>5. failed = {}
      BY <3>2, BuiltParts
    <3>6. \A d \in Dataset : Full(parquet[s][d])
      BY <1>1, <1>3, <3>1, <3>4, <3>5, OrderFacts DEF FirstProcess, Busy, Converting, Clean
    <3> QED BY <3>1, <3>6 DEF Full
  <2>2. CASE RebuildIndex \/ Die \/ UNCHANGED vars
    <3>1. UNCHANGED <<manifest, parquet>>
      BY <2>2 DEF RebuildIndex, Die, vars
    <3>2. Complete(s)
      BY <3>1 DEF Complete
    <3> QED BY <1>1, <3>1, <3>2 DEF FirstComplete, Full
  <2>3. CASE RunFresh \/ RunResume \/ RunNamed \/ RetryGaps
    BY <1>3, <2>3, BeginIs
  <2>4. CASE SkipDataset \/ ResetDataset \/ StartFinalize \/ Convert \/ Unlink \/ ConvertFails
    BY <2>0, <2>4 DEF SkipDataset, ResetDataset, StartFinalize, Convert, Unlink, ConvertFails,
                      Complete
  <2>5. CASE OpenFile \/ FetchRecord \/ FetchGap \/ ConnectionFails \/ EndDataset
    <3>1. manifest' = manifest /\ Entered
      BY <2>5, OpenIs, RecordIs, GapIs, DatasetEndIs
    <3> QED BY <2>0, <3>1 DEF Entered, Complete
  <2> QED BY <2>1, <2>2, <2>3, <2>4, <2>5 DEF Next
<1> QED BY <1>2, <1>3

LEMMA ListingStep ==
    ASSUME Shapes, Places, Unmade, Listing, [Next]_vars PROVE Listing'
<1> USE DEF checkpoint, output, published, memory, history
<1>0. made \in Nat /\ made <= MaxSnapshots /\ MaxSnapshots \in Nat /\ None \notin Snapshot
      /\ Snapshot = 1 .. MaxSnapshots
  BY NameAssumption, BoundAssumption DEF NameAssumption, BoundAssumption, Shapes, Snapshot
<1>a. ASSUME UNCHANGED <<made, manifest, index>>,
             pc' # "index" /\ ~unlisted' => pc # "index" /\ ~unlisted
      PROVE  Listing'
  <2>1. \A s : Complete(s)' <=> Complete(s)
    BY <1>a DEF Complete
  <2>2. LatestComplete => LatestComplete'
    BY <1>a, <2>1 DEF LatestComplete
  <2> QED BY <1>a, <2>2 DEF Listing
<1>1. CASE RunFresh \/ RunResume \/ RunNamed \/ RetryGaps
  <2>1. UNCHANGED <<manifest, index, unlisted>> /\ pc = "idle"
    BY <1>1, BeginIs
  <2>2. CASE made' = made
    BY <1>a, <2>1, <2>2
  <2>3. CASE made' = made + 1
    <3>1. made + 1 \in Snapshot /\ manifest[made + 1] = None
      BY <1>0, <1>1, <2>3, BeginIs DEF Unmade
    <3>2. \A s : Complete(s)' <=> Complete(s)
      BY <2>1 DEF Complete
    <3>3. ~Complete(made + 1)
      BY <3>1 DEF Complete
    <3>4. index'.latest = index.latest /\ index.latest # made + 1
      BY <1>0, <2>1, <3>1 DEF Listing
    <3>5. ASSUME LatestComplete, NEW s \in 1 .. made'
          PROVE  (index'.latest = s) <=>
                    (Complete(s)' /\ \A t \in s + 1 .. made' : ~Complete(t)')
      <4>1. CASE s = made + 1
        BY <3>2, <3>3, <3>4, <4>1
      <4>2. CASE s \in 1 .. made
        <5>1. (index.latest = s) <=> (Complete(s) /\ \A t \in s + 1 .. made : ~Complete(t))
          BY <3>5, <4>2 DEF LatestComplete
        <5>2. \A t \in s + 1 .. made' : t = made + 1 \/ t \in s + 1 .. made
          BY <1>0, <2>3, <4>2
        <5>3. \A t \in s + 1 .. made : t \in s + 1 .. made'
          BY <1>0, <2>3, <4>2
        <5> QED BY <3>2, <3>3, <3>4, <5>1, <5>2, <5>3
      <4> QED BY <1>0, <2>3, <4>1, <4>2
    <3>6. LatestComplete => LatestComplete'
      BY <3>5 DEF LatestComplete
    <3>7. index'.latest \in 1 .. made' \cup {None}
      BY <1>0, <2>3, <3>4 DEF Listing
    <3> QED BY <2>1, <3>6, <3>7 DEF Listing
  <2> QED BY <1>1, <2>2, <2>3, BeginIs
<1>2. CASE WriteManifest
  <2>1. pc' = "index" /\ UNCHANGED <<made, index>>
    BY <1>2, WriteIs
  <2> QED BY <2>1 DEF Listing
<1>3. CASE RebuildIndex
  <2>1. index' = IndexNow /\ UNCHANGED <<made, manifest>>
    BY <1>3 DEF RebuildIndex
  <2> DEFINE whole == {s \in 1 .. made : Complete(s)}
  <2>2. index'.latest = IF whole = {} THEN None ELSE Newest(whole)
    BY <2>1 DEF IndexNow
  <2>3. whole # {} => Newest(whole) \in whole /\ \A t \in whole : t <= Newest(whole)
    <3>1. whole \in SUBSET (1 .. made)
      OBVIOUS
    <3> HIDE DEF whole
    <3> QED BY <1>0, <3>1, NewestIs
  <2>4. \A s : Complete(s)' <=> Complete(s)
    BY <2>1 DEF Complete
  <2>5. ASSUME NEW s \in 1 .. made
        PROVE  (index'.latest = s) <=> (Complete(s) /\ \A t \in s + 1 .. made : ~Complete(t))
    <3>0. s \in Snapshot /\ s # None
      BY <1>0
    <3>1. CASE whole = {}
      BY <2>2, <3>0, <3>1
    <3>2. CASE whole # {}
      <4>1. PICK n \in 1 .. made : n = Newest(whole) /\ index'.latest = n
        BY <2>2, <2>3, <3>2
      <4>2. Complete(n) /\ \A t \in 1 .. made : Complete(t) => t <= n
        BY <2>3, <3>2, <4>1
      <4>3. ASSUME n = s PROVE Complete(s) /\ \A t \in s + 1 .. made : ~Complete(t)
        <5>1. ASSUME NEW t \in s + 1 .. made, Complete(t) PROVE FALSE
          <6>1. t \in 1 .. made /\ t > s
            BY <1>0, <5>1
          <6> QED BY <1>0, <4>2, <4>3, <5>1, <6>1
        <5> QED BY <4>2, <4>3, <5>1
      <4>4. ASSUME Complete(s), \A t \in s + 1 .. made : ~Complete(t) PROVE n = s
        <5>1. s <= n /\ n \notin s + 1 .. made
          BY <4>2, <4>4
        <5> QED BY <1>0, <5>1
      <4> QED BY <4>1, <4>3, <4>4
    <3> QED BY <3>1, <3>2
  <2>6. LatestComplete'
    BY <2>1, <2>4, <2>5 DEF LatestComplete
  <2>7. index'.latest \in 1 .. made' \cup {None}
    BY <2>1, <2>2, <2>3
  <2> QED BY <2>6, <2>7 DEF Listing
<1>4. CASE Die
  <2>1. UNCHANGED <<made, manifest, index>> /\ unlisted' = (unlisted \/ pc = "index")
    BY <1>4 DEF Die
  <2>2. ~unlisted' => pc # "index" /\ ~unlisted
    BY <2>1
  <2> QED BY <1>a, <2>1, <2>2
<1>5. CASE SkipDataset \/ ResetDataset \/ StartFinalize \/ Convert \/ Unlink \/ ConvertFails
           \/ UNCHANGED vars
  <2>1. UNCHANGED <<made, manifest, index, unlisted>> /\ (pc = "index" => pc' = "index")
    BY <1>5 DEF SkipDataset, ResetDataset, StartFinalize, Convert, Unlink, ConvertFails, vars
  <2> QED BY <1>a, <2>1
<1>6. CASE OpenFile \/ FetchRecord \/ FetchGap \/ ConnectionFails \/ EndDataset
  <2>1. UNCHANGED <<made, manifest, index, unlisted>> /\ Entered
    BY <1>6, OpenIs, RecordIs, GapIs, DatasetEndIs
  <2> QED BY <1>a, <2>1 DEF Entered
<1> QED BY <1>1, <1>2, <1>3, <1>4, <1>5, <1>6 DEF Next

----------------------------------------------------------------------------
(* The invariant holds in every state                                      *)

LEMMA InitHolds == Init => IInv
<1> SUFFICES ASSUME Init PROVE IInv
  OBVIOUS
<1>1. /\ made = 0 /\ pc = "idle" /\ IdleMemory
      /\ again = {} /\ reopened = {} /\ retried = {}
      /\ index = [entries |-> <<>>, latest |-> None]
  BY DEF Init
<1>2. /\ DOMAIN manifest = Snapshot /\ \A s \in Snapshot : manifest[s] = None /\ status[s] = {}
      /\ \A s \in Snapshot, d \in Dataset : /\ cursors[s][d] = {}
                                            /\ ndjson[s][d] = None /\ parquet[s][d] = None
  BY DEF Init
<1>3. Shapes
  BY <1>1, BoundAssumption DEF BoundAssumption, Init, Shapes, IdleMemory, Content
<1>4. Places
  BY <1>1 DEF Places, Busy, Collecting, Converting, IdleMemory
<1>5. Unmade
  BY <1>1, <1>2 DEF Unmade
<1>6. RetryScope
  BY <1>1, <1>2 DEF RetryScope, IdleMemory
<1>7. Kept
  BY <1>1, <1>2 DEF Kept
<1>8. Accounted
  BY <1>2 DEF Accounted
<1>9. Counted
  BY <1>1, <1>2 DEF Counted, Busy
<1>10. FirstProcess /\ FirstComplete
  BY <1>1, <1>2 DEF FirstProcess, Busy, FirstComplete, Complete
<1>11. Listing
  BY <1>1 DEF Listing, LatestComplete
<1> QED BY <1>3, <1>4, <1>5, <1>6, <1>7, <1>8, <1>9, <1>10, <1>11 DEF IInv

LEMMA Inductive == IInv /\ [Next]_vars => IInv'
<1> SUFFICES ASSUME IInv, [Next]_vars PROVE IInv'
  OBVIOUS
<1>1. Shapes /\ Places /\ Unmade /\ RetryScope /\ Kept /\ Accounted /\ Counted
      /\ FirstProcess /\ FirstComplete /\ Listing
  BY DEF IInv
<1>2. Shapes' /\ Places' /\ Unmade' /\ RetryScope'
  BY <1>1, ShapesStep, PlacesStep, UnmadeStep, RetryScopeStep
<1>3. Kept' /\ Accounted' /\ Counted'
  BY <1>1, KeptStep, AccountedStep, CountedStep
<1>4. FirstProcess' /\ FirstComplete' /\ Listing'
  BY <1>1, FirstProcessStep, FirstCompleteStep, ListingStep
<1> QED BY <1>2, <1>3, <1>4 DEF IInv

THEOREM Invariant == Spec => []IInv
BY InitHolds, Inductive, PTL DEF Spec

----------------------------------------------------------------------------
(* What follows from it                                                    *)

(* A finished snapshot that no retry has touched lacks nothing in silence: *)
(* for every repository it lists, a repository-level dataset holds its     *)
(* record or the checkpoint has a gap (repo_level.py, checkpoint.py).      *)
THEOREM NoRepoLostInSilence == Spec => []EveryRepoAccountedFor
<1>1. IInv => EveryRepoAccountedFor
  BY DEF IInv, Accounted, Kept, Whole, Noted, EveryRepoAccountedFor
<1> QED BY <1>1, Invariant, PTL

(* A snapshot made by one process and called complete holds every          *)
(* repository exactly once in every dataset (build_manifest, finalize.py). *)
THEOREM CompleteHoldsAll == Spec => []CompleteIsWhole
<1>1. IInv => CompleteIsWhole
  BY DEF IInv, FirstComplete, Full, CompleteIsWhole
<1> QED BY <1>1, Invariant, PTL

(* The counts of a manifest are those of the files, unless a process began *)
(* on files already converted (build_manifest, DatasetOutcome).            *)
THEOREM CountsMatchFiles == Spec => []CountsMatchUnlessReopened
<1>1. IInv => CountsMatchUnlessReopened
  BY DEF IInv, Counted, Plain, Latest, CountsMatch, CountsMatchUnlessReopened
<1> QED BY <1>1, Invariant, PTL

(* Between processes the index names the newest complete snapshot, unless  *)
(* one died before it could say so (rebuild_root_index).                   *)
THEOREM IndexIsRight == Spec => []IndexNamesLatest
<1>1. IInv => IndexNamesLatest
  BY DEF IInv, Listing, LatestComplete, IndexNamesLatest
<1> QED BY <1>1, Invariant, PTL

LEMMA KeptLines ==
    ASSUME IInv, [Next]_vars, NEW s \in Snapshot, s \notin retried', NEW d \in Dataset,
           NEW u \in Repo, Stored(s, d, u)
    PROVE  Stored(s, d, u)'
<1> USE DEF checkpoint, output, published, memory, history
<1>0. /\ Shapes /\ Places /\ RetryScope /\ Kept /\ s \notin retried
  BY NotedAtBegin DEF IInv
<1>1. CASE s # snap \/ pc = "idle"
  BY <1>0, <1>1, OthersKept DEF Stored
<1>2. CASE s = snap /\ pc # "idle"
  <2>1. CASE Convert \/ Unlink
    <3>1. PICK t \in Snapshot \ retried : t = s
      BY <1>0
    <3>2. Stored(t, d, u)' <=> Stored(t, d, u)
      BY <1>0, <2>1, ConvertKeeps
    <3> QED BY <3>1, <3>2 DEF Stored
  <2>2. CASE OpenFile
    <3>1. /\ parquet' = parquet
          /\ \/ ndjson'[s][d] = ndjson[s][d]
             \/ ndjson[s][d] = None
      BY <1>0, <1>2, <2>2, OpenIs
    <3> QED BY <3>1 DEF Stored, Holds
  <2>3. CASE FetchRecord
    <3>1. PICK v \in Repo :
             /\ Entered /\ parquet' = parquet
             /\ ndjson'[s][Current] = Add(ndjson[s][Current], v)
             /\ d # Current => ndjson'[s][d] = ndjson[s][d]
      BY <1>0, <1>2, <2>3, RecordIs
    <3>2. ndjson[s][d] \in Content
      BY <1>0 DEF Shapes
    <3>3. Holds(ndjson[s][d], u) => Holds(ndjson'[s][d], u)
      BY <3>1, <3>2, AddIs
    <3> QED BY <3>1, <3>3 DEF Stored
  <2>4. CASE ConnectionFails \/ EndDataset \/ FetchGap
    <3>1. UNCHANGED output
      BY <1>0, <2>4, DatasetEndIs, GapIs
    <3> QED BY <3>1 DEF Stored
  <2>5. CASE SkipDataset \/ ResetDataset \/ StartFinalize \/ ConvertFails \/ WriteManifest
                \/ RebuildIndex \/ Die \/ UNCHANGED vars
    <3>1. UNCHANGED output
      BY <2>5 DEF SkipDataset, ResetDataset, StartFinalize, ConvertFails, WriteManifest,
                  RebuildIndex, Die, vars
    <3> QED BY <3>1 DEF Stored
  <2>6. CASE RunFresh \/ RunResume \/ RunNamed \/ RetryGaps
    BY <1>0, <1>2, <2>6, BeginIs
  <2> QED BY <2>1, <2>2, <2>3, <2>4, <2>5, <2>6 DEF Next
<1> QED BY <1>1, <1>2

(* What has been downloaded stays in the snapshot, through kills, resumes  *)
(* and failed conversions (finalize_dataset).                              *)
THEOREM DownloadsAreKept == Spec => FetchedIsKept
<1>1. IInv /\ [Next]_vars =>
        [\A s \in Snapshot : s \notin retried' =>
            \A d \in Dataset, u \in Repo : Stored(s, d, u) => Stored(s, d, u)']_vars
  BY KeptLines
<1> QED BY <1>1, Invariant, PTL DEF Spec, FetchedIsKept

LEMMA ScopeOfRetry ==
    ASSUME IInv, [Next]_vars, base # None, NEW d \in Dataset, GapsOf(base.gaps, d) = {}
    PROVE  parquet'[snap][d] = parquet[snap][d]
<1> USE DEF checkpoint, output, published, memory, history
<1>0. /\ Shapes /\ Places /\ RetryScope /\ pc # "idle" /\ snap \in Snapshot
  <2>1. Shapes /\ Places /\ RetryScope
    BY DEF IInv
  <2>2. pc # "idle"
    BY <2>1 DEF Places, Busy, IdleMemory
  <2> QED BY <2>1, <2>2, BusyIs
<1>1. CASE Convert
  <2>1. PICK n \in Dataset : n = NextFile /\ ndjson[snap][n] # None
    BY <1>0, <1>1, ConvertIs
  <2>2. base = manifest[snap]
    BY <1>0, <1>1, ConvertIs DEF RetryScope
  <2>3. n # d
    BY <1>0, <2>1, <2>2 DEF RetryScope, Gapped
  <2> QED BY <1>0, <1>1, <2>1, <2>3, ConvertIs
<1>2. CASE ConnectionFails \/ EndDataset \/ FetchGap \/ FetchRecord \/ OpenFile
  BY <1>0, <1>2, DatasetEndIs, GapIs, RecordIs, OpenIs
<1>3. CASE SkipDataset \/ ResetDataset \/ StartFinalize \/ Unlink \/ ConvertFails
              \/ WriteManifest \/ RebuildIndex \/ Die \/ UNCHANGED vars
  BY <1>3 DEF SkipDataset, ResetDataset, StartFinalize, Unlink, ConvertFails, WriteManifest,
              RebuildIndex, Die, vars
<1>4. CASE RunFresh \/ RunResume \/ RunNamed \/ RetryGaps
  BY <1>0, <1>4, BeginIs
<1> QED BY <1>1, <1>2, <1>3, <1>4 DEF Next

(* A retry leaves the Parquet files of the datasets without a gap alone    *)
(* (retry_gaps, finalize_snapshot).                                        *)
THEOREM RetryStaysInScope == Spec => RetryTouchesOnlyGaps
<1>1. IInv /\ [Next]_vars =>
        [base # None => \A d \in Dataset :
            GapsOf(base.gaps, d) = {} => parquet'[snap][d] = parquet[snap][d]]_vars
  BY ScopeOfRetry
<1> QED BY <1>1, Invariant, PTL DEF Spec, RetryTouchesOnlyGaps

----------------------------------------------------------------------------
(* The promise of DatasetFetch                                             *)

\* The mapping, of dataset d in snapshot s.
Had(s, d)  == {u \in Repo : Stored(s, d, u)}
Left(s, d) == IF Repositories \in status[s]
              THEN {u \in Repo : ~Stored(s, Repositories, u) \/ <<d, u>> \in ledger[s]}
              ELSE {}
\* A step of the promise, or none.
Promised(s, d) ==
    \/ Had(s, d)' = Had(s, d) /\ Left(s, d)' = Left(s, d)
       /\ (d \in status[s])' = (d \in status[s])
    \/ /\ d \notin status[s] /\ d \notin status'[s]
       /\ \E u \in Repo : Had(s, d)' = Had(s, d) \cup {u}
       /\ Left(s, d)' = Left(s, d)
    \/ /\ d \notin status[s] /\ d \notin status'[s] /\ Had(s, d)' = Had(s, d)
       /\ \E S \in SUBSET Repo : Left(s, d)' = Left(s, d) \cup S
    \/ /\ d \notin status[s] /\ d \in status'[s]
       /\ Had(s, d) \cup Left(s, d) = Repo
       /\ Had(s, d)' = Had(s, d) /\ Left(s, d)' = Left(s, d)

LEMMA PromisedIs ==
    ASSUME NEW s, NEW d, Promised(s, d)
    PROVE  [Promise(s, d)!Next]_(Promise(s, d)!absVars)
BY DEF Promised, Had, Left, Promise!Next, Promise!Collect, Promise!Excuse, Promise!Finish,
       Promise!absVars

LEMMA PromisedSame ==
    ASSUME NEW s, NEW d \in Dataset, status'[s] = status[s], ledger'[s] = ledger[s],
           \A e \in Dataset, u \in Repo : Stored(s, e, u)' <=> Stored(s, e, u)
    PROVE  Promised(s, d)
<1>1. Repositories \in Dataset
  BY OrderFacts
<1>2. Had(s, d)' = Had(s, d)
  BY DEF Had
<1>3. Left(s, d)' = Left(s, d)
  BY <1>1 DEF Left
<1> QED BY <1>2, <1>3 DEF Promised

LEMMA PromisedStep ==
    ASSUME IInv, [Next]_vars, NEW s \in Snapshot, s \notin retried',
           NEW d \in Dataset \ {Repositories}
    PROVE  Promised(s, d)
<1> USE DEF checkpoint, output, published, memory, history
<1>0. /\ Shapes /\ Places /\ RetryScope /\ s \notin retried /\ Repositories \in Dataset
      /\ AccountedAt(s) /\ KeptAt(s)
  BY NotedAtBegin, OrderFacts DEF IInv, Accounted, AccountedAt, Kept, KeptAt
<1>1. CASE s # snap \/ pc = "idle"
  <2>1. /\ ledger'[s] = ledger[s] /\ status'[s] = status[s]
        /\ \A e \in Dataset : ndjson'[s][e] = ndjson[s][e] /\ parquet'[s][e] = parquet[s][e]
    BY <1>0, <1>1, OthersKept
  <2> QED BY <2>1, PromisedSame DEF Stored
<1>2. CASE s = snap /\ pc # "idle"
  <2>0. base = None
    BY <1>0, <1>2 DEF RetryScope
  <2>a. ASSUME Entered
        PROVE  /\ \A e \in Dataset : parquet[s][e] = None
               /\ Current \in Dataset /\ Current \notin status[s]
               /\ Current # Repositories => Repositories \in status[s]
               /\ Current = Repositories => status[s] = {}
    <3>1. \A e \in Dataset : parquet[s][e] = None
      BY <1>0, <1>2, <2>a, StillFetching
    <3>2. /\ Repositories \in plan => Current = Repositories
          /\ Current \in Dataset /\ Current \notin status[s]
          /\ Dataset \subseteq status[s] \cup plan
      BY <1>0, <1>2, <2>0, <2>a, EnteredIs DEF Places
    <3> QED BY <1>0, <3>1, <3>2 DEF AccountedAt
  <2>1. CASE SkipDataset \/ StartFinalize \/ ConvertFails \/ WriteManifest \/ RebuildIndex \/ Die
             \/ UNCHANGED vars
    <3>1. UNCHANGED <<checkpoint, output>>
      BY <2>1 DEF vars, SkipDataset, StartFinalize, ConvertFails, WriteManifest, RebuildIndex, Die
    <3> QED BY <3>1, PromisedSame DEF Stored
  <2>2. CASE ResetDataset
    BY <2>0, <2>2 DEF ResetDataset
  <2>3. CASE OpenFile
    <3>1. /\ UNCHANGED <<checkpoint, parquet>>
          /\ \A e \in Dataset : \/ ndjson'[s][e] = ndjson[s][e]
                                \/ ndjson[s][e] = None /\ ndjson'[s][e] = [u \in Repo |-> 0]
      BY <1>0, <1>2, <2>3, OpenIs
    <3>2. \A e \in Dataset, u \in Repo : Stored(s, e, u)' <=> Stored(s, e, u)
      BY <3>1 DEF Stored, Holds
    <3> QED BY <3>1, <3>2, PromisedSame
  <2>4. CASE FetchRecord
    <3>1. PICK u \in Repo :
             /\ Entered /\ UNCHANGED <<status, ledger, parquet>>
             /\ ndjson'[s][Current] = Add(ndjson[s][Current], u)
             /\ \A e \in Dataset : e # Current => ndjson'[s][e] = ndjson[s][e]
      BY <1>0, <1>2, <2>4, RecordIs
    <3>2. \A e \in Dataset, v \in Repo :
             Stored(s, e, v)' <=> Stored(s, e, v) \/ (e = Current /\ v = u)
      <4>1. PICK c \in Dataset : c = Current
        BY <2>a, <3>1
      <4>2. ndjson[s][c] \in Content /\ Add(ndjson[s][c], u) # None
        BY <1>0, AddIs DEF Shapes
      <4>3. \A v \in Repo : Holds(ndjson'[s][c], v) <=> Holds(ndjson[s][c], v) \/ v = u
        BY <3>1, <4>1, <4>2, AddIs
      <4>4. \A v \in Repo : Stored(s, c, v)' <=> Stored(s, c, v) \/ v = u
        BY <3>1, <4>3 DEF Stored
      <4>5. \A e \in Dataset \ {c}, v \in Repo : Stored(s, e, v)' <=> Stored(s, e, v)
        BY <3>1, <4>1 DEF Stored
      <4> QED BY <4>1, <4>4, <4>5
    <3>3. CASE Current = Repositories
      <4>1. status[s] = {} /\ status'[s] = {}
        BY <2>a, <3>1, <3>3
      <4>2. Had(s, d)' = Had(s, d) /\ Left(s, d)' = Left(s, d)
        BY <3>2, <3>3, <4>1 DEF Had, Left
      <4> QED BY <3>1, <4>2 DEF Promised
    <3>4. CASE Current # Repositories
      <4>1. Left(s, d)' = Left(s, d)
        BY <1>0, <3>1, <3>2, <3>4 DEF Left
      <4>2. CASE d = Current
        <5>1. Had(s, d)' = Had(s, d) \cup {u}
          BY <3>2, <4>2 DEF Had
        <5> QED BY <2>a, <3>1, <4>1, <4>2, <5>1 DEF Promised
      <4>3. CASE d # Current
        <5>1. Had(s, d)' = Had(s, d)
          BY <3>2, <4>3 DEF Had
        <5> QED BY <3>1, <4>1, <5>1 DEF Promised
      <4> QED BY <4>2, <4>3
    <3> QED BY <3>3, <3>4
  <2>5. CASE FetchGap
    <3>1. PICK u \in Repo :
             /\ Entered /\ UNCHANGED <<status, ndjson, parquet>> /\ Current # Repositories
             /\ ledger'[s] = ledger[s] \cup {<<Current, u>>}
      BY <1>0, <1>2, <2>5, GapIs
    <3>2. \A e \in Dataset, v \in Repo : Stored(s, e, v)' <=> Stored(s, e, v)
      BY <3>1 DEF Stored
    <3>3. Had(s, d)' = Had(s, d)
      BY <3>2 DEF Had
    <3>4. Repositories \in status[s] /\ Repositories \in status'[s]
      BY <2>a, <3>1
    <3>5. CASE d = Current
      <4>1. Left(s, d)' = Left(s, d) \cup {u}
        BY <1>0, <3>1, <3>2, <3>4, <3>5 DEF Left
      <4> QED BY <2>a, <3>1, <3>3, <3>5, <4>1 DEF Promised
    <3>6. CASE d # Current
      <4>1. Left(s, d)' = Left(s, d)
        BY <1>0, <3>1, <3>2, <3>4, <3>6 DEF Left
      <4> QED BY <3>1, <3>3, <4>1 DEF Promised
    <3> QED BY <3>5, <3>6
  <2>6. CASE ConnectionFails \/ EndDataset
    <3>1. /\ Entered /\ UNCHANGED <<ndjson, parquet>>
          /\ status'[s] = status[s] \cup {Current}
      BY <1>0, <1>2, <2>6, DatasetEndIs
    <3>2. \A e \in Dataset, v \in Repo : Stored(s, e, v)' <=> Stored(s, e, v)
      BY <3>1 DEF Stored
    <3>3. Had(s, d)' = Had(s, d)
      BY <3>2 DEF Had
    <3>4. CASE Current = Repositories
      <4>1. d \notin status[s] /\ d \notin status'[s] /\ Left(s, d) = {}
        BY <2>a, <3>1, <3>4 DEF Left
      <4>2. Left(s, d)' \in SUBSET Repo
        BY DEF Left
      <4>3. \E S \in SUBSET Repo : Left(s, d)' = Left(s, d) \cup S
        BY <4>1, <4>2
      <4> QED BY <3>3, <4>1, <4>3 DEF Promised
    <3>5. CASE Current # Repositories
      <4>1. EndDataset /\ Unfetched = {} /\ ledger' = ledger
        BY <2>6, <3>5 DEF ConnectionFails, EndDataset
      <4>2. Repositories \in status[s] /\ Repositories \in status'[s]
        BY <2>a, <3>1, <3>5
      <4>3. Left(s, d)' = Left(s, d)
        BY <1>0, <3>2, <4>1, <4>2 DEF Left
      <4>4. CASE d = Current
        <5>1. \A v \in Repo : Stored(s, Repositories, v) => v \in cursors[s][d]
          BY <1>0, <1>2, <2>0, <2>a, <3>1, <3>5, <4>1, <4>4
             DEF Stored, Holds, Unfetched, Units
        <5>2. \A v \in Repo : v \in cursors[s][d] => Noted(s, d, v)
          BY <1>0 DEF AccountedAt
        <5>3. Had(s, d) \cup Left(s, d) = Repo
          BY <4>2, <5>1, <5>2 DEF Had, Left, Noted
        <5> QED BY <2>a, <3>1, <3>3, <4>3, <4>4, <5>3 DEF Promised
      <4>5. CASE d # Current
        BY <3>1, <3>3, <4>3, <4>5 DEF Promised
      <4> QED BY <4>4, <4>5
    <3> QED BY <3>4, <3>5
  <2>7. CASE Convert \/ Unlink
    <3>1. PICK t \in Snapshot \ retried : t = s
      BY <1>0
    <3>2. \A e \in Dataset, u \in Repo : Stored(t, e, u)' <=> Stored(t, e, u)
      BY <1>0, <2>7, ConvertKeeps DEF IInv
    <3>3. UNCHANGED checkpoint
      BY <2>7 DEF Convert, Unlink
    <3> QED BY <3>1, <3>2, <3>3, PromisedSame
  <2>8. CASE RunFresh \/ RunResume \/ RunNamed \/ RetryGaps
    BY <1>0, <1>2, <2>8, BeginIs
  <2> QED BY <2>1, <2>2, <2>3, <2>4, <2>5, <2>6, <2>7, <2>8 DEF Next
<1> QED BY <1>1, <1>2

(* Until retry-gaps works on a snapshot, each of its repository-level      *)
(* datasets takes only the steps DatasetFetch allows, among deaths and     *)
(* resumes: complete means that every repository listed has its record or  *)
(* a gap, and a complete dataset is closed (repo_level.py, checkpoint.py). *)
THEOREM StepsKeepPromise == Spec => PromiseKept
<1>1. IInv /\ [Next]_vars =>
        [\A s \in Snapshot, d \in Dataset \ {Repositories} : s \notin retried' =>
            [Promise(s, d)!Next]_(Promise(s, d)!absVars)]_vars
  BY PromisedStep, PromisedIs
<1> QED BY <1>1, Invariant, PTL DEF Spec, PromiseKept

(* Where retry-gaps is not used, every dataset of every snapshot is, from  *)
(* the first process to the last, a behaviour of DatasetFetch: what        *)
(* RepoHarvest shows of one dataset step by step holds among the others.   *)
Unretried == retried = {}
THEOREM DatasetsFetched ==
    ASSUME ~AllowRetry, NEW s \in Snapshot, NEW d \in Dataset \ {Repositories}
    PROVE  Spec => Promise(s, d)!Spec
<1>1. Init => Unretried
  BY DEF Init, Unretried
<1>2. Unretried /\ [Next]_vars => Unretried'
  <2> SUFFICES ASSUME Unretried, [Next]_vars PROVE retried' = {}
    BY DEF Unretried
  <2>1. CASE RunFresh \/ RunResume \/ RunNamed
    BY <2>1 DEF RunFresh, RunResume, RunNamed, Unretried
  <2>2. CASE RetryGaps
    BY <2>2 DEF RetryGaps
  <2>3. CASE ~(RunFresh \/ RunResume \/ RunNamed \/ RetryGaps)
    <3>1. retried' = retried
      BY <2>3 DEF Next, SkipDataset, ResetDataset, OpenFile, FetchRecord, FetchGap,
                  ConnectionFails, EndDataset, NextDataset, StartFinalize, Convert, Unlink,
                  ConvertFails, WriteManifest, RebuildIndex, Die, vars, history
    <3> QED BY <3>1 DEF Unretried
  <2> QED BY <2>1, <2>2, <2>3
<1>3. Init => Promise(s, d)!Init
  BY OrderFacts DEF Init, Promise!Init, Stored, Holds
<1>4. IInv /\ Unretried' /\ [Next]_vars => [Promise(s, d)!Next]_(Promise(s, d)!absVars)
  BY PromisedStep, PromisedIs DEF Unretried
<1> QED BY <1>1, <1>2, <1>3, <1>4, Invariant, PTL DEF Spec, Promise!Spec

----------------------------------------------------------------------------
(* Types: the counts are numbers                                           *)

\* A sum over a finite set, for all its subsets at once, and for those of at most n.
Small(S, n) == {s \in SUBSET S : Cardinality(s) <= n}
Any(s) == CHOOSE x \in s : TRUE
Sums(g, c, D) ==
    g = [s \in D |-> IF s = {} THEN 0 ELSE c[Any(s)] + g[s \ {Any(s)}]]

LEMMA RestOf ==
    ASSUME NEW S, IsFiniteSet(S), NEW n \in Nat, NEW s \in Small(S, n + 1), s # {}
    PROVE  /\ Any(s) \in s /\ Any(s) \in S /\ s \ {Any(s)} \in SUBSET S
           /\ s \ {Any(s)} \in Small(S, n)
<1>1. IsFiniteSet(s) /\ Any(s) \in s /\ Cardinality(s) <= n + 1 /\ s \in SUBSET S
  BY FS_Subset DEF Small, Any
<1>2. Cardinality(s \ {Any(s)}) = Cardinality(s) - 1 /\ Cardinality(s) \in Nat
  BY <1>1, FS_RemoveElement, FS_CardinalityType
<1> QED BY <1>1, <1>2 DEF Small

LEMMA SumsExist ==
    ASSUME NEW S, IsFiniteSet(S), NEW c, NEW n \in Nat
    PROVE  \E g : Sums(g, c, Small(S, n))
<1> DEFINE T == {k \in Nat : \E g : Sums(g, c, Small(S, k))}
<1>1. 0 \in T
  <2> DEFINE g == [s \in Small(S, 0) |-> 0]
  <2>1. ASSUME NEW s \in Small(S, 0) PROVE s = {}
    <3>1. IsFiniteSet(s) /\ Cardinality(s) \in Nat /\ Cardinality(s) <= 0
      BY FS_Subset, FS_CardinalityType DEF Small
    <3> QED BY <3>1, FS_EmptySet
  <2>2. g = [s \in Small(S, 0) |-> IF s = {} THEN 0 ELSE c[Any(s)] + g[s \ {Any(s)}]]
    BY <2>1, Zenon
  <2> HIDE DEF g
  <2>3. Sums(g, c, Small(S, 0))
    BY <2>2, Zenon DEF Sums
  <2> QED BY <2>3
<1>2. ASSUME NEW k \in Nat, k \in T PROVE k + 1 \in T
  <2>1. PICK g : Sums(g, c, Small(S, k))
    BY <1>2
  <2> DEFINE h == [s \in Small(S, k + 1) |->
                     IF s = {} THEN 0 ELSE c[Any(s)] + g[s \ {Any(s)}]]
  <2>2. ASSUME NEW s \in Small(S, k) PROVE s \in Small(S, k + 1) /\ h[s] = g[s]
    <3>1. s \in Small(S, k + 1)
      <4>1. IsFiniteSet(s) /\ Cardinality(s) \in Nat /\ Cardinality(s) <= k
        BY FS_Subset, FS_CardinalityType DEF Small
      <4> QED BY <4>1 DEF Small
    <3>2. g[s] = IF s = {} THEN 0 ELSE c[Any(s)] + g[s \ {Any(s)}]
      BY <2>1, Zenon DEF Sums
    <3> QED BY <3>1, <3>2, Zenon
  <2>3. ASSUME NEW s \in Small(S, k + 1)
        PROVE  h[s] = IF s = {} THEN 0 ELSE c[Any(s)] + h[s \ {Any(s)}]
    <3>1. CASE s = {}
      BY <3>1, Zenon
    <3>2. CASE s # {}
      <4>1. h[s \ {Any(s)}] = g[s \ {Any(s)}]
        BY <2>2, <3>2, RestOf
      <4> QED BY <3>2, <4>1, Zenon
    <3> QED BY <3>1, <3>2
  <2>4. h = [s \in Small(S, k + 1) |-> h[s]]
    BY Zenon
  <2> HIDE DEF h
  <2>5. Sums(h, c, Small(S, k + 1))
    BY <2>3, <2>4, Zenon DEF Sums
  <2> QED BY <2>5
<1> HIDE DEF T
<1>3. n \in T
  BY <1>1, <1>2, SetInduction
<1> QED BY <1>3 DEF T

LEMMA LinesIsNumber == ASSUME NEW content \in Content PROVE Lines(content) \in Nat
<1>1. CASE content = None
  BY <1>1 DEF Lines
<1>2. CASE content # None
  <2> DEFINE iter == CHOOSE g : Sums(g, content, SUBSET Repo)
             n    == Cardinality(Repo)
             T    == {k \in Nat : \A s \in Small(Repo, k) : iter[s] \in Nat}
  <2>1. content \in [Repo -> Nat] /\ IsFiniteSet(Repo)
    BY <1>2, RepoAssumption DEF RepoAssumption, Content
  <2>2. n \in Nat /\ SUBSET Repo = Small(Repo, n) /\ Repo \in Small(Repo, n)
    <3>1. n \in Nat
      BY <2>1, FS_CardinalityType
    <3>2. \A s \in SUBSET Repo : Cardinality(s) <= n
      BY <2>1, FS_Subset
    <3> QED BY <3>1, <3>2 DEF Small
  <2>3. Lines(content) = iter[Repo]
    <3>1. Lines(content) = MapThenSumSet(LAMBDA u : content[u], Repo)
      BY <1>2 DEF Lines
    <3> QED BY <3>1, Zenon DEF MapThenSumSet, MapThenFoldSet, Sums, Any
  <2>4. Sums(iter, content, SUBSET Repo)
    <3>1. \E g : Sums(g, content, Small(Repo, n))
      <4> HIDE DEF n
      <4> QED BY <2>1, <2>2, SumsExist
    <3>2. \E g : Sums(g, content, SUBSET Repo)
      <4> HIDE DEF n
      <4> QED BY <2>2, <3>1, Zenon
    <3> QED BY <3>2, Zenon
  <2> HIDE DEF iter, n
  <2>5. ASSUME NEW s \in SUBSET Repo
        PROVE  iter[s] = IF s = {} THEN 0 ELSE content[Any(s)] + iter[s \ {Any(s)}]
    BY <2>4, Zenon DEF Sums
  <2>6. 0 \in T
    <3>1. ASSUME NEW s \in Small(Repo, 0) PROVE s = {} /\ s \in SUBSET Repo
      <4>1. IsFiniteSet(s) /\ Cardinality(s) \in Nat /\ Cardinality(s) <= 0
        BY <2>1, FS_Subset, FS_CardinalityType DEF Small
      <4> QED BY <4>1, FS_EmptySet
    <3>2. ASSUME NEW s \in Small(Repo, 0) PROVE iter[s] \in Nat
      <4>1. s = {} /\ s \in SUBSET Repo
        BY <3>1
      <4>2. iter[s] = 0
        BY <2>5, <4>1, Zenon
      <4> QED BY <4>2
    <3> QED BY <3>2
  <2>7. ASSUME NEW k \in Nat, k \in T PROVE k + 1 \in T
    <3>1. ASSUME NEW s \in Small(Repo, k + 1) PROVE iter[s] \in Nat
      <4>1. s \in SUBSET Repo
        BY DEF Small
      <4>2. CASE s # {}
        <5>1. Any(s) \in Repo /\ s \ {Any(s)} \in Small(Repo, k)
          BY <2>1, <4>2, RestOf
        <5>2. content[Any(s)] \in Nat /\ iter[s \ {Any(s)}] \in Nat
          BY <2>1, <2>7, <5>1
        <5>3. iter[s] = content[Any(s)] + iter[s \ {Any(s)}]
          BY <2>5, <4>1, <4>2
        <5> QED BY <5>2, <5>3
      <4>3. CASE s = {}
        BY <2>5, <4>1, <4>3
      <4> QED BY <4>2, <4>3
    <3> QED BY <3>1
  <2> HIDE DEF T
  <2>8. n \in T
    BY <2>2, <2>6, <2>7, SetInduction
  <2> QED BY <2>2, <2>3, <2>8 DEF T
<1> QED BY <1>1, <1>2

\* What Shapes leaves out.
Manifest == [counts : [Dataset -> Nat], gaps : SUBSET Gap]
Numbers ==
    /\ manifest \in [Snapshot -> Manifest \cup {None}]
    /\ pc = "idle" => snap = None
    /\ found \subseteq Gap /\ failed \subseteq Gap
    /\ \A d \in DOMAIN outcome : outcome[d] \in Report
    /\ starts \in 0 .. MaxStarts /\ deaths \in 0 .. MaxDeaths

LEMMA TypeOKIs == IInv /\ Numbers => TypeOK
<1> SUFFICES ASSUME IInv, Numbers PROVE TypeOK
  OBVIOUS
<1>1. Shapes /\ Places /\ Listing
  BY DEF IInv
<1>2. made \in 0 .. MaxSnapshots
  BY <1>1, BoundAssumption DEF Shapes, BoundAssumption
<1>3. snap \in 1 .. made \cup {None}
  BY <1>1 DEF Numbers, Places, Busy
<1>4. index.latest \in Snapshot \cup {None}
  BY <1>1, <1>2, BoundAssumption DEF Listing, Snapshot, BoundAssumption
<1>5. pc \in {"idle", "fetch", "refetch", "convert", "unlink", "index"}
  BY <1>1 DEF Places
<1> QED BY <1>1, <1>2, <1>3, <1>4, <1>5 DEF Shapes, Numbers, TypeOK, Manifest, Gap

\* The outcome a dataset returns is a report.
LEMMA ReturnIsReport ==
    ASSUME Shapes, snap \in Snapshot, Current \in Dataset, NEW gaps \in SUBSET Gap,
           Return(gaps), \A d \in DOMAIN outcome : outcome[d] \in Report
    PROVE  \A d \in DOMAIN outcome' : outcome'[d] \in Report
<1>1. ndjson[snap][Current] \in Content
  BY DEF Shapes
<1>2. Lines(ndjson[snap][Current]) \in Nat
  BY <1>1, LinesIsNumber
<1>3. [count |-> Lines(ndjson[snap][Current]), gaps |-> gaps] \in Report
  BY <1>2 DEF Report
<1> QED BY <1>3, ReturnIs

LEMMA BuiltIsManifest ==
    ASSUME IInv, Numbers, WriteManifest PROVE BuiltManifest \in Manifest
<1>0. Shapes /\ Places /\ RetryScope
  BY DEF IInv
<1>1. /\ pc = "convert" /\ snap \in Snapshot
  BY <1>0, WriteIs
<1>2. ASSUME NEW d \in Dataset PROVE Reported(d).count \in Nat /\ Reported(d).gaps \subseteq Gap
  <2>1. CASE d \in DOMAIN outcome
    BY <2>1 DEF Reported, Numbers, Report
  <2>2. CASE d \notin DOMAIN outcome
    <3>1. base # None
      BY <1>0, <1>1, <2>2 DEF Places, Busy, Collecting
    <3>2. base \in Manifest
      BY <1>0, <1>1, <3>1 DEF RetryScope, Numbers
    <3> QED BY <2>2, <3>2 DEF Reported, Manifest, GapsOf
  <2> QED BY <2>1, <2>2
<1>3. [d \in Dataset |-> Reported(d).count] \in [Dataset -> Nat]
  BY <1>2
<1>4. (UNION {Reported(d).gaps : d \in Dataset}) \cup failed \in SUBSET Gap
  BY <1>2 DEF Numbers
<1> QED BY <1>3, <1>4, Zenon DEF BuiltManifest, ConversionGaps, Manifest

LEMMA NumbersStep ==
    ASSUME IInv, Numbers, [Next]_vars PROVE Numbers'
<1> USE DEF checkpoint, output, published, memory, history
<1>0. Shapes /\ Places
  BY DEF IInv
<1>1. CASE RunFresh \/ RunResume \/ RunNamed \/ RetryGaps
  <2>1. starts' = starts + 1 /\ starts < MaxStarts
    BY <1>1 DEF RunFresh, RunResume, RunNamed, RetryGaps, Begin
  <2>2. starts' \in 0 .. MaxStarts
    BY <2>1, BoundAssumption DEF BoundAssumption, Numbers
  <2> QED BY <1>0, <1>1, <2>2, BeginIs DEF Numbers
<1>2. CASE ResetDataset
  BY <1>0, <1>2, ResetIs DEF Numbers
<1>3. CASE OpenFile
  BY <1>3 DEF OpenFile, Numbers
<1>4. CASE FetchRecord
  BY <1>4 DEF FetchRecord, Numbers
<1>5. CASE FetchGap
  <2>1. PICK u \in Unfetched : found' = found \cup {<<Current, u>>} /\ u \in Repo
    BY <1>0, <1>5, GapIs
  <2>2. <<Current, u>> \in Gap
    BY <1>0, <1>5, <2>1, GapIs, EnteredIs DEF Gap, Resource
  <2>3. UNCHANGED <<manifest, pc, snap, failed, outcome, starts, deaths>>
    BY <1>5 DEF FetchGap
  <2> QED BY <2>1, <2>2, <2>3 DEF Numbers
<1>6. CASE ConnectionFails \/ EndDataset
  <2>1. snap \in Snapshot /\ Current \in Dataset
    BY <1>0, <1>6, DatasetEndIs, EnteredIs
  <2>2. PICK gaps \in SUBSET Gap : Return(gaps)
    <3>1. found \in SUBSET Gap /\ found \cup {<<Current, Org>>} \in SUBSET Gap
      BY <2>1 DEF Numbers, Gap, Resource
    <3> QED BY <1>6, <3>1 DEF ConnectionFails, EndDataset
  <2>3. \A d \in DOMAIN outcome' : outcome'[d] \in Report
    BY <1>0, <2>1, <2>2, ReturnIsReport DEF Numbers
  <2> QED BY <1>0, <1>6, <2>3, DatasetEndIs DEF Numbers
<1>7. CASE SkipDataset
  <2>1. GapsOf(ledger[snap], Current) \in SUBSET Gap
    BY <1>0, <1>7, SkipIs DEF Shapes, GapsOf, Gap
  <2>2. \A d \in DOMAIN outcome' : outcome'[d] \in Report
    BY <1>0, <1>7, <2>1, SkipIs, ReturnIsReport DEF Numbers
  <2> QED BY <1>0, <1>7, <2>2, SkipIs DEF Numbers
<1>8. CASE StartFinalize
  BY <1>8 DEF StartFinalize, Numbers
<1>9. CASE Convert
  BY <1>9 DEF Convert, Numbers
<1>10. CASE Unlink
  BY <1>10 DEF Unlink, Numbers
<1>11. CASE ConvertFails
  <2>1. <<NextFile, NoResource>> \in Gap
    BY <1>0, <1>11, ConvertFailsIs DEF Gap, Resource
  <2> QED BY <1>0, <1>11, <2>1, ConvertFailsIs DEF Numbers
<1>12. CASE WriteManifest
  <2>1. BuiltManifest \in Manifest
    BY <1>12, BuiltIsManifest
  <2>2. manifest' \in [Snapshot -> Manifest \cup {None}]
    BY <1>0, <1>12, <2>1 DEF WriteManifest, Numbers
  <2> QED BY <1>0, <1>12, <2>2, WriteIs DEF Numbers
<1>13. CASE RebuildIndex \/ Die
  <2>1. pc' = "idle" /\ snap' = None /\ found' = {} /\ failed' = {} /\ DOMAIN outcome' = {}
        /\ manifest' = manifest /\ starts' = starts
    BY <1>13 DEF RebuildIndex, Die, Forget
  <2>2. deaths' \in 0 .. MaxDeaths
    BY <1>13, BoundAssumption DEF RebuildIndex, Die, BoundAssumption, Numbers
  <2> QED BY <2>1, <2>2 DEF Numbers
<1>14. CASE UNCHANGED vars
  BY <1>14 DEF vars, Numbers
<1> QED BY <1>1, <1>2, <1>3, <1>4, <1>5, <1>6, <1>7, <1>8, <1>9, <1>10, <1>11, <1>12, <1>13,
           <1>14 DEF Next

(* Every variable has its type; in particular the counts of outcomes and   *)
(* manifests, sums of the lines of the files, are numbers (run.py,         *)
(* DatasetOutcome and build_manifest).                                     *)
THEOREM TypeCorrect == Spec => []TypeOK
<1>1. Init => Numbers
  BY BoundAssumption DEF Init, IdleMemory, Numbers, BoundAssumption
<1>2. IInv /\ Numbers /\ [Next]_vars => Numbers'
  BY NumbersStep
<1> QED BY <1>1, <1>2, Invariant, TypeOKIs, PTL DEF Spec
=============================================================================
