-------------------------- MODULE RepoHarvestProofs --------------------------
(***************************************************************************)
(* Theorems about RepoHarvest, for every set of repositories, item count,  *)
(* page size, batch width and cap, and for any number of attempts; and,    *)
(* at the end, about NdjsonFile, the file the engine writes, for every set *)
(* of records and any number of writes and kills.                          *)
(***************************************************************************)
EXTENDS RepoHarvest, NdjsonFile, SequenceFacts, FiniteSetTheorems

(* Which of the engine's lists may be empty where, and that the gaps of    *)
(* this attempt are among those of the checkpoint.                         *)
Shape ==
    /\ ~Fetching \/ pc = "loop" => work = <<>> /\ pending = <<>>
    /\ ~Fetching \/ pc \in {"loop", "query"} => page = <<>>
    /\ pc \in {"query", "failed", "reply", "mark", "write"} => work # <<>>
    /\ pc \in {"mark", "write"} => page # <<>>
    /\ pc = "down" => written = Nowhere /\ offset = Nowhere
    /\ Fetching => status = "pending"
    /\ gaps \subseteq ledger

(* How far the engine is with each repository: a fresh page starts at the  *)
(* stored cursor, everything before the next item is stored, and the cap   *)
(* never counts more than is stored.                                       *)
InPage(r) == pc = "write" /\ r = Head(page)
BehindOffset ==
    \A r \in Repo : /\ Stored(r, offset[r])
                    /\ cursor[r] # Done => cursor[r] <= ItemCount[r]
HeldOffsets ==
    Fetching => \A r \in Held : /\ cursor[r] = offset[r]
                                /\ written[r] <= IF InPage(r) THEN at ELSE offset[r]
PageProgress ==
    pc = "write" => /\ offset[Head(page)] <= at /\ at <= PageEnd(Head(page))
                    /\ Stored(Head(page), at)
MarkedHasGap == pc = "mark" => FinalGap(Head(page))
Progress == BehindOffset /\ HeldOffsets /\ PageProgress /\ MarkedHasGap

(* The inductive invariant.                                                *)
IInv == TypeOK /\ Shape /\ HeldOnce /\ NothingDropped /\ Progress /\ CursorNeverAhead

----------------------------------------------------------------------------
(* Type correctness                                                        *)

(* Sub-batches: their repositories and page size, and those of the halves. *)
LEMMA WorkTypes ==
    ASSUME TypeOK, work # <<>>
    PROVE  /\ Head(work) = work[1] /\ 1 \in DOMAIN work
           /\ Head(work) \in SubBatch /\ Tail(work) \in Seq(SubBatch)
           /\ Head(work).repos \in Seq(Repo) /\ Head(work).size \in Nat \ {0}
           /\ \A k \in DOMAIN work : work[k] \in SubBatch /\ work[k].repos \in Seq(Repo)
<1>1. work \in Seq(SubBatch)
  BY DEF TypeOK
<1>2. Head(work) \in SubBatch /\ Tail(work) \in Seq(SubBatch) /\ Head(work) = work[1]
  BY <1>1, TailFacts
<1>3. \A k \in DOMAIN work : work[k] \in SubBatch
  BY <1>1, LenProperties, ElementOfSeq
<1>4. 1 \in DOMAIN work
  BY <1>1, EmptySeq, LenProperties
<1> QED BY <1>2, <1>3, <1>4 DEF SubBatch

LEMMA ItemType == \A r \in Repo, i \in Nat : i \in 1 .. ItemCount[r] => <<r, i>> \in Item
BY DEF Item

LEMMA InitTypeOK == Init => TypeOK
<1> SUFFICES ASSUME Init PROVE TypeOK
  OBVIOUS
<1>1. queue \in Seq(Repo) /\ page \in Seq(Repo) /\ pending \in Seq(Repo)
      /\ work \in Seq(SubBatch)
  BY EmptyFacts DEF Init
<1>2. /\ cursor \in [Repo -> Nat \cup {Done}] /\ copies \in [Item -> Nat]
      /\ offset \in [Repo -> Nat] /\ written \in [Repo -> Nat]
  BY DEF Init, Nowhere
<1> QED BY <1>1, <1>2 DEF Init, TypeOK

(* The process ending leaves memory well typed.                            *)
DiskTypeOK ==
    /\ cursor \in [Repo -> Nat \cup {Done}] /\ ledger \in SUBSET Gap
    /\ status \in {"pending", "complete"} /\ copies \in [Item -> Nat]
    /\ tail \in {"clean", "torn", "garbled", "corrupt"} /\ lost \in SUBSET Item
    /\ manifest \in Outcome \cup {None} /\ attempts \in Nat /\ crashes \in Nat

LEMMA ExitTypeOK == Exit /\ DiskTypeOK' => TypeOK'
<1> SUFFICES ASSUME Exit, DiskTypeOK' PROVE TypeOK'
  OBVIOUS
<1>1. queue' \in Seq(Repo) /\ page' \in Seq(Repo) /\ pending' \in Seq(Repo)
      /\ work' \in Seq(SubBatch)
  BY EmptyFacts DEF Exit
<1>2. offset' \in [Repo -> Nat] /\ written' \in [Repo -> Nat]
  BY DEF Exit, Nowhere
<1> QED BY <1>1, <1>2 DEF Exit, DiskTypeOK, TypeOK

LEMMA HalfFacts == \A n \in Nat : n \div 2 \in 0 .. n /\ (n > 1 => n \div 2 \in Nat \ {0})
OBVIOUS

LEMMA StartTypeOK == TypeOK /\ Start => TypeOK'
<1> SUFFICES ASSUME TypeOK, Start PROVE TypeOK'
  OBVIOUS
<1>1. offset' \in [Repo -> Nat]
  BY DEF Start, FirstPage, TypeOK
<1>2. queue' \in Seq(Repo)
  <2>1. \A q \in Remaining : q \in Seq(Repo)
    BY SeqDef, RepoAssumption, LenProperties DEF Remaining
  <2> QED BY <2>1, EmptyFacts DEF Start
<1> QED BY <1>1, <1>2 DEF Start, TypeOK, disk

LEMMA LoopTypeOK ==
    TypeOK /\ (TakeBatch \/ EndLoop \/ CountRecords \/ Publish) => TypeOK'
<1> SUFFICES ASSUME TypeOK PROVE TakeBatch \/ EndLoop \/ CountRecords \/ Publish => TypeOK'
  OBVIOUS
<1>1. ASSUME TakeBatch PROVE TypeOK'
  <2> DEFINE n == SmallerOf(BatchWidth, Len(queue))
  <2>1. n \in 0 .. Len(queue)
    BY SizeAssumption, LenProperties DEF TypeOK, SmallerOf
  <2>2. SubSeq(queue, 1, n) \in Seq(Repo) /\ SubSeq(queue, n + 1, Len(queue)) \in Seq(Repo)
    BY <2>1, CutFacts DEF TypeOK
  <2>3. work' \in Seq(SubBatch)
    BY <2>2, <1>1, SizeAssumption DEF TakeBatch, SubBatch
  <2> QED BY <2>2, <2>3, <1>1 DEF TakeBatch, TypeOK, disk, history
<1>2. ASSUME EndLoop PROVE TypeOK'
  BY <1>2 DEF EndLoop, FinalStatus, TypeOK, memory, history
<1>3. ASSUME CountRecords PROVE TypeOK'
  <2>1. [lines |-> copies, gaps |-> gaps] \in Outcome
    BY DEF TypeOK, Outcome
  <2>2. CASE Exit /\ UNCHANGED <<disk, history>>
    BY <2>2, ExitTypeOK DEF TypeOK, DiskTypeOK, disk, history
  <2>3. CASE tail # "corrupt"
    BY <2>1, <2>3, <1>3 DEF CountRecords, TypeOK, disk, history
  <2> QED BY <2>2, <2>3, <1>3 DEF CountRecords
<1>4. ASSUME Publish PROVE TypeOK'
  <2>1. CASE Exit /\ UNCHANGED <<disk, manifest, attempts, crashes>>
    BY <2>1, ExitTypeOK DEF TypeOK, DiskTypeOK, disk
  <2>2. CASE ~interrupted
    BY <2>2, <1>4 DEF Publish, TypeOK, disk, memory
  <2> QED BY <2>1, <2>2, <1>4 DEF Publish
<1> QED BY <1>1, <1>2, <1>3, <1>4

LEMMA QueryTypeOK ==
    TypeOK /\ Shape /\ ( \/ TransportFails \/ TransportGap \/ ShrinkPage \/ SplitBatch
                         \/ NodeLimitGap \/ Reply \/ QueryRaises ) => TypeOK'
<1> SUFFICES ASSUME TypeOK, Shape
             PROVE  ( \/ TransportFails \/ TransportGap \/ ShrinkPage \/ SplitBatch
                      \/ NodeLimitGap \/ Reply \/ QueryRaises ) => TypeOK'
  OBVIOUS
<1>1. ASSUME TransportFails PROVE TypeOK'
  BY <1>1, WorkTypes DEF TransportFails, Shape, TypeOK, disk, history
<1>2. ASSUME TransportGap PROVE TypeOK'
  <2>1. Head(page) \in Repo /\ Tail(page) \in Seq(Repo)
    BY <1>2, TailFacts DEF TransportGap, TypeOK
  <2>2. <<Head(page), "transport">> \in Gap
    BY <2>1 DEF Gap, Reason
  <2> QED BY <2>1, <2>2, <1>2 DEF TransportGap, RecordGap, TypeOK, history
<1>3. ASSUME ShrinkPage PROVE TypeOK'
  <2>1. work # <<>> /\ work[1].size > 1
    BY <1>3, WorkTypes DEF ShrinkPage, Shape, CanShrink
  <2>2. /\ work[1] \in SubBatch /\ 1 \in DOMAIN work
        /\ work[1].size \div 2 \in Nat \ {0}
    BY <2>1, WorkTypes
  <2>3. [work[1] EXCEPT !.size = work[1].size \div 2] \in SubBatch
    BY <2>2 DEF SubBatch
  <2>4. work' = [work EXCEPT ![1] = [work[1] EXCEPT !.size = work[1].size \div 2]]
    BY <1>3 DEF ShrinkPage
  <2>5. 1 \in 1 .. Len(work)
    BY <2>2, LenProperties DEF TypeOK
  <2>6. work' \in Seq(SubBatch)
    BY <2>3, <2>4, <2>5, ExceptSeq DEF TypeOK
  <2> QED BY <2>6, <1>3 DEF ShrinkPage, TypeOK, disk, history
<1>4. ASSUME SplitBatch PROVE TypeOK'
  <2>1. work # <<>>
    BY <1>4 DEF SplitBatch, Shape
  <2> DEFINE repos == Head(work).repos
             mid == Len(repos) \div 2
             u == SubSeq(repos, 1, mid)
             v == SubSeq(repos, mid + 1, Len(repos))
  <2>2. repos \in Seq(Repo) /\ Len(repos) \in Nat
    BY <2>1, WorkTypes, LenProperties
  <2>2a. mid \in 0 .. Len(repos)
    BY <2>2, HalfFacts
  <2>3. u \in Seq(Repo) /\ v \in Seq(Repo)
    BY <2>2, <2>2a, CutFacts
  <2> HIDE DEF u, v
  <2>4. <<[repos |-> u, size |-> PageSize], [repos |-> v, size |-> PageSize]>>
          \in Seq(SubBatch)
    BY <2>3, SizeAssumption DEF SubBatch
  <2>5. Tail(work) \in Seq(SubBatch)
    BY <2>1, WorkTypes
  <2>6. work' = <<[repos |-> u, size |-> PageSize], [repos |-> v, size |-> PageSize]>>
                  \o Tail(work)
    BY <1>4 DEF SplitBatch, Halves, u, v
  <2>7. work' \in Seq(SubBatch)
    BY <2>4, <2>5, <2>6, ConcatFacts
  <2> QED BY <2>7, <1>4 DEF SplitBatch, TypeOK, disk, history
<1>5. ASSUME NodeLimitGap PROVE TypeOK'
  <2>1. Head(work).repos \in Seq(Repo) /\ Len(Head(work).repos) = 1
    BY <1>5, WorkTypes DEF NodeLimitGap, Shape
  <2>2. Head(work).repos[1] \in Repo
    BY <2>1, ElementOfSeq
  <2>3. <<Head(work).repos[1], "nodelimit">> \in Gap
    BY <2>2 DEF Gap, Reason
  <2> QED BY <2>1, <2>3, <1>5 DEF NodeLimitGap, RecordGap, TypeOK, history
<1>6. ASSUME Reply PROVE TypeOK'
  BY <1>6, WorkTypes DEF Reply, Shape, TypeOK, disk, history
<1>7. ASSUME QueryRaises PROVE TypeOK'
  <2>1. Exit /\ UNCHANGED <<disk, history>>
    BY <1>7 DEF QueryRaises
  <2> QED BY <2>1, ExitTypeOK DEF TypeOK, DiskTypeOK, disk, history
<1> QED BY <1>1, <1>2, <1>3, <1>4, <1>5, <1>6, <1>7

(* The page being read, where there is one.                                *)
LEMMA PageTypes ==
    ASSUME TypeOK, page # <<>>
    PROVE  /\ Head(page) \in Repo /\ Tail(page) \in Seq(Repo)
           /\ offset[Head(page)] \in Nat /\ ItemCount[Head(page)] \in Nat
BY TailFacts, CountAssumption DEF TypeOK

LEMMA PageEndType ==
    ASSUME TypeOK, work # <<>>, NEW r \in Repo
    PROVE  /\ PageEnd(r) \in Nat /\ PageEnd(r) <= ItemCount[r]
           /\ offset[r] <= ItemCount[r] => offset[r] <= PageEnd(r)
           /\ PageEnd(r) < ItemCount[r] => offset[r] < PageEnd(r)
<1>1. Head(work).size \in Nat \ {0} /\ ItemCount[r] \in Nat
  BY WorkTypes, CountAssumption
<1>2. offset[r] \in Nat
  BY DEF TypeOK
<1> QED BY <1>1, <1>2 DEF PageEnd, SmallerOf

LEMMA PageTypeOK ==
    TypeOK /\ Shape /\ (NoData \/ MarkDone \/ PageArrives \/ SaveCursor \/ BatchDone)
      => TypeOK'
<1> SUFFICES ASSUME TypeOK, Shape
             PROVE  NoData \/ MarkDone \/ PageArrives \/ SaveCursor \/ BatchDone => TypeOK'
  OBVIOUS
<1>1. ASSUME NoData PROVE TypeOK'
  <2>1. <<Head(page), "nodata">> \in Gap
    BY <1>1, PageTypes DEF NoData, Gap, Reason
  <2> QED BY <2>1, <1>1 DEF NoData, RecordGap, TypeOK, history
<1>2. ASSUME MarkDone PROVE TypeOK'
  BY <1>2, PageTypes DEF MarkDone, Shape, TypeOK, history
<1>3. ASSUME PageArrives PROVE TypeOK'
  <2>1. <<Head(page), "field">> \in Gap
    BY <1>3, PageTypes DEF PageArrives, Gap, Reason
  <2> QED BY <2>1, <1>3, PageTypes DEF PageArrives, RecordGap, TypeOK, history
<1>4. ASSUME SaveCursor PROVE TypeOK'
  <2>1. Head(page) \in Repo /\ Tail(page) \in Seq(Repo) /\ PageEnd(Head(page)) \in Nat
    BY <1>4, PageTypes, PageEndType DEF SaveCursor, Shape
  <2>2. Append(pending, Head(page)) \in Seq(Repo)
    BY <2>1, AppendFacts DEF TypeOK
  <2> QED BY <2>1, <2>2, <1>4 DEF SaveCursor, TypeOK, history
<1>5. ASSUME BatchDone PROVE TypeOK'
  <2>1. Tail(work) \in Seq(SubBatch)
    BY <1>5, WorkTypes DEF BatchDone, Shape
  <2>2. Requeued \in Seq(Repo)
    BY ConcatFacts DEF Requeued, TypeOK
  <2> QED BY <2>1, <2>2, <1>5, EmptyFacts DEF BatchDone, TypeOK, disk, history
<1> QED BY <1>1, <1>2, <1>3, <1>4, <1>5

----------------------------------------------------------------------------
(* The engine's lists                                                      *)

LEMMA ShapeStep == TypeOK /\ Shape /\ [Next]_vars => Shape'
<1> SUFFICES ASSUME TypeOK, Shape, [Next]_vars PROVE Shape'
  OBVIOUS
<1> USE DEF Shape, Fetching
<1>1. ASSUME Exit PROVE Shape'
  BY <1>1 DEF Exit
<1>2. CASE Start
  BY <1>2 DEF Start, disk, TypeOK
<1>3. CASE TakeBatch
  BY <1>3 DEF TakeBatch, disk
<1>4. CASE EndLoop
  BY <1>4 DEF EndLoop, memory
<1>5. CASE CountRecords
  BY <1>1, <1>5 DEF CountRecords, disk, TypeOK
<1>6. CASE Publish
  BY <1>1, <1>6 DEF Publish, disk, memory, TypeOK
<1>7. CASE TransportFails \/ Reply
  BY <1>7 DEF TransportFails, Reply, disk
<1>8. CASE TransportGap
  BY <1>8 DEF TransportGap, RecordGap
<1>9. CASE ShrinkPage
  BY <1>9 DEF ShrinkPage, disk, TypeOK
<1>10. CASE SplitBatch
  <2>1. work' # <<>>
    <3> DEFINE h == <<[repos |-> Halves(Head(work).repos)[1], size |-> PageSize],
                      [repos |-> Halves(Head(work).repos)[2], size |-> PageSize]>>
    <3>1. work # <<>> /\ Tail(work) \in Seq(SubBatch) /\ work' = h \o Tail(work)
      BY <1>10, WorkTypes DEF SplitBatch
    <3>2. h \in Seq({h[1], h[2]} \cup SubBatch) /\ h # <<>>
      OBVIOUS
    <3>3. Tail(work) \in Seq({h[1], h[2]} \cup SubBatch)
      BY <3>1, SeqMonotonic
    <3> HIDE DEF h
    <3> QED BY <3>1, <3>2, <3>3, ConcatEqualIffEmpty
  <2> QED BY <2>1, <1>10 DEF SplitBatch, disk
<1>11. CASE NodeLimitGap
  <2>1. Head(work).repos # <<>>
    BY <1>11 DEF NodeLimitGap
  <2> QED BY <2>1, <1>11 DEF NodeLimitGap, RecordGap
<1>12. CASE QueryRaises
  BY <1>1, <1>12 DEF QueryRaises, disk, TypeOK
<1>13. CASE NoData \/ PageArrives
  BY <1>13 DEF NoData, PageArrives, RecordGap
<1>14. CASE MarkDone
  BY <1>14 DEF MarkDone
<1>15. CASE WriteRecord
  BY <1>15 DEF WriteRecord
<1>16. CASE SaveCursor
  BY <1>16 DEF SaveCursor
<1>17. CASE BatchDone
  BY <1>17 DEF BatchDone, disk
<1>18. CASE Sigint
  BY <1>18 DEF Sigint, disk
<1>19. CASE Crash \/ TearLine
  BY <1>1, <1>19 DEF Crash, TearLine, Die, TypeOK
<1>20. CASE UNCHANGED vars
  BY <1>20 DEF vars, disk, memory
<1> QED
  BY <1>2, <1>3, <1>4, <1>5, <1>6, <1>7, <1>8, <1>9, <1>10, <1>11, <1>12, <1>13, <1>14,
     <1>15, <1>16, <1>17, <1>18, <1>19, <1>20 DEF Next, Engine

(* What Start queues: every repository not done, once.                     *)
LEMMA RemainingFacts ==
    ASSUME NEW q \in Remaining
    PROVE  q \in Seq(Repo) /\ IsInjective(q) /\ Range(q) = {r \in Repo : cursor[r] # Done}
<1>1. q \in Seq(Repo)
  BY SeqDef, RepoAssumption, LenProperties DEF Remaining
<1>2. \A r \in Repo : Position(r) \in Int
  BY RepoAssumption, LenProperties DEF Position, Range
<1>3. \A i \in DOMAIN q : q[i] \in Repo /\ i \in Int
  BY <1>1, ElementOfSeq, LenProperties
<1>4. \A i, j \in DOMAIN q : i < j => Position(q[i]) < Position(q[j])
  BY DEF Remaining
<1>5. IsInjective(q)
  BY <1>2, <1>3, <1>4 DEF IsInjective
<1> QED BY <1>1, <1>5 DEF Remaining

LEMMA HeldRepos == TypeOK => Held \subseteq Repo
<1> SUFFICES ASSUME TypeOK PROVE Held \subseteq Repo
  OBVIOUS
<1>1. Range(queue) \subseteq Repo /\ Range(pending) \subseteq Repo /\ Range(page) \subseteq Repo
  BY RangeOfSeq DEF TypeOK
<1>2. \A k \in Unread : Batch(k) \subseteq Repo
  <2>1. work # <<>> \/ DOMAIN work = {}
    BY LenProperties, EmptySeq DEF TypeOK
  <2> QED BY <2>1, WorkTypes, RangeOfSeq DEF Unread, Batch
<1> QED BY <1>1, <1>2 DEF Held

(* Steps that move no repository between the lists.                        *)
LEMMA HeldSame ==
    ASSUME TypeOK, HeldOnce, NothingDropped, Fetching, Fetching',
           UNCHANGED <<queue, pending, page, work, cursor>>, gaps \subseteq gaps',
           (pc # "query" /\ pc' # "query") \/ pc' = pc
    PROVE  HeldOnce' /\ NothingDropped' /\ Held' = Held
<1>1. Unread' = Unread /\ \A k : Batch(k)' = Batch(k)
  BY DEF Unread, Batch
<1>2. Held' = Held
  BY <1>1 DEF Held
<1> QED BY <1>1, <1>2 DEF HeldOnce, NothingDropped, Disjoint

LEMMA HeldStart ==
    ASSUME TypeOK, Shape, Start
    PROVE  HeldOnce' /\ NothingDropped'
<1>1. CASE status = "complete"
  BY <1>1 DEF Start, HeldOnce, NothingDropped, Fetching
<1>2. CASE status # "complete"
  <2>1. /\ queue' \in Remaining /\ pc' = "loop" /\ cursor' = cursor
        /\ work' = <<>> /\ pending' = <<>> /\ page' = <<>>
    BY <1>2 DEF Start, Shape, disk, Fetching
  <2>2. IsInjective(queue') /\ Range(queue') = {r \in Repo : cursor[r] # Done}
    BY <2>1, RemainingFacts
  <2>3. Unread' = {} /\ Range(pending') = {} /\ Range(page') = {}
        /\ IsInjective(pending') /\ IsInjective(page')
    BY <2>1, EmptyFacts DEF Unread
  <2>4. Held' = Range(queue')
    BY <2>3 DEF Held
  <2> QED BY <2>1, <2>2, <2>3, <2>4 DEF HeldOnce, NothingDropped, Disjoint
<1> QED BY <1>1, <1>2

LEMMA HeldTakeBatch ==
    ASSUME TypeOK, Shape, HeldOnce, NothingDropped, TakeBatch
    PROVE  HeldOnce' /\ NothingDropped' /\ Held' = Held
<1> DEFINE n == SmallerOf(BatchWidth, Len(queue))
           u == SubSeq(queue, 1, n)
           v == SubSeq(queue, n + 1, Len(queue))
<1>1. n \in 0 .. Len(queue)
  BY SizeAssumption, LenProperties DEF TypeOK, SmallerOf
<1>2. /\ Range(queue) = Range(u) \cup Range(v)
      /\ IsInjective(queue) =>
           IsInjective(u) /\ IsInjective(v) /\ Range(u) \cap Range(v) = {}
  BY <1>1, CutFacts DEF TypeOK
<1>3. /\ pc = "loop" /\ pc' = "query" /\ work = <<>> /\ pending = <<>> /\ page = <<>>
      /\ pending' = <<>> /\ page' = <<>> /\ cursor' = cursor /\ gaps' = gaps
      /\ queue' = v /\ work' = <<[repos |-> u, size |-> PageSize]>>
  BY DEF TakeBatch, Shape, disk, Fetching
<1> HIDE DEF u, v
<1>4. Unread = {} /\ Unread' = {1} /\ Batch(1)' = Range(u) /\ work'[1].repos = u
  BY <1>3 DEF Unread, Batch
<1>5. Held = Range(queue) /\ Held' = Held
  BY <1>2, <1>3, <1>4, EmptyFacts DEF Held
<1>6. IsInjective(queue) /\ \A r \in Held : cursor[r] # Done
  BY <1>3 DEF HeldOnce, Fetching
<1> QED BY <1>2, <1>3, <1>4, <1>5, <1>6, EmptyFacts
        DEF HeldOnce, NothingDropped, Fetching, Disjoint

(* The batch of the current query becomes the page being read.             *)
LEMMA HeldOpen ==
    ASSUME TypeOK, Shape, HeldOnce, NothingDropped, pc = "query",
           UNCHANGED <<queue, pending, work, cursor>>, gaps \subseteq gaps',
           page' = Head(work).repos, pc' \in {"failed", "reply", "mark"}
    PROVE  HeldOnce' /\ NothingDropped' /\ Held' = Held
<1>1. Head(work) = work[1] /\ 1 \in DOMAIN work /\ page = <<>>
  BY WorkTypes DEF Shape
<1>2. Unread = DOMAIN work /\ Unread' = DOMAIN work \ {1} /\ \A k : Batch(k)' = Batch(k)
  BY DEF Unread, Batch
<1>3. Range(page') = Batch(1) /\ page' = work[1].repos /\ Range(page) = {}
  BY <1>1, EmptyFacts DEF Batch
<1>4. Held' = Held
  BY <1>1, <1>2, <1>3 DEF Held
<1>5. 1 \in Unread /\ \A k \in Unread' : k \in Unread /\ k # 1
  BY <1>1, <1>2
<1> QED BY <1>2, <1>3, <1>4, <1>5 DEF HeldOnce, NothingDropped, Fetching, Disjoint

LEMMA HeldShrink ==
    ASSUME TypeOK, Shape, HeldOnce, NothingDropped, ShrinkPage
    PROVE  HeldOnce' /\ NothingDropped' /\ Held' = Held
<1>1. pc = "query" /\ pc' = "query" /\ work # <<>> /\ UNCHANGED <<queue, pending, page, cursor, gaps>>
  BY DEF ShrinkPage, Shape, disk
<1>2. 1 \in DOMAIN work /\ work[1] \in SubBatch
  BY <1>1, WorkTypes
<1>3. work' = [work EXCEPT ![1] = [work[1] EXCEPT !.size = work[1].size \div 2]]
  BY DEF ShrinkPage
<1>4. work \in [DOMAIN work -> SubBatch]
  BY LenProperties DEF TypeOK
<1>5. DOMAIN work' = DOMAIN work
  BY <1>3, <1>4
<1>6. ASSUME NEW k \in DOMAIN work PROVE work'[k].repos = work[k].repos
  BY <1>2, <1>3, <1>4 DEF SubBatch
<1>7. Unread' = Unread /\ Unread = DOMAIN work /\ \A k \in Unread : Batch(k)' = Batch(k)
  BY <1>1, <1>5, <1>6 DEF Unread, Batch
<1>8. Held' = Held
  BY <1>1, <1>7 DEF Held
<1> QED BY <1>1, <1>6, <1>7, <1>8 DEF HeldOnce, NothingDropped, Fetching, Disjoint

(* Splitting puts two disjoint halves in the place of the batch.           *)
LEMMA HeldSplit ==
    ASSUME TypeOK, Shape, HeldOnce, NothingDropped, SplitBatch
    PROVE  HeldOnce' /\ NothingDropped' /\ Held' = Held
<1> DEFINE repos == Head(work).repos
           mid == Len(repos) \div 2
           u == SubSeq(repos, 1, mid)
           v == SubSeq(repos, mid + 1, Len(repos))
           a == [repos |-> u, size |-> PageSize]
           b == [repos |-> v, size |-> PageSize]
<1>1. /\ pc = "query" /\ pc' = "query" /\ work # <<>>
      /\ UNCHANGED <<queue, pending, page, cursor, gaps>>
  BY DEF SplitBatch, Shape, disk
<1>2. repos \in Seq(Repo) /\ repos = work[1].repos /\ 1 \in DOMAIN work
      /\ Tail(work) \in Seq(SubBatch)
  BY <1>1, WorkTypes
<1>3. mid \in 0 .. Len(repos)
  BY <1>2, LenProperties, HalfFacts
<1>4. /\ u \in Seq(Repo) /\ v \in Seq(Repo)
      /\ Range(repos) = Range(u) \cup Range(v)
      /\ IsInjective(repos) =>
           IsInjective(u) /\ IsInjective(v) /\ Range(u) \cap Range(v) = {}
  BY <1>2, <1>3, CutFacts
<1>5. work' = <<a, b>> \o Tail(work)
  BY DEF SplitBatch, Halves
<1> HIDE DEF u, v
<1>6. <<a, b>> \in Seq(SubBatch)
  BY <1>4, SizeAssumption DEF SubBatch
<1>7. /\ Len(Tail(work)) = Len(work) - 1 /\ Len(work) \in Nat \ {0}
      /\ \A i \in 1 .. Len(work) - 1 : Tail(work)[i] = work[i + 1]
      /\ DOMAIN work = 1 .. Len(work)
  BY <1>1, HeadTailProperties, EmptySeq, LenProperties DEF TypeOK
<1>8. /\ work' \in Seq(SubBatch) /\ Len(work') = 2 + (Len(work) - 1)
      /\ \A i \in 1 .. 2 + (Len(work) - 1) :
            work'[i] = IF i <= 2 THEN <<a, b>>[i] ELSE Tail(work)[i - 2]
  <2>1. Len(<<a, b>>) = 2
    OBVIOUS
  <2> HIDE DEF a, b
  <2> QED BY <1>2, <1>5, <1>6, <1>7, <2>1, ConcatProperties
<1>9. /\ DOMAIN work' = 1 .. Len(work) + 1
      /\ work'[1].repos = u /\ work'[2].repos = v
      /\ \A i \in 3 .. Len(work) + 1 : work'[i] = work[i - 1] /\ i - 1 \in DOMAIN work
  <2>1. DOMAIN work' = 1 .. Len(work) + 1
    BY <1>7, <1>8, LenProperties
  <2>2. work'[1] = a /\ work'[2] = b
    BY <1>7, <1>8
  <2>3. ASSUME NEW i \in 3 .. Len(work) + 1
        PROVE  work'[i] = work[i - 1] /\ i - 1 \in DOMAIN work
    <3>1. i - 2 \in 1 .. Len(work) - 1 /\ (i - 2) + 1 = i - 1 /\ ~(i <= 2)
          /\ i \in 1 .. 2 + (Len(work) - 1) /\ i - 1 \in 1 .. Len(work)
      BY <1>7
    <3>2. work'[i] = Tail(work)[i - 2]
      BY <3>1, <1>8
    <3> QED BY <3>1, <3>2, <1>7
  <2> QED BY <2>1, <2>2, <2>3
<1>10. /\ Unread = DOMAIN work /\ Unread' = 1 .. Len(work) + 1
       /\ Batch(1)' = Range(u) /\ Batch(2)' = Range(v)
       /\ Batch(1) = Range(u) \cup Range(v)
       /\ \A i \in 3 .. Len(work) + 1 : Batch(i)' = Batch(i - 1)
  BY <1>1, <1>2, <1>4, <1>9 DEF Unread, Batch
<1>11. \A i \in 1 .. Len(work) + 1 : i \in {1, 2} \/ i \in 3 .. Len(work) + 1
  BY <1>7
<1>12. Held' = Held
  <2>1. UNION {Batch(k)' : k \in Unread'} = UNION {Batch(k) : k \in Unread}
    <3>1. ASSUME NEW k \in Unread' PROVE \E l \in Unread : Batch(k)' \subseteq Batch(l)
      BY <1>2, <1>9, <1>10, <1>11
    <3>2. ASSUME NEW l \in Unread, NEW r \in Batch(l)
          PROVE  \E k \in Unread' : r \in Batch(k)'
      <4>1. CASE l = 1
        <5>1. 1 \in Unread' /\ 2 \in Unread'
          BY <1>7, <1>10
        <5> QED BY <4>1, <5>1, <1>10
      <4>2. CASE l # 1
        <5>1. l + 1 \in 3 .. Len(work) + 1 /\ (l + 1) - 1 = l /\ l + 1 \in Unread'
          BY <4>2, <1>7, <1>10
        <5> QED BY <5>1, <1>10
      <4> QED BY <4>1, <4>2
    <3> QED BY <3>1, <3>2
  <2> QED BY <2>1, <1>1 DEF Held
<1>13. /\ IsInjective(u) /\ IsInjective(v) /\ Disjoint(Range(u), Range(v))
       /\ \A k \in Unread : /\ IsInjective(work[k].repos)
            /\ Disjoint(Batch(k), Range(queue) \cup Range(pending) \cup Range(page))
            /\ \A l \in Unread \ {k} : Disjoint(Batch(k), Batch(l))
  BY <1>1, <1>2, <1>4, <1>10 DEF HeldOnce, Fetching, Disjoint
<1>14. \A k \in Unread' :
         /\ IsInjective(work'[k].repos)
         /\ Disjoint(Batch(k)', Range(queue) \cup Range(pending) \cup Range(page))
         /\ \A l \in Unread' \ {k} : Disjoint(Batch(k)', Batch(l)')
  <2> SUFFICES ASSUME NEW k \in Unread'
               PROVE  /\ IsInjective(work'[k].repos)
                      /\ Disjoint(Batch(k)', Range(queue) \cup Range(pending) \cup Range(page))
                      /\ \A l \in Unread' \ {k} : Disjoint(Batch(k)', Batch(l)')
    OBVIOUS
  <2>1. CASE k \in {1, 2}
    <3>1. Batch(k)' \subseteq Batch(1) /\ IsInjective(work'[k].repos)
      BY <2>1, <1>9, <1>10, <1>13
    <3>2. ASSUME NEW l \in Unread', l # k PROVE Disjoint(Batch(k)', Batch(l)')
      <4>1. CASE l \in {1, 2}
        BY <4>1, <3>2, <2>1, <1>10, <1>13 DEF Disjoint
      <4>2. CASE l \in 3 .. Len(work) + 1
        <5>1. l - 1 \in Unread /\ l - 1 # 1 /\ 1 \in Unread
          BY <4>2, <1>2, <1>9, <1>10, <1>7
        <5> QED BY <5>1, <4>2, <3>1, <1>10, <1>13 DEF Disjoint
      <4> QED BY <4>1, <4>2, <1>10, <1>11
    <3> QED BY <3>1, <3>2, <1>2, <1>10, <1>13 DEF Disjoint
  <2>2. CASE k \in 3 .. Len(work) + 1
    <3>1. k - 1 \in Unread /\ k - 1 # 1 /\ 1 \in Unread /\ Batch(k)' = Batch(k - 1)
          /\ IsInjective(work'[k].repos)
      BY <2>2, <1>2, <1>9, <1>10, <1>7, <1>13
    <3>2. ASSUME NEW l \in Unread', l # k PROVE Disjoint(Batch(k)', Batch(l)')
      <4>1. CASE l \in {1, 2}
        BY <4>1, <3>1, <1>10, <1>13 DEF Disjoint
      <4>2. CASE l \in 3 .. Len(work) + 1
        <5>1. l - 1 \in Unread /\ l - 1 # k - 1 /\ Batch(l)' = Batch(l - 1)
          BY <4>2, <2>2, <3>2, <1>9, <1>10, <1>7
        <5> QED BY <5>1, <3>1, <1>13
      <4> QED BY <4>1, <4>2, <1>10, <1>11
    <3> QED BY <3>1, <3>2, <1>13
  <2> QED BY <2>1, <2>2, <1>10, <1>11
<1>15. /\ pc' = "query" /\ \A r \in Held : cursor[r] # Done
       /\ \A r \in Repo : cursor[r] = Done \/ <<r, "transport">> \in gaps \/ r \in Held
  BY <1>1 DEF HeldOnce, NothingDropped, Fetching
<1> QED BY <1>1, <1>12, <1>14, <1>15 DEF HeldOnce, NothingDropped, Fetching

(* A repository leaves the page: it failed, it is done, or it waits for    *)
(* its next page.                                                          *)
LEMMA HeldTransportGap ==
    ASSUME TypeOK, Shape, HeldOnce, NothingDropped, TransportGap
    PROVE  HeldOnce' /\ NothingDropped' /\ Held' \subseteq Held
<1>1. /\ pc = "failed" /\ pc' = "failed" /\ page # <<>> /\ page' = Tail(page)
      /\ UNCHANGED <<queue, pending, work, cursor>>
      /\ gaps' = gaps \cup {<<Head(page), "transport">>}
  BY DEF TransportGap, RecordGap
<1>2. /\ Range(page) = {Head(page)} \cup Range(page')
      /\ IsInjective(page) => IsInjective(page') /\ Head(page) \notin Range(page')
  BY <1>1, TailFacts DEF TypeOK
<1>3. Unread' = Unread /\ \A k : Batch(k)' = Batch(k)
  BY <1>1 DEF Unread, Batch
<1>4. Held = Held' \cup {Head(page)}
  BY <1>1, <1>2, <1>3 DEF Held
<1> QED BY <1>1, <1>2, <1>3, <1>4 DEF HeldOnce, NothingDropped, Fetching, Disjoint

(* The same for a repository marked CURSOR_DONE.                           *)
LEMMA HeldDone ==
    ASSUME TypeOK, HeldOnce, NothingDropped, pc \in {"mark", "write"}, pc' = "reply",
           page # <<>>, page' = Tail(page), UNCHANGED <<queue, pending, work, gaps>>,
           cursor' = [cursor EXCEPT ![Head(page)] = Done]
    PROVE  /\ HeldOnce' /\ NothingDropped' /\ Held' \subseteq Held
           /\ Head(page) \notin Held'
<1>1. /\ Range(page) = {Head(page)} \cup Range(page') /\ Head(page) \in Repo
      /\ IsInjective(page) => IsInjective(page') /\ Head(page) \notin Range(page')
  BY TailFacts DEF TypeOK
<1>2. Unread' = Unread /\ \A k : Batch(k)' = Batch(k)
  BY DEF Unread, Batch
<1>3. /\ IsInjective(page') /\ Head(page) \notin Range(page')
      /\ Head(page) \notin Range(queue) \cup Range(pending)
      /\ \A k \in Unread : Head(page) \notin Batch(k)
  BY <1>1 DEF HeldOnce, Fetching, Disjoint
<1>4. Held = Held' \cup {Head(page)} /\ Head(page) \notin Held'
  BY <1>1, <1>2, <1>3 DEF Held
<1>5. /\ cursor'[Head(page)] = Done
      /\ \A r \in Repo : r # Head(page) => cursor'[r] = cursor[r]
  BY <1>1 DEF TypeOK
<1>6. Held \subseteq Repo
  BY HeldRepos
<1>7. \A r \in Held' : cursor'[r] # Done
  BY <1>4, <1>5, <1>6 DEF HeldOnce, Fetching
<1>8. \A r \in Repo : \/ cursor'[r] = Done \/ <<r, "transport">> \in gaps'
                       \/ r \in Held'
  BY <1>4, <1>5 DEF NothingDropped, Fetching
<1>9. HeldOnce'
  BY <1>1, <1>2, <1>3, <1>7 DEF HeldOnce, Fetching, Disjoint
<1> QED BY <1>4, <1>8, <1>9 DEF NothingDropped

LEMMA HeldMore ==
    ASSUME TypeOK, HeldOnce, NothingDropped, pc = "write", pc' = "reply",
           page # <<>>, page' = Tail(page), UNCHANGED <<queue, work, gaps>>,
           pending' = Append(pending, Head(page)),
           NEW c \in Nat, cursor' = [cursor EXCEPT ![Head(page)] = c]
    PROVE  HeldOnce' /\ NothingDropped' /\ Held' = Held
<1>1. /\ Range(page) = {Head(page)} \cup Range(page') /\ Head(page) \in Repo
      /\ IsInjective(page) => IsInjective(page') /\ Head(page) \notin Range(page')
  BY TailFacts DEF TypeOK
<1>2. Unread' = Unread /\ \A k : Batch(k)' = Batch(k)
  BY DEF Unread, Batch
<1>3. /\ IsInjective(page') /\ Head(page) \notin Range(page')
      /\ Head(page) \notin Range(queue) \cup Range(pending)
      /\ \A k \in Unread : Head(page) \notin Batch(k)
  BY <1>1 DEF HeldOnce, Fetching, Disjoint
<1>4. /\ Range(pending') = Range(pending) \cup {Head(page)}
      /\ IsInjective(pending) /\ Head(page) \notin Range(pending) => IsInjective(pending')
  BY <1>1, AppendFacts DEF TypeOK
<1>5. Held' = Held
  BY <1>1, <1>2, <1>4 DEF Held
<1>6. \A r : r \in DOMAIN cursor /\ r # Head(page) => cursor'[r] = cursor[r]
  OBVIOUS
<1>7. cursor'[Head(page)] # Done
  BY <1>1, DoneAssumption DEF TypeOK
<1>8. Held \subseteq Repo
  BY HeldRepos
<1>9. \A r \in Held' : cursor'[r] # Done
  BY <1>5, <1>6, <1>7, <1>8 DEF HeldOnce, Fetching, TypeOK
<1>9a. NothingDropped'
  BY <1>1, <1>4, <1>5, <1>6 DEF NothingDropped, Fetching, TypeOK, Held
<1>10. HeldOnce'
  BY <1>1, <1>2, <1>3, <1>4, <1>9 DEF HeldOnce, Fetching, Disjoint
<1> QED BY <1>5, <1>9a, <1>10

(* The batch is through: the next (half-)batch is queried, or the pending  *)
(* repositories join the queue.                                            *)
LEMMA HeldBatchDone ==
    ASSUME TypeOK, Shape, HeldOnce, NothingDropped, BatchDone
    PROVE  HeldOnce' /\ NothingDropped' /\ Held' = Held
<1>1. /\ pc \in {"reply", "failed"} /\ page = <<>> /\ work # <<>> /\ page' = page
      /\ work' = Tail(work) /\ cursor' = cursor /\ gaps' = gaps
  BY DEF BatchDone, Shape, disk
<1>2. /\ Tail(work) \in Seq(SubBatch) /\ Len(Tail(work)) = Len(work) - 1
      /\ Len(work) \in Nat \ {0} /\ DOMAIN work = 1 .. Len(work)
      /\ DOMAIN Tail(work) = 1 .. Len(work) - 1
      /\ \A i \in 1 .. Len(work) - 1 : Tail(work)[i] = work[i + 1]
  <2>1. work \in Seq(SubBatch)
    BY DEF TypeOK
  <2>2. Len(work) \in Nat \ {0} /\ DOMAIN work = 1 .. Len(work)
    BY <1>1, <2>1, EmptySeq, LenProperties
  <2>3. /\ Tail(work) \in Seq(SubBatch) /\ Len(Tail(work)) = Len(work) - 1
        /\ \A i \in 1 .. Len(Tail(work)) : Tail(work)[i] = work[i + 1]
    BY <1>1, <2>1, HeadTailProperties
  <2>4. DOMAIN Tail(work) = 1 .. Len(Tail(work))
    BY <2>3, LenProperties
  <2> QED BY <2>2, <2>3, <2>4
<1>3. Unread = 2 .. Len(work)
  <2>1. Unread = (1 .. Len(work)) \ {1}
    BY <1>1, <1>2 DEF Unread
  <2> QED BY <2>1, <1>2
<1>4. \A k \in 1 .. Len(work) - 1 : /\ k + 1 \in Unread
                                    /\ Batch(k)' = Batch(k + 1)
                                    /\ work'[k].repos = work[k + 1].repos
  BY <1>1, <1>2, <1>3 DEF Batch
<1>5. Range(page) = {} /\ IsInjective(page)
  BY <1>1, EmptyFacts
<1>6. CASE Tail(work) = <<>>
  <2>1. /\ queue' = queue \o pending /\ pending' = <<>> /\ pc' = "loop"
    BY <1>6 DEF BatchDone, Requeued
  <2>2. /\ Range(queue') = Range(queue) \cup Range(pending)
        /\ IsInjective(queue) /\ IsInjective(pending)
             /\ Range(queue) \cap Range(pending) = {} => IsInjective(queue')
    BY <2>1, ConcatFacts DEF TypeOK
  <2>3. Unread = {} /\ Unread' = {} /\ Range(pending') = {} /\ IsInjective(pending')
    <3>1. Len(work) = 1
      <4>1. Len(Tail(work)) = 0
        BY <1>6, EmptyFacts
      <4> QED BY <4>1, <1>2
    <3>2. Unread = {}
      BY <3>1, <1>3
    <3>3. DOMAIN work' = {}
      BY <3>1, <1>1, <1>2
    <3> QED BY <3>2, <3>3, <2>1, EmptyFacts DEF Unread
  <2>4. Held' = Held
    BY <1>1, <1>5, <2>2, <2>3 DEF Held
  <2> QED BY <1>1, <1>5, <2>1, <2>2, <2>3, <2>4
          DEF HeldOnce, NothingDropped, Fetching, Disjoint
<1>7. CASE Tail(work) # <<>>
  <2>1. pc' = "query" /\ UNCHANGED <<queue, pending>>
    BY <1>7 DEF BatchDone
  <2>2. Unread' = 1 .. Len(work) - 1
    BY <1>1, <1>2, <2>1 DEF Unread
  <2>3. UNION {Batch(k)' : k \in Unread'} = UNION {Batch(k) : k \in Unread}
    <3>1. ASSUME NEW k \in Unread' PROVE \E l \in Unread : Batch(k)' = Batch(l)
      BY <1>4, <2>2
    <3>2. ASSUME NEW l \in Unread PROVE \E k \in Unread' : Batch(k)' = Batch(l)
      <4>1. l - 1 \in Unread' /\ (l - 1) + 1 = l
        BY <1>2, <1>3, <2>2
      <4> QED BY <4>1, <1>4, <2>2
    <3> QED BY <3>1, <3>2
  <2>4. Held' = Held
    BY <1>1, <2>1, <2>3 DEF Held
  <2>5. \A k \in Unread' :
          /\ IsInjective(work'[k].repos)
          /\ Disjoint(Batch(k)', Range(queue) \cup Range(pending) \cup Range(page))
          /\ \A l \in Unread' \ {k} : Disjoint(Batch(k)', Batch(l)')
    <3> SUFFICES ASSUME NEW k \in Unread'
                 PROVE  /\ IsInjective(work'[k].repos)
                        /\ Disjoint(Batch(k)', Range(queue) \cup Range(pending) \cup Range(page))
                        /\ \A l \in Unread' \ {k} : Disjoint(Batch(k)', Batch(l)')
      OBVIOUS
    <3>1. /\ k + 1 \in Unread /\ Batch(k)' = Batch(k + 1)
          /\ work'[k].repos = work[k + 1].repos
      BY <1>4, <2>2
    <3>2. \A l \in Unread' \ {k} : /\ l + 1 \in Unread /\ l + 1 # k + 1
                                   /\ Batch(l)' = Batch(l + 1)
      <4>1. \A l \in Unread' : l \in Int /\ l + 1 \in Unread /\ Batch(l)' = Batch(l + 1)
        BY <1>4, <2>2
      <4>2. \A l \in Int : l # k => l + 1 # k + 1
        BY <4>1
      <4> QED BY <4>1, <4>2
    <3> QED BY <3>1, <3>2, <1>1 DEF HeldOnce, Fetching
  <2>6. /\ pc' = "query" /\ \A r \in Held : cursor[r] # Done
        /\ \A r \in Repo : cursor[r] = Done \/ <<r, "transport">> \in gaps \/ r \in Held
    BY <1>1, <2>1 DEF HeldOnce, NothingDropped, Fetching
  <2> QED BY <1>1, <2>1, <2>4, <2>5, <2>6 DEF HeldOnce, NothingDropped, Fetching
<1> QED BY <1>6, <1>7

----------------------------------------------------------------------------
(* Records and cursors                                                     *)

LEMMA HeadHeld ==
    ASSUME TypeOK, page # <<>> PROVE Head(page) \in Held /\ Head(page) \in Repo
<1>1. Range(page) = {Head(page)} \cup Range(Tail(page)) /\ Head(page) \in Repo
  BY TailFacts DEF TypeOK
<1> QED BY <1>1 DEF Held

(* Steps that leave the records, the cursors and the offsets alone.        *)
LEMMA ProgressFrame ==
    ASSUME IInv, UNCHANGED <<copies, lost, offset, cursor, written>>,
           ledger \subseteq ledger', pc # "write", pc' \notin {"mark", "write"},
           Fetching' => Fetching /\ Held' \subseteq Held
    PROVE  Progress' /\ CursorNeverAhead'
<1>1. \A r, k : Stored(r, k) => Stored(r, k)'
  BY DEF Stored
<1>2. \A r : FinalGap(r) => FinalGap(r)'
  BY DEF FinalGap
<1>3. CursorNeverAhead'
  BY <1>1, <1>2 DEF IInv, CursorNeverAhead, Stored
<1>4. \A r \in Repo : Stored(r, offset[r])'
  BY <1>1 DEF IInv, Progress, BehindOffset, Stored
<1>5. \A r \in Repo : cursor'[r] # Done => cursor'[r] <= ItemCount[r]
  BY DEF IInv, Progress, BehindOffset, MarkedHasGap
<1>6. Fetching' => \A r \in Held' :
        cursor'[r] = offset'[r] /\ written'[r] <= offset'[r]
  BY DEF IInv, Progress, HeldOffsets, InPage
<1> QED BY <1>3, <1>4, <1>5, <1>6 DEF Progress, InPage, BehindOffset, HeldOffsets, PageProgress, MarkedHasGap

LEMMA ProgressExit ==
    ASSUME IInv, Exit, UNCHANGED <<copies, lost, cursor, ledger>>
    PROVE  Progress' /\ CursorNeverAhead'
<1>1. \A r \in Repo : Stored(r, offset[r])'
  BY DEF Exit, Nowhere, Stored
<1>2. CursorNeverAhead'
  BY DEF IInv, CursorNeverAhead, Stored, FinalGap
<1>3. \A r \in Repo : cursor'[r] # Done => cursor'[r] <= ItemCount[r]
  BY DEF IInv, Progress, BehindOffset, MarkedHasGap
<1> QED BY <1>1, <1>2, <1>3 DEF Exit, Progress, Fetching, BehindOffset, HeldOffsets, PageProgress, MarkedHasGap

LEMMA ProgressStart ==
    ASSUME IInv, Start, HeldOnce' PROVE Progress' /\ CursorNeverAhead'
<1>1. UNCHANGED <<copies, lost, cursor, ledger, written>> /\ pc' \in {"count", "loop"}
  BY DEF Start, disk
<1>2. CursorNeverAhead'
  BY <1>1 DEF IInv, CursorNeverAhead, Stored, FinalGap
<1>3. \A r \in Repo : Stored(r, offset[r])'
  <2> TAKE r \in Repo
  <2>1. CASE cursor[r] = Done
    BY <2>1 DEF Start, FirstPage, Stored
  <2>2. CASE cursor[r] # Done
    <3>1. Stored(r, cursor[r])
      BY <2>2 DEF IInv, CursorNeverAhead
    <3>2. offset'[r] = cursor[r]
      BY <2>2 DEF Start, FirstPage
    <3> QED BY <3>1, <3>2, <1>1 DEF Stored
  <2> QED BY <2>1, <2>2
<1>4. Fetching' => \A r \in Held' : cursor'[r] = offset'[r] /\ written'[r] <= offset'[r]
  <2> SUFFICES ASSUME Fetching', NEW r \in Held'
               PROVE  cursor'[r] = offset'[r] /\ written'[r] <= offset'[r]
    OBVIOUS
  <2>1. TypeOK'
    BY StartTypeOK DEF IInv
  <2>2. r \in Repo
    <3>1. (TypeOK => Held \subseteq Repo)'
      BY HeldRepos, PTL
    <3> QED BY <3>1, <2>1
  <2>3. cursor'[r] # Done
    BY DEF HeldOnce
  <2>4. offset'[r] = cursor'[r] /\ offset'[r] \in Nat
    BY <2>1, <2>2, <2>3, <1>1 DEF Start, FirstPage, TypeOK
  <2>5. pc = "down"
    BY DEF Start
  <2>6. written'[r] = 0
    BY <1>1, <2>2, <2>5 DEF IInv, Shape, Nowhere
  <2> QED BY <2>4, <2>6
<1>5. \A r \in Repo : cursor'[r] # Done => cursor'[r] <= ItemCount[r]
  BY <1>1 DEF IInv, Progress, BehindOffset, MarkedHasGap
<1> QED BY <1>1, <1>2, <1>3, <1>4, <1>5 DEF Progress, InPage, BehindOffset, HeldOffsets, PageProgress, MarkedHasGap

LEMMA ProgressGap ==
    ASSUME IInv, NodeLimitGap \/ NoData, Held' = Held
    PROVE  Progress' /\ CursorNeverAhead'
<1>1. /\ UNCHANGED <<copies, lost, offset, cursor, written>> /\ ledger \subseteq ledger'
      /\ pc # "write" /\ pc' = "mark" /\ Fetching
  BY DEF NodeLimitGap, NoData, RecordGap, Fetching
<1>2. FinalGap(Head(page))'
  <2>1. CASE NodeLimitGap
    <3>1. Head(work).repos \in Seq(Repo) /\ Head(work).repos # <<>>
      BY <2>1, WorkTypes, EmptyFacts DEF NodeLimitGap, IInv, Shape
    <3>2. Head(page') = Head(work).repos[1]
      BY <3>1, <2>1, TailFacts DEF NodeLimitGap
    <3> QED BY <3>2, <2>1 DEF NodeLimitGap, RecordGap, FinalGap
  <2>2. CASE NoData
    BY <2>2 DEF NoData, RecordGap, FinalGap
  <2> QED BY <2>1, <2>2
<1>3. CursorNeverAhead'
  BY <1>1 DEF IInv, CursorNeverAhead, Stored, FinalGap
<1>4. BehindOffset'
  BY <1>1 DEF IInv, Progress, BehindOffset, Stored
<1>5. \A r \in Held' : cursor'[r] = offset'[r] /\ written'[r] <= offset'[r]
  BY <1>1 DEF IInv, Progress, HeldOffsets, InPage
<1>6. PageProgress' /\ MarkedHasGap'
  BY <1>1, <1>2 DEF PageProgress, MarkedHasGap
<1>7. HeldOffsets'
  BY <1>1, <1>5 DEF HeldOffsets, InPage
<1> QED BY <1>3, <1>4, <1>6, <1>7 DEF Progress

LEMMA ProgressMark ==
    ASSUME IInv, MarkDone, Held' \subseteq Held, Head(page) \notin Held'
    PROVE  Progress' /\ CursorNeverAhead'
<1>1. /\ UNCHANGED <<copies, lost, offset, ledger, written>>
      /\ pc = "mark" /\ pc' = "reply" /\ page # <<>>
      /\ cursor' = [cursor EXCEPT ![Head(page)] = Done]
  BY DEF MarkDone, IInv, Shape
<1>2. Head(page) \in Repo /\ FinalGap(Head(page)) /\ Held \subseteq Repo
  BY <1>1, HeadHeld, HeldRepos DEF IInv, Progress, BehindOffset, MarkedHasGap
<1>3. /\ cursor'[Head(page)] = Done
      /\ \A r \in Repo : r # Head(page) => cursor'[r] = cursor[r]
  BY <1>1, <1>2 DEF IInv, TypeOK
<1>4. CursorNeverAhead'
  <2> SUFFICES ASSUME NEW r \in Repo
               PROVE  IF cursor'[r] = Done THEN Stored(r, ItemCap)' \/ FinalGap(r)'
                                           ELSE Stored(r, cursor[r])'
    BY DEF CursorNeverAhead
  <2>1. FinalGap(r)' = FinalGap(r) /\ \A k : Stored(r, k) => Stored(r, k)'
    BY <1>1 DEF FinalGap, Stored
  <2>2. CASE r = Head(page)
    BY <2>1, <2>2, <1>2, <1>3
  <2>3. CASE r # Head(page)
    BY <2>1, <2>3, <1>1, <1>3 DEF IInv, CursorNeverAhead, Stored
  <2> QED BY <2>2, <2>3
<1>5. BehindOffset'
  BY <1>1, <1>3 DEF IInv, Progress, BehindOffset, Stored
<1>6. \A r \in Held' : cursor'[r] = offset'[r] /\ written'[r] <= offset'[r]
  BY <1>1, <1>2, <1>3 DEF IInv, Progress, HeldOffsets, InPage, Fetching
<1>7. PageProgress' /\ MarkedHasGap'
  BY <1>1 DEF PageProgress, MarkedHasGap
<1>8. HeldOffsets'
  BY <1>1, <1>6 DEF HeldOffsets, InPage
<1> QED BY <1>4, <1>5, <1>7, <1>8 DEF Progress

LEMMA ProgressPage ==
    ASSUME IInv, PageArrives, Held' = Held
    PROVE  Progress' /\ CursorNeverAhead'
<1>1. /\ UNCHANGED <<copies, lost, offset, cursor, written, page, work>>
      /\ ledger \subseteq ledger'
      /\ pc = "reply" /\ pc' = "write" /\ page # <<>> /\ at' = offset[Head(page)]
      /\ work # <<>>
  BY DEF PageArrives, RecordGap, IInv, Shape
<1>2. Head(page) \in Held /\ Head(page) \in Repo
  BY <1>1, HeadHeld DEF IInv
<1>3. CursorNeverAhead'
  BY <1>1 DEF IInv, CursorNeverAhead, Stored, FinalGap
<1>4. BehindOffset'
  BY <1>1 DEF IInv, Progress, BehindOffset, Stored
<1>5. \A r \in Held : cursor[r] = offset[r] /\ written[r] <= offset[r] /\ cursor[r] # Done
  BY <1>1 DEF IInv, Progress, HeldOffsets, InPage, Fetching, HeldOnce
<1>6. offset[Head(page)] <= PageEnd(Head(page)) /\ offset[Head(page)] \in Nat
  <2>1. offset[Head(page)] <= ItemCount[Head(page)]
    BY <1>2, <1>5 DEF IInv, Progress, BehindOffset, MarkedHasGap
  <2> QED BY <2>1, <1>1, <1>2, PageEndType DEF IInv, TypeOK
<1>7. PageEnd(Head(page))' = PageEnd(Head(page))
  BY <1>1 DEF PageEnd
<1>8. Stored(Head(page), at)'
  <2>1. Stored(Head(page), offset[Head(page)])
    BY <1>2 DEF IInv, Progress, BehindOffset, MarkedHasGap
  <2> QED BY <2>1, <1>1 DEF Stored
<1>9. MarkedHasGap'
  BY <1>1 DEF MarkedHasGap
<1>10. PageProgress'
  BY <1>1, <1>6, <1>7, <1>8 DEF PageProgress
<1>11. HeldOffsets'
  BY <1>1, <1>5 DEF HeldOffsets, InPage
<1> QED BY <1>3, <1>4, <1>9, <1>10, <1>11 DEF Progress

(* The records of the page up to the next one are stored.                  *)
LEMMA WriteFacts ==
    ASSUME IInv, WriteRecord
    PROVE  /\ Head(page) \in Repo /\ Head(page) \in Held
           /\ <<Head(page), at + 1>> \in Item
           /\ at + 1 <= PageEnd(Head(page))
           /\ \A r \in Repo, k \in Int : Stored(r, k) => Stored(r, k)'
           /\ Stored(Head(page), at)'
           /\ copies' \in [Item -> Nat] /\ lost' \in SUBSET Item
           /\ tail' \in {"clean", "torn", "garbled", "corrupt"}
<1> DEFINE x == <<Head(page), at + 1>>
<1>1. pc = "write" /\ page # <<>> /\ work # <<>> /\ TypeOK /\ Fetching
  BY DEF WriteRecord, IInv, Shape, Fetching
<1>2. Head(page) \in Repo /\ Head(page) \in Held
  BY <1>1, HeadHeld
<1>3. at \in Nat /\ ItemCount[Head(page)] \in Nat /\ PageEnd(Head(page)) \in Nat
      /\ PageEnd(Head(page)) <= ItemCount[Head(page)]
  BY <1>1, <1>2, PageEndType, CountAssumption DEF TypeOK
<1>4. at <= PageEnd(Head(page)) /\ at # PageEnd(Head(page)) /\ Stored(Head(page), at)
  BY <1>1 DEF IInv, Progress, PageProgress, WriteRecord, PageTaken
<1>5. at + 1 <= PageEnd(Head(page)) /\ at + 1 \in 1 .. ItemCount[Head(page)]
  BY <1>3, <1>4
<1>6. x \in Item
  BY <1>2, <1>3, <1>5, ItemType
<1> HIDE DEF x
<1>7. WriteLine(x)
  BY DEF WriteRecord, x
<1>8. /\ copies' \in [Item -> Nat] /\ lost' \in SUBSET Item
      /\ tail' \in {"clean", "torn", "garbled", "corrupt"}
      /\ lost \subseteq lost' /\ \A y \in Item : copies[y] > 0 => copies'[y] > 0
      /\ copies'[x] > 0 \/ x \in lost'
  <2>1. copies \in [Item -> Nat] /\ lost \in SUBSET Item
    BY <1>1 DEF TypeOK
  <2>2. CASE tail = "torn"
    BY <2>1, <2>2, <1>6, <1>7 DEF WriteLine
  <2>3. CASE tail # "torn"
    BY <2>1, <2>3, <1>6, <1>7 DEF WriteLine
  <2> QED BY <2>2, <2>3
<1>9. \A r \in Repo, k \in Int : Stored(r, k) => Stored(r, k)'
  BY <1>8, ItemType DEF Stored
<1>10. Stored(Head(page), at)'
  <2> SUFFICES ASSUME NEW i \in 1 .. ItemCount[Head(page)], i <= at + 1
               PROVE  copies'[<<Head(page), i>>] > 0 \/ <<Head(page), i>> \in lost'
    BY DEF Stored, WriteRecord
  <2>1. <<Head(page), i>> \in Item
    BY <1>2, <1>3, ItemType
  <2>2. CASE i = at + 1
    BY <2>2, <1>8 DEF x
  <2>3. CASE i # at + 1
    <3>1. i <= at
      BY <2>3, <1>3
    <3> QED BY <3>1, <2>1, <1>4, <1>8 DEF Stored
  <2> QED BY <2>2, <2>3
<1> QED BY <1>2, <1>5, <1>6, <1>8, <1>9, <1>10 DEF x

LEMMA WriteStep ==
    ASSUME IInv, WriteRecord
    PROVE  TypeOK' /\ HeldOnce' /\ NothingDropped' /\ Progress' /\ CursorNeverAhead'
<1>1. /\ UNCHANGED <<cursor, ledger, status, pc, interrupted, queue, work, page, pending,
                     offset, gaps, outcome, manifest, attempts, crashes>>
      /\ at' = at + 1 /\ written' = [written EXCEPT ![Head(page)] = @ + 1]
      /\ pc = "write" /\ Fetching
  BY DEF WriteRecord, history, Fetching
<1>2. TypeOK'
  <2>1. written \in [Repo -> Nat] /\ at \in Nat
    BY DEF IInv, TypeOK
  <2>2. written' \in [Repo -> Nat] /\ at' \in Nat
    <3>1. \A r \in Repo : written[r] + 1 \in Nat
      BY <2>1
    <3>2. at' \in Nat
      BY <2>1, <1>1
    <3> QED BY <3>1, <3>2, <2>1, <1>1
  <2> QED BY <2>2, <1>1, WriteFacts DEF IInv, TypeOK
<1>3. HeldOnce' /\ NothingDropped' /\ Held' = Held
  <2>1. Fetching'
    BY <1>1 DEF Fetching
  <2> QED BY <1>1, <2>1, HeldSame DEF IInv
<1>4. BehindOffset'
  <2>1. \A r \in Repo : offset[r] \in Int /\ Stored(r, offset[r])
    BY DEF IInv, TypeOK, Progress, BehindOffset
  <2>2. \A r \in Repo : Stored(r, offset[r])'
    BY <2>1, <1>1, WriteFacts DEF Stored
  <2> QED BY <2>2, <1>1 DEF IInv, Progress, BehindOffset
<1>5. CursorNeverAhead'
  <2>1. ItemCap \in Int /\ \A r \in Repo : cursor[r] # Done => cursor[r] \in Int
    BY SizeAssumption DEF IInv, TypeOK
  <2>2. \A r \in Repo : Stored(r, ItemCap) => Stored(r, ItemCap)'
    BY <2>1, WriteFacts
  <2>3. \A r \in Repo : cursor[r] # Done /\ Stored(r, cursor[r]) => Stored(r, cursor[r])'
    BY <2>1, <1>1, WriteFacts DEF Stored
  <2> QED BY <2>2, <2>3, <1>1 DEF IInv, CursorNeverAhead, FinalGap
<1>6. HeldOffsets'
  <2>1. \A r \in Held : cursor[r] = offset[r]
                         /\ written[r] <= IF InPage(r) THEN at ELSE offset[r]
    BY <1>1 DEF IInv, Progress, HeldOffsets
  <2>2. Held \subseteq Repo /\ written \in [Repo -> Nat] /\ at \in Nat
    BY HeldRepos DEF IInv, TypeOK
  <2>3. \A r \in Held : InPage(r)' = InPage(r) /\ (InPage(r) <=> r = Head(page))
    BY <1>1 DEF InPage
  <2>4. \A r \in Held : written'[r] = IF r = Head(page) THEN written[r] + 1 ELSE written[r]
    BY <2>2, <1>1
  <2>5. \A r \in Held : written'[r] <= IF InPage(r)' THEN at' ELSE offset[r]
    BY <2>1, <2>2, <2>3, <2>4, <1>1
  <2> QED BY <2>1, <2>5, <1>1, <1>3 DEF HeldOffsets
<1>7. PageProgress'
  <2>1. PageEnd(Head(page))' = PageEnd(Head(page)) /\ Stored(Head(page), at)'
    BY <1>1, WriteFacts DEF PageEnd, Stored
  <2>2. offset[Head(page)] <= at /\ at \in Nat /\ offset[Head(page)] \in Nat
    BY <1>1, WriteFacts DEF IInv, TypeOK, Progress, PageProgress
  <2> QED BY <2>1, <2>2, <1>1, WriteFacts DEF PageProgress
<1>8. MarkedHasGap'
  BY <1>1 DEF MarkedHasGap
<1> QED BY <1>2, <1>3, <1>4, <1>5, <1>6, <1>7, <1>8 DEF Progress

(* The page is taken: its end is stored, and so is the cap where there is  *)
(* no next page.                                                           *)
LEMMA SaveStep ==
    ASSUME IInv, SaveCursor
    PROVE  HeldOnce' /\ NothingDropped' /\ Progress' /\ CursorNeverAhead'
<1>0. PICK r \in Repo : r = Head(page) /\ r \in Held
  <2>1. page # <<>> /\ TypeOK
    BY DEF SaveCursor, IInv, Shape
  <2> QED BY <2>1, HeadHeld
<1> DEFINE more == HasNextPage(r) /\ ~ReachedCap(r)
<1>1. /\ UNCHANGED <<ledger, status, copies, lost, queue, work, written, gaps>>
      /\ pc = "write" /\ pc' = "reply" /\ page' = Tail(page) /\ PageTaken(r)
      /\ cursor' = [cursor EXCEPT ![r] = IF more THEN PageEnd(r) ELSE Done]
      /\ offset' = IF more THEN [offset EXCEPT ![r] = PageEnd(r)] ELSE offset
      /\ pending' = IF more THEN Append(pending, r) ELSE pending
      /\ page # <<>> /\ work # <<>> /\ TypeOK /\ Fetching /\ Fetching'
  BY <1>0 DEF SaveCursor, IInv, Shape, Fetching
<1>2. r \in Repo /\ r \in Held
  BY <1>0
<1>3. /\ at \in Nat /\ ItemCount[r] \in Nat /\ PageEnd(r) \in Nat /\ written[r] \in Nat
      /\ PageEnd(r) <= ItemCount[r] /\ ItemCap \in Nat
      /\ cursor \in [Repo -> Nat \cup {Done}] /\ offset \in [Repo -> Nat]
      /\ Held \subseteq Repo
  BY <1>1, <1>2, PageEndType, CountAssumption, SizeAssumption, HeldRepos DEF TypeOK
<1>4. at <= PageEnd(r) /\ Stored(r, at)
  BY <1>0, <1>1 DEF IInv, Progress, PageProgress
<1>5. written[r] <= at
  BY <1>0, <1>1, <1>2 DEF IInv, Progress, HeldOffsets, InPage
<1>6. \A q, k : Stored(q, k)' = (\A i \in 1 .. ItemCount[q] :
                                   i <= k' => copies[<<q, i>>] > 0 \/ <<q, i>> \in lost)
  BY <1>1 DEF Stored
<1>7. /\ \A q \in Held : written[q] <= IF q = r THEN at ELSE offset[q]
      /\ \A q \in Held : cursor[q] = offset[q]
  BY <1>0, <1>1 DEF IInv, Progress, HeldOffsets, InPage
<1>8. \A q \in Repo : Stored(q, offset[q]) /\ (cursor[q] # Done => cursor[q] <= ItemCount[q])
  BY DEF IInv, Progress, BehindOffset
<1>9. \A q \in Repo : IF cursor[q] = Done THEN Stored(q, ItemCap) \/ FinalGap(q)
                                           ELSE Stored(q, cursor[q])
  BY DEF IInv, CursorNeverAhead
<1>10. PageProgress' /\ MarkedHasGap'
  BY <1>1 DEF PageProgress, MarkedHasGap
<1>11. CASE more
  <2> HIDE DEF more
  <2>1. at = PageEnd(r)
    BY <1>1, <1>11 DEF PageTaken, more
  <2>2. /\ cursor' = [cursor EXCEPT ![r] = PageEnd(r)]
        /\ offset' = [offset EXCEPT ![r] = PageEnd(r)]
        /\ pending' = Append(pending, r)
    BY <1>1, <1>11
  <2>3. HeldOnce' /\ NothingDropped' /\ Held' = Held
    BY <2>2, <1>1, <1>3, HeldMore, <1>0 DEF IInv
  <2>4. /\ cursor'[r] = PageEnd(r) /\ offset'[r] = PageEnd(r)
        /\ \A q \in Repo : q # r => cursor'[q] = cursor[q] /\ offset'[q] = offset[q]
    BY <2>2, <1>2, <1>3
  <2>5. BehindOffset'
    <3>1. \A q \in Repo : Stored(q, offset[q])'
      BY <2>1, <2>4, <1>1, <1>4, <1>8 DEF Stored
    <3>2. \A q \in Repo : cursor'[q] # Done => cursor'[q] <= ItemCount[q]
      BY <2>4, <1>3, <1>8
    <3> QED BY <3>1, <3>2 DEF BehindOffset
  <2>6. HeldOffsets'
    <3>1. \A q \in Held : cursor'[q] = offset'[q] /\ written[q] <= offset'[q]
      BY <2>1, <2>4, <1>3, <1>5, <1>7
    <3> QED BY <3>1, <2>3, <1>1 DEF HeldOffsets, InPage
  <2>7. CursorNeverAhead'
    <3>1. cursor'[r] # Done
      BY <2>4, <1>3, DoneAssumption
    <3>2. Stored(r, cursor[r])'
      BY <2>1, <2>4, <1>1, <1>4 DEF Stored
    <3>3. ASSUME NEW q \in Repo, q # r
          PROVE  IF cursor'[q] = Done THEN Stored(q, ItemCap)' \/ FinalGap(q)'
                                      ELSE Stored(q, cursor[q])'
      BY <3>3, <2>4, <1>1, <1>9 DEF Stored, FinalGap
    <3> QED BY <3>1, <3>2, <3>3 DEF CursorNeverAhead
  <2> QED BY <2>3, <2>5, <2>6, <2>7, <1>10 DEF Progress
<1>12. CASE ~more
  <2>1. Stored(r, ItemCap)
    <3>1. CASE ReachedCap(r)
      <4>1. ItemCap <= at
        BY <3>1, <1>3, <1>5 DEF ReachedCap
      <4> QED BY <4>1, <1>3, <1>4 DEF Stored
    <3>2. CASE ~ReachedCap(r)
      <4>1. at = PageEnd(r) /\ ~(PageEnd(r) < ItemCount[r])
        BY <3>2, <1>1, <1>12 DEF PageTaken, HasNextPage
      <4>2. at = ItemCount[r]
        BY <4>1, <1>3
      <4> QED BY <4>2, <1>3, <1>4 DEF Stored
    <3> QED BY <3>1, <3>2
  <2> HIDE DEF more
  <2>2. /\ cursor' = [cursor EXCEPT ![r] = Done] /\ offset' = offset /\ pending' = pending
    BY <1>1, <1>12
  <2>3. HeldOnce' /\ NothingDropped' /\ Held' \subseteq Held /\ r \notin Held'
    BY <2>2, <1>1, HeldDone, <1>0 DEF IInv
  <2>4. cursor'[r] = Done /\ \A q \in Repo : q # r => cursor'[q] = cursor[q]
    BY <2>2, <1>2, <1>3
  <2>5. BehindOffset'
    <3>1. \A q \in Repo : Stored(q, offset[q])'
      BY <2>2, <1>1, <1>8 DEF Stored
    <3> QED BY <3>1, <2>4, <1>8 DEF BehindOffset
  <2>6. HeldOffsets'
    <3>1. \A q \in Held' : cursor'[q] = offset'[q] /\ written[q] <= offset'[q]
      BY <2>2, <2>3, <2>4, <1>3, <1>7
    <3> QED BY <3>1, <1>1 DEF HeldOffsets, InPage
  <2>7. CursorNeverAhead'
    <3>1. Stored(r, ItemCap)'
      BY <2>1, <1>1 DEF Stored
    <3>2. ASSUME NEW q \in Repo, q # r
          PROVE  IF cursor'[q] = Done THEN Stored(q, ItemCap)' \/ FinalGap(q)'
                                      ELSE Stored(q, cursor[q])'
      BY <3>2, <2>4, <1>1, <1>9 DEF Stored, FinalGap
    <3> QED BY <3>1, <3>2, <2>4 DEF CursorNeverAhead
  <2> QED BY <2>3, <2>5, <2>6, <2>7, <1>10 DEF Progress
<1> QED BY <1>11, <1>12

----------------------------------------------------------------------------
(* The invariant                                                           *)

LEMMA InitIInv == Init => IInv
<1> SUFFICES ASSUME Init PROVE IInv
  OBVIOUS
<1>1. TypeOK
  BY InitTypeOK
<1>2. Shape /\ HeldOnce /\ NothingDropped /\ HeldOffsets /\ PageProgress /\ MarkedHasGap
  BY DEF Init, Shape, HeldOnce, NothingDropped, HeldOffsets, PageProgress, MarkedHasGap,
         Fetching
<1>3. \A r \in Repo : offset[r] = 0 /\ cursor[r] = 0
  BY DEF Init, Nowhere
<1>4. \A r \in Repo : Stored(r, 0) /\ 0 <= ItemCount[r] /\ 0 # Done
  BY CountAssumption, DoneAssumption DEF Stored
<1>5. BehindOffset /\ CursorNeverAhead
  BY <1>3, <1>4 DEF BehindOffset, CursorNeverAhead
<1> QED BY <1>1, <1>2, <1>5 DEF IInv, Progress

(* The steps that end the process.                                         *)
LEMMA ExitStep ==
    ASSUME IInv, Exit, UNCHANGED <<copies, lost, cursor, ledger, status, attempts>>,
           tail' \in {"clean", "torn", "garbled", "corrupt"}, crashes' \in Nat,
           manifest' = manifest
    PROVE  TypeOK' /\ HeldOnce' /\ NothingDropped' /\ Progress' /\ CursorNeverAhead'
<1>1. DiskTypeOK'
  BY DEF IInv, TypeOK, DiskTypeOK
<1>2. HeldOnce' /\ NothingDropped'
  BY DEF Exit, HeldOnce, NothingDropped, Fetching
<1> QED BY <1>1, <1>2, ExitTypeOK, ProgressExit

(* The steps around the batches.                                           *)
LEMMA LoopStep ==
    ASSUME IInv, Start \/ TakeBatch \/ EndLoop \/ CountRecords \/ Publish
    PROVE  TypeOK' /\ HeldOnce' /\ NothingDropped' /\ Progress' /\ CursorNeverAhead'
<1>0. TypeOK /\ Shape /\ HeldOnce /\ NothingDropped
  BY DEF IInv
<1>1. CASE Start
  BY <1>0, <1>1, StartTypeOK, HeldStart, ProgressStart
<1>2. CASE TakeBatch
  <2>1. TypeOK' /\ HeldOnce' /\ NothingDropped' /\ Held' = Held
    BY <1>0, <1>2, LoopTypeOK, HeldTakeBatch
  <2>2. /\ UNCHANGED <<copies, lost, offset, cursor, written, ledger>>
        /\ pc = "loop" /\ pc' = "query" /\ Fetching
    BY <1>2 DEF TakeBatch, disk, Fetching
  <2> QED BY <2>1, <2>2, ProgressFrame
<1>3. ASSUME UNCHANGED <<copies, lost, offset, cursor, written, ledger>>, pc # "write",
             pc' \in {"count", "reported", "published"}, TypeOK'
      PROVE  TypeOK' /\ HeldOnce' /\ NothingDropped' /\ Progress' /\ CursorNeverAhead'
  <2>1. ~Fetching'
    BY <1>3 DEF Fetching
  <2> QED BY <1>3, <2>1, ProgressFrame DEF HeldOnce, NothingDropped
<1>4. CASE EndLoop
  BY <1>0, <1>3, <1>4, LoopTypeOK DEF EndLoop, memory
<1>5. CASE CountRecords
  <2>1. CASE Exit /\ UNCHANGED <<disk, history>>
    <3>1. /\ UNCHANGED <<copies, lost, cursor, ledger, status, attempts, manifest, crashes>>
          /\ tail' = tail
      BY <2>1 DEF disk, history
    <3> QED BY <3>1, <2>1, <1>0, ExitStep DEF TypeOK
  <2>2. CASE pc' = "reported"
    BY <1>0, <1>3, <1>5, <2>2, LoopTypeOK DEF CountRecords, disk, Exit
  <2> QED BY <1>5, <2>1, <2>2 DEF CountRecords
<1>6. CASE Publish
  <2>1. CASE Exit /\ UNCHANGED <<disk, manifest, attempts, crashes>>
    <3>1. /\ UNCHANGED <<copies, lost, cursor, ledger, status, attempts, manifest, crashes>>
          /\ tail' = tail
      BY <2>1 DEF disk
    <3> QED BY <3>1, <2>1, <1>0, ExitStep DEF TypeOK
  <2>2. CASE pc' = "published"
    BY <1>0, <1>3, <1>6, <2>2, LoopTypeOK DEF Publish, disk, memory, Exit
  <2> QED BY <1>6, <2>1, <2>2 DEF Publish
<1> QED BY <1>1, <1>2, <1>4, <1>5, <1>6

(* The steps of a query.                                                   *)
LEMMA QueryStep ==
    ASSUME IInv, \/ TransportFails \/ TransportGap \/ ShrinkPage \/ SplitBatch
                 \/ NodeLimitGap \/ Reply \/ QueryRaises
    PROVE  TypeOK' /\ HeldOnce' /\ NothingDropped' /\ Progress' /\ CursorNeverAhead'
<1>0. TypeOK /\ Shape /\ HeldOnce /\ NothingDropped
  BY DEF IInv
<1>1. TypeOK'
  BY <1>0, QueryTypeOK
<1>2. CASE TransportFails \/ Reply
  <2>1. /\ UNCHANGED <<copies, lost, offset, cursor, written, ledger, queue, pending, work, gaps>>
        /\ pc = "query" /\ page' = Head(work).repos /\ pc' \in {"failed", "reply"} /\ Fetching
    BY <1>2 DEF TransportFails, Reply, disk, Fetching
  <2>2. HeldOnce' /\ NothingDropped' /\ Held' = Held
    BY <1>0, <2>1, HeldOpen
  <2> QED BY <1>1, <2>1, <2>2, ProgressFrame
<1>3. CASE TransportGap
  <2>1. /\ UNCHANGED <<copies, lost, offset, cursor, written>> /\ ledger \subseteq ledger'
        /\ pc = "failed" /\ pc' = "failed" /\ Fetching
    BY <1>3 DEF TransportGap, RecordGap, Fetching
  <2> QED BY <1>0, <1>1, <1>3, <2>1, HeldTransportGap, ProgressFrame
<1>4. CASE ShrinkPage \/ SplitBatch
  <2>1. /\ UNCHANGED <<copies, lost, offset, cursor, written, ledger>>
        /\ pc = "query" /\ pc' = "query" /\ Fetching
    BY <1>4 DEF ShrinkPage, SplitBatch, disk, Fetching
  <2>2. HeldOnce' /\ NothingDropped' /\ Held' = Held
    BY <1>0, <1>4, HeldShrink, HeldSplit
  <2> QED BY <1>1, <2>1, <2>2, ProgressFrame
<1>5. CASE NodeLimitGap
  <2>1. /\ UNCHANGED <<cursor, queue, pending, work>> /\ gaps \subseteq gaps'
        /\ pc = "query" /\ page' = Head(work).repos /\ pc' = "mark"
    BY <1>5 DEF NodeLimitGap, RecordGap
  <2>2. HeldOnce' /\ NothingDropped' /\ Held' = Held
    BY <1>0, <2>1, HeldOpen
  <2> QED BY <1>1, <1>5, <2>2, ProgressGap
<1>6. CASE QueryRaises
  <2>1. /\ UNCHANGED <<copies, lost, cursor, ledger, status, attempts, manifest, crashes, tail>>
        /\ Exit
    BY <1>6 DEF QueryRaises, disk, history
  <2> QED BY <2>1, <1>0, ExitStep DEF TypeOK
<1> QED BY <1>2, <1>3, <1>4, <1>5, <1>6

(* The steps that read an answer.                                          *)
LEMMA PageStep ==
    ASSUME IInv, \/ NoData \/ MarkDone \/ PageArrives \/ WriteRecord \/ SaveCursor
                 \/ BatchDone
    PROVE  TypeOK' /\ HeldOnce' /\ NothingDropped' /\ Progress' /\ CursorNeverAhead'
<1>0. TypeOK /\ Shape /\ HeldOnce /\ NothingDropped
  BY DEF IInv
<1>1. CASE NoData \/ PageArrives
  <2>1. /\ UNCHANGED <<cursor, queue, pending, work, page>> /\ gaps \subseteq gaps'
        /\ pc # "query" /\ pc' # "query" /\ Fetching /\ Fetching'
    BY <1>1 DEF NoData, PageArrives, RecordGap, Fetching
  <2>2. HeldOnce' /\ NothingDropped' /\ Held' = Held
    BY <1>0, <2>1, HeldSame
  <2> QED BY <1>0, <1>1, <2>2, PageTypeOK, ProgressGap, ProgressPage
<1>2. CASE MarkDone
  <2>1. /\ pc = "mark" /\ pc' = "reply" /\ page # <<>> /\ page' = Tail(page)
        /\ UNCHANGED <<queue, pending, work, gaps>>
        /\ cursor' = [cursor EXCEPT ![Head(page)] = Done]
    BY <1>0, <1>2 DEF MarkDone, Shape
  <2>2. HeldOnce' /\ NothingDropped' /\ Held' \subseteq Held /\ Head(page) \notin Held'
    BY <1>0, <2>1, HeldDone
  <2> QED BY <1>0, <1>2, <2>2, PageTypeOK, ProgressMark
<1>3. CASE WriteRecord
  BY <1>3, WriteStep
<1>4. CASE SaveCursor
  BY <1>0, <1>4, PageTypeOK, SaveStep
<1>5. CASE BatchDone
  <2>1. /\ UNCHANGED <<copies, lost, offset, cursor, written, ledger>>
        /\ pc # "write" /\ pc' \in {"loop", "query"} /\ Fetching
    BY <1>5 DEF BatchDone, disk, Fetching
  <2> QED BY <1>0, <1>5, <2>1, PageTypeOK, HeldBatchDone, ProgressFrame
<1> QED BY <1>1, <1>2, <1>3, <1>4, <1>5

(* An interrupt request, and a step that changes nothing.                  *)
LEMMA FlagStep ==
    ASSUME IInv, UNCHANGED <<disk, pc, queue, work, page, pending, offset, at, written,
                             gaps, outcome, history>>, interrupted' \in BOOLEAN
    PROVE  TypeOK' /\ HeldOnce' /\ NothingDropped' /\ Progress' /\ CursorNeverAhead'
<1>1. TypeOK'
  BY DEF IInv, TypeOK, disk, history
<1>2. /\ UNCHANGED <<cursor, ledger, copies, lost>>
      /\ Held' = Held /\ Fetching' = Fetching
      /\ \A r, k : Stored(r, k) => (\A i \in 1 .. ItemCount[r] :
                          i <= k => copies'[<<r, i>>] > 0 \/ <<r, i>> \in lost')
  BY DEF disk, Held, Unread, Batch, Fetching, Stored
<1>3. HeldOnce' /\ NothingDropped'
  BY <1>2 DEF IInv, HeldOnce, NothingDropped, Unread, Batch, Disjoint
<1>4. BehindOffset' /\ CursorNeverAhead'
  BY <1>2 DEF IInv, Progress, BehindOffset, CursorNeverAhead, Stored, FinalGap
<1>5. HeldOffsets' /\ MarkedHasGap'
  BY <1>2 DEF IInv, Progress, HeldOffsets, InPage, MarkedHasGap, FinalGap
<1>6. PageProgress'
  BY <1>2 DEF IInv, Progress, PageProgress, PageEnd, Stored
<1> QED BY <1>1, <1>3, <1>4, <1>5, <1>6 DEF Progress

LEMMA StepIInv == IInv /\ [Next]_vars => IInv'
<1> SUFFICES ASSUME IInv, [Next]_vars PROVE IInv'
  OBVIOUS
<1>1. Shape'
  BY ShapeStep DEF IInv
<1>2. TypeOK' /\ HeldOnce' /\ NothingDropped' /\ Progress' /\ CursorNeverAhead'
  <2>1. CASE Start \/ TakeBatch \/ EndLoop \/ CountRecords \/ Publish
    BY <2>1, LoopStep
  <2>2. CASE \/ TransportFails \/ TransportGap \/ ShrinkPage \/ SplitBatch
             \/ NodeLimitGap \/ Reply \/ QueryRaises
    BY <2>2, QueryStep
  <2>3. CASE \/ NoData \/ MarkDone \/ PageArrives \/ WriteRecord \/ SaveCursor
             \/ BatchDone
    BY <2>3, PageStep
  <2>4. CASE Sigint
    BY <2>4, FlagStep DEF Sigint
  <2>5. CASE Crash \/ TearLine
    <3>1. PICK end : Die(end) /\ end \in {tail, "torn", "corrupt"}
      BY <2>5 DEF Crash, TearLine
    <3>2. /\ Exit /\ UNCHANGED <<copies, lost, cursor, ledger, status, attempts, manifest>>
          /\ tail' \in {"clean", "torn", "garbled", "corrupt"} /\ crashes' \in Nat
      BY <3>1 DEF Die, IInv, TypeOK
    <3> QED BY <3>2, ExitStep
  <2>6. CASE UNCHANGED vars
    <3>1. interrupted \in BOOLEAN
      BY DEF IInv, TypeOK
    <3> QED BY <2>6, <3>1, FlagStep DEF vars, disk, memory, history
  <2> QED BY <2>1, <2>2, <2>3, <2>4, <2>5, <2>6 DEF Next, Engine
<1> QED BY <1>1, <1>2 DEF IInv

(* IInv holds in every reachable state.                                    *)
THEOREM Invariant == Spec => []IInv
BY InitIInv, StepIInv, PTL DEF Spec

(* Every variable keeps its type, in any number of attempts, interrupts    *)
(* and crashes.                                                            *)
THEOREM TypeCorrect == Spec => []TypeOK
<1>1. IInv => TypeOK
  BY DEF IInv
<1> QED BY <1>1, Invariant, PTL

(* The checkpoint never runs ahead of the file: _run_batch writes a page   *)
(* before it saves its cursor.                                             *)
THEOREM CheckpointBehindFile == Spec => []CursorNeverAhead
<1>1. IInv => CursorNeverAhead
  BY DEF IInv
<1> QED BY <1>1, Invariant, PTL

(* While a dataset is fetched, no splitting, shrinking or requeuing of     *)
(* _run_batch loses a repository.                                          *)
THEOREM NoRepositoryDropped == Spec => []NothingDropped
<1>1. IInv => NothingDropped
  BY DEF IInv
<1> QED BY <1>1, Invariant, PTL

(* ...or sends it into two queries.                                        *)
THEOREM NoRepositoryTwice == Spec => []HeldOnce
<1>1. IInv => HeldOnce
  BY DEF IInv
<1> QED BY <1>1, Invariant, PTL

----------------------------------------------------------------------------
(* Steps                                                                   *)

LEMMA CursorStep ==
    ASSUME IInv, [Next]_vars, NEW r \in Repo, cursor'[r] # cursor[r]
    PROVE  cursor[r] # Done /\ (cursor'[r] = Done \/ cursor'[r] > cursor[r])
<1>1. TypeOK /\ Shape
  BY DEF IInv
<1>2. CASE MarkDone
  <2>1. page # <<>> /\ cursor' = [cursor EXCEPT ![Head(page)] = Done] /\ Fetching
    BY <1>1, <1>2 DEF MarkDone, Shape, Fetching
  <2>2. Head(page) \in Held
    BY <1>1, <2>1, HeadHeld
  <2>3. cursor[Head(page)] # Done
    BY <2>1, <2>2 DEF IInv, HeldOnce
  <2>4. r = Head(page) /\ cursor'[r] = Done
    BY <1>1, <2>1 DEF TypeOK
  <2> QED BY <2>3, <2>4
<1>3. CASE SaveCursor
  <2>1. /\ page # <<>> /\ work # <<>> /\ Fetching
        /\ cursor' = [cursor EXCEPT ![Head(page)] =
                        IF HasNextPage(Head(page)) /\ ~ReachedCap(Head(page))
                        THEN PageEnd(Head(page)) ELSE Done]
    BY <1>1, <1>3 DEF SaveCursor, Shape, Fetching
  <2>2. Head(page) \in Held
    BY <1>1, <2>1, HeadHeld
  <2>3. r = Head(page)
    BY <1>1, <2>1 DEF TypeOK
  <2>4. cursor[r] # Done /\ cursor[r] = offset[r] /\ offset[r] \in Nat
    BY <1>1, <2>1, <2>2, <2>3 DEF IInv, HeldOnce, Progress, HeldOffsets, TypeOK
  <2>5. HasNextPage(r) => PageEnd(r) > offset[r] /\ PageEnd(r) \in Nat
    BY <1>1, <2>1, <2>4, PageEndType DEF HasNextPage
  <2>6. cursor'[r] = IF HasNextPage(r) /\ ~ReachedCap(r) THEN PageEnd(r) ELSE Done
    BY <1>1, <2>1, <2>3 DEF TypeOK
  <2> QED BY <2>4, <2>5, <2>6
<1>4. CASE UNCHANGED cursor
  BY <1>4
<1>5. MarkDone \/ SaveCursor \/ UNCHANGED cursor
  BY DEF Next, Engine, vars, Start, TakeBatch, EndLoop, CountRecords, Publish,
         TransportFails, TransportGap, ShrinkPage, SplitBatch, NodeLimitGap, Reply,
         QueryRaises, NoData, PageArrives, WriteRecord, BatchDone, Sigint, Crash,
         TearLine, Die, disk
<1> QED BY <1>2, <1>3, <1>4, <1>5

(* No attempt, crash or page fetched again at a smaller size moves a saved *)
(* cursor back, and CURSOR_DONE is final.                                  *)
THEOREM CursorsAdvance == Spec => CursorsOnlyAdvance
<1>1. IInv /\ [Next]_vars =>
        [\A r \in Repo : cursor'[r] # cursor[r] =>
             /\ cursor[r] # Done
             /\ cursor'[r] = Done \/ cursor'[r] > cursor[r]]_cursor
  BY CursorStep
<1> QED BY <1>1, Invariant, PTL DEF Spec, CursorsOnlyAdvance

----------------------------------------------------------------------------
(* The refinement                                                          *)

Collected == {x \in Item : copies[x] > 0}
Excused   == lost \cup {x \in Item : \/ x[2] > ItemCap
                                     \/ FinalGap(x[1])
                                     \/ <<x[1], "transport">> \in ledger}
Complete  == status = "complete"

(* A fetch that ends leaves no record uncollected and unexcused.           *)
LEMMA NothingLeft ==
    ASSUME IInv, pc = "loop", queue = <<>>
    PROVE  Collected \cup Excused = Item
<1>1. Held = {}
  <2>1. work = <<>> /\ pending = <<>> /\ page = <<>> /\ Unread = {}
    BY DEF IInv, Shape, Unread
  <2> QED BY <2>1, EmptyFacts DEF Held
<1>2. \A r \in Repo : \/ <<r, "transport">> \in ledger
                       \/ FinalGap(r) \/ Stored(r, ItemCap)
  <2>1. \A r \in Repo : cursor[r] = Done \/ <<r, "transport">> \in gaps
    BY <1>1 DEF IInv, NothingDropped, Fetching
  <2>2. gaps \subseteq ledger
    BY DEF IInv, Shape
  <2> QED BY <2>1, <2>2 DEF IInv, CursorNeverAhead
<1>3. ASSUME NEW x \in Item PROVE x \in Collected \cup Excused
  <2>0. PICK r \in Repo : x \in {r} \X (1 .. ItemCount[r])
    BY DEF Item
  <2>1. PICK i \in 1 .. ItemCount[r] : x = <<r, i>>
    BY <2>0
  <2>2. CASE i > ItemCap
    BY <2>1, <2>2 DEF Excused
  <2>3. CASE Stored(r, ItemCap) /\ i <= ItemCap
    <3>1. copies[x] > 0 \/ x \in lost
      BY <2>1, <2>3 DEF Stored
    <3> QED BY <3>1 DEF Collected, Excused
  <2>4. CASE <<r, "transport">> \in ledger \/ FinalGap(r)
    BY <2>1, <2>4 DEF Excused
  <2>5. i \in Int /\ ItemCap \in Int
    BY <2>1, CountAssumption, SizeAssumption
  <2> QED BY <1>2, <2>1, <2>2, <2>3, <2>4, <2>5
<1>4. Excused \subseteq Item
  BY DEF IInv, TypeOK, Excused
<1> QED BY <1>3, <1>4 DEF Collected

(* Every step collects a record, excuses some, finishes the dataset, or    *)
(* leaves all three alone.                                                 *)
LEMMA StepPromise ==
    ASSUME IInv, [Next]_vars
    PROVE  \/ /\ ~Complete /\ \E x \in Item : Collected' = Collected \cup {x}
              /\ UNCHANGED <<Excused, Complete>>
           \/ /\ ~Complete /\ \E S \in SUBSET Item : Excused' = Excused \cup S
              /\ UNCHANGED <<Collected, Complete>>
           \/ /\ ~Complete /\ Collected \cup Excused = Item
              /\ Complete' = TRUE /\ UNCHANGED <<Collected, Excused>>
           \/ UNCHANGED <<Collected, Excused, Complete>>
<1>1. TypeOK /\ Shape
  BY DEF IInv
<1>2. ASSUME Fetching, UNCHANGED <<copies, lost, status>>, ledger \subseteq ledger'
      PROVE  /\ ~Complete /\ \E S \in SUBSET Item : Excused' = Excused \cup S
             /\ UNCHANGED <<Collected, Complete>>
  <2>1. ~Complete /\ UNCHANGED <<Collected, Complete>>
    BY <1>1, <1>2 DEF Shape, Complete, Collected
  <2>2. Excused' \in SUBSET Item /\ Excused \subseteq Excused'
    BY <1>1, <1>2 DEF Excused, FinalGap, TypeOK
  <2>3. Excused' = Excused \cup Excused'
    BY <2>2
  <2> QED BY <2>1, <2>2, <2>3
<1>3. CASE TransportGap \/ NodeLimitGap \/ NoData \/ PageArrives
  BY <1>2, <1>3 DEF TransportGap, NodeLimitGap, NoData, PageArrives, RecordGap, Fetching
<1>4. CASE WriteRecord
  <2>1. UNCHANGED <<ledger, status>> /\ ~Complete
    BY <1>1, <1>4 DEF WriteRecord, Shape, Fetching, Complete
  <2> DEFINE x == <<Head(page), at + 1>>
  <2>2. x \in Item /\ lost' \in SUBSET Item
    BY <1>4, WriteFacts
  <2> HIDE DEF x
  <2>3. WriteLine(x)
    BY <1>4 DEF WriteRecord, x
  <2>4. CASE tail = "torn"
    <3>1. lost' = lost \cup {x} /\ copies' = copies
      BY <2>3, <2>4 DEF WriteLine
    <3>2. Excused' = Excused \cup {x}
      BY <3>1, <2>1 DEF Excused, FinalGap
    <3> QED BY <3>1, <3>2, <2>1, <2>2 DEF Collected, Complete
  <2>5. CASE tail # "torn"
    <3>1. lost' = lost /\ copies' = [copies EXCEPT ![x] = @ + 1] /\ copies \in [Item -> Nat]
      BY <1>1, <2>3, <2>5 DEF WriteLine, TypeOK
    <3>2. copies'[x] > 0 /\ \A y \in Item : y # x => copies'[y] = copies[y]
      BY <3>1, <2>2
    <3>3. Collected' = Collected \cup {x}
      BY <3>2, <2>2 DEF Collected
    <3>4. UNCHANGED <<Excused, Complete>>
      BY <3>1, <2>1 DEF Excused, FinalGap, Complete
    <3> QED BY <3>3, <3>4, <2>1, <2>2
  <2> QED BY <2>4, <2>5
<1>5. CASE EndLoop
  <2>1. UNCHANGED <<copies, lost, ledger>> /\ status' = FinalStatus /\ pc = "loop"
    BY <1>5 DEF EndLoop
  <2>2. UNCHANGED <<Collected, Excused>>
    BY <2>1 DEF Collected, Excused, FinalGap
  <2>3. CASE interrupted
    BY <2>1, <2>2, <2>3 DEF FinalStatus, Complete
  <2>4. CASE ~interrupted
    <3>1. queue = <<>> /\ ~Complete /\ Complete' = TRUE
      BY <1>1, <1>5, <2>1, <2>4 DEF EndLoop, FinalStatus, Complete, Shape, Fetching
    <3> QED BY <3>1, <2>1, <2>2, NothingLeft
  <2> QED BY <2>3, <2>4
<1>6. CASE UNCHANGED <<copies, lost, ledger, status>>
  BY <1>6 DEF Collected, Excused, Complete, FinalGap
<1>7. \/ TransportGap \/ NodeLimitGap \/ NoData \/ PageArrives \/ WriteRecord \/ EndLoop
      \/ UNCHANGED <<copies, lost, ledger, status>>
  BY DEF Next, Engine, vars, Start, TakeBatch, CountRecords, Publish,
         TransportFails, ShrinkPage, SplitBatch, Reply,
         QueryRaises, MarkDone, SaveCursor, BatchDone, Sigint, Crash,
         TearLine, Die, disk
<1> QED BY <1>3, <1>4, <1>5, <1>6, <1>7

LEMMA InitPromise == Init => Promise!Init
<1> SUFFICES ASSUME Init PROVE Promise!Init
  OBVIOUS
<1>1. Collected = {} /\ Excused \in SUBSET Item /\ Complete = FALSE
  BY DEF Init, Collected, Excused, Complete
<1> QED BY <1>1 DEF Promise!Init, Collected, Excused, Complete

(* The fetch engine keeps the promise of DatasetFetch through crashes,     *)
(* interrupts and resumed attempts: a dataset is declared complete only    *)
(* when each of its records is on file or accounted for.                   *)
THEOREM Refinement == Spec => Implements
<1>1. IInv /\ [Next]_vars => [Promise!Next]_(Promise!absVars)
  <2> SUFFICES ASSUME IInv, [Next]_vars PROVE [Promise!Next]_(Promise!absVars)
    OBVIOUS
  <2> QED BY StepPromise DEF Promise!Next, Promise!Collect, Promise!Excuse,
             Promise!Finish, Promise!absVars, Collected, Excused, Complete
<1> QED BY <1>1, InitPromise, Invariant, PTL DEF Spec, Implements, Promise!Spec

----------------------------------------------------------------------------
(* Duplicates, and the report of the first attempt                         *)

(* What the cursor, or the page being written, has not reached is on file  *)
(* at most once for every kill; the rest once more.                        *)
Reached(r) == IF InPage(r) THEN at ELSE cursor[r]
OncePerKill ==
    \A r \in Repo, i \in Nat : <<r, i>> \in Item =>
       /\ copies[<<r, i>>] <= 1 + crashes
       /\ cursor[r] # Done /\ i > Reached(r) => copies[<<r, i>>] <= crashes

(* The process that started the snapshot holds every gap there is.         *)
FirstAttempt ==
    /\ attempts = 0 => pc = "down" /\ ledger = {} /\ status = "pending" /\ manifest = None
    /\ attempts = 1 /\ Running => gaps = ledger
    /\ pc = "reported" => outcome = [lines |-> copies, gaps |-> gaps]
    /\ manifest # None => pc = "published"
    /\ FirstAttemptReportsAll

(* Every step but those of a page and a kill.                              *)
LEMMA OnceFrame ==
    ASSUME OncePerKill, UNCHANGED <<copies, cursor, crashes>>, pc # "write", pc' # "write"
    PROVE  OncePerKill'
<1>1. \A r \in Repo : Reached(r) = cursor[r] /\ Reached(r)' = cursor[r]
  BY DEF Reached, InPage
<1> QED BY <1>1 DEF OncePerKill

LEMMA OnceWrite ==
    ASSUME IInv, OncePerKill, WriteRecord PROVE OncePerKill'
<1>1. PICK h \in Repo : h = Head(page) /\ h \in Held /\ <<h, at + 1>> \in Item
  BY WriteFacts
<1>2. /\ UNCHANGED <<cursor, pc, page, crashes>> /\ pc = "write" /\ at' = at + 1
      /\ WriteLine(<<h, at + 1>>) /\ Fetching
  BY <1>1 DEF WriteRecord, history, Fetching
<1>3. copies \in [Item -> Nat] /\ at \in Nat /\ crashes \in Nat
      /\ cursor \in [Repo -> Nat \cup {Done}]
  BY DEF IInv, TypeOK
<1>4. cursor[h] # Done
  BY <1>1, <1>2 DEF IInv, HeldOnce
<1>5. /\ Reached(h) = at /\ Reached(h)' = at + 1
      /\ \A r \in Repo : r # h => Reached(r)' = Reached(r)
  BY <1>1, <1>2 DEF Reached, InPage
<1>6. copies[<<h, at + 1>>] <= crashes
  BY <1>1, <1>3, <1>4, <1>5 DEF OncePerKill
<1>7. PICK x \in Item : x = <<h, at + 1>>
  BY <1>1
<1>8. /\ copies' \in [Item -> Nat] /\ copies'[x] <= 1 + crashes
      /\ \A y \in Item : y # x => copies'[y] = copies[y]
  <2>1. copies[x] \in Nat /\ copies[x] <= crashes
    BY <1>3, <1>6, <1>7
  <2>2. CASE tail = "torn"
    <3>1. copies' = copies
      BY <1>2, <1>7, <2>2 DEF WriteLine
    <3> QED BY <1>3, <2>1, <3>1
  <2>3. CASE tail # "torn"
    <3>1. copies' = [copies EXCEPT ![x] = copies[x] + 1]
      BY <1>2, <1>7, <2>3 DEF WriteLine
    <3>2. copies'[x] = copies[x] + 1 /\ \A y \in Item : y # x => copies'[y] = copies[y]
      BY <1>3, <3>1
    <3>3. copies' \in [Item -> Nat]
      BY <1>3, <2>1, <3>1
    <3> QED BY <1>3, <2>1, <3>2, <3>3
  <2> QED BY <2>2, <2>3
<1>9. ASSUME NEW r \in Repo, NEW i \in Nat, <<r, i>> \in Item
      PROVE  /\ copies'[<<r, i>>] <= 1 + crashes
             /\ cursor[r] # Done /\ i > Reached(r)' => copies'[<<r, i>>] <= crashes
  <2>1. CASE <<r, i>> = x
    <3>1. r = h /\ i = at + 1
      BY <1>7, <2>1
    <3> QED BY <1>3, <1>5, <1>8, <2>1, <3>1
  <2>2. CASE <<r, i>> # x
    <3>1. copies'[<<r, i>>] = copies[<<r, i>>]
      BY <1>8, <1>9, <2>2
    <3>2. cursor[r] # Done /\ i > Reached(r)' => i > Reached(r)
      <4>1. r = h => Reached(r)' > Reached(r) /\ Reached(r) \in Nat /\ Reached(r)' \in Nat
        BY <1>3, <1>5
      <4> QED BY <1>5, <4>1
    <3> QED BY <1>9, <3>1, <3>2 DEF OncePerKill
  <2> QED BY <2>1, <2>2
<1> QED BY <1>2, <1>9 DEF OncePerKill

LEMMA OnceSave ==
    ASSUME IInv, OncePerKill, SaveCursor PROVE OncePerKill'
<1>1. page # <<>> /\ TypeOK /\ work # <<>>
  BY DEF SaveCursor, IInv, Shape
<1>2. PICK h \in Repo : h = Head(page)
  BY <1>1, HeadHeld
<1>3. /\ UNCHANGED <<copies, crashes>> /\ pc = "write" /\ pc' = "reply" /\ PageTaken(h)
      /\ cursor' = [cursor EXCEPT ![h] = IF HasNextPage(h) /\ ~ReachedCap(h)
                                         THEN PageEnd(h) ELSE Done]
  BY <1>2 DEF SaveCursor, history
<1>4. /\ Reached(h) = at /\ \A r \in Repo : r # h => Reached(r) = cursor[r]
      /\ \A r \in Repo : Reached(r)' = cursor'[r]
  BY <1>2, <1>3 DEF Reached, InPage
<1>5. /\ cursor'[h] = Done \/ cursor'[h] = at
      /\ \A r \in Repo : r # h => cursor'[r] = cursor[r]
  BY <1>1, <1>3 DEF PageTaken, TypeOK
<1>6. Fetching /\ cursor[h] # Done
  BY <1>1, <1>2, <1>3, HeadHeld DEF IInv, HeldOnce, Fetching
<1>7. ASSUME NEW r \in Repo, cursor'[r] # Done
      PROVE  cursor[r] # Done /\ Reached(r)' = Reached(r)
  BY <1>4, <1>5, <1>6, <1>7
<1> QED BY <1>3, <1>7 DEF OncePerKill

LEMMA OnceStep == ASSUME IInv, OncePerKill, [Next]_vars PROVE OncePerKill'
<1>1. CASE WriteRecord
  BY <1>1, OnceWrite
<1>2. CASE SaveCursor
  BY <1>2, OnceSave
<1>3. CASE PageArrives
  <2>1. page # <<>> /\ TypeOK
    BY <1>3 DEF PageArrives, IInv
  <2>2. /\ UNCHANGED <<copies, cursor, crashes, page>> /\ pc = "reply" /\ pc' = "write"
        /\ at' = offset[Head(page)] /\ Fetching
    BY <1>3 DEF PageArrives, history, Fetching
  <2>3. cursor[Head(page)] = offset[Head(page)]
    BY <2>1, <2>2, HeadHeld DEF IInv, Progress, HeldOffsets
  <2>4. \A r \in Repo : Reached(r) = cursor[r] /\ Reached(r)' = cursor[r]
    BY <2>2, <2>3 DEF Reached, InPage
  <2> QED BY <2>2, <2>4 DEF OncePerKill
<1>4. CASE MarkDone
  <2>1. page # <<>> /\ TypeOK
    BY <1>4 DEF MarkDone, IInv, Shape
  <2>2. /\ UNCHANGED <<copies, crashes>> /\ pc = "mark" /\ pc' = "reply"
        /\ \A r \in Repo : cursor'[r] # Done => cursor'[r] = cursor[r]
    BY <1>4, <2>1, HeadHeld DEF MarkDone, history, TypeOK
  <2>3. \A r \in Repo : Reached(r) = cursor[r] /\ Reached(r)' = cursor'[r]
    BY <2>2 DEF Reached, InPage
  <2> QED BY <2>2, <2>3 DEF OncePerKill
<1>5. CASE Crash \/ TearLine
  <2>1. copies' = copies /\ crashes' = crashes + 1
    BY <1>5 DEF Crash, TearLine, Die
  <2>2. crashes \in Nat /\ copies \in [Item -> Nat]
    BY DEF IInv, TypeOK
  <2>3. \A r \in Repo, i \in Nat : <<r, i>> \in Item =>
           copies'[<<r, i>>] <= crashes' /\ copies'[<<r, i>>] <= 1 + crashes'
    BY <2>1, <2>2 DEF OncePerKill
  <2> QED BY <2>3 DEF OncePerKill
<1>6. CASE Sigint \/ UNCHANGED vars
  <2>1. UNCHANGED <<copies, cursor, crashes, pc, page, at>>
    BY <1>6 DEF Sigint, vars, disk, memory, history
  <2> QED BY <2>1 DEF OncePerKill, Reached, InPage
<1>7. CASE Start \/ TakeBatch \/ EndLoop
  <2>1. UNCHANGED <<copies, cursor, crashes>> /\ pc # "write" /\ pc' # "write"
    BY <1>7 DEF Start, TakeBatch, EndLoop, disk, history
  <2> QED BY <2>1, OnceFrame
<1>8. CASE CountRecords \/ Publish \/ QueryRaises
  <2>1. UNCHANGED <<copies, cursor, crashes>> /\ pc # "write" /\ pc' # "write"
    BY <1>8 DEF CountRecords, Publish, QueryRaises, Exit, disk, history
  <2> QED BY <2>1, OnceFrame
<1>9. CASE TransportFails \/ TransportGap \/ ShrinkPage \/ SplitBatch \/ NodeLimitGap
  <2>1. UNCHANGED <<copies, cursor, crashes>> /\ pc # "write" /\ pc' # "write"
    BY <1>9 DEF TransportFails, TransportGap, ShrinkPage, SplitBatch, NodeLimitGap, disk, history
  <2> QED BY <2>1, OnceFrame
<1>10. CASE Reply \/ NoData \/ BatchDone
  <2>1. UNCHANGED <<copies, cursor, crashes>> /\ pc # "write" /\ pc' # "write"
    BY <1>10 DEF Reply, NoData, BatchDone, disk, history
  <2> QED BY <2>1, OnceFrame
<1> QED BY <1>1, <1>2, <1>3, <1>4, <1>5, <1>6, <1>7, <1>8, <1>9, <1>10 DEF Next, Engine

LEMMA FirstStep == ASSUME IInv, FirstAttempt, [Next]_vars PROVE FirstAttempt'
<1>0. attempts \in Nat
  BY DEF IInv, TypeOK
<1>a. ASSUME pc' = "down", UNCHANGED <<ledger, status, copies, manifest, attempts>>,
             manifest = None, attempts # 0
      PROVE  FirstAttempt'
  BY <1>a DEF FirstAttempt, FirstAttemptReportsAll, Running
<1>b. Running => manifest = None /\ attempts # 0
  BY DEF FirstAttempt, Running
<1>1. CASE Start
  <2>1. /\ pc = "down" /\ manifest = None /\ attempts' = attempts + 1
        /\ UNCHANGED <<ledger, status, copies, manifest>> /\ pc' \in {"count", "loop"}
        /\ gaps' = IF status = "complete" THEN ledger ELSE {}
    BY <1>1 DEF Start, disk
  <2>2. attempts' # 0 /\ (attempts' = 1 => gaps' = ledger)
    BY <1>0, <2>1 DEF FirstAttempt
  <2> QED BY <2>1, <2>2 DEF FirstAttempt, FirstAttemptReportsAll
<1>2. CASE CountRecords
  <2>1. /\ pc = "count" /\ UNCHANGED <<ledger, status, copies, manifest, attempts>>
        /\ \/ pc' = "down"
           \/ pc' = "reported" /\ gaps' = gaps /\ outcome' = [lines |-> copies, gaps |-> gaps]
    BY <1>2 DEF CountRecords, Exit, disk, history
  <2>2. manifest = None /\ attempts # 0
    BY <1>b, <2>1 DEF Running
  <2>3. CASE pc' = "down"
    BY <1>a, <2>1, <2>2, <2>3
  <2>4. CASE pc' = "reported"
    BY <2>1, <2>2, <2>4 DEF FirstAttempt, FirstAttemptReportsAll, Running
  <2> QED BY <2>1, <2>3, <2>4
<1>3. CASE Publish
  <2>1. /\ pc = "reported" /\ UNCHANGED <<ledger, status, copies, attempts>>
        /\ \/ pc' = "down" /\ manifest' = manifest
           \/ pc' = "published" /\ manifest' = outcome
    BY <1>3 DEF Publish, Exit, disk
  <2>2. manifest = None /\ attempts # 0
    BY <1>b, <2>1 DEF Running
  <2>3. CASE pc' = "down" /\ manifest' = manifest
    BY <1>a, <2>1, <2>2, <2>3
  <2>4. CASE pc' = "published" /\ manifest' = outcome
    <3>1. outcome.lines = copies /\ outcome.gaps = gaps /\ (attempts = 1 => gaps = ledger)
      BY <2>1 DEF FirstAttempt, Running
    <3> QED BY <2>1, <2>2, <2>4, <3>1 DEF FirstAttempt, FirstAttemptReportsAll, Running
  <2> QED BY <2>1, <2>3, <2>4
<1>4. CASE QueryRaises \/ Crash \/ TearLine
  <2>1. /\ Running /\ pc' = "down"
        /\ UNCHANGED <<ledger, status, copies, manifest, attempts>>
    BY <1>4 DEF QueryRaises, Crash, TearLine, Die, Exit, disk, history, Running
  <2> QED BY <1>a, <1>b, <2>1
<1>c. ASSUME Fetching, pc' \notin {"down", "published", "reported"},
             UNCHANGED <<manifest, attempts>>, gaps = ledger => gaps' = ledger'
      PROVE  FirstAttempt'
  <2>1. Running
    BY <1>c DEF Fetching, Running
  <2> QED BY <1>b, <1>c, <2>1 DEF FirstAttempt, FirstAttemptReportsAll, Running
<1>5. CASE TransportGap \/ NodeLimitGap \/ NoData \/ PageArrives
  <2>1. /\ Fetching /\ pc' \in {"failed", "mark", "write"} /\ UNCHANGED <<manifest, attempts>>
        /\ gaps = ledger => gaps' = ledger'
    BY <1>5 DEF TransportGap, NodeLimitGap, NoData, PageArrives, RecordGap, history, Fetching
  <2> QED BY <1>c, <2>1
<1>6. CASE TakeBatch \/ EndLoop \/ TransportFails \/ ShrinkPage \/ SplitBatch \/ Reply
  <2>1. /\ Fetching /\ pc' \in {"query", "count", "failed", "reply"}
        /\ UNCHANGED <<manifest, attempts, gaps, ledger>>
    BY <1>6 DEF TakeBatch, EndLoop, TransportFails, ShrinkPage, SplitBatch, Reply, disk,
                memory, history, Fetching
  <2> QED BY <1>c, <2>1
<1>7. CASE MarkDone \/ WriteRecord \/ SaveCursor \/ BatchDone
  <2>1. /\ Fetching /\ pc' \in {"reply", "write", "query", "loop"}
        /\ UNCHANGED <<manifest, attempts, gaps, ledger>>
    BY <1>7 DEF MarkDone, WriteRecord, SaveCursor, BatchDone, disk, history, Fetching
  <2> QED BY <1>c, <2>1
<1>8. CASE Sigint \/ UNCHANGED vars
  <2>1. UNCHANGED <<pc, ledger, status, copies, manifest, attempts, gaps, outcome>>
    BY <1>8 DEF Sigint, vars, disk, memory, history
  <2> QED BY <2>1 DEF FirstAttempt, FirstAttemptReportsAll, Running
<1> QED BY <1>1, <1>2, <1>3, <1>4, <1>5, <1>6, <1>7, <1>8 DEF Next, Engine

(* Page by page retries, splits, stops and interrupts repeat no record:    *)
(* only a kill between a record and its cursor does (_run_batch).          *)
THEOREM DuplicatesNeedKills == Spec => []DuplicatesBoundedByCrashes
<1>1. Init => OncePerKill
  <2>1. Init => copies = [x \in Item |-> 0] /\ crashes = 0
    BY DEF Init
  <2>2. ASSUME copies = [x \in Item |-> 0], crashes = 0 PROVE OncePerKill
    BY <2>2 DEF OncePerKill
  <2> QED BY <2>1, <2>2
<1>2. OncePerKill => DuplicatesBoundedByCrashes
  <2>1. \A x \in Item : \E r \in Repo, i \in Nat : x = <<r, i>>
    BY CountAssumption DEF Item
  <2> QED BY <2>1 DEF OncePerKill, DuplicatesBoundedByCrashes
<1> QED BY <1>1, <1>2, OnceStep, Invariant, PTL DEF Spec

(* The manifest of the process that started the snapshot reports every gap *)
(* and every line (fetch_repo_dataset's gaps and count_records).           *)
THEOREM FirstAttemptIsHonest == Spec => []FirstAttemptReportsAll
<1>1. Init => FirstAttempt
  BY DEF Init, FirstAttempt, FirstAttemptReportsAll, Running
<1>2. FirstAttempt => FirstAttemptReportsAll
  BY DEF FirstAttempt
<1> QED BY <1>1, <1>2, FirstStep, Invariant, PTL DEF Spec

----------------------------------------------------------------------------
(* The NDJSON file and its readers (NdjsonFile)                            *)

(* The characters of the file, the two ways its readers split it, and what *)
(* a reader remembers.                                                     *)
Char  == {Newline, Separator} \cup (Record \X {"first", "second"})
Marks == {{Newline}, {Newline, Separator}}
State == [whole : Seq(Seq(Char)), line : Seq(Char)]

(* The first half of a record, its second half, and what is not one.       *)
LEMMA CharFacts ==
    /\ Newline \in Char /\ Separator \in Char
    /\ \A r \in Record :
        /\ Half(r, "first") \in Char \ {Newline, Separator}
        /\ Half(r, "second") \in Char \ {Newline, Separator}
        /\ \A q \in Record : /\ Half(r, "first") # Half(q, "second")
                             /\ Half(r, "first") = Half(q, "first") <=> r = q
                             /\ Half(r, "second") = Half(q, "second") <=> r = q
BY DEF Char, Half, Newline, Separator

(* A reader's table: what it has after each character.                     *)
Table(b, s, g, n) ==
    g = [k \in 0 .. n |-> IF k = 0 THEN Blank ELSE Read(b, g[k - 1], s[k])]
LEMMA TableExists ==
    ASSUME NEW b, NEW s, NEW n \in Nat PROVE \E g : Table(b, s, g, n)
<1> DEFINE T == {k \in Nat : \E g : Table(b, s, g, k)}
<1>1. 0 \in T
  <2> DEFINE g == [k \in 0 .. 0 |-> Blank]
  <2>1. g = [k \in 0 .. 0 |-> IF k = 0 THEN Blank ELSE Read(b, g[k - 1], s[k])]
    OBVIOUS
  <2> HIDE DEF g
  <2> QED BY <2>1 DEF Table
<1>2. ASSUME NEW m \in Nat, m \in T PROVE m + 1 \in T
  <2>1. PICK g : Table(b, s, g, m)
    BY <1>2
  <2> DEFINE h == [k \in 0 .. m + 1 |->
                     IF k = m + 1 THEN Read(b, g[m], s[m + 1]) ELSE g[k]]
  <2>2. ASSUME NEW k \in 0 .. m + 1
        PROVE  h[k] = IF k = 0 THEN Blank ELSE Read(b, h[k - 1], s[k])
    <3>1. CASE k = m + 1
      <4>1. k # 0 /\ k - 1 = m /\ m \in 0 .. m + 1 /\ m # m + 1
        BY <3>1
      <4>2. h[m] = g[m] /\ h[k] = Read(b, g[m], s[m + 1])
        BY <3>1, <4>1
      <4> HIDE DEF h
      <4> QED BY <3>1, <4>1, <4>2
    <3>2. CASE k # m + 1
      <4>1. k \in 0 .. m /\ (k # 0 => k - 1 \in 0 .. m + 1 /\ k - 1 # m + 1)
        BY <3>2
      <4>2. h[k] = g[k] /\ (k # 0 => h[k - 1] = g[k - 1])
        BY <3>2, <4>1
      <4>3. g[k] = IF k = 0 THEN Blank ELSE Read(b, g[k - 1], s[k])
        BY <2>1, <4>1, Zenon DEF Table
      <4> HIDE DEF h
      <4> QED BY <4>2, <4>3
    <3> QED BY <3>1, <3>2
  <2>3. h = [k \in 0 .. m + 1 |-> h[k]]
    OBVIOUS
  <2> HIDE DEF h
  <2>4. Table(b, s, h, m + 1)
    BY <2>2, <2>3, Zenon DEF Table
  <2>5. m + 1 \in Nat
    OBVIOUS
  <2> QED BY <2>4, <2>5
<1> HIDE DEF T
<1>3. n \in T
  BY <1>1, <1>2, SetInduction
<1> QED BY <1>3 DEF T

(* Reading is the last entry of such a table.                              *)
LEMMA ReadingIs ==
    ASSUME NEW b, NEW s, Len(s) \in Nat
    PROVE  \E g : Table(b, s, g, Len(s)) /\ Reading(b, s) = g[Len(s)]
<1> DEFINE g == CHOOSE g : Table(b, s, g, Len(s))
<1>1. Table(b, s, g, Len(s))
  BY TableExists, Zenon
<1>2. Reading(b, s) = g[Len(s)]
  BY Zenon DEF Reading, Table
<1> QED BY <1>1, <1>2, Zenon

(* A reader takes one character after the other.                           *)
LEMMA ReadingAppend ==
    ASSUME NEW b, NEW S, NEW s \in Seq(S), NEW c \in S
    PROVE  Reading(b, Append(s, c)) = Read(b, Reading(b, s), c)
<1> DEFINE n == Len(s)
           t == Append(s, c)
<1>1. /\ n \in Nat /\ Len(t) = n + 1 /\ t[n + 1] = c
      /\ \A k \in 1 .. n : t[k] = s[k]
  BY AppendProperties, LenProperties
<1> HIDE DEF n, t
<1>2. PICK g : Table(b, s, g, n) /\ Reading(b, s) = g[n]
  BY <1>1, ReadingIs DEF n
<1>3. PICK h : Table(b, t, h, n + 1) /\ Reading(b, t) = h[n + 1]
  BY <1>1, ReadingIs
<1> DEFINE T == {k \in Nat : k <= n => h[k] = g[k]}
<1>4. 0 \in T
  <2>1. 0 \in 0 .. n /\ 0 \in 0 .. n + 1
    BY <1>1
  <2> QED BY <1>2, <1>3, <2>1, Zenon DEF Table
<1>5. ASSUME NEW k \in Nat, k \in T PROVE k + 1 \in T
  <2> SUFFICES ASSUME k + 1 <= n PROVE h[k + 1] = g[k + 1]
    OBVIOUS
  <2>1. /\ k + 1 \in 0 .. n /\ k + 1 \in 0 .. n + 1 /\ k + 1 # 0 /\ (k + 1) - 1 = k
        /\ k + 1 \in 1 .. n /\ k <= n
    BY <1>1
  <2>2. h[k] = g[k] /\ t[k + 1] = s[k + 1]
    BY <1>1, <1>5, <2>1
  <2>3. h[k + 1] = Read(b, h[k], t[k + 1]) /\ g[k + 1] = Read(b, g[k], s[k + 1])
    BY <1>2, <1>3, <2>1, Zenon DEF Table
  <2> QED BY <2>2, <2>3
<1>6. n \in T
  <2> HIDE DEF T
  <2> QED BY <1>1, <1>4, <1>5, SetInduction
<1>7. h[n] = g[n]
  BY <1>1, <1>6
<1>8. n + 1 \in 0 .. n + 1 /\ n + 1 # 0 /\ (n + 1) - 1 = n
  BY <1>1
<1>9. h[n + 1] = Read(b, h[n], t[n + 1])
  BY <1>3, <1>8, Zenon DEF Table
<1> QED BY <1>1, <1>2, <1>3, <1>7, <1>9 DEF t

(* Of an empty file a reader has nothing.                                  *)
LEMMA ReadingNothing == \A b : Reading(b, <<>>) = Blank
<1> TAKE b
<1>1. Len(<<>>) = 0
  OBVIOUS
<1>2. PICK g : Table(b, <<>>, g, 0) /\ Reading(b, <<>>) = g[0]
  BY <1>1, ReadingIs
<1>3. 0 \in 0 .. 0
  OBVIOUS
<1> QED BY <1>2, <1>3, Zenon DEF Table

(* How often a value occurs.                                               *)
LEMMA TimesFacts ==
    ASSUME NEW S, NEW s \in Seq(S), NEW x
    PROVE  /\ Times(x, s) \in Nat
           /\ \A e \in S : Times(x, Append(s, e)) = Times(x, s) + IF e = x THEN 1 ELSE 0
<1> DEFINE n == Len(s)
           Where == {i \in DOMAIN s : s[i] = x}
<1>1. n \in Nat /\ DOMAIN s = 1 .. n
  BY LenProperties
<1> HIDE DEF n
<1>2. IsFiniteSet(Where) /\ Cardinality(Where) \in Nat
  <2>1. IsFiniteSet(1 .. n)
    BY <1>1, FS_Interval
  <2>2. Where \in SUBSET (1 .. n)
    BY <1>1
  <2> QED BY <2>1, <2>2, FS_Subset, FS_CardinalityType
<1>3. ASSUME NEW e \in S
      PROVE  Times(x, Append(s, e)) = Times(x, s) + IF e = x THEN 1 ELSE 0
  <2> DEFINE t == Append(s, e)
  <2>1. /\ DOMAIN t = 1 .. n + 1 /\ t[n + 1] = e
        /\ \A k \in 1 .. n : t[k] = s[k]
    <3>1. t \in Seq(S) /\ Len(t) = n + 1 /\ t[n + 1] = e /\ \A k \in 1 .. n : t[k] = s[k]
      BY <1>1, AppendProperties DEF n
    <3> HIDE DEF t
    <3> QED BY <3>1, LenProperties
  <2> HIDE DEF t
  <2>2. {i \in DOMAIN t : t[i] = x} = IF e = x THEN Where \cup {n + 1} ELSE Where
    BY <1>1, <2>1
  <2>3. n + 1 \notin Where
    BY <1>1
  <2> HIDE DEF Where
  <2>4. Cardinality(Where \cup {n + 1}) = Cardinality(Where) + 1
    BY <1>2, <2>3, FS_AddElement
  <2>5. Times(x, t) = IF e = x THEN Cardinality(Where) + 1 ELSE Cardinality(Where)
    BY <2>2, <2>4 DEF Times
  <2>6. Times(x, s) = Cardinality(Where)
    BY DEF Times, Where
  <2> QED BY <1>2, <2>5, <2>6 DEF t
<1> QED BY <1>2, <1>3 DEF Times

LEMMA TimesNothing == \A x : Times(x, <<>>) = 0
<1> TAKE x
<1>1. {i \in DOMAIN <<>> : <<>>[i] = x} = {}
  OBVIOUS
<1> QED BY <1>1, FS_EmptySet DEF Times

(* Short sequences, built up and cut off.                                  *)
Spelled(a, b, c, d) ==
    /\ <<a>> = Append(<<>>, a) /\ <<a, b>> = Append(<<a>>, b)
    /\ <<a, b, c>> = Append(<<a, b>>, c) /\ <<a, b, c, d>> = Append(<<a, b, c>>, d)
    /\ SubSeq(<<a, b, c>>, 1, 1) = <<a>> /\ SubSeq(<<a, b, c>>, 1, 2) = <<a, b>>
    /\ SubSeq(<<a, b, c, d>>, 1, 1) = <<a>> /\ SubSeq(<<a, b, c, d>>, 1, 2) = <<a, b>>
    /\ SubSeq(<<a, b, c, d>>, 1, 3) = <<a, b, c>>
    /\ SubSeq(<<a, b, c>>, 1, 3) = <<a, b, c>>
    /\ SubSeq(<<a, b, c, d>>, 1, 4) = <<a, b, c, d>>
LEMMA TupleFacts ==
    ASSUME NEW a \in Char, NEW b \in Char, NEW c \in Char, NEW d \in Char
    PROVE  Spelled(a, b, c, d)
<1>1. /\ <<a>> \in Seq(Char) /\ Len(<<a>>) = 1 /\ <<a>>[1] = a
      /\ <<>> \in Seq(Char) /\ Len(<<>>) = 0
  OBVIOUS
<1>2. <<a, b>> \in Seq(Char) /\ Len(<<a, b>>) = 2 /\ <<a, b>>[1] = a /\ <<a, b>>[2] = b
  OBVIOUS
<1>3. /\ <<a, b, c>> \in Seq(Char) /\ Len(<<a, b, c>>) = 3
      /\ <<a, b, c>>[1] = a /\ <<a, b, c>>[2] = b /\ <<a, b, c>>[3] = c
  OBVIOUS
<1>4. /\ <<a, b, c, d>> \in Seq(Char) /\ Len(<<a, b, c, d>>) = 4
      /\ <<a, b, c, d>>[1] = a /\ <<a, b, c, d>>[2] = b
      /\ <<a, b, c, d>>[3] = c /\ <<a, b, c, d>>[4] = d
  OBVIOUS
<1>5. ASSUME NEW s \in Seq(Char), NEW e \in Char, NEW t \in Seq(Char),
             Len(t) = Len(s) + 1, t[Len(t)] = e, \A i \in 1 .. Len(s) : t[i] = s[i]
      PROVE  t = Append(s, e)
  <2>1. /\ Append(s, e) \in Seq(Char) /\ Len(Append(s, e)) = Len(s) + 1
        /\ Append(s, e)[Len(s) + 1] = e /\ \A i \in 1 .. Len(s) : Append(s, e)[i] = s[i]
    BY AppendProperties
  <2>2. Len(s) \in Nat
    BY LenProperties
  <2>3. \A i \in 1 .. Len(t) : t[i] = Append(s, e)[i]
    BY <1>5, <2>1, <2>2
  <2> QED BY <1>5, <2>1, <2>3, SeqEqual
<1>6. ASSUME NEW s \in Seq(Char), NEW t \in Seq(Char), Len(t) <= Len(s),
             \A i \in 1 .. Len(t) : t[i] = s[i]
      PROVE  SubSeq(s, 1, Len(t)) = t
  <2>1. Len(s) \in Nat /\ Len(t) \in Nat /\ \A i \in 1 .. Len(s) : s[i] \in Char
    BY LenProperties, ElementOfSeq
  <2>2. /\ SubSeq(s, 1, Len(t)) \in Seq(Char) /\ Len(SubSeq(s, 1, Len(t))) = Len(t)
        /\ \A i \in 1 .. Len(t) : SubSeq(s, 1, Len(t))[i] = s[i]
    BY <1>6, <2>1, SubSeqProperties
  <2> QED BY <1>6, <2>2, SeqEqual
<1> DEFINE one == <<a>>
           two == <<a, b>>
           three == <<a, b, c>>
           four == <<a, b, c, d>>
<1> HIDE DEF one, two, three, four
<1>7. one = Append(<<>>, a)
  BY <1>1, <1>5 DEF one
<1>8. two = Append(one, b)
  BY <1>1, <1>2, <1>5 DEF one, two
<1>9. three = Append(two, c)
  BY <1>2, <1>3, <1>5 DEF two, three
<1>10. four = Append(three, d)
  BY <1>3, <1>4, <1>5 DEF three, four
<1>11. /\ one \in Seq(Char) /\ two \in Seq(Char) /\ three \in Seq(Char)
       /\ Len(one) = 1 /\ Len(two) = 2 /\ Len(three) = 3
       /\ one[1] = a /\ two[1] = a /\ two[2] = b
       /\ three[1] = a /\ three[2] = b /\ three[3] = c
  BY <1>1, <1>2, <1>3 DEF one, two, three
<1>12. /\ four \in Seq(Char) /\ Len(four) = 4
       /\ four[1] = a /\ four[2] = b /\ four[3] = c /\ four[4] = d
  BY <1>4 DEF four
<1>13. SubSeq(three, 1, 1) = one /\ SubSeq(three, 1, 2) = two /\ SubSeq(three, 1, 3) = three
  <2>1. /\ SubSeq(three, 1, Len(one)) = one /\ SubSeq(three, 1, Len(two)) = two
        /\ SubSeq(three, 1, Len(three)) = three
    BY <1>6, <1>11
  <2> QED BY <1>11, <2>1, Zenon
<1>14. SubSeq(four, 1, 1) = one /\ SubSeq(four, 1, 2) = two /\ SubSeq(four, 1, 3) = three
       /\ SubSeq(four, 1, 4) = four
  <2>1. /\ SubSeq(four, 1, Len(one)) = one /\ SubSeq(four, 1, Len(two)) = two
        /\ SubSeq(four, 1, Len(three)) = three /\ SubSeq(four, 1, Len(four)) = four
    BY <1>6, <1>11, <1>12
  <2> QED BY <1>11, <1>12, <2>1, Zenon
<1> QED BY <1>7, <1>8, <1>9, <1>10, <1>13, <1>14, Zenon DEF Spelled, one, two, three, four

(* What a record is in the file.                                           *)
LEMMA TextFacts ==
    ASSUME NEW r \in Record
    PROVE  /\ Text(r) \in Seq(Char) /\ Text(r) # <<>> /\ Text(r)[1] = Half(r, "first")
           /\ Text(r) # <<Half(r, "first")>>
           /\ Times(Half(r, "second"), Text(r)) >= 1
<1> DEFINE a == Half(r, "first")
           z == Half(r, "second")
<1>1. a \in Char /\ z \in Char /\ Separator \in Char
  BY CharFacts
<1> HIDE DEF a, z
<1>2. <<a>> \in Seq(Char) /\ <<a, Separator>> \in Seq(Char)
  BY <1>1
<1>3. /\ Append(<<a>>, z) = <<a, z>>
      /\ Append(<<a, Separator>>, z) = <<a, Separator, z>>
  <2>1. Spelled(a, z, z, z) /\ Spelled(a, Separator, z, z)
    BY <1>1, TupleFacts
  <2> QED BY <2>1, Zenon DEF Spelled
<1>4. Times(z, <<a, z>>) >= 1 /\ Times(z, <<a, Separator, z>>) >= 1
  <2>1. /\ Times(z, Append(<<a>>, z)) = Times(z, <<a>>) + 1
        /\ Times(z, Append(<<a, Separator>>, z)) = Times(z, <<a, Separator>>) + 1
        /\ Times(z, <<a>>) \in Nat /\ Times(z, <<a, Separator>>) \in Nat
    BY <1>1, <1>2, TimesFacts
  <2>2. /\ Times(z, Append(<<a>>, z)) >= 1
        /\ Times(z, Append(<<a, Separator>>, z)) >= 1
    BY <2>1
  <2> QED BY <1>3, <2>2, Zenon
<1>5. /\ <<a, z>> \in Seq(Char) /\ <<a, Separator, z>> \in Seq(Char)
      /\ Len(<<a, z>>) = 2 /\ Len(<<a, Separator, z>>) = 3 /\ Len(<<a>>) = 1
      /\ <<a, z>>[1] = a /\ <<a, Separator, z>>[1] = a
      /\ <<a, z>> # <<a>> /\ <<a, Separator, z>> # <<a>>
      /\ <<a, z>> # <<>> /\ <<a, Separator, z>> # <<>>
  BY <1>1
<1>6. Text(r) = <<a, z>> \/ Text(r) = <<a, Separator, z>>
  BY DEF Text, a, z
<1> QED BY <1>4, <1>5, <1>6 DEF a, z

(* The lines a reader has, with the one it is in.                          *)
LEMMA WholeFacts ==
    ASSUME NEW s \in State, NEW r \in Record
    PROVE  /\ Whole(s) \in Seq(Seq(Char))
           /\ Times(Text(r), Whole(s)) \in Nat
           /\ Times(Text(r), Whole(s))
                <= Times(Text(r), s.whole) + Times(Half(r, "second"), s.line)
<1>1. s.whole \in Seq(Seq(Char)) /\ s.line \in Seq(Char)
  BY DEF State
<1>2. /\ Times(Text(r), s.whole) \in Nat /\ Times(Half(r, "second"), s.line) \in Nat
      /\ Times(Text(r), Append(s.whole, s.line))
           = Times(Text(r), s.whole) + IF s.line = Text(r) THEN 1 ELSE 0
  BY <1>1, TimesFacts
<1>3. Append(s.whole, s.line) \in Seq(Seq(Char))
  BY <1>1, AppendProperties
<1>4. s.line = Text(r) => Times(Half(r, "second"), s.line) >= 1
  BY TextFacts
<1>5. CASE s.line = <<>>
  <2>1. Whole(s) = s.whole
    BY <1>5 DEF Whole
  <2> QED BY <1>1, <1>2, <2>1
<1>6. CASE s.line # <<>>
  <2>1. Whole(s) = Append(s.whole, s.line)
    BY <1>6 DEF Whole
  <2> QED BY <1>2, <1>3, <1>4, <2>1
<1> QED BY <1>5, <1>6

(* A reader finds at most m texts of r in s, those it is reading included. *)
Bounded(b, r, s, m) ==
    /\ s \in Seq(Char) /\ Reading(b, s) \in State
    /\ Times(Text(r), Reading(b, s).whole) + Times(Half(r, "second"), Reading(b, s).line) <= m

(* One more character.                                                     *)
LEMMA BoundedAppend ==
    ASSUME NEW b \in Marks, NEW r \in Record, NEW s, NEW m \in Nat, Bounded(b, r, s, m),
           NEW c \in Char, NEW k \in Nat, m <= k, c = Half(r, "second") => m + 1 <= k
    PROVE  Bounded(b, r, Append(s, c), k)
<1> DEFINE x == Reading(b, s)
           y == Reading(b, Append(s, c))
           z == Half(r, "second")
           T == Text(r)
<1>1. /\ s \in Seq(Char) /\ x \in State
      /\ Times(T, x.whole) + Times(z, x.line) <= m
  BY DEF Bounded
<1>2. y = Read(b, x, c)
  BY <1>1, ReadingAppend
<1>3. Append(s, c) \in Seq(Char)
  BY <1>1, AppendProperties
<1>4. z \notin b
  BY CharFacts DEF Marks
<1> HIDE DEF x, y
<1>5. x.whole \in Seq(Seq(Char)) /\ x.line \in Seq(Char) /\ <<>> \in Seq(Char)
  BY <1>1 DEF State
<1>6. y \in State /\ Times(T, y.whole) + Times(z, y.line) <= k
  <2> HIDE DEF z, T
  <2>1. CASE c \in b
    <3>1. y = [whole |-> Whole(x), line |-> <<>>]
      BY <1>2, <2>1 DEF Read
    <3>2. Whole(x) \in Seq(Seq(Char)) /\ Times(T, Whole(x)) \in Nat
          /\ Times(T, Whole(x)) <= Times(T, x.whole) + Times(z, x.line)
      BY <1>1, WholeFacts DEF T, z
    <3>3. Times(z, y.line) = 0 /\ y.whole = Whole(x)
      BY <3>1, TimesNothing
    <3>4. y \in State
      BY <1>5, <3>1, <3>2 DEF State
    <3>5. Times(T, x.whole) \in Nat /\ Times(z, x.line) \in Nat
      BY <1>5, TimesFacts
    <3> QED BY <1>1, <3>2, <3>3, <3>4, <3>5
  <2>2. CASE c \notin b
    <3>1. y = [x EXCEPT !.line = Append(x.line, c)]
      BY <1>2, <2>2 DEF Read
    <3>2. y.whole = x.whole /\ y.line = Append(x.line, c) /\ y \in State
      <4>1. Append(x.line, c) \in Seq(Char)
        BY <1>5, AppendProperties
      <4> QED BY <1>1, <3>1, <4>1 DEF State
    <3>3. Times(z, y.line) = Times(z, x.line) + IF c = z THEN 1 ELSE 0
      BY <1>5, <3>2, TimesFacts
    <3>4. Times(T, x.whole) \in Nat /\ Times(z, x.line) \in Nat
      BY <1>5, TimesFacts
    <3>5. c = z => m + 1 <= k
      BY DEF z
    <3> QED BY <1>1, <3>2, <3>3, <3>4, <3>5
  <2> QED BY <2>1, <2>2
<1> QED BY <1>3, <1>6 DEF Bounded, y

(* What a write leaves in the file: the beginnings of the line of q, each  *)
(* with what follows it.                                                   *)
LEMMA LineFacts ==
    ASSUME NEW q \in Record, NEW k \in 1 .. Len(Line(q)), NEW s \in Seq(Char)
    PROVE  LET a == Half(q, "first")  z == Half(q, "second")
               one == Append(s, a)
               two == Append(one, Separator)
           IN  \/ s \o SubSeq(Line(q), 1, k) = one /\ k = 1
               \/ s \o SubSeq(Line(q), 1, k) = two /\ q \in Splits /\ k = 2
               \/ /\ s \o SubSeq(Line(q), 1, k) = Append(one, z)
                  /\ q \notin Splits /\ k = 2
               \/ /\ s \o SubSeq(Line(q), 1, k) = Append(two, z)
                  /\ q \in Splits /\ k = 3
               \/ /\ s \o SubSeq(Line(q), 1, k) = Append(Append(one, z), Newline)
                  /\ q \notin Splits /\ k = 3
               \/ /\ s \o SubSeq(Line(q), 1, k) = Append(Append(two, z), Newline)
                  /\ q \in Splits /\ k = 4
<1> DEFINE a == Half(q, "first")
           z == Half(q, "second")
           p == SubSeq(Line(q), 1, k)
<1>1. a \in Char /\ z \in Char /\ Separator \in Char /\ Newline \in Char
  BY CharFacts
<1> HIDE DEF a, z
<1>2. /\ s \o <<a>> = Append(s, a)
      /\ s \o <<a, Separator>> = Append(Append(s, a), Separator)
      /\ s \o <<a, z>> = Append(Append(s, a), z)
      /\ s \o <<a, Separator, z>> = Append(Append(Append(s, a), Separator), z)
      /\ s \o <<a, z, Newline>> = Append(Append(Append(s, a), z), Newline)
      /\ s \o <<a, Separator, z, Newline>>
           = Append(Append(Append(Append(s, a), Separator), z), Newline)
  BY <1>1
<1>3. Spelled(a, Separator, z, Newline) /\ Spelled(a, z, Newline, Newline)
  BY <1>1, TupleFacts
<1>4. CASE q \in Splits
  <2>1. Line(q) = <<a, Separator, z, Newline>> /\ Len(Line(q)) = 4
    <3>1. Line(q) = Append(<<a, Separator, z>>, Newline)
      BY <1>4 DEF Line, Text, a, z
    <3>2. Line(q) = <<a, Separator, z, Newline>>
      BY <1>3, <3>1, Zenon DEF Spelled
    <3> QED BY <3>2
  <2>2. k \in {1, 2, 3, 4}
    BY <2>1
  <2>3. /\ SubSeq(<<a, Separator, z, Newline>>, 1, 1) = <<a>>
        /\ SubSeq(<<a, Separator, z, Newline>>, 1, 2) = <<a, Separator>>
        /\ SubSeq(<<a, Separator, z, Newline>>, 1, 3) = <<a, Separator, z>>
        /\ SubSeq(<<a, Separator, z, Newline>>, 1, 4) = <<a, Separator, z, Newline>>
    BY <1>3, Zenon DEF Spelled
  <2> QED BY <1>2, <1>4, <2>1, <2>2, <2>3 DEF a, z
<1>5. CASE q \notin Splits
  <2>1. Line(q) = <<a, z, Newline>> /\ Len(Line(q)) = 3
    <3>1. Line(q) = Append(<<a, z>>, Newline)
      BY <1>5 DEF Line, Text, a, z
    <3>2. Line(q) = <<a, z, Newline>>
      BY <1>3, <3>1, Zenon DEF Spelled
    <3> QED BY <3>2
  <2>2. k \in {1, 2, 3}
    BY <2>1
  <2>3. /\ SubSeq(<<a, z, Newline>>, 1, 1) = <<a>>
        /\ SubSeq(<<a, z, Newline>>, 1, 2) = <<a, z>>
        /\ SubSeq(<<a, z, Newline>>, 1, 3) = <<a, z, Newline>>
    BY <1>3, Zenon DEF Spelled
  <2> QED BY <1>2, <1>5, <2>1, <2>2, <2>3 DEF a, z
<1> QED BY <1>4, <1>5

(* A whole write of q, or the beginning of one, adds at most one text of   *)
(* r, and none unless q is r.                                              *)
LEMMA BoundedWrite ==
    ASSUME NEW b \in Marks, NEW r \in Record, NEW s, NEW m \in Nat, Bounded(b, r, s, m),
           NEW q \in Record, NEW k \in 1 .. Len(Line(q))
    PROVE  Bounded(b, r, s \o SubSeq(Line(q), 1, k), m + IF q = r THEN 1 ELSE 0)
<1> DEFINE a == Half(q, "first")
           z == Half(q, "second")
           top == m + IF q = r THEN 1 ELSE 0
           one == Append(s, a)
           two == Append(one, Separator)
<1>1. s \in Seq(Char) /\ top \in Nat /\ m <= top
  BY DEF Bounded
<1>2. /\ a \in Char /\ z \in Char /\ Separator \in Char /\ Newline \in Char
      /\ a # Half(r, "second") /\ (z = Half(r, "second") => m + 1 <= top)
      /\ Separator # Half(r, "second") /\ Newline # Half(r, "second")
  BY CharFacts
<1> HIDE DEF a, z, top
<1>3. Bounded(b, r, one, m) /\ Bounded(b, r, one, top)
  BY <1>1, <1>2, BoundedAppend
<1>4. Bounded(b, r, two, m) /\ Bounded(b, r, two, top)
  BY <1>1, <1>2, <1>3, BoundedAppend
<1>5. Bounded(b, r, Append(one, z), top) /\ Bounded(b, r, Append(two, z), top)
  BY <1>1, <1>2, <1>3, <1>4, BoundedAppend
<1>6. /\ Bounded(b, r, Append(Append(one, z), Newline), top)
      /\ Bounded(b, r, Append(Append(two, z), Newline), top)
  BY <1>1, <1>2, <1>5, BoundedAppend
<1>7. s \o SubSeq(Line(q), 1, k)
        \in {one, two, Append(one, z), Append(two, z), Append(Append(one, z), Newline),
             Append(Append(two, z), Newline)}
  BY <1>1, LineFacts, Zenon DEF a, z
<1> QED BY <1>3, <1>4, <1>5, <1>6, <1>7, Zenon DEF top

(* A whole line is the last of its beginnings.                             *)
LEMMA LineWhole ==
    ASSUME NEW q \in Record
    PROVE  Line(q) = SubSeq(Line(q), 1, Len(Line(q))) /\ Len(Line(q)) \in Nat \ {0}
           /\ Line(q) \in Seq(Char)
<1>1. Text(q) \in Seq(Char) /\ Newline \in Char
  BY TextFacts, CharFacts
<1>2. Line(q) \in Seq(Char) /\ Len(Line(q)) = Len(Text(q)) + 1
  BY <1>1, AppendProperties DEF Line
<1>3. Len(Text(q)) \in Nat
  BY <1>1, LenProperties
<1> QED BY <1>2, <1>3, SubSeqFull

----------------------------------------------------------------------------
(* NothingInvented                                                         *)

(* Every reader finds at most as many texts of a record as were written or *)
(* cut off.                                                                *)
Accounted ==
    \A b \in Marks, r \in Record :
        Bounded(b, r, file, Times(r, completed) + Times(r, torn))

(* Every state of the file is of its type.                                 *)
THEOREM FileTypeCorrect == FileSpec => []FileTypeOK
<1>1. FileInit => FileTypeOK
  <2>1. /\ <<>> \in Seq({Newline, Separator} \cup (Record \X {"first", "second"}))
        /\ <<>> \in Seq(Record) /\ Len(<<>>) = 0
    OBVIOUS
  <2> QED BY <2>1, BoundAssumption DEF FileInit, FileTypeOK
<1>2. FileTypeOK /\ [FileNext]_fileVars => FileTypeOK'
  <2> SUFFICES ASSUME FileTypeOK, [FileNext]_fileVars PROVE FileTypeOK'
    OBVIOUS
  <2>1. file \in Seq(Char) /\ completed \in Seq(Record) /\ torn \in Seq(Record)
    BY DEF FileTypeOK, Char
  <2>2. CASE UNCHANGED fileVars
    BY <2>2 DEF fileVars, FileTypeOK
  <2>3. ASSUME NEW r \in Record, AppendRecord(r) PROVE FileTypeOK'
    <3>1. file' = file \o Line(r) /\ Line(r) \in Seq(Char)
      BY <2>3, LineWhole DEF AppendRecord, Appended
    <3>2. file' \in Seq(Char)
      BY <2>1, <3>1, ConcatProperties
    <3>3. completed' \in Seq(Record) /\ Len(completed') = Len(completed) + 1
      BY <2>1, <2>3, AppendProperties DEF AppendRecord
    <3>4. Len(completed) \in Nat
      BY <2>1, LenProperties
    <3>5. torn' = torn /\ fresh' \in BOOLEAN /\ Len(completed) < MaxWrites
      BY <2>3 DEF AppendRecord
    <3>6. Len(torn) <= MaxKills
      BY DEF FileTypeOK
    <3>7. Len(completed') <= MaxWrites
      BY <3>3, <3>4, <3>5, BoundAssumption
    <3> QED BY <2>1, <3>2, <3>3, <3>5, <3>6, <3>7 DEF FileTypeOK, Char
  <2>4. ASSUME NEW r \in Record, Kill(r) PROVE FileTypeOK'
    <3>1. PICK k \in 1 .. Len(Line(r)) - 1 : file' = file \o SubSeq(Line(r), 1, k)
      BY <2>4 DEF Kill
    <3>2. SubSeq(Line(r), 1, k) \in Seq(Char)
      <4>1. Line(r) \in Seq(Char) /\ Len(Line(r)) \in Nat
        BY LineWhole
      <4>2. \A i \in 1 .. k : Line(r)[i] \in Char
        BY <4>1, ElementOfSeq
      <4> QED BY <4>1, <4>2, SubSeqProperties
    <3>3. file' \in Seq(Char)
      BY <2>1, <3>1, <3>2, ConcatProperties
    <3>4. torn' \in Seq(Record) /\ Len(torn') = Len(torn) + 1
      BY <2>1, <2>4, AppendProperties DEF Kill
    <3>5. Len(torn) \in Nat
      BY <2>1, LenProperties
    <3> QED BY <2>4, <3>3, <3>4, <3>5, BoundAssumption DEF Kill, FileTypeOK, Char
  <2> QED BY <2>2, <2>3, <2>4 DEF FileNext
<1> QED BY <1>1, <1>2, PTL DEF FileSpec

(* The file starts accounted for, and every write keeps it so.             *)
LEMMA AccountedInit == FileInit => Accounted
<1> SUFFICES ASSUME FileInit, NEW b \in Marks, NEW r \in Record
             PROVE  Bounded(b, r, file, Times(r, completed) + Times(r, torn))
  BY DEF Accounted
<1>1. Times(r, completed) = 0 /\ Times(r, torn) = 0
  BY TimesNothing DEF FileInit
<1>2. Reading(b, file) = Blank /\ Blank \in State /\ file \in Seq(Char)
  BY ReadingNothing DEF FileInit, Blank, State
<1>3. Times(Text(r), Blank.whole) = 0 /\ Times(Half(r, "second"), Blank.line) = 0
  BY TimesNothing DEF Blank
<1> QED BY <1>1, <1>2, <1>3 DEF Bounded

LEMMA AccountedStep == FileTypeOK /\ Accounted /\ [FileNext]_fileVars => Accounted'
<1> SUFFICES ASSUME FileTypeOK, Accounted, [FileNext]_fileVars PROVE Accounted'
  OBVIOUS
<1>1. completed \in Seq(Record) /\ torn \in Seq(Record)
  BY DEF FileTypeOK
<1>2. \A r \in Record : Times(r, completed) \in Nat /\ Times(r, torn) \in Nat
  BY <1>1, TimesFacts
<1>3. CASE UNCHANGED fileVars
  BY <1>3 DEF fileVars, Accounted
<1>4. ASSUME NEW q \in Record, AppendRecord(q) PROVE Accounted'
  <2> SUFFICES ASSUME NEW b \in Marks, NEW r \in Record
               PROVE  Bounded(b, r, file', Times(r, completed') + Times(r, torn'))
    BY DEF Accounted
  <2>1. /\ file' = file \o Line(q) /\ completed' = Append(completed, q) /\ torn' = torn
    BY <1>4 DEF AppendRecord, Appended
  <2>2. Times(r, completed') = Times(r, completed) + IF q = r THEN 1 ELSE 0
    BY <1>1, <2>1, TimesFacts
  <2> DEFINE m == Times(r, completed) + Times(r, torn)
  <2>3. m \in Nat /\ Bounded(b, r, file, m)
    BY <1>2 DEF Accounted
  <2> HIDE DEF m
  <2>4. Bounded(b, r, file \o SubSeq(Line(q), 1, Len(Line(q))), m + IF q = r THEN 1 ELSE 0)
    <3>1. Len(Line(q)) \in 1 .. Len(Line(q))
      BY LineWhole
    <3> QED BY <2>3, <3>1, BoundedWrite
  <2>5. m + (IF q = r THEN 1 ELSE 0) = Times(r, completed') + Times(r, torn')
    BY <1>2, <2>1, <2>2 DEF m
  <2>6. Line(q) = SubSeq(Line(q), 1, Len(Line(q)))
    BY LineWhole
  <2> QED BY <2>1, <2>4, <2>5, <2>6, Zenon
<1>5. ASSUME NEW q \in Record, Kill(q) PROVE Accounted'
  <2> SUFFICES ASSUME NEW b \in Marks, NEW r \in Record
               PROVE  Bounded(b, r, file', Times(r, completed') + Times(r, torn'))
    BY DEF Accounted
  <2>1. PICK k \in 1 .. Len(Line(q)) - 1 : file' = file \o SubSeq(Line(q), 1, k)
    BY <1>5 DEF Kill
  <2>2. torn' = Append(torn, q) /\ completed' = completed
    BY <1>5 DEF Kill
  <2>3. Times(r, torn') = Times(r, torn) + IF q = r THEN 1 ELSE 0
    BY <1>1, <2>2, TimesFacts
  <2> DEFINE m == Times(r, completed) + Times(r, torn)
  <2>4. m \in Nat /\ Bounded(b, r, file, m)
    BY <1>2 DEF Accounted
  <2> HIDE DEF m
  <2>5. Bounded(b, r, file \o SubSeq(Line(q), 1, k), m + IF q = r THEN 1 ELSE 0)
    <3>1. k \in 1 .. Len(Line(q))
      BY LineWhole
    <3> QED BY <2>4, <3>1, BoundedWrite
  <2>6. m + (IF q = r THEN 1 ELSE 0) = Times(r, completed') + Times(r, torn')
    BY <1>2, <2>2, <2>3 DEF m
  <2> QED BY <2>1, <2>5, <2>6, Zenon
<1> QED BY <1>3, <1>4, <1>5 DEF FileNext

(* What a reader returns of lines that parse.                              *)
LEMMA ReturnedFacts ==
    ASSUME NEW lines \in Seq(Seq(Char)), NEW r \in Record,
           \A n \in DOMAIN lines : Parses(lines[n])
    PROVE  /\ Times(r, Parsed(lines)) <= Times(Text(r), lines)
           /\ Times(r, Parsed(lines)) \in Nat
<1> DEFINE In == {n \in DOMAIN Parsed(lines) : Parsed(lines)[n] = r}
           Out == {n \in DOMAIN lines : lines[n] = Text(r)}
<1>1. DOMAIN lines = 1 .. Len(lines) /\ Len(lines) \in Nat
  BY LenProperties
<1>2. \A n \in DOMAIN lines : lines[n] = Text(RecordOf(lines[n]))
  BY Zenon DEF Parses, RecordOf
<1>3. DOMAIN Parsed(lines) = DOMAIN lines
      /\ \A n \in DOMAIN lines : Parsed(lines)[n] = RecordOf(lines[n])
  BY DEF Parsed
<1>4. In \subseteq Out
  BY <1>2, <1>3
<1>5. IsFiniteSet(Out)
  <2>1. IsFiniteSet(1 .. Len(lines))
    BY <1>1, FS_Interval
  <2>2. Out \in SUBSET (1 .. Len(lines))
    BY <1>1
  <2> HIDE DEF Out
  <2> QED BY <2>1, <2>2, FS_Subset
<1>6. Cardinality(In) <= Cardinality(Out) /\ Cardinality(In) \in Nat
  <2> HIDE DEF In, Out
  <2> QED BY <1>4, <1>5, FS_Subset, FS_CardinalityType
<1> QED BY <1>6 DEF Times

(* Without the last line.                                                  *)
LEMMA FrontFacts ==
    ASSUME NEW S, NEW s \in Seq(S), s # <<>>
    PROVE  /\ Front(s) \in Seq(S) /\ s = Append(Front(s), Last(s)) /\ Last(s) \in S
           /\ \A x : Times(x, Front(s)) <= Times(x, s)
<1> DEFINE n == Len(s)
           f == Front(s)
<1>1. n \in Nat \ {0} /\ DOMAIN s = 1 .. n /\ \A i \in 1 .. n : s[i] \in S
  BY EmptySeq, LenProperties, ElementOfSeq
<1> HIDE DEF n
<1>2. f \in Seq(S) /\ Len(f) = n - 1 /\ \A i \in 1 .. n - 1 : f[i] = s[i]
  <2>1. f = SubSeq(s, 1, n - 1)
    BY DEF Front, n
  <2>2. \A i \in 1 .. n - 1 : s[i] \in S
    BY <1>1
  <2> HIDE DEF f
  <2> QED BY <1>1, <2>1, <2>2, SubSeqProperties
<1>3. Last(s) = s[n] /\ Last(s) \in S
  BY <1>1 DEF Last, n
<1> HIDE DEF f
<1>4. s = Append(f, Last(s))
  <2>1. /\ Append(f, Last(s)) \in Seq(S) /\ Len(Append(f, Last(s))) = (n - 1) + 1
        /\ Append(f, Last(s))[(n - 1) + 1] = Last(s)
        /\ \A i \in 1 .. n - 1 : Append(f, Last(s))[i] = f[i]
    BY <1>2, <1>3, AppendProperties
  <2>2. \A i \in 1 .. n : Append(f, Last(s))[i] = s[i]
    BY <1>1, <1>2, <1>3, <2>1
  <2>3. Len(Append(f, Last(s))) = n /\ Len(s) = n
    BY <1>1, <2>1 DEF n
  <2> QED BY <2>1, <2>2, <2>3, SeqEqual
<1>5. ASSUME NEW x PROVE Times(x, f) <= Times(x, s)
  <2>1. Times(x, f) \in Nat
        /\ Times(x, Append(f, Last(s))) = Times(x, f) + IF Last(s) = x THEN 1 ELSE 0
    BY <1>2, <1>3, TimesFacts
  <2> DEFINE last == Last(s)
  <2>2. Times(x, f) <= Times(x, Append(f, last)) /\ s = Append(f, last)
    BY <1>4, <2>1
  <2> HIDE DEF last
  <2> QED BY <2>2, Zenon
<1> QED BY <1>2, <1>3, <1>4, <1>5 DEF f

(* The last line, back again.                                              *)
LEMMA FrontOfAppend ==
    ASSUME NEW S, NEW s \in Seq(S), NEW e \in S
    PROVE  Front(Append(s, e)) = s /\ Last(Append(s, e)) = e
<1> DEFINE t == Append(s, e)
           front == Front(t)
           last == Last(t)
<1>1. t \in Seq(S) /\ t # <<>>
  BY AppendProperties
<1> HIDE DEF t
<1>2. front \in Seq(S) /\ last \in S /\ t = Append(front, last)
  BY <1>1, FrontFacts
<1> HIDE DEF front, last
<1>3. Append(s, e) = Append(front, last)
  BY <1>2 DEF t
<1>4. s = front /\ e = last
  BY <1>2, <1>3, AppendInjective
<1> QED BY <1>4 DEF front, last, t

(* The texts of r among the lines of the file, and among the records read. *)
LEMMA LinesBounded ==
    ASSUME FileTypeOK, Accounted, NEW b \in Marks, NEW r \in Record
    PROVE  /\ Lines(b) \in Seq(Seq(Char))
           /\ Times(Text(r), Lines(b)) <= Times(r, completed) + Times(r, torn)
           /\ Times(r, completed) + Times(r, torn) \in Nat
<1> DEFINE s == Reading(b, file)
           m == Times(r, completed) + Times(r, torn)
<1>1. /\ s \in State
      /\ Times(Text(r), s.whole) + Times(Half(r, "second"), s.line) <= m
  BY DEF Accounted, Bounded
<1>2. Lines(b) = Whole(s)
  BY DEF Lines
<1>3. completed \in Seq(Record) /\ torn \in Seq(Record)
  BY DEF FileTypeOK
<1>4. Times(r, completed) \in Nat /\ Times(r, torn) \in Nat
  BY <1>3, TimesFacts
<1> HIDE DEF s
<1>5. s.whole \in Seq(Seq(Char)) /\ s.line \in Seq(Char)
  BY <1>1 DEF State
<1>6. Times(Text(r), s.whole) \in Nat /\ Times(Half(r, "second"), s.line) \in Nat
  BY <1>5, TimesFacts
<1>7. /\ Whole(s) \in Seq(Seq(Char)) /\ Times(Text(r), Whole(s)) \in Nat
      /\ Times(Text(r), Whole(s)) <= Times(Text(r), s.whole) + Times(Half(r, "second"), s.line)
  BY <1>1, WholeFacts
<1> QED BY <1>1, <1>2, <1>4, <1>6, <1>7

LEMMA ReadersInventNothing == FileTypeOK /\ Accounted => NothingInvented
<1> SUFFICES ASSUME FileTypeOK, Accounted, NEW r \in Record
             PROVE  \A read \in {ReadTolerant, ReadStrict} :
                        Times(r, read.records) <= Times(r, completed) + Times(r, torn)
  BY DEF NothingInvented
<1> DEFINE m == Times(r, completed) + Times(r, torn)
           Loads(lines) == IF \A n \in DOMAIN lines : Parses(lines[n])
                           THEN Loaded(lines) ELSE Raised
<1>1. ASSUME NEW lines \in Seq(Seq(Char)), Times(Text(r), lines) <= m
      PROVE  Times(r, Loads(lines).records) <= m
  <2>1. CASE \A n \in DOMAIN lines : Parses(lines[n])
    <3>1. Loads(lines).records = Parsed(lines)
      BY <2>1 DEF Loaded
    <3>2. /\ Times(r, Parsed(lines)) <= Times(Text(r), lines)
          /\ Times(r, Parsed(lines)) \in Nat
      BY <2>1, ReturnedFacts
    <3>3. Times(Text(r), lines) \in Nat
      BY TimesFacts
    <3>4. m \in Nat
      BY LinesBounded DEF Marks
    <3> HIDE DEF m, Loads
    <3> QED BY <1>1, <3>1, <3>2, <3>3, <3>4
  <2>2. CASE ~ \A n \in DOMAIN lines : Parses(lines[n])
    <3>1. Loads(lines).records = <<>>
      BY <2>2 DEF Raised
    <3>2. m \in Nat
      BY LinesBounded DEF Marks
    <3> QED BY <3>1, <3>2, TimesNothing
  <2> QED BY <2>1, <2>2
<1>2. ASSUME NEW b \in Marks
      PROVE  Lines(b) \in Seq(Seq(Char)) /\ Times(Text(r), Lines(b)) <= m
  BY LinesBounded
<1>3. Times(r, ReadStrict.records) <= m
  <2>1. ReadStrict = Loads(Lines({Newline}))
    BY DEF ReadStrict
  <2> HIDE DEF Loads
  <2> QED BY <1>1, <1>2, <2>1 DEF Marks
<1>4. Times(r, ReadTolerant.records) <= m
  <2> DEFINE lines == Lines({Newline, Separator})
             kept == Discarded(lines)
  <2>1. ReadTolerant = Loads(kept)
    BY DEF ReadTolerant
  <2>2. lines \in Seq(Seq(Char)) /\ Times(Text(r), lines) <= m
    BY <1>2 DEF Marks
  <2> HIDE DEF lines, Loads
  <2>3. kept \in Seq(Seq(Char)) /\ Times(Text(r), kept) <= m
    <3>1. CASE kept = lines
      BY <2>2, <3>1
    <3>2. CASE lines # <<>> /\ kept = Front(lines)
      <4>1. /\ Front(lines) \in Seq(Seq(Char))
            /\ Times(Text(r), Front(lines)) <= Times(Text(r), lines)
        BY <2>2, <3>2, FrontFacts
      <4>2. /\ Times(Text(r), Front(lines)) \in Nat /\ Times(Text(r), lines) \in Nat
        BY <2>2, <4>1, TimesFacts
      <4>3. m \in Nat
        BY LinesBounded DEF Marks
      <4> HIDE DEF m
      <4> QED BY <2>2, <3>2, <4>1, <4>2, <4>3
    <3> QED BY <3>1, <3>2 DEF Discarded
  <2> HIDE DEF kept
  <2> QED BY <1>1, <2>1, <2>3
<1> QED BY <1>3, <1>4

(* No reader returns more of a record than was written, completely or up   *)
(* to its newline, however often writes were cut off and lines ran into    *)
(* each other, for every set of records and of those with a separator.     *)
THEOREM FileInventsNothing == FileSpec => []NothingInvented
<1>1. FileInit => Accounted
  BY AccountedInit
<1>2. FileTypeOK /\ Accounted /\ [FileNext]_fileVars => Accounted'
  BY AccountedStep
<1>3. FileTypeOK /\ Accounted => NothingInvented
  BY ReadersInventNothing
<1>4. FileSpec => []FileTypeOK
  BY FileTypeCorrect
<1> QED BY <1>1, <1>2, <1>3, <1>4, PTL DEF FileSpec

----------------------------------------------------------------------------
(* FirstKillIsHarmless                                                     *)

(* What the tolerant reader makes of the file: the records written, each a *)
(* whole line, and at most a beginning of the one the kill took.           *)
Both     == {Newline, Separator}
Texts(s) == [i \in DOMAIN s |-> Text(s[i])]
Unsplit  == AtMostOneKill /\ Range(completed \o torn) \cap Splits = {}
Recovered ==
    Unsplit => LET s == Reading(Both, file)
               IN  /\ s.whole = Texts(completed) /\ s.line \in Seq(Char)
                   /\ torn = <<>> => s.line = <<>>
                   /\ torn # <<>> => \/ s.line = <<Half(Last(torn), "first")>>
                                     \/ s.line = Text(Last(torn))

(* The texts of a sequence of records.                                     *)
LEMMA TextsFacts ==
    ASSUME NEW s \in Seq(Record)
    PROVE  /\ Texts(s) \in Seq(Seq(Char)) /\ Len(Texts(s)) = Len(s)
           /\ \A i \in 1 .. Len(s) : Texts(s)[i] = Text(s[i])
           /\ \A q \in Record : Texts(Append(s, q)) = Append(Texts(s), Text(q))
<1>1. ASSUME NEW u \in Seq(Record)
      PROVE  /\ Texts(u) \in Seq(Seq(Char)) /\ Len(Texts(u)) = Len(u)
             /\ \A i \in 1 .. Len(u) : Texts(u)[i] = Text(u[i])
  <2>1. DOMAIN u = 1 .. Len(u) /\ Len(u) \in Nat /\ \A i \in 1 .. Len(u) : u[i] \in Record
    BY LenProperties, ElementOfSeq
  <2>2. Texts(u) \in [1 .. Len(u) -> Seq(Char)]
    BY <2>1, TextFacts DEF Texts
  <2>3. Texts(u) \in Seq(Seq(Char))
    BY <2>1, <2>2, IsASeq
  <2>4. Len(Texts(u)) = Len(u)
    BY <2>1, <2>2, <2>3, LenProperties
  <2> QED BY <2>1, <2>3, <2>4 DEF Texts
<1>2. ASSUME NEW q \in Record PROVE Texts(Append(s, q)) = Append(Texts(s), Text(q))
  <2> DEFINE t == Append(s, q)
             u == Texts(s)
             v == Append(u, Text(q))
             w == Texts(t)
  <2>1. t \in Seq(Record) /\ Len(t) = Len(s) + 1 /\ t[Len(s) + 1] = q
        /\ (\A i \in 1 .. Len(s) : t[i] = s[i]) /\ Len(s) \in Nat
    BY AppendProperties, LenProperties
  <2>2. u \in Seq(Seq(Char)) /\ Len(u) = Len(s) /\ \A i \in 1 .. Len(s) : u[i] = Text(s[i])
    BY <1>1
  <2>3. Text(q) \in Seq(Char)
    BY TextFacts
  <2> HIDE DEF t, u
  <2>4. /\ v \in Seq(Seq(Char)) /\ Len(v) = Len(s) + 1 /\ v[Len(s) + 1] = Text(q)
        /\ \A i \in 1 .. Len(s) : v[i] = u[i]
    BY <2>2, <2>3, AppendProperties
  <2>5. w \in Seq(Seq(Char)) /\ Len(w) = Len(s) + 1
        /\ \A i \in 1 .. Len(s) + 1 : w[i] = Text(t[i])
    BY <1>1, <2>1
  <2> HIDE DEF v, w
  <2>6. ASSUME NEW i \in 1 .. Len(s) + 1 PROVE w[i] = v[i]
    <3>1. CASE i = Len(s) + 1
      BY <2>1, <2>4, <2>5, <3>1
    <3>2. CASE i # Len(s) + 1
      <4>1. i \in 1 .. Len(s)
        BY <2>1, <3>2
      <4> QED BY <2>1, <2>2, <2>4, <2>5, <4>1
    <3> QED BY <3>1, <3>2
  <2>7. w = v
    BY <2>4, <2>5, <2>6, SeqEqual
  <2> QED BY <2>7 DEF t, u, v, w
<1> QED BY <1>1, <1>2

(* Whole texts parse, each to its record; the first half of one does not.  *)
LEMMA ParsedFacts ==
    ASSUME NEW s \in Seq(Record)
    PROVE  /\ Discarded(Texts(s)) = Texts(s) /\ Parsed(Texts(s)) = s
           /\ \A n \in DOMAIN Texts(s) : Parses(Texts(s)[n])
<1> DEFINE u == Texts(s)
<1>1. /\ u \in Seq(Seq(Char)) /\ Len(u) = Len(s)
      /\ \A i \in 1 .. Len(s) : u[i] = Text(s[i])
  BY TextsFacts
<1>2. /\ DOMAIN s = 1 .. Len(s) /\ Len(s) \in Nat /\ \A i \in 1 .. Len(s) : s[i] \in Record
      /\ s = [i \in DOMAIN s |-> s[i]]
  BY LenProperties, ElementOfSeq
<1> HIDE DEF u
<1>3. DOMAIN u = 1 .. Len(s) /\ (u # <<>> => Len(u) \in 1 .. Len(s))
  BY <1>1, <1>2, LenProperties, EmptySeq
<1>4. \A n \in DOMAIN u : Parses(u[n])
  BY <1>1, <1>2, <1>3 DEF Parses
<1>5. Discarded(u) = u
  BY <1>3, <1>4 DEF Discarded, Last
<1>6. ASSUME NEW r \in Record PROVE RecordOf(Text(r)) = r
  <2>1. \E q \in Record : Text(r) = Text(q)
    OBVIOUS
  <2>2. RecordOf(Text(r)) \in Record /\ Text(RecordOf(Text(r))) = Text(r)
    BY <2>1, Zenon DEF RecordOf
  <2>3. Half(RecordOf(Text(r)), "first") = Half(r, "first")
    BY <2>2, TextFacts
  <2> QED BY <2>2, <2>3, CharFacts
<1>7. Parsed(u) = s
  <2>1. \A i \in 1 .. Len(s) : RecordOf(u[i]) = s[i]
    BY <1>1, <1>2, <1>6
  <2> QED BY <1>2, <1>3, <2>1 DEF Parsed
<1> QED BY <1>4, <1>5, <1>7 DEF u

LEMMA HalfDoesNotParse == \A q \in Record : ~Parses(<<Half(q, "first")>>)
<1> SUFFICES ASSUME NEW q \in Record, NEW r \in Record, <<Half(q, "first")>> = Text(r)
             PROVE  FALSE
  BY DEF Parses
<1>1. Half(r, "first") = Half(q, "first")
  BY TextFacts
<1>2. r = q
  BY <1>1, CharFacts
<1> QED BY <1>2, TextFacts

(* The tolerant reader of such a file.                                     *)
LEMMA ReaderRecovers == FileTypeOK /\ Recovered => FirstKillIsHarmless
<1> SUFFICES ASSUME FileTypeOK, Recovered, Unsplit
             PROVE  ReadTolerant.ok /\ ReadTolerant.records \in MayHold
  BY DEF FirstKillIsHarmless, Unsplit
<1> DEFINE s == Reading(Both, file)
           done == Texts(completed)
<1>1. /\ s.whole = done /\ s.line \in Seq(Char)
      /\ torn = <<>> => s.line = <<>>
      /\ torn # <<>> => \/ s.line = <<Half(Last(torn), "first")>>
                        \/ s.line = Text(Last(torn))
  BY DEF Recovered
<1>2. Lines(Both) = Whole(s)
  BY DEF Lines
<1>3. completed \in Seq(Record) /\ torn \in Seq(Record) /\ done \in Seq(Seq(Char))
  BY TextsFacts DEF FileTypeOK
<1> HIDE DEF s
<1>4. ASSUME NEW u \in Seq(Record), Discarded(Lines(Both)) = Texts(u)
      PROVE  ReadTolerant.ok /\ ReadTolerant.records = u
  <2>1. Parsed(Texts(u)) = u /\ \A n \in DOMAIN Texts(u) : Parses(Texts(u)[n])
    BY ParsedFacts
  <2>2. ReadTolerant = Loaded(Texts(u))
    BY <1>4, <2>1 DEF ReadTolerant, Both
  <2> QED BY <2>1, <2>2 DEF Loaded
<1>5. CASE torn = <<>>
  <2>1. Lines(Both) = done
    BY <1>1, <1>2, <1>5 DEF Whole
  <2>2. Discarded(Lines(Both)) = done
    BY <1>3, <2>1, ParsedFacts
  <2> QED BY <1>3, <1>4, <2>2 DEF MayHold
<1>6. ASSUME torn # <<>>, s.line = <<Half(Last(torn), "first")>>
      PROVE  ReadTolerant.ok /\ ReadTolerant.records \in MayHold
  <2> DEFINE lines == Append(done, s.line)
  <2>1. Last(torn) \in Record
    BY <1>3, <1>6, FrontFacts
  <2>2. s.line # <<>>
    BY <1>6
  <2>3. Lines(Both) = lines
    BY <1>1, <1>2, <2>2 DEF Whole
  <2>4. lines \in Seq(Seq(Char)) /\ lines # <<>>
    BY <1>1, <1>3, AppendProperties
  <2> HIDE DEF done
  <2>5. Front(lines) = done /\ Last(lines) = s.line
    BY <1>1, <1>3, FrontOfAppend
  <2>6. ~Parses(Last(lines))
    BY <1>6, <2>1, <2>5, HalfDoesNotParse
  <2>7. Discarded(Lines(Both)) = done
    BY <2>3, <2>4, <2>5, <2>6 DEF Discarded
  <2> QED BY <1>3, <1>4, <2>7 DEF MayHold, done
<1>7. ASSUME torn # <<>>, s.line = Text(Last(torn))
      PROVE  ReadTolerant.ok /\ ReadTolerant.records \in MayHold
  <2>1. Last(torn) \in Record
    BY <1>3, <1>7, FrontFacts
  <2>2. Append(completed, Last(torn)) \in Seq(Record)
    BY <1>3, <2>1, AppendProperties
  <2>3. s.line # <<>>
    BY <1>7, <2>1, TextFacts
  <2>4. Lines(Both) = Append(done, Text(Last(torn)))
    BY <1>1, <1>2, <1>7, <2>3 DEF Whole
  <2>5. Lines(Both) = Texts(Append(completed, Last(torn)))
    BY <1>3, <2>1, <2>4, TextsFacts
  <2>6. Discarded(Lines(Both)) = Texts(Append(completed, Last(torn)))
    BY <2>2, <2>5, ParsedFacts
  <2> QED BY <1>4, <1>7, <2>2, <2>6 DEF MayHold
<1> QED BY <1>1, <1>5, <1>6, <1>7

(* A line is read character by character.                                  *)
LEMMA LineRead ==
    ASSUME NEW s \in Seq(Char), NEW q \in Record \ Splits, NEW k \in 1 .. Len(Line(q)),
           Reading(Both, s).line = <<>>, Reading(Both, s).whole \in Seq(Seq(Char)),
           Reading(Both, s) \in State
    PROVE  LET x == Reading(Both, s)
               y == Reading(Both, s \o SubSeq(Line(q), 1, k))
           IN  /\ k = 1 => y.whole = x.whole /\ y.line = <<Half(q, "first")>>
               /\ k = 2 => y.whole = x.whole /\ y.line = Text(q)
               /\ k = 3 => y.whole = Append(x.whole, Text(q)) /\ y.line = <<>>
               /\ k \in {1, 2, 3} /\ (k < Len(Line(q)) <=> k < 3)
<1> DEFINE a == Half(q, "first")
           z == Half(q, "second")
           x == Reading(Both, s)
           one == Append(s, a)
           two == Append(one, z)
<1>1. /\ a \in Char /\ z \in Char /\ Newline \in Char
      /\ a \notin Both /\ z \notin Both /\ Newline \in Both
  BY CharFacts DEF Both
<1>2. q \in Record /\ q \notin Splits /\ Text(q) = <<a, z>>
  BY DEF Text
<1> HIDE DEF a, z
<1>3. one \in Seq(Char) /\ two \in Seq(Char)
  BY <1>1, AppendProperties
<1>4. /\ Reading(Both, one) = Read(Both, x, a)
      /\ Reading(Both, two) = Read(Both, Reading(Both, one), z)
      /\ Reading(Both, Append(two, Newline)) = Read(Both, Reading(Both, two), Newline)
  BY <1>1, <1>3, ReadingAppend
<1> DEFINE half == <<a>>
           text == Text(q)
<1>5. half = Append(<<>>, a) /\ text = Append(half, z)
  <2>1. Spelled(a, z, z, z)
    BY <1>1, TupleFacts
  <2> QED BY <1>2, <2>1, Zenon DEF Spelled
<1>6. Len(Line(q)) = 3
  <2>1. Line(q) = Append(text, Newline) /\ text \in Seq(Char)
    BY <1>2, TextFacts DEF Line
  <2>2. Len(text) = 2
    BY <1>2
  <2> HIDE DEF text
  <2>3. Len(Append(text, Newline)) = Len(text) + 1
    BY <1>1, <2>1, AppendProperties
  <2> QED BY <2>1, <2>2, <2>3
<1>7. x.line = <<>> /\ x = [whole |-> x.whole, line |-> <<>>]
  BY DEF State
<1> HIDE DEF x, one, two, half, text
<1>8. Reading(Both, one) = [whole |-> x.whole, line |-> half]
  <2>1. Reading(Both, one) = [x EXCEPT !.line = Append(x.line, a)]
    BY <1>1, <1>4 DEF Read
  <2> QED BY <1>5, <1>7, <2>1
<1>9. Reading(Both, two) = [whole |-> x.whole, line |-> text]
  <2> DEFINE u == Reading(Both, one)
  <2>1. Reading(Both, two) = [u EXCEPT !.line = Append(u.line, z)]
    BY <1>1, <1>4 DEF Read
  <2>2. u = [whole |-> x.whole, line |-> half]
    BY <1>8
  <2> HIDE DEF u
  <2> QED BY <1>5, <2>1, <2>2
<1>10. Reading(Both, Append(two, Newline)) = [whole |-> Append(x.whole, text), line |-> <<>>]
  <2>1. text # <<>>
    BY <1>2, TextFacts DEF text
  <2>2. Reading(Both, Append(two, Newline)) = [whole |-> Whole(Reading(Both, two)), line |-> <<>>]
    BY <1>1, <1>4 DEF Read
  <2>3. Whole(Reading(Both, two)) = Append(x.whole, text)
    BY <1>9, <2>1 DEF Whole
  <2> QED BY <2>2, <2>3
<1>11. \/ s \o SubSeq(Line(q), 1, k) = one /\ k = 1
       \/ s \o SubSeq(Line(q), 1, k) = two /\ k = 2
       \/ s \o SubSeq(Line(q), 1, k) = Append(two, Newline) /\ k = 3
  BY <1>2, LineFacts, Zenon DEF one, two, a, z
<1> DEFINE y == Reading(Both, s \o SubSeq(Line(q), 1, k))
<1>12. /\ k = 1 => y.whole = x.whole /\ y.line = half
       /\ k = 2 => y.whole = x.whole /\ y.line = text
       /\ k = 3 => y.whole = Append(x.whole, text) /\ y.line = <<>>
       /\ k \in {1, 2, 3} /\ (k < Len(Line(q)) <=> k < 3)
  <2>1. \/ y = Reading(Both, one) /\ k = 1
        \/ y = Reading(Both, two) /\ k = 2
        \/ y = Reading(Both, Append(two, Newline)) /\ k = 3
    BY <1>11
  <2> HIDE DEF y
  <2> QED BY <1>6, <1>8, <1>9, <1>10, <2>1
<1> QED BY <1>12 DEF a, x, half, text

LEMMA RecoveredInit == FileInit => Recovered
<1> SUFFICES ASSUME FileInit PROVE Recovered
  OBVIOUS
<1>1. Reading(Both, file) = Blank
  BY ReadingNothing DEF FileInit
<1>2. Texts(completed) = <<>>
  BY DEF FileInit, Texts
<1>3. <<>> \in Seq(Char)
  OBVIOUS
<1>4. Reading(Both, file).whole = <<>> /\ Reading(Both, file).line = <<>>
  BY <1>1 DEF Blank
<1>5. torn = <<>>
  BY DEF FileInit
<1> QED BY <1>2, <1>3, <1>4, <1>5 DEF Recovered

(* Before the first kill the file holds whole lines; Unsplit admits no     *)
(* step after it.                                                          *)
LEMMA RecoveredStep ==
    FileTypeOK /\ Accounted /\ Recovered /\ [FileNext]_fileVars => Recovered'
<1> SUFFICES ASSUME FileTypeOK, Accounted, Recovered, [FileNext]_fileVars, Unsplit'
             PROVE  LET s == Reading(Both, file')
                    IN  /\ s.whole = Texts(completed') /\ s.line \in Seq(Char)
                        /\ torn' = <<>> => s.line = <<>>
                        /\ torn' # <<>> => \/ s.line = <<Half(Last(torn'), "first")>>
                                           \/ s.line = Text(Last(torn'))
  BY DEF Recovered, Unsplit
<1>1. completed \in Seq(Record) /\ torn \in Seq(Record) /\ file \in Seq(Char)
  BY DEF FileTypeOK, Char
<1>2. CASE UNCHANGED fileVars
  BY <1>2 DEF fileVars, Recovered, Unsplit, AtMostOneKill
<1>3. ASSUME NEW q \in Record, torn = <<>>, q \notin Splits,
             Range(completed \o torn) \cap Splits = {}
      PROVE  /\ Reading(Both, file).whole = Texts(completed)
             /\ Reading(Both, file).whole \in Seq(Seq(Char))
             /\ Reading(Both, file).line = <<>> /\ Reading(Both, file) \in State
  <2>1. Unsplit
    BY <1>3 DEF Unsplit, AtMostOneKill
  <2>2. Reading(Both, file) \in State
    BY <1>3 DEF Accounted, Bounded, Marks, Both
  <2> QED BY <1>1, <1>3, <2>1, <2>2, TextsFacts DEF Recovered
<1>4. Len(<<>>) = 0 /\ <<>> \in Seq(Record) /\ Range(completed \o torn) = Range(completed) \cup Range(torn)
  BY <1>1, ConcatFacts
<1>5. ASSUME NEW q \in Record, AppendRecord(q) PROVE Recovered'
  <2>1. /\ file' = file \o Line(q) /\ completed' = Append(completed, q)
        /\ torn' = torn /\ fresh' = FALSE
    BY <1>5 DEF AppendRecord, Appended
  <2>2. torn = <<>>
    BY <2>1 DEF Unsplit, AtMostOneKill
  <2>3. q \notin Splits /\ Range(completed \o torn) \cap Splits = {}
    <3>1. completed' \in Seq(Record) /\ Range(completed') = Range(completed) \cup {q}
      BY <1>1, <2>1, AppendFacts, AppendProperties
    <3>2. Range(completed' \o torn') = Range(completed') \cup Range(torn)
      <4>1. Range(completed' \o torn) = Range(completed') \cup Range(torn)
        BY <1>1, <3>1, ConcatFacts
      <4> QED BY <2>1, <4>1
    <3> QED BY <1>4, <3>1, <3>2 DEF Unsplit
  <2>4. Line(q) = SubSeq(Line(q), 1, Len(Line(q))) /\ Len(Line(q)) \in 1 .. Len(Line(q))
    BY LineWhole
  <2> DEFINE x == Reading(Both, file)
             y == Reading(Both, file \o SubSeq(Line(q), 1, Len(Line(q))))
  <2>5. y.whole = Append(x.whole, Text(q)) /\ y.line = <<>>
    <3>1. /\ Len(Line(q)) = 3 => y.whole = Append(x.whole, Text(q)) /\ y.line = <<>>
          /\ Len(Line(q)) \in {1, 2, 3} /\ (Len(Line(q)) < Len(Line(q)) <=> Len(Line(q)) < 3)
      BY <1>1, <1>3, <2>2, <2>3, <2>4, LineRead
    <3> DEFINE n == Len(Line(q))
    <3>2. n \in {1, 2, 3} /\ (n < n <=> n < 3)
      BY <3>1
    <3>3. n = 3
      <4> HIDE DEF n
      <4> QED BY <3>2
    <3> QED BY <3>1, <3>3, Zenon
  <2>6. Reading(Both, file') = y
    BY <2>1, <2>4, Zenon
  <2>7. x.whole = Texts(completed)
    BY <1>3, <2>2, <2>3
  <2> HIDE DEF x, y
  <2>8. y.whole = Texts(completed')
    BY <1>1, <2>1, <2>5, <2>7, TextsFacts
  <2>9. <<>> \in Seq(Char)
    OBVIOUS
  <2> QED BY <2>1, <2>2, <2>5, <2>6, <2>8, <2>9 DEF Recovered
<1>6. ASSUME NEW q \in Record, Kill(q) PROVE Recovered'
  <2>1. PICK k \in 1 .. Len(Line(q)) - 1 : file' = file \o SubSeq(Line(q), 1, k)
    BY <1>6 DEF Kill
  <2>2. torn' = Append(torn, q) /\ completed' = completed
    BY <1>6 DEF Kill
  <2>3. torn = <<>>
    <3>1. torn' \in Seq(Record) /\ Len(torn') = Len(torn) + 1 /\ Len(torn) \in Nat
      BY <1>1, <2>2, AppendProperties, LenProperties
    <3>2. Len(torn') = 0 \/ Len(torn') = 1
      BY DEF Unsplit, AtMostOneKill
    <3>3. Len(torn) = 0
      BY <3>1, <3>2
    <3> QED BY <1>1, <3>3, EmptySeq
  <2>4. Last(torn') = q /\ torn' # <<>> /\ Range(torn') = {q}
    <3>1. /\ torn' \in Seq(Record) /\ Len(torn') = Len(torn) + 1
          /\ torn'[Len(torn) + 1] = q
      BY <1>1, <2>2, AppendProperties
    <3>2. Range(torn') = Range(torn) \cup {q}
      BY <1>1, <2>2, AppendFacts
    <3>3. Len(torn) = 0 /\ Range(torn) = {}
      BY <2>3, EmptyFacts
    <3>4. Len(torn') = 1 /\ torn'[1] = q /\ Range(torn') = {q}
      BY <3>1, <3>2, <3>3
    <3> QED BY <3>4, EmptyFacts DEF Last
  <2>5. q \notin Splits /\ Range(completed \o torn) \cap Splits = {}
    <3>1. torn' \in Seq(Record)
      BY <1>1, <2>2, AppendProperties
    <3>2. Range(completed' \o torn') = Range(completed) \cup {q}
      <4>1. Range(completed \o torn') = Range(completed) \cup Range(torn')
        BY <1>1, <3>1, ConcatFacts
      <4> QED BY <2>2, <2>4, <4>1
    <3>3. Range(torn) = {}
      BY <2>3, EmptyFacts
    <3> QED BY <1>4, <3>2, <3>3 DEF Unsplit
  <2> DEFINE x == Reading(Both, file)
             y == Reading(Both, file \o SubSeq(Line(q), 1, k))
  <2>6. /\ k = 1 => y.whole = x.whole /\ y.line = <<Half(q, "first")>>
        /\ k = 2 => y.whole = x.whole /\ y.line = Text(q)
        /\ k \in {1, 2, 3} /\ (k < Len(Line(q)) <=> k < 3)
    <3>1. k \in 1 .. Len(Line(q)) /\ k < Len(Line(q))
      BY LineWhole
    <3> QED BY <1>1, <1>3, <2>3, <2>5, <3>1, LineRead
  <2>7. k \in {1, 2}
    <3>1. k < Len(Line(q))
      BY LineWhole
    <3> QED BY <2>6, <3>1
  <2>8. Reading(Both, file') = y
    BY <2>1
  <2>9. x.whole = Texts(completed')
    BY <1>3, <2>2, <2>3, <2>5
  <2>10. Text(q) \in Seq(Char) /\ <<Half(q, "first")>> \in Seq(Char)
    BY TextFacts, CharFacts
  <2> HIDE DEF x, y
  <2> QED BY <2>4, <2>6, <2>7, <2>8, <2>9, <2>10 DEF Recovered
<1> QED BY <1>2, <1>5, <1>6 DEF FileNext, Recovered, Unsplit

(* After a first kill the tolerant reader still returns every completed    *)
(* record, in order, and at most the one the kill took (AC-4.6).           *)
THEOREM FileRecovers == FileSpec => []FirstKillIsHarmless
<1>1. FileInit => Accounted /\ Recovered
  BY AccountedInit, RecoveredInit
<1>2. FileTypeOK /\ Accounted /\ Recovered /\ [FileNext]_fileVars => (Accounted /\ Recovered)'
  BY AccountedStep, RecoveredStep
<1>3. FileTypeOK /\ Recovered => FirstKillIsHarmless
  BY ReaderRecovers
<1>4. FileSpec => []FileTypeOK
  BY FileTypeCorrect
<1> QED BY <1>1, <1>2, <1>3, <1>4, PTL DEF FileSpec
=============================================================================
