----------------------------- MODULE RepoHarvest -----------------------------
(***************************************************************************)
(* The repository-level fetch engine of org-harvest for ONE dataset:       *)
(* src/src/org_harvest/harvest/repo_level.py with the checkpoint           *)
(* (checkpoint.py), the NDJSON file (output.py) and the interrupt guard    *)
(* (interrupt.py) it works on, across crashes, stops and resumed attempts. *)
(*                                                                         *)
(* Every durable write (one fsynced NDJSON line, one atomically replaced   *)
(* checkpoint.json) is an action of its own, because the process may die   *)
(* between any two of them.  A page cursor is the number of items before   *)
(* it: GitHub returns the items cursor+1 .. cursor+pageSize.  The answer   *)
(* for each repository of a batch is chosen when the engine reads it.      *)
(***************************************************************************)
EXTENDS Integers, Sequences, FiniteSets, Functions

CONSTANTS
    Repo,            \* the repositories of repositories.ndjson
    RepoOrder,       \* their order in that file
    ItemCount,       \* ItemCount[r]: items of this dataset GitHub holds for r
    PageSize,        \* page_size of the harvester
    BatchWidth,      \* batch_width: repositories aliased into one query
    ItemCap,         \* item_cap (None is a cap above every ItemCount)
    TornWrites,      \* may a kill leave half a line in the NDJSON file?
    MaxAttempts,     \* bound: process starts
    Done,            \* resume.CURSOR_DONE
    None

ASSUME RepoAssumption  == /\ RepoOrder \in Seq(Repo)
                          /\ IsInjective(RepoOrder)
                          /\ Range(RepoOrder) = Repo
ASSUME CountAssumption == ItemCount \in [Repo -> Nat]
ASSUME SizeAssumption  == /\ PageSize \in Nat \ {0}
                          /\ BatchWidth \in Nat \ {0}
                          /\ ItemCap \in Nat
                          /\ MaxAttempts \in Nat
ASSUME FlagAssumption  == TornWrites \in BOOLEAN
ASSUME DoneAssumption  == Done \notin Nat

Item   == UNION {{r} \X (1 .. ItemCount[r]) : r \in Repo}
Reason == {"transport", "nodelimit", "nodata", "field"}
Gap    == Repo \X Reason

VARIABLES
    \* on disk: checkpoint.json and <dataset>.ndjson
    cursor,          \* cursors[r]: 0 (never fetched), a page cursor or Done
    ledger,          \* gaps recorded in the checkpoint
    status,          \* dataset_status of this dataset
    copies,          \* copies[x]: readable lines of the file that hold item x
    tail,            \* how the file ends (see WriteLine)
    lost,            \* history: items whose line was merged into a torn one
    \* in the memory of the running process
    pc, interrupted, queue, work, page, pending, offset, at, written, gaps,
    outcome,         \* the DatasetOutcome fetch_repo_dataset returned
    \* for the whole snapshot
    manifest,        \* the outcome a finished run wrote into manifest.json
    attempts, crashes

SmallerOf(a, b) == IF a <= b THEN a ELSE b

disk    == <<cursor, ledger, status, copies, tail, lost>>
memory  == <<interrupted, queue, work, page, pending, offset, at, written, gaps,
             outcome>>
history == <<manifest, attempts, crashes>>
vars    == <<disk, pc, memory, history>>

SubBatch == [repos : Seq(Repo), size : Nat \ {0}]
Outcome  == [lines : [Item -> Nat], gaps : SUBSET Gap]

Running == pc \notin {"down", "published"}

Nowhere == [r \in Repo |-> 0]

Init ==
    /\ cursor = [r \in Repo |-> 0]
    /\ ledger = {}
    /\ status = "pending"
    /\ copies = [x \in Item |-> 0]
    /\ tail = "clean"
    /\ lost = {}
    /\ pc = "down"
    /\ interrupted = FALSE
    /\ queue = <<>> /\ work = <<>> /\ page = <<>> /\ pending = <<>>
    /\ offset = Nowhere /\ at = 0
    /\ written = Nowhere
    /\ gaps = {}
    /\ outcome = None
    /\ manifest = None
    /\ attempts = 0
    /\ crashes = 0

(* The process ends, and what it held in memory is gone.                   *)
Exit ==
    /\ pc' = "down"
    /\ interrupted' = FALSE
    /\ queue' = <<>> /\ work' = <<>> /\ page' = <<>> /\ pending' = <<>>
    /\ offset' = Nowhere /\ at' = 0
    /\ written' = Nowhere
    /\ gaps' = {}
    /\ outcome' = None

----------------------------------------------------------------------------
(* fetch_repo_dataset: entry and main loop                                 *)

(* The page a repository starts from: the stored cursor decides.           *)
MutantFirstPage(r) == 0
FirstPage(r) == IF cursor[r] = Done THEN 0 ELSE cursor[r]

(* The repositories still to fetch, in the order of repositories.ndjson    *)
(* (said by what it is: SelectSeq is a recursion one cannot prove about).  *)
Position(r) == CHOOSE i \in DOMAIN RepoOrder : RepoOrder[i] = r
Remaining ==
    {q \in UNION {[1 .. n -> Repo] : n \in 0 .. Len(RepoOrder)} :
       /\ Range(q) = {r \in Repo : cursor[r] # Done}
       /\ \A i, j \in DOMAIN q : i < j => Position(q[i]) < Position(q[j])}

(* The process (re)opens the checkpoint and enters fetch_repo_dataset.  A  *)
(* dataset already complete is not fetched again: its gaps come from the   *)
(* checkpoint.  Otherwise the queue holds every repository whose stored    *)
(* cursor is not CURSOR_DONE, and the local gap list starts empty.         *)
Start ==
    /\ pc = "down" /\ manifest = None
    /\ attempts < MaxAttempts
    /\ attempts' = attempts + 1
    /\ offset' = [r \in Repo |-> FirstPage(r)]
    /\ IF status = "complete"
       THEN /\ gaps' = ledger
            /\ queue' = <<>>
            /\ pc' = "count"
       ELSE /\ gaps' = {}
            /\ queue' \in Remaining
            /\ pc' = "loop"
    /\ UNCHANGED <<disk, interrupted, work, page, pending, at, written, outcome,
                   manifest, crashes>>

(* The loop takes the first batch_width repositories of the queue.         *)
TakeBatch ==
    /\ pc = "loop" /\ queue # <<>> /\ ~interrupted
    /\ LET n == SmallerOf(BatchWidth, Len(queue))
       IN  /\ work' = <<[repos |-> SubSeq(queue, 1, n), size |-> PageSize]>>
           /\ queue' = SubSeq(queue, n + 1, Len(queue))
    /\ pc' = "query"
    /\ UNCHANGED <<disk, interrupted, page, pending, offset, at, written, gaps,
                   outcome, history>>

(* The loop ends: the status is saved only if no interrupt is pending.     *)
MutantFinalStatus == "complete"
FinalStatus == IF interrupted THEN status ELSE "complete"

EndLoop ==
    /\ pc = "loop" /\ (queue = <<>> \/ interrupted)
    /\ status' = FinalStatus
    /\ pc' = "count"
    /\ UNCHANGED <<cursor, ledger, copies, tail, lost, memory, history>>

(* count_records reads the file back; a malformed line that is not the     *)
(* last one raises.                                                        *)
CountRecords ==
    /\ pc = "count"
    /\ IF tail = "corrupt"
       THEN Exit
       ELSE /\ outcome' = [lines |-> copies, gaps |-> gaps]
            /\ pc' = "reported"
            /\ UNCHANGED <<interrupted, queue, work, page, pending, offset, at,
                           written, gaps>>
    /\ UNCHANGED <<disk, history>>

(* run_snapshot stops without a manifest when an interrupt was requested,  *)
(* and otherwise writes the outcome into manifest.json.                    *)
Publish ==
    /\ pc = "reported"
    /\ IF interrupted
       THEN Exit /\ UNCHANGED manifest
       ELSE pc' = "published" /\ manifest' = outcome /\ UNCHANGED memory
    /\ UNCHANGED <<disk, attempts, crashes>>

----------------------------------------------------------------------------
(* _run_batch                                                              *)

(* The request failed for good: a gap for every repository of the batch,   *)
(* no cursor, and none of them goes back to the queue.                     *)
TransportFails ==
    /\ pc = "query"
    /\ page' = Head(work).repos
    /\ pc' = "failed"
    /\ UNCHANGED <<disk, interrupted, queue, work, pending, offset, at, written,
                   gaps, outcome, history>>

(* A gap is appended to the checkpoint, which is saved.                    *)
MutantRecordGap(gap) == ledger' = ledger \cup {gap} /\ UNCHANGED gaps
RecordGap(gap) == /\ ledger' = ledger \cup {gap}
                  /\ gaps' = gaps \cup {gap}

TransportGap ==
    /\ pc = "failed" /\ page # <<>>
    /\ RecordGap(<<Head(page), "transport">>)
    /\ page' = Tail(page)
    /\ UNCHANGED <<cursor, status, copies, tail, lost, pc, interrupted, queue, work,
                   pending, offset, at, written, outcome, history>>

(* The node limit is hit: first the page shrinks, then the batch splits    *)
(* into halves that start again at the full page size, and a lone          *)
(* repository at the minimum page size becomes a gap.                      *)
MutantCanShrink(size) == size >= 1
CanShrink(size) == size > 1

MutantHalves(repos) ==
    LET mid == Len(repos) \div 2
    IN  <<SubSeq(repos, 1, mid), SubSeq(repos, mid, Len(repos))>>
Halves(repos) ==
    LET mid == Len(repos) \div 2
    IN  <<SubSeq(repos, 1, mid), SubSeq(repos, mid + 1, Len(repos))>>

ShrinkPage ==
    /\ pc = "query" /\ CanShrink(Head(work).size)
    /\ work' = [work EXCEPT ![1].size = @ \div 2]
    /\ UNCHANGED <<disk, pc, interrupted, queue, page, pending, offset, at, written,
                   gaps, outcome, history>>

SplitBatch ==
    /\ pc = "query" /\ ~CanShrink(Head(work).size)
    /\ Len(Head(work).repos) > 1
    /\ LET halves == Halves(Head(work).repos)
           SubBatchOf(repos) == [repos |-> repos, size |-> PageSize]
       IN  work' = <<SubBatchOf(halves[1]), SubBatchOf(halves[2])>> \o Tail(work)
    /\ UNCHANGED <<disk, pc, interrupted, queue, page, pending, offset, at, written,
                   gaps, outcome, history>>

NodeLimitGap ==
    /\ pc = "query" /\ ~CanShrink(Head(work).size) /\ Len(Head(work).repos) = 1
    /\ RecordGap(<<Head(work).repos[1], "nodelimit">>)
    /\ page' = Head(work).repos
    /\ pc' = "mark"
    /\ UNCHANGED <<cursor, status, copies, tail, lost, interrupted, queue, work,
                   pending, offset, at, written, outcome, history>>

(* The query is answered; the repositories of the batch are read in turn.  *)
Reply ==
    /\ pc = "query"
    /\ page' = Head(work).repos
    /\ pc' = "reply"
    /\ UNCHANGED <<disk, interrupted, queue, work, pending, offset, at, written,
                   gaps, outcome, history>>

(* The query raises: the systemic guard trips, a rate-limit wait is        *)
(* refused, the credential is rejected or the body is no JSON.  The run    *)
(* ends here, with what is on disk.                                        *)
QueryRaises ==
    /\ pc = "query"
    /\ Exit
    /\ UNCHANGED <<disk, history>>

(* The repository answers with no data, or without this connection, with   *)
(* or without an error of its own: its gap is recorded...                  *)
NoData ==
    /\ pc = "reply" /\ page # <<>>
    /\ RecordGap(<<Head(page), "nodata">>)
    /\ pc' = "mark"
    /\ UNCHANGED <<cursor, status, copies, tail, lost, interrupted, queue, work, page,
                   pending, offset, at, written, outcome, history>>

(* ...and then its cursor is set to CURSOR_DONE, in a second save.         *)
MarkDone ==
    /\ pc = "mark"
    /\ cursor' = [cursor EXCEPT ![Head(page)] = Done]
    /\ page' = Tail(page)
    /\ pc' = "reply"
    /\ UNCHANGED <<ledger, status, copies, tail, lost, interrupted, queue, work,
                   pending, offset, at, written, gaps, outcome, history>>

(* The repository answers with a page of items, perhaps beside an error    *)
(* that costs it some fields.                                              *)
PageArrives ==
    /\ pc = "reply" /\ page # <<>>
    /\ \/ RecordGap(<<Head(page), "field">>)
       \/ UNCHANGED <<ledger, gaps>>
    /\ at' = offset[Head(page)]
    /\ pc' = "write"
    /\ UNCHANGED <<cursor, status, copies, tail, lost, interrupted, queue, work, page,
                   pending, offset, written, outcome, history>>

PageEnd(r) == SmallerOf(offset[r] + Head(work).size, ItemCount[r])
MutantHasNextPage(r) == PageEnd(r) <= ItemCount[r]
HasNextPage(r) == PageEnd(r) < ItemCount[r]

(* item_cap counts what this attempt wrote for r.                          *)
ReachedCap(r) == written[r] >= ItemCap

MutantPageTaken(r) == at + 1 >= PageEnd(r) \/ ReachedCap(r)
PageTaken(r) == at = PageEnd(r) \/ ReachedCap(r)

(* One line is appended.  After a torn line the new one continues it: the  *)
(* line is complete but malformed, and its record is lost; the next line   *)
(* leaves a malformed line in the middle of the file.                      *)
WriteLine(x) ==
    IF tail = "torn"
    THEN /\ tail' = "garbled"
         /\ lost' = lost \cup {x}
         /\ UNCHANGED copies
    ELSE /\ tail' = IF tail = "clean" THEN "clean" ELSE "corrupt"
         /\ copies' = [copies EXCEPT ![x] = @ + 1]
         /\ UNCHANGED lost

WriteRecord ==
    /\ pc = "write"
    /\ LET r == Head(page)
       IN  /\ ~PageTaken(r)
           /\ WriteLine(<<r, at + 1>>)
           /\ at' = at + 1
           /\ written' = [written EXCEPT ![r] = @ + 1]
    /\ UNCHANGED <<cursor, ledger, status, pc, interrupted, queue, work, page, pending,
                   offset, gaps, outcome, history>>

(* The page is taken: its end cursor is saved and the repository waits for *)
(* its next page, unless it has none or has reached the cap.               *)
SaveCursor ==
    /\ pc = "write"
    /\ LET r == Head(page)
           more == HasNextPage(r) /\ ~ReachedCap(r)
       IN  /\ PageTaken(r)
           /\ cursor' = [cursor EXCEPT ![r] = IF more THEN PageEnd(r) ELSE Done]
           /\ offset' = IF more THEN [offset EXCEPT ![r] = PageEnd(r)] ELSE offset
           /\ pending' = IF more THEN Append(pending, r) ELSE pending
    /\ page' = Tail(page)
    /\ pc' = "reply"
    /\ UNCHANGED <<ledger, status, copies, tail, lost, interrupted, queue, work, at,
                   written, gaps, outcome, history>>

(* The (half-)batch is through.  The caller of the last one appends the    *)
(* still pending repositories to the queue.                                *)
MutantRequeued == queue
Requeued == queue \o pending

BatchDone ==
    /\ pc \in {"reply", "failed"} /\ page = <<>>
    /\ work' = Tail(work)
    /\ IF Tail(work) = <<>>
       THEN /\ queue' = Requeued
            /\ pending' = <<>>
            /\ pc' = "loop"
       ELSE /\ pc' = "query"
            /\ UNCHANGED <<queue, pending>>
    /\ UNCHANGED <<disk, interrupted, page, offset, at, written, gaps, outcome, history>>

----------------------------------------------------------------------------
(* Interrupts and crashes                                                  *)

(* First SIGINT: only a flag, read by the loop between batches.            *)
Sigint ==
    /\ Running /\ ~interrupted
    /\ interrupted' = TRUE
    /\ UNCHANGED <<disk, pc, queue, work, page, pending, offset, at, written, gaps,
                   outcome, history>>

(* The process dies (a kill, a second SIGINT, power loss).  While it was   *)
(* writing a record, half of the line may have reached the file.           *)
Die(end) ==
    /\ crashes' = crashes + 1
    /\ Exit
    /\ tail' = end
    /\ UNCHANGED <<cursor, ledger, status, copies, lost, manifest, attempts>>

Crash == Running /\ Die(tail)

TearLine ==
    /\ TornWrites
    /\ pc = "write" /\ ~PageTaken(Head(page))
    /\ Die(IF tail \in {"clean", "torn"} THEN "torn" ELSE "corrupt")

Engine ==
    \/ TakeBatch \/ EndLoop \/ CountRecords \/ Publish
    \/ TransportFails \/ TransportGap
    \/ ShrinkPage \/ SplitBatch \/ NodeLimitGap \/ Reply \/ QueryRaises
    \/ NoData \/ MarkDone \/ PageArrives \/ WriteRecord \/ SaveCursor \/ BatchDone

Next == Start \/ Engine \/ Sigint \/ Crash \/ TearLine

Spec == Init /\ [][Next]_vars

(* Every await of the engine returns: the transport bounds its retries and *)
(* its waits.  Nothing obliges an operator to start, kill or interrupt it. *)
FairSpec == Spec /\ WF_vars(Engine)

----------------------------------------------------------------------------
(* Properties                                                              *)

(* TypeOK: every variable holds a value of its kind.                       *)
TypeOK ==
    /\ cursor \in [Repo -> Nat \cup {Done}]
    /\ ledger \in SUBSET Gap
    /\ status \in {"pending", "complete"}
    /\ copies \in [Item -> Nat]
    /\ tail \in {"clean", "torn", "garbled", "corrupt"}
    /\ lost \in SUBSET Item
    /\ pc \in {"down", "loop", "query", "failed", "reply", "mark", "write",
               "count", "reported", "published"}
    /\ interrupted \in BOOLEAN
    /\ queue \in Seq(Repo) /\ page \in Seq(Repo) /\ pending \in Seq(Repo)
    /\ work \in Seq(SubBatch)
    /\ offset \in [Repo -> Nat] /\ at \in Nat
    /\ written \in [Repo -> Nat]
    /\ gaps \in SUBSET Gap
    /\ outcome \in Outcome \cup {None} /\ manifest \in Outcome \cup {None}
    /\ attempts \in Nat /\ crashes \in Nat

(* Items 1..k of r are in the file, or were merged into a torn line.       *)
Stored(r, k) ==
    \A i \in 1 .. ItemCount[r] : i <= k => copies[<<r, i>>] > 0 \/ <<r, i>> \in lost

(* r ended in a gap that says its data are missing.                        *)
FinalGap(r) == <<r, "nodata">> \in ledger \/ <<r, "nodelimit">> \in ledger

(* CursorNeverAhead: the checkpoint never runs ahead of the file.  A page  *)
(* cursor saved for r has every earlier item behind it, and CURSOR_DONE    *)
(* has every item up to the cap, or a recorded gap, whatever was retried,  *)
(* split, shrunk, interrupted or killed before (_run_batch writes a page   *)
(* before it saves the cursor).                                            *)
CursorNeverAhead ==
    \A r \in Repo :
        IF cursor[r] = Done THEN Stored(r, ItemCap) \/ FinalGap(r)
                            ELSE Stored(r, cursor[r])

(* Where the engine still holds r, for a later page or a later answer.     *)
Unread == IF pc = "query" THEN DOMAIN work ELSE DOMAIN work \ {1}
Batch(k) == Range(work[k].repos)
Held == Range(queue) \cup Range(pending) \cup Range(page)
          \cup UNION {Batch(k) : k \in Unread}

Fetching == pc \in {"loop", "query", "failed", "reply", "mark", "write"}

(* NothingDropped: while the dataset is being fetched, every repository is *)
(* done, or failed in this very attempt, or still held in the queue or in  *)
(* the batch being split, shrunk, answered or requeued: _run_batch's       *)
(* halves and still_pending lists lose none.                               *)
NothingDropped ==
    Fetching => \A r \in Repo : \/ cursor[r] = Done
                                \/ <<r, "transport">> \in gaps
                                \/ r \in Held

(* HeldOnce: a repository the engine still holds is held once, and is not  *)
(* done, so that no split or requeuing sends it into two queries.          *)
Disjoint(S, T) == S \cap T = {}
HeldOnce ==
    Fetching =>
      /\ \A r \in Held : cursor[r] # Done
      /\ IsInjective(queue) /\ IsInjective(pending) /\ IsInjective(page)
      /\ Disjoint(Range(queue), Range(pending))
      /\ Disjoint(Range(queue), Range(page))
      /\ Disjoint(Range(pending), Range(page))
      /\ \A k \in Unread :
            /\ IsInjective(work[k].repos)
            /\ Disjoint(Batch(k), Range(queue) \cup Range(pending) \cup Range(page))
            /\ \A l \in Unread \ {k} : Disjoint(Batch(k), Batch(l))

(* DuplicatesBoundedByCrashes: an item is on file at most once more than   *)
(* the process was killed: pages fetched again at a smaller size, split    *)
(* batches, stops by an exception and graceful interrupts repeat nothing   *)
(* (AC-4.11: an interrupt finishes the batch in flight before it stops).   *)
DuplicatesBoundedByCrashes == \A x \in Item : copies[x] <= 1 + crashes

(* FirstAttemptReportsAll: a manifest written by the process that started  *)
(* the snapshot reports every gap the checkpoint recorded and every line   *)
(* of the file.                                                            *)
FirstAttemptReportsAll ==
    manifest # None /\ attempts = 1 => /\ manifest.gaps = ledger
                                       /\ manifest.lines = copies

(* CursorsOnlyAdvance: no step of any attempt moves a saved cursor back,   *)
(* not even after a crash or a page fetched again at a smaller size, and   *)
(* CURSOR_DONE is final.                                                   *)
CursorsOnlyAdvance ==
    [][\A r \in Repo : cursor'[r] # cursor[r] =>
          /\ cursor[r] # Done
          /\ cursor'[r] = Done \/ cursor'[r] > cursor[r]]_cursor

(* Implements: the engine keeps the promise of DatasetFetch.  A record     *)
(* beyond the cap or swallowed by a torn line, or of a repository with a   *)
(* gap, is excused.                                                        *)
Promise == INSTANCE DatasetFetch WITH
    collected <- {x \in Item : copies[x] > 0},
    excused   <- lost \cup {x \in Item : \/ x[2] > ItemCap
                                         \/ FinalGap(x[1])
                                         \/ <<x[1], "transport">> \in ledger},
    complete  <- status = "complete"
Implements == Promise!Spec

(* AttemptsEnd: every attempt ends, in a manifest or a stopped process:    *)
(* neither the shrinking and splitting on the node limit nor the requeuing *)
(* of repositories with more pages can go on for ever.                     *)
AttemptsEnd == Running ~> ~Running

----------------------------------------------------------------------------
(* What the documentation says, and the code does not do                   *)

(* README and checkpoint.py: a resumed run's manifest still reflects the   *)
(* gaps of earlier attempts.                                               *)
ManifestReportsEveryGap ==
    manifest # None =>
        \A r \in Repo : FinalGap(r) => \E g \in manifest.gaps : g[1] = r
=============================================================================
