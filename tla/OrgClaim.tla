------------------------------- MODULE OrgClaim -------------------------------
(***************************************************************************)
(* The advisory claim on one organization: lock.py and the part of run.py  *)
(* that runs before, under and after it.  Several processes of org-harvest *)
(* work on one snapshot root; each file-system call of the claim is a step *)
(* of its own.  What they do to the snapshots is in SharedOrg; retry_gaps  *)
(* takes no claim and has no part here.                                    *)
(*                                                                         *)
(* .run.lock and its temporary file are names of inodes.  A process        *)
(* creates at most one inode, so an inode is called after its creator.     *)
(* The text of an inode is the pid it holds: Nobody when it is empty,      *)
(* Garbled when two writers have left it malformed.                        *)
(***************************************************************************)
EXTENDS FiniteSets

CONSTANTS
    Run,             \* processes that execute run_snapshot, once each
    Old,             \* pid of a process that died before the model starts
    NoFile, Nobody, Garbled

ASSUME ProcAssumption == Old \notin Run
ASSUME MarkAssumption == /\ NoFile \notin Run \cup {Old}
                         /\ Nobody \notin Run \cup {Old, Garbled}
                         /\ Garbled \notin Run \cup {Old}

VARIABLES
    lock, tmp,       \* the inode each name stands for, or NoFile
    text,            \* text[i]: the pid that inode i holds
    handle,          \* handle[p]: the inode p has open for writing
    pc,
    raced,           \* history: two acquisitions have overlapped
    worked,          \* history: the runs that got to work
    killed           \* history: a process was killed

claim == <<lock, tmp, text, handle>>
history == <<raced, worked, killed>>
vars  == <<claim, pc, history>>

Inode == Run \cup {Old}
Text  == Run \cup {Old, Nobody, Garbled}

Acquiring == {"open", "close", "replace"}
Active    == Acquiring \cup {"running"}

Init ==
    /\ lock \in {NoFile, Old}
    /\ tmp = NoFile
    /\ text = [i \in Inode |-> IF i = Old THEN Old ELSE Nobody]
    /\ handle = [p \in Run |-> NoFile]
    /\ pc = [p \in Run |-> "idle"]
    /\ raced = FALSE /\ worked = {} /\ killed = FALSE

Goto(p, label) == pc' = [pc EXCEPT ![p] = label]

(* run_snapshot picks the newest incomplete snapshot and reads its         *)
(* checkpoint before it looks at the claim.                                *)
Load(p) ==
    /\ pc[p] = "idle"
    /\ Goto(p, "check")
    /\ UNCHANGED <<claim, history>>

(* _is_pid_alive and _read_claim: only a readable claim with a living pid  *)
(* counts; an unreadable one is no claim.                                  *)
DeniedIsDead(q) == FALSE
UnknownIsAlive(q) == q \in Run => pc[q] \notin {"idle", "ended"}
Alive(q) == q \in Run /\ pc[q] \notin {"idle", "ended"}
MutantHeld == lock # NoFile /\ ~Alive(text[lock])
Held       == lock # NoFile /\ Alive(text[lock])

CheckRefused(p) ==
    /\ pc[p] = "check" /\ Held
    /\ Goto(p, "leaving")
    /\ UNCHANGED <<claim, history>>

CheckFree(p) ==
    /\ pc[p] = "check" /\ ~Held
    /\ Goto(p, "open")
    /\ raced' = (raced \/ \E q \in Run : pc[q] \in Acquiring)
    /\ UNCHANGED <<claim, worked, killed>>

(* _write_claim: open for writing truncates a temporary file that is       *)
(* already there; the text reaches the file when it is closed; the rename  *)
(* fails when another process has renamed the file away.                   *)
OpenTmp(p) ==
    /\ pc[p] = "open"
    /\ LET inode == IF tmp = NoFile THEN p ELSE tmp
       IN  /\ tmp' = inode
           /\ handle' = [handle EXCEPT ![p] = inode]
           /\ text' = [text EXCEPT ![inode] = Nobody]
    /\ Goto(p, "close")
    /\ UNCHANGED <<lock, history>>

CloseTmp(p) ==
    /\ pc[p] = "close"
    /\ \E now \in {p} \cup (IF text[handle[p]] = Nobody THEN {} ELSE {Garbled}) :
          text' = [text EXCEPT ![handle[p]] = now]
    /\ Goto(p, "replace")
    /\ UNCHANGED <<lock, tmp, handle, history>>

ReplaceClaim(p) ==
    /\ pc[p] = "replace" /\ tmp # NoFile
    /\ lock' = tmp /\ tmp' = NoFile
    /\ Goto(p, "running")
    /\ worked' = worked \cup {p}
    /\ UNCHANGED <<text, handle, raced, killed>>

ReplaceFails(p) ==
    /\ pc[p] = "replace" /\ tmp = NoFile
    /\ Goto(p, "leaving")
    /\ UNCHANGED <<claim, history>>

(* The run ends, for whatever reason; the with-statement calls release,    *)
(* which unlinks .run.lock whatever it holds.                              *)
MutantReleased == lock
Released == NoFile
Finish(p) ==
    /\ pc[p] = "running"
    /\ lock' = Released
    /\ Goto(p, "leaving")
    /\ UNCHANGED <<tmp, text, handle, history>>

Leave(p) ==
    /\ pc[p] = "leaving"
    /\ Goto(p, "ended")
    /\ UNCHANGED <<claim, history>>

(* A process may be killed anywhere; it leaves its files as they are.      *)
Kill(p) ==
    /\ pc[p] \notin {"idle", "ended"}
    /\ Goto(p, "ended")
    /\ killed' = TRUE
    /\ UNCHANGED <<claim, raced, worked>>

RunStep(p) ==
    \/ Load(p) \/ CheckRefused(p) \/ CheckFree(p) \/ OpenTmp(p) \/ CloseTmp(p)
    \/ ReplaceClaim(p) \/ ReplaceFails(p) \/ Finish(p)
    \/ Leave(p)

Next == \E p \in Run : RunStep(p) \/ Kill(p)

Spec == Init /\ [][Next]_vars

(* A process that is not killed goes on until it ends.                     *)
FairSpec == Spec /\ \A p \in Run : WF_vars(RunStep(p))

----------------------------------------------------------------------------
(* Type invariant.                                                         *)
TypeOK ==
    /\ lock \in Inode \cup {NoFile}
    /\ tmp \in Run \cup {NoFile}
    /\ text \in [Inode -> Text]
    /\ handle \in [Run -> Run \cup {NoFile}]
    /\ pc \in [Run -> Active \cup {"idle", "check", "leaving", "ended"}]
    /\ worked \in SUBSET Run
    /\ raced \in BOOLEAN /\ killed \in BOOLEAN

(* As long as no two processes were between judging the claim free and     *)
(* renaming their own into place at the same time, at most one run works   *)
(* on the organization, kills and reclaimed stale claims included          *)
(* (OrgClaim.acquire).                                                     *)
AloneUnlessRaced ==
    ~raced => \A p, q \in Run : {pc[p], pc[q]} = {"running"} => p = q

(* As long as no acquisitions overlapped, the claim on disk names the run  *)
(* that is at work, so the release at its end unlinks its own claim and    *)
(* never that of a successor (OrgClaim.release checks nothing).            *)
ClaimNamesItsRun ==
    ~raced => \A p \in Run : pc[p] = "running" => lock # NoFile /\ text[lock] = p

(* Even when acquisitions overlap they never all fail, and they leave no   *)
(* claim behind: if nobody was killed and every run has ended, one of them *)
(* has worked, whether or not a dead process had left its claim, and       *)
(* .run.lock is gone (acquire and release together).                       *)
SomeRunWorks ==
    ~killed /\ Run # {} /\ (\A p \in Run : pc[p] = "ended")
        => worked # {} /\ lock = NoFile

(* The claim of a dead process goes away once some run has come to the     *)
(* check, unless a process is killed (EC-12: a stale claim is reclaimed).  *)
StaleClaimGoes ==
    (lock = Old /\ \E p \in Run : pc[p] = "check") ~> (lock # Old \/ killed)

----------------------------------------------------------------------------
(* What the documents say, and the code does not keep.                     *)

(* "Acquired before preflight so two racing processes can't both proceed   *)
(* past the claim check" (deviations.md): at most one run is at work.      *)
OneRunAtWork ==
    \A p, q \in Run : {pc[p], pc[q]} = {"running"} => p = q
=============================================================================
