---------------------------- MODULE DatasetFetch ----------------------------
(***************************************************************************)
(* What fetching one repository-level dataset promises, whatever stops it  *)
(* and however often it is resumed: records only accumulate, a repository  *)
(* may be excused by a recorded gap, and the dataset may be declared       *)
(* complete only when every record is either on disk or excused.           *)
(* RepoHarvest, the engine of src/src/org_harvest/harvest/repo_level.py,   *)
(* implements it, and so does each dataset of each snapshot of SnapshotRun *)
(* until retry-gaps works on it.                                           *)
(***************************************************************************)
CONSTANT Item            \* the records the organization holds

VARIABLES
    collected,           \* records present in the dataset's file
    excused,             \* records the checkpoint accounts for otherwise
    complete             \* dataset_status == "complete"

absVars == <<collected, excused, complete>>

Init == /\ collected = {}
        /\ excused \in SUBSET Item
        /\ complete = FALSE

(* A record is written, or written again.  A finished dataset is closed.   *)
Collect == /\ ~complete
           /\ \E x \in Item : collected' = collected \cup {x}
           /\ UNCHANGED <<excused, complete>>

(* Records become excused: a gap is recorded for their repository, or the  *)
(* file lost one of them.                                                  *)
Excuse == /\ ~complete
          /\ \E S \in SUBSET Item : excused' = excused \cup S
          /\ UNCHANGED <<collected, complete>>

Finish == /\ ~complete
          /\ collected \cup excused = Item
          /\ complete' = TRUE
          /\ UNCHANGED <<collected, excused>>

Next == Collect \/ Excuse \/ Finish

Spec == Init /\ [][Next]_absVars
=============================================================================
