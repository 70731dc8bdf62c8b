----------------------------- MODULE FailureGuard -----------------------------
(***************************************************************************)
(* SystemicFailureGuard of harvest/systemic.py: every request of a run is  *)
(* reported to one guard, which stops the run by raising; the next run of  *)
(* the snapshot has a guard of its own.  The module that makes the         *)
(* requests (OrgDirectory) extends this one.  The guard's three counters   *)
(* stand beside the whole history of requests, from which the property     *)
(* says when the guard must have raised.                                   *)
(***************************************************************************)
EXTENDS Integers, Sequences, FiniteSets

CONSTANTS
    MaxConsecutive,  \* max_consecutive_failures
    RateNum, RateDen,\* max_failure_rate is RateNum / RateDen
    MinAttempts      \* min_attempts_for_rate

ASSUME GuardAssumption == /\ MaxConsecutive \in Nat \ {0}
                          /\ RateNum \in Nat \ {0} /\ RateDen \in Nat \ {0}
                          /\ MinAttempts \in Nat \ {0}

VARIABLES
    consecutive, total, failures,      \* the guard's counters
    requests,        \* history: requests[i]: the i-th of this run failed
    tripped          \* history: the guard has raised in this run

guard == <<consecutive, total, failures, requests, tripped>>

GuardInit ==
    /\ consecutive = 0 /\ total = 0 /\ failures = 0
    /\ requests = <<>> /\ tripped = FALSE

(* run_snapshot builds a guard for each run.                               *)
MutantFreshCounters == consecutive' = 0 /\ total' = 0 /\ UNCHANGED failures
FreshCounters == consecutive' = 0 /\ total' = 0 /\ failures' = 0
NewGuard == FreshCounters /\ requests' = <<>> /\ tripped' = FALSE

(* _check, with the counters as record_attempt leaves them.                *)
Trips(inRow, all, failed) ==
    \/ inRow >= MaxConsecutive
    \/ all >= MinAttempts /\ failed * RateDen >= RateNum * all

InRow(failed)    == IF failed THEN consecutive + 1 ELSE 0
Failed(failed)   == IF failed THEN failures + 1 ELSE failures
Raises(failed)   == Trips(InRow(failed), total + 1, Failed(failed))

(* record_attempt, called once per request before its answer is looked at. *)
RecordAttempt(failed) ==
    /\ consecutive' = InRow(failed)
    /\ total' = total + 1
    /\ failures' = Failed(failed)
    /\ requests' = Append(requests, failed)
    /\ tripped' = Raises(failed)

----------------------------------------------------------------------------
(* An outage by the history alone, after the first n requests: the last    *)
(* MaxConsecutive all failed, or at least MinAttempts were made and too    *)
(* large a share of them failed.                                           *)
Outage(n) ==
    \/ /\ n >= MaxConsecutive
       /\ \A i \in n - MaxConsecutive + 1 .. n : requests[i]
    \/ /\ n >= MinAttempts
       /\ Cardinality({i \in 1 .. n : requests[i]}) * RateDen >= RateNum * n

(* The run goes on while no prefix of its requests is an outage, and has   *)
(* been stopped at the first that is (FR-5, EC-8): the counters forget     *)
(* nothing between one dataset and the next, and carry nothing over from a *)
(* stopped run to the one that resumes it.                                 *)
StopsExactlyAtOutage ==
    /\ tripped <=> Outage(Len(requests))
    /\ \A n \in 1 .. Len(requests) - 1 : ~Outage(n)
=============================================================================
