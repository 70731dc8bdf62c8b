------------------------------- MODULE Transport -------------------------------
(***************************************************************************)
(* Transport.send (transport.py) with its budget tracker and concurrency   *)
(* limiter (ratelimit.py): callers that send one request after the other,  *)
(* GitHub's budget window, answers that come late or never, and time.  The *)
(* harvest engines are one caller; the class admits several.               *)
(*                                                                         *)
(* A step is what a coroutine does between two awaits that can suspend it. *)
(* A point in time is kept as the ticks that are left until it.            *)
(***************************************************************************)
EXTENDS Integers, FiniteSets

CONSTANTS
    Caller,
    Requests,        \* requests each caller sends
    Limit, Window,   \* GitHub: points per window, length of a window
    ReserveFloor,    \* reserve_floor
    MaxConcurrency,  \* max_concurrency
    MaxRetries,      \* max_retries
    Backoff,         \* Backoff[k]: backoff_base * 2^k plus jitter, in ticks
    RetryAfter,      \* the values of a retry-after header GitHub may send
    Reduction,       \* reduction_seconds of the limiter
    Ceiling,         \* max_total_wait_seconds
    None

ASSUME CallerAssumption == IsFiniteSet(Caller)
ASSUME NoneAssumption == None \notin [remaining : 0 .. Limit, resetIn : 0 .. Window]
ASSUME CountAssumption ==
    /\ Requests \in Nat
    /\ Limit \in Nat \ {0} /\ Window \in Nat \ {0} /\ ReserveFloor \in 0 .. Limit - 1
    /\ MaxConcurrency \in Nat \ {0} /\ MaxRetries \in Nat /\ Reduction \in Nat
    /\ Backoff \in [0 .. MaxRetries -> Nat] /\ RetryAfter \subseteq Nat
    /\ Ceiling \in Nat

VARIABLES
    quota, resetsIn, \* GitHub: points left in the window, time to its end
    known,           \* BudgetTracker._snapshot, or None
    pc, attempt,
    timer,           \* timer[c]: what is left of the sleep of c
    reply,           \* reply[c]: the answer on its way to c, or None
    toSend,          \* requests c has still to make
    inFlight, currentMax, reducedFor,   \* ConcurrencyLimiter
    totalWait,       \* _total_wait_seconds
    unseen,          \* history: requests charged to the present window whose
                     \* answer has not reached the tracker
    misled           \* history: figures of this window the tracker should not
                     \* have believed

github  == <<quota, resetsIn>>
limiter == <<inFlight, currentMax, reducedFor>>
task    == <<attempt, timer, reply, toSend>>
history == <<unseen, misled>>
vars    == <<github, known, pc, task, limiter, totalWait, history>>

LargerOf(a, b) == IF a >= b THEN a ELSE b

Init ==
    /\ quota \in ReserveFloor + 1 .. Limit /\ resetsIn = Window
    /\ known = None
    /\ pc = [c \in Caller |-> "idle"]
    /\ attempt = [c \in Caller |-> 0]
    /\ timer = [c \in Caller |-> 0]
    /\ reply = [c \in Caller |-> None]
    /\ toSend = [c \in Caller |-> Requests]
    /\ inFlight = 0 /\ currentMax = MaxConcurrency /\ reducedFor = None
    /\ totalWait = 0 /\ unseen = 0 /\ misled = 0

Goto(c, label) == pc' = [pc EXCEPT ![c] = label]

Call(c) ==
    /\ pc[c] = "idle" /\ toSend[c] > 0
    /\ toSend' = [toSend EXCEPT ![c] = @ - 1]
    /\ attempt' = [attempt EXCEPT ![c] = 0]
    /\ Goto(c, "check")
    /\ UNCHANGED <<github, known, timer, reply, limiter, totalWait, history>>

----------------------------------------------------------------------------
(* wait_if_exhausted and _check_wait_is_safe                               *)

MutantExhausted == known # None /\ known.remaining < ReserveFloor /\ known.resetIn > 0
Exhausted == known # None /\ known.remaining <= ReserveFloor /\ known.resetIn > 0
MutantWaitIsSafe(wait) == totalWait <= Ceiling
WaitIsSafe(wait) == totalWait + wait <= Ceiling

BudgetLeft(c) ==
    /\ pc[c] = "check" /\ ~Exhausted
    /\ Goto(c, "acquire")
    /\ UNCHANGED <<github, known, task, limiter, totalWait, history>>

BeginWait(c) ==
    /\ pc[c] = "check" /\ Exhausted
    /\ LET wait == known.resetIn
       IN  /\ WaitIsSafe(wait)
           /\ totalWait' = totalWait + wait
           /\ timer' = [timer EXCEPT ![c] = wait]
    /\ Goto(c, "wait")
    /\ UNCHANGED <<github, known, attempt, reply, toSend, limiter, history>>

RefuseWait(c) ==
    /\ pc[c] = "check" /\ Exhausted /\ ~WaitIsSafe(known.resetIn)
    /\ Goto(c, "raised")
    /\ UNCHANGED <<github, known, task, limiter, totalWait, history>>

(* The tracker believes what it is told.  It is misled when no more than   *)
(* the reserve is left, points of answers still on their way counted in,   *)
(* and the figure is of an earlier window or says more.                    *)
Misleads(figure, left) ==
    left <= ReserveFloor /\ (figure.resetIn = 0 \/ figure.remaining > left)
Learn(figure, left) ==
    /\ known' = figure
    /\ misled' = IF Misleads(figure, left) THEN misled + 1 ELSE misled

(* After the sleep the tracker assumes a fresh window, whatever it has     *)
(* learned from other callers in the meantime.                             *)
EndWait(c) ==
    /\ pc[c] = "wait" /\ timer[c] = 0
    /\ Learn([remaining |-> Limit, resetIn |-> Window], quota + unseen)
    /\ Goto(c, "acquire")
    /\ UNCHANGED <<github, task, limiter, totalWait, unseen>>

----------------------------------------------------------------------------
(* ConcurrencyLimiter.acquire, the request and release                     *)

(* _maybe_restore: the bound in force when a caller asks for admission.    *)
Restored == reducedFor = 0
Bound    == IF Restored THEN MaxConcurrency ELSE currentMax

Restore ==
    /\ currentMax' = Bound
    /\ reducedFor' = IF Restored THEN None ELSE reducedFor

Admit(c) ==
    /\ pc[c] = "acquire" /\ inFlight < Bound
    /\ inFlight' = inFlight + 1
    /\ Restore
    /\ Goto(c, "flight")
    /\ UNCHANGED <<github, known, task, totalWait, history>>

(* A caller that is not admitted waits on the condition and looks again    *)
(* when a release or a signal notifies it.                                 *)
Queue(c) ==
    /\ pc[c] = "acquire" /\ inFlight >= Bound
    /\ Restore
    /\ Goto(c, "queued")
    /\ UNCHANGED <<github, known, task, inFlight, totalWait, history>>

(* c goes on at label and all callers on the condition are notified.       *)
Notify(c, label) ==
    pc' = [d \in Caller |-> IF d = c THEN label
                             ELSE IF pc[d] = "queued" THEN "acquire" ELSE pc[d]]

MutantReleased == inFlight
Released == inFlight - 1

(* GitHub charges the request and reports what is left, or turns it away.  *)
Turned == [status : {"retryable", "unauthorized"}]
              \cup [status : {"secondary"}, after : RetryAfter]
Charge(c) ==
    /\ pc[c] = "flight" /\ reply[c] = None /\ quota > 0
    /\ quota' = quota - 1 /\ unseen' = unseen + 1
    /\ reply' = [reply EXCEPT ![c] =
                   [status |-> "ok", remaining |-> quota - 1, resetIn |-> resetsIn]]
    /\ UNCHANGED <<resetsIn, known, pc, attempt, timer, toSend, limiter, totalWait,
                   misled>>

TurnAway(c) ==
    /\ pc[c] = "flight" /\ reply[c] = None
    /\ \E answer \in Turned : reply' = [reply EXCEPT ![c] = answer]
    /\ UNCHANGED <<github, known, pc, attempt, timer, toSend, limiter, totalWait,
                   history>>

Answered(c, status) == /\ pc[c] = "flight" /\ reply[c] # None
                       /\ reply[c].status = status

(* A usable answer: the slot is given back, the tracker takes its figures. *)
Succeed(c) ==
    /\ Answered(c, "ok")
    /\ unseen' = IF reply[c].resetIn > 0 THEN unseen - 1 ELSE unseen
    /\ Learn([remaining |-> reply[c].remaining, resetIn |-> reply[c].resetIn],
             quota + unseen')
    /\ reply' = [reply EXCEPT ![c] = None]
    /\ inFlight' = Released
    /\ Notify(c, "idle")
    /\ UNCHANGED <<github, attempt, timer, toSend, currentMax, reducedFor,
                   totalWait>>

(* 401 ends the run: raise_on_unauthorized.                                *)
Unauthorized(c) ==
    /\ Answered(c, "unauthorized")
    /\ inFlight' = Released
    /\ reply' = [reply EXCEPT ![c] = None]
    /\ Notify(c, "raised")
    /\ UNCHANGED <<github, known, attempt, timer, toSend, currentMax,
                   reducedFor, totalWait, history>>

(* The tail of the loop: sleep before the next attempt, or give up.        *)
Sleep(c, after) == LargerOf(after, Backoff[attempt[c]])
RetryOrFail(c, after) ==
    IF attempt[c] >= MaxRetries
    THEN /\ Notify(c, "failed")
         /\ UNCHANGED <<timer, attempt>>
    ELSE /\ timer' = [timer EXCEPT ![c] = Sleep(c, after)]
         /\ attempt' = [attempt EXCEPT ![c] = @ + 1]
         /\ Notify(c, "backoff")

TransientFailure(c) ==
    /\ Answered(c, "retryable")
    /\ inFlight' = Released
    /\ reply' = [reply EXCEPT ![c] = None]
    /\ RetryOrFail(c, 0)
    /\ UNCHANGED <<github, known, toSend, currentMax, reducedFor,
                   totalWait, history>>

(* No answer arrives, although GitHub may have charged the request.        *)
TimeOut(c) ==
    /\ pc[c] = "flight"
    /\ inFlight' = Released
    /\ reply' = [reply EXCEPT ![c] = None]
    /\ RetryOrFail(c, 0)
    /\ UNCHANGED <<github, known, toSend, currentMax, reducedFor,
                   totalWait, history>>

(* signal_secondary_limit halves the bound, down to one, for a while.      *)
MutantHalved == currentMax \div 2
Halved == LargerOf(1, currentMax \div 2)
SecondaryLimit(c) ==
    /\ Answered(c, "secondary")
    /\ inFlight' = Released
    /\ currentMax' = Halved
    /\ reducedFor' = Reduction
    /\ reply' = [reply EXCEPT ![c] = None]
    /\ RetryOrFail(c, reply[c].after)
    /\ UNCHANGED <<github, known, toSend, totalWait, history>>

Retry(c) ==
    /\ pc[c] = "backoff" /\ timer[c] = 0
    /\ Goto(c, "check")
    /\ UNCHANGED <<github, known, task, limiter, totalWait, history>>

(* The caller records the failed request as a gap and goes on.             *)
GoOn(c) ==
    /\ pc[c] = "failed"
    /\ Goto(c, "idle")
    /\ UNCHANGED <<github, known, task, limiter, totalWait, history>>

(* Time passes, and with it every point in time comes nearer; at the end   *)
(* of a window GitHub starts a new one.                                    *)
Nearer(ticks) == LargerOf(0, ticks - 1)
Tick ==
    /\ IF resetsIn = 1
       THEN quota' = Limit /\ resetsIn' = Window /\ unseen' = 0 /\ misled' = 0
       ELSE resetsIn' = resetsIn - 1 /\ UNCHANGED <<quota, history>>
    /\ known' = IF known = None THEN None ELSE [known EXCEPT !.resetIn = Nearer(@)]
    /\ timer' = [c \in Caller |-> Nearer(timer[c])]
    /\ reply' = [c \in Caller |->
                   IF reply[c] # None /\ reply[c].status = "ok"
                   THEN [reply[c] EXCEPT !.resetIn = Nearer(@)] ELSE reply[c]]
    /\ reducedFor' = IF reducedFor = None THEN None ELSE Nearer(reducedFor)
    /\ UNCHANGED <<pc, attempt, toSend, inFlight, currentMax, totalWait>>

Step(c) ==
    \/ Call(c) \/ BudgetLeft(c) \/ BeginWait(c) \/ RefuseWait(c) \/ EndWait(c)
    \/ Admit(c) \/ Queue(c) \/ Succeed(c) \/ Unauthorized(c) \/ TransientFailure(c)
    \/ TimeOut(c) \/ SecondaryLimit(c) \/ Retry(c) \/ GoOn(c)

Next == Tick \/ \E c \in Caller : Step(c) \/ Charge(c) \/ TurnAway(c)

Spec == Init /\ [][Next]_vars

(* Each coroutine that can go on does so, GitHub or the timeout answers    *)
(* and time passes.                                                        *)
FairSpec == Spec /\ WF_vars(Tick) /\ \A c \in Caller : WF_vars(Step(c))

----------------------------------------------------------------------------
(* Type invariant.                                                         *)
Reply == [status : {"ok"}, remaining : 0 .. Limit, resetIn : 0 .. Window]
             \cup Turned
TypeOK ==
    /\ quota \in 0 .. Limit /\ resetsIn \in 1 .. Window
    /\ known \in [remaining : 0 .. Limit, resetIn : 0 .. Window] \cup {None}
    /\ pc \in [Caller -> {"idle", "check", "wait", "acquire", "queued", "flight", "backoff",
                          "failed", "raised"}]
    /\ attempt \in [Caller -> 0 .. MaxRetries]
    /\ timer \in [Caller -> Nat]
    /\ reply \in [Caller -> Reply \cup {None}]
    /\ toSend \in [Caller -> 0 .. Requests]
    /\ inFlight \in Nat /\ currentMax \in 1 .. MaxConcurrency
    /\ reducedFor \in Nat \cup {None}
    /\ totalWait \in Nat /\ unseen \in Nat /\ misled \in Nat

(* The limiter's count is the number of requests in flight on every path   *)
(* out of a request (answer, timeout, 401), so no slot is ever lost, and   *)
(* never more than max_concurrency are in flight, whatever was signalled.  *)
SlotsConserved ==
    /\ inFlight = Cardinality({c \in Caller : pc[c] = "flight"})
    /\ inFlight <= MaxConcurrency

(* What rate-limit waits add up to never passes the ceiling, several       *)
(* callers waiting out the same window included.                           *)
WaitsWithinCeiling == totalWait <= Ceiling

(* FloorCrossedOnlyUnseen: requests whose answer never came, or has yet to *)
(* come, aside, one caller alone never takes the budget below the reserved *)
(* floor, and each further caller takes at most one point of it.  Only     *)
(* with several callers is the tracker misled, by an answer that comes out *)
(* of order or by the fresh window assumed after a wait; each time lets    *)
(* every caller through at most once more.                                 *)
FloorCrossedOnlyUnseen ==
    /\ quota + unseen + Cardinality(Caller) * (1 + misled) > ReserveFloor
    /\ Cardinality(Caller) = 1 => misled = 0

(* Every send comes back with an answer, a failure or an error: retries,   *)
(* waits and the queue before the limiter all end, also when the bound     *)
(* has been reduced while callers wait for admission.                      *)
EverySendEnds ==
    \A c \in Caller : pc[c] = "check" ~> pc[c] \in {"idle", "failed", "raised"}
=============================================================================
