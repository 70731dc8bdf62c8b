---------------------------- MODULE TransportProofs ----------------------------
(* Theorems about Transport.tla: no slot is ever lost, the waits stay within  *)
(* their ceiling, and what several callers can take below the reserve floor.  *)
EXTENDS Transport, FiniteSetTheorems, TLAPS

N == Cardinality(Caller)
InState(labels) == {c \in Caller : pc[c] \in labels}

\* The callers that hold a slot, and those that have passed the budget check.
Flying == InState({"flight"})
Past   == InState({"acquire", "queued", "flight"})

\* The points of this window no answer has told the tracker to be gone.
Left == quota + unseen

HasOk(c) == reply[c] # None /\ reply[c].status = "ok"
\* The callers whose answer on its way is of the present window.
Due == {c \in Caller : HasOk(c) /\ reply[c].resetIn > 0}

\* Each of them is counted as unseen, and answers are only for requests under way.
DueCounted == Cardinality(Due) <= unseen
RepliesTimely ==
    \A c \in Caller : /\ reply[c] # None => pc[c] = "flight"
                      /\ HasOk(c) => reply[c].resetIn \in {0, resetsIn}

Label == {"idle", "check", "wait", "acquire", "queued", "flight", "backoff",
          "failed", "raised"}

-----------------------------------------------------------------------------
(* Facts about sets of callers and about numbers.                             *)

LEMMA CallerCounts ==
    ASSUME NEW S \in SUBSET Caller
    PROVE  /\ Cardinality(S) \in Nat /\ N \in Nat /\ Cardinality(S) <= N
           /\ \A c \in Caller \ S : /\ Cardinality(S \cup {c}) = Cardinality(S) + 1
                                    /\ Cardinality(S) + 1 <= N
           /\ \A c \in S : Cardinality(S \ {c}) = Cardinality(S) - 1
<1>1. IsFiniteSet(S) /\ Cardinality(S) <= N /\ N \in Nat /\ Cardinality(S) \in Nat
  BY CallerAssumption, FS_Subset, FS_CardinalityType DEF N
<1>2. ASSUME NEW c \in Caller \ S
      PROVE  Cardinality(S \cup {c}) = Cardinality(S) + 1 /\ Cardinality(S) + 1 <= N
  <2>1. Cardinality(S \cup {c}) = Cardinality(S) + 1
    BY <1>1, FS_AddElement
  <2>2. S \cup {c} \in SUBSET Caller
    BY <1>2
  <2>3. Cardinality(S \cup {c}) <= N
    BY <2>2, CallerAssumption, FS_Subset DEF N
  <2> QED BY <2>1, <2>3
<1>3. ASSUME NEW c \in S PROVE Cardinality(S \ {c}) = Cardinality(S) - 1
  BY <1>1, FS_RemoveElement
<1> QED BY <1>1, <1>2, <1>3

LEMMA OnlyCaller ==
    ASSUME N = 1, NEW c \in Caller, NEW d \in Caller
    PROVE  c = d
<1>1. SUFFICES ASSUME c # d PROVE FALSE
  OBVIOUS
<1>2. {c} \in SUBSET Caller /\ {} \in SUBSET Caller /\ d \in Caller \ {c}
  BY <1>1
<1>3. Cardinality({c}) = Cardinality({}) + 1
  <2>1. c \in Caller \ {} /\ {} \cup {c} = {c}
    OBVIOUS
  <2> QED BY <1>2, <2>1, CallerCounts
<1>4. Cardinality({c}) + 1 <= N
  BY <1>2, CallerCounts
<1> QED BY <1>2, <1>3, <1>4, CallerCounts

LEMMA OneMore ==
    ASSUME NEW n \in Nat, NEW m \in Nat
    PROVE  n * m \in Nat /\ n * (1 + m) \in Nat /\ n * (1 + m) = n * m + n
OBVIOUS

LEMMA StillMore ==
    ASSUME NEW a \in Nat, NEW b \in Nat, NEW c \in Nat, a > c
    PROVE  a + b > c
OBVIOUS

-----------------------------------------------------------------------------
(* What the end of a request does to where the callers are.                   *)

\* c gives its slot back; nobody else takes one or passes the check.
Landed(c) ==
    /\ pc' \in [Caller -> Label]
    /\ c \in Flying /\ Flying' = Flying \ {c} /\ Past' = Past \ {c}
    /\ \A d \in Caller \ {c} : pc'[d] # pc[d] => pc[d] = "queued" /\ pc'[d] = "acquire"
    /\ pc'[c] \in {"idle", "failed", "backoff", "raised"}

LEMMA LandedByNotify ==
    ASSUME TypeOK, NEW c \in Caller, pc[c] = "flight",
           NEW label \in {"idle", "failed", "backoff", "raised"}, Notify(c, label)
    PROVE  Landed(c)
<1>1. pc \in [Caller -> Label]
  BY DEF TypeOK, Label
<1>2. /\ pc' = [d \in Caller |-> pc'[d]] /\ pc'[c] = label
      /\ \A d \in Caller \ {c} : pc'[d] = IF pc[d] = "queued" THEN "acquire" ELSE pc[d]
  BY DEF Notify
<1>3. pc' \in [Caller -> Label]
  BY <1>1, <1>2 DEF Label
<1>4. Flying' = Flying \ {c} /\ Past' = Past \ {c} /\ c \in Flying
  BY <1>1, <1>2 DEF Flying, Past, InState
<1> QED BY <1>2, <1>3, <1>4 DEF Landed

LEMMA LandedByRetry ==
    ASSUME TypeOK, NEW c \in Caller, pc[c] = "flight", NEW after \in Nat,
           RetryOrFail(c, after)
    PROVE  /\ Landed(c)
           /\ timer' \in [Caller -> Nat] /\ attempt' \in [Caller -> 0 .. MaxRetries]
           /\ pc'[c] \in {"failed", "backoff"}
<1>1. attempt[c] \in 0 .. MaxRetries /\ MaxRetries \in Nat /\ Backoff[attempt[c]] \in Nat
  BY CountAssumption DEF TypeOK, CountAssumption
<1>2. CASE attempt[c] >= MaxRetries
  <2>1. Notify(c, "failed") /\ timer' = timer /\ attempt' = attempt
    BY <1>2 DEF RetryOrFail
  <2>2. pc'[c] = "failed"
    BY <2>1 DEF Notify
  <2> QED BY <2>1, <2>2, LandedByNotify DEF TypeOK
<1>3. CASE ~(attempt[c] >= MaxRetries)
  <2>1. /\ Notify(c, "backoff") /\ timer' = [timer EXCEPT ![c] = Sleep(c, after)]
        /\ attempt' = [attempt EXCEPT ![c] = @ + 1]
    BY <1>3 DEF RetryOrFail
  <2>2. Sleep(c, after) \in Nat /\ attempt[c] + 1 \in 0 .. MaxRetries
    BY <1>1, <1>3 DEF Sleep, LargerOf
  <2>3. timer' \in [Caller -> Nat] /\ attempt' \in [Caller -> 0 .. MaxRetries]
    BY <2>1, <2>2 DEF TypeOK
  <2>4. pc'[c] = "backoff"
    BY <2>1 DEF Notify
  <2> QED BY <2>1, <2>3, <2>4, LandedByNotify
<1> QED BY <1>2, <1>3

-----------------------------------------------------------------------------
(* Types, slots and the wait ceiling.                                         *)

LEMMA FlyingIs == Flying = {c \in Caller : pc[c] = "flight"}
BY DEF Flying, InState

\* An action that ends a request of c keeps the limiter's count.
LEMMA SlotGivenBack ==
    ASSUME TypeOK, SlotsConserved, NEW c \in Caller, Landed(c), inFlight' = inFlight - 1
    PROVE  SlotsConserved' /\ inFlight' \in Nat
<1>1. inFlight = Cardinality(Flying) /\ inFlight <= MaxConcurrency
  BY FlyingIs DEF SlotsConserved
<1>2. Flying' = {d \in Caller : pc'[d] = "flight"}
  BY DEF Flying, InState
<1>3. Flying \in SUBSET Caller /\ c \in Flying /\ Flying' = Flying \ {c}
  BY DEF Flying, InState, Landed
<1>4. Cardinality(Flying') = Cardinality(Flying) - 1 /\ Cardinality(Flying) \in Nat
  BY <1>3, CallerCounts
<1>5. Flying' \in SUBSET Caller
  BY <1>3
<1>6. Cardinality(Flying') \in Nat
  BY <1>5, CallerCounts
<1> QED BY <1>1, <1>2, <1>4, <1>6, CountAssumption DEF CountAssumption, SlotsConserved

\* An action that moves no caller into or out of a request.
LEMMA SlotsUntouched ==
    ASSUME SlotsConserved, Flying' = Flying, inFlight' = inFlight
    PROVE  SlotsConserved'
<1>1. Flying' = {d \in Caller : pc'[d] = "flight"}
  BY DEF Flying, InState
<1> QED BY <1>1, FlyingIs DEF SlotsConserved

\* An action that moves c alone, from one place to another outside a request.
LEMMA Strolled ==
    ASSUME TypeOK, NEW c \in Caller, NEW label \in Label, Goto(c, label)
    PROVE  /\ pc' \in [Caller -> Label] /\ pc'[c] = label
           /\ \A d \in Caller \ {c} : pc'[d] = pc[d]
           /\ pc[c] # "flight" /\ label # "flight" => Flying' = Flying
<1>1. pc \in [Caller -> Label]
  BY DEF TypeOK, Label
<1>2. /\ pc' \in [Caller -> Label] /\ pc'[c] = label
      /\ \A d \in Caller \ {c} : pc'[d] = pc[d]
  BY <1>1 DEF Goto
<1>3. pc[c] # "flight" /\ label # "flight" => Flying' = Flying
  BY <1>1, <1>2 DEF Flying, InState
<1> QED BY <1>2, <1>3

LEMMA SlotsStep ==
    ASSUME TypeOK, SlotsConserved, [Next]_vars
    PROVE  SlotsConserved' /\ inFlight' \in Nat
<1> USE DEF limiter
<1>0. inFlight \in Nat
  BY DEF TypeOK
<1>1. ASSUME Tick PROVE SlotsConserved' /\ inFlight' \in Nat
  BY <1>0, <1>1, SlotsUntouched DEF Tick, Flying, InState
<1>2. ASSUME NEW c \in Caller, Charge(c) \/ TurnAway(c)
      PROVE  SlotsConserved' /\ inFlight' \in Nat
  BY <1>0, <1>2, SlotsUntouched DEF Charge, TurnAway, Flying, InState
<1>3. ASSUME NEW c \in Caller, Step(c)
      PROVE  SlotsConserved' /\ inFlight' \in Nat
  <2>1. CASE Call(c)
    BY <1>0, <2>1, Strolled, SlotsUntouched DEF Call, Label
  <2>2. CASE BudgetLeft(c)
    BY <1>0, <2>2, Strolled, SlotsUntouched DEF BudgetLeft, Label
  <2>3. CASE BeginWait(c)
    BY <1>0, <2>3, Strolled, SlotsUntouched DEF BeginWait, Label
  <2>4. CASE RefuseWait(c)
    BY <1>0, <2>4, Strolled, SlotsUntouched DEF RefuseWait, Label
  <2>5. CASE EndWait(c)
    BY <1>0, <2>5, Strolled, SlotsUntouched DEF EndWait, Label
  <2>6. CASE Admit(c)
    <3>1. /\ pc[c] = "acquire" /\ inFlight < Bound /\ inFlight' = inFlight + 1
          /\ Goto(c, "flight")
      BY <2>6 DEF Admit
    <3>2. Bound \in Nat /\ Bound <= MaxConcurrency
      BY CountAssumption DEF CountAssumption, Bound, TypeOK
    <3>3. Flying' = Flying \cup {c} /\ c \in Caller \ Flying /\ Flying \in SUBSET Caller
      BY <3>1, Strolled DEF Flying, InState, Label
    <3>4. inFlight = Cardinality(Flying)
      BY FlyingIs DEF SlotsConserved
    <3>5. Cardinality(Flying') = inFlight'
      BY <3>1, <3>3, <3>4, CallerCounts
    <3>6. Flying' = {d \in Caller : pc'[d] = "flight"}
      BY DEF Flying, InState
    <3>7. inFlight' <= MaxConcurrency /\ inFlight' \in Nat
      BY <1>0, <3>1, <3>2, CountAssumption DEF CountAssumption
    <3> QED BY <3>5, <3>6, <3>7 DEF SlotsConserved
  <2>7. CASE Queue(c)
    BY <1>0, <2>7, Strolled, SlotsUntouched DEF Queue, Label
  <2>8. CASE Succeed(c)
    <3>1. pc[c] = "flight" /\ Notify(c, "idle") /\ inFlight' = inFlight - 1
      BY <2>8 DEF Succeed, Answered, Released
    <3> QED BY <3>1, LandedByNotify, SlotGivenBack
  <2>9. CASE Unauthorized(c)
    <3>1. pc[c] = "flight" /\ Notify(c, "raised") /\ inFlight' = inFlight - 1
      BY <2>9 DEF Unauthorized, Answered, Released
    <3> QED BY <3>1, LandedByNotify, SlotGivenBack
  <2>10. CASE TransientFailure(c)
    <3>1. pc[c] = "flight" /\ RetryOrFail(c, 0) /\ inFlight' = inFlight - 1
      BY <2>10 DEF TransientFailure, Answered, Released
    <3> QED BY <3>1, LandedByRetry, SlotGivenBack
  <2>11. CASE TimeOut(c)
    <3>1. pc[c] = "flight" /\ RetryOrFail(c, 0) /\ inFlight' = inFlight - 1
      BY <2>11 DEF TimeOut, Released
    <3> QED BY <3>1, LandedByRetry, SlotGivenBack
  <2>12. CASE SecondaryLimit(c)
    <3>1. /\ pc[c] = "flight" /\ reply[c] # None /\ reply[c].status = "secondary"
          /\ RetryOrFail(c, reply[c].after) /\ inFlight' = inFlight - 1
      BY <2>12 DEF SecondaryLimit, Answered, Released
    <3>2. reply[c] \in Reply
      BY <3>1 DEF TypeOK
    <3>3. reply[c].after \in Nat
      BY <3>1, <3>2, CountAssumption DEF Reply, Turned, CountAssumption
    <3> QED BY <3>1, <3>3, LandedByRetry, SlotGivenBack
  <2>13. CASE Retry(c)
    BY <1>0, <2>13, Strolled, SlotsUntouched DEF Retry, Label
  <2>14. CASE GoOn(c)
    BY <1>0, <2>14, Strolled, SlotsUntouched DEF GoOn, Label
  <2> QED BY <1>3, <2>1, <2>2, <2>3, <2>4, <2>5, <2>6, <2>7, <2>8, <2>9, <2>10, <2>11,
             <2>12, <2>13, <2>14 DEF Step
<1>4. ASSUME UNCHANGED vars PROVE SlotsConserved' /\ inFlight' \in Nat
  BY <1>0, <1>4, SlotsUntouched DEF vars, Flying, InState
<1> QED BY <1>1, <1>2, <1>3, <1>4 DEF Next

LEMMA TypeStep ==
    ASSUME TypeOK, SlotsConserved, DueCounted, [Next]_vars
    PROVE  TypeOK'
<1> USE CountAssumption DEF CountAssumption
<1>0. /\ inFlight' \in Nat /\ 0 \in 0 .. MaxRetries /\ 0 \in 0 .. Window
      /\ Limit \in 0 .. Limit /\ Window \in 0 .. Window /\ Window \in 1 .. Window
  BY SlotsStep
<1>1. ASSUME Tick PROVE TypeOK'
  <2>1. ASSUME NEW w \in 0 .. Window PROVE Nearer(w) \in 0 .. Window
    BY DEF Nearer, LargerOf
  <2>2. ASSUME NEW w \in Nat PROVE Nearer(w) \in Nat
    BY DEF Nearer, LargerOf
  <2>3. known' \in [remaining : 0 .. Limit, resetIn : 0 .. Window] \cup {None}
    <3>1. CASE known = None
      BY <1>1, <3>1 DEF Tick
    <3>2. CASE known # None
      <4>1. known' = [known EXCEPT !.resetIn = Nearer(known.resetIn)]
        BY <1>1, <3>2 DEF Tick
      <4>2. known \in [remaining : 0 .. Limit, resetIn : 0 .. Window]
        BY <3>2 DEF TypeOK
      <4>3. Nearer(known.resetIn) \in 0 .. Window
        BY <4>2, <2>1
      <4> QED BY <4>1, <4>2, <4>3
    <3> QED BY <3>1, <3>2
  <2>4. timer' \in [Caller -> Nat]
    BY <1>1, <2>2 DEF Tick, TypeOK
  <2>5. reply' \in [Caller -> Reply \cup {None}]
    <3>1. ASSUME NEW c \in Caller, HasOk(c), reply[c] \in Reply
          PROVE  [reply[c] EXCEPT !.resetIn = Nearer(reply[c].resetIn)] \in Reply
      <4>1. reply[c] \in [status : {"ok"}, remaining : 0 .. Limit, resetIn : 0 .. Window]
        BY <3>1 DEF Reply, Turned, HasOk
      <4>2. Nearer(reply[c].resetIn) \in 0 .. Window
        BY <4>1, <2>1
      <4> QED BY <4>1, <4>2 DEF Reply
    <3>2. ASSUME NEW c \in Caller
          PROVE  (IF HasOk(c) THEN [reply[c] EXCEPT !.resetIn = Nearer(reply[c].resetIn)]
                              ELSE reply[c]) \in Reply \cup {None}
      BY <3>1 DEF TypeOK, HasOk
    <3>3. reply' = [c \in Caller |->
             IF HasOk(c) THEN [reply[c] EXCEPT !.resetIn = Nearer(reply[c].resetIn)]
                         ELSE reply[c]]
      BY <1>1 DEF Tick, HasOk
    <3> QED BY <3>2, <3>3
  <2>6. reducedFor' \in Nat \cup {None}
    BY <1>1, <2>2 DEF Tick, TypeOK
  <2>7. /\ quota' \in 0 .. Limit /\ resetsIn' \in 1 .. Window /\ unseen' \in Nat
        /\ misled' \in Nat
    <3>1. CASE resetsIn = 1
      BY <1>1, <1>0, <3>1 DEF Tick, TypeOK
    <3>2. CASE resetsIn # 1
      BY <1>1, <1>0, <3>2 DEF Tick, TypeOK, history
    <3> QED BY <3>1, <3>2
  <2> QED BY <1>0, <1>1, <2>3, <2>4, <2>5, <2>6, <2>7 DEF Tick, TypeOK
<1>2. ASSUME NEW c \in Caller, Charge(c) PROVE TypeOK'
  <2>1. quota \in Nat /\ quota > 0 /\ quota - 1 \in 0 .. Limit /\ resetsIn \in 0 .. Window
    BY <1>2 DEF Charge, TypeOK
  <2>2. [status |-> "ok", remaining |-> quota - 1, resetIn |-> resetsIn] \in Reply
    BY <2>1 DEF Reply
  <2>3. reply' \in [Caller -> Reply \cup {None}]
    BY <1>2, <2>2 DEF Charge, TypeOK
  <2> QED BY <1>0, <1>2, <2>1, <2>3 DEF Charge, TypeOK, limiter
<1>3. ASSUME NEW c \in Caller, TurnAway(c) PROVE TypeOK'
  <2>1. reply' \in [Caller -> Reply \cup {None}]
    BY <1>3 DEF TurnAway, TypeOK, Reply
  <2> QED BY <1>0, <1>3, <2>1 DEF TurnAway, TypeOK, limiter, github, history
<1>4. ASSUME NEW c \in Caller, Step(c) PROVE TypeOK'
  <2> USE DEF github, limiter, task, history
  <2>0. ASSUME NEW left PROVE (IF left THEN misled + 1 ELSE misled) \in Nat
    BY DEF TypeOK
  <2>a. ASSUME reply' = [reply EXCEPT ![c] = None]
        PROVE  reply' \in [Caller -> Reply \cup {None}]
    BY <2>a DEF TypeOK
  <2>b. ASSUME pc' \in [Caller -> Label]
        PROVE  pc' \in [Caller -> {"idle", "check", "wait", "acquire", "queued", "flight",
                                   "backoff", "failed", "raised"}]
    BY <2>b DEF Label
  <2>1. CASE Call(c)
    <3>1. toSend' \in [Caller -> 0 .. Requests] /\ attempt' \in [Caller -> 0 .. MaxRetries]
      BY <2>1, <1>0 DEF Call, TypeOK
    <3> QED BY <1>0, <2>1, <3>1, <2>b, Strolled DEF Call, Label, TypeOK
  <2>2. CASE BudgetLeft(c)
    BY <1>0, <2>2, <2>b, Strolled DEF BudgetLeft, Label, TypeOK
  <2>3. CASE BeginWait(c)
    <3>1. known \in [remaining : 0 .. Limit, resetIn : 0 .. Window]
      BY <2>3 DEF BeginWait, Exhausted, TypeOK
    <3>2. totalWait' \in Nat /\ timer' \in [Caller -> Nat]
      BY <2>3, <3>1 DEF BeginWait, TypeOK
    <3> QED BY <1>0, <2>3, <3>2, <2>b, Strolled DEF BeginWait, Label, TypeOK
  <2>4. CASE RefuseWait(c)
    BY <1>0, <2>4, <2>b, Strolled DEF RefuseWait, Label, TypeOK
  <2>5. CASE EndWait(c)
    <3>1. misled' \in Nat
      BY <2>5 DEF EndWait, Learn, Misleads, TypeOK
    <3>2. known' \in [remaining : 0 .. Limit, resetIn : 0 .. Window]
      BY <2>5, <1>0 DEF EndWait, Learn
    <3> QED BY <1>0, <2>5, <3>1, <3>2, <2>b, Strolled DEF EndWait, Label, TypeOK
  <2>6. CASE Admit(c)
    <3>1. currentMax' \in 1 .. MaxConcurrency /\ reducedFor' \in Nat \cup {None}
      BY <2>6 DEF Admit, Restore, Bound, TypeOK
    <3> QED BY <1>0, <2>6, <3>1, <2>b, Strolled DEF Admit, Label, TypeOK
  <2>7. CASE Queue(c)
    <3>1. currentMax' \in 1 .. MaxConcurrency /\ reducedFor' \in Nat \cup {None}
      BY <2>7 DEF Queue, Restore, Bound, TypeOK
    <3> QED BY <1>0, <2>7, <3>1, <2>b, Strolled DEF Queue, Label, TypeOK
  <2>8. CASE Succeed(c)
    <3>1. pc[c] = "flight" /\ Notify(c, "idle")
      BY <2>8 DEF Succeed, Answered
    <3>2. pc' \in [Caller -> Label]
      BY <3>1, LandedByNotify DEF Landed
    <3>3. misled' \in Nat
      BY <2>8 DEF Succeed, Learn, Misleads, TypeOK
    <3>4. reply[c] \in [status : {"ok"}, remaining : 0 .. Limit, resetIn : 0 .. Window]
      BY <2>8 DEF Succeed, Answered, Reply, Turned, TypeOK
    <3>5. known' \in [remaining : 0 .. Limit, resetIn : 0 .. Window]
      BY <2>8, <3>4 DEF Succeed, Learn
    <3>6. unseen' \in Nat
      <4>1. CASE reply[c].resetIn > 0
        <5>1. c \in Due /\ Due \in SUBSET Caller
          BY <2>8, <4>1 DEF Succeed, Answered, Due, HasOk
        <5>2. Cardinality(Due \ {c}) = Cardinality(Due) - 1 /\ Cardinality(Due) \in Nat
          BY <5>1, CallerCounts
        <5>3. Due \ {c} \in SUBSET Caller
          BY <5>1
        <5>4. Cardinality(Due \ {c}) \in Nat
          BY <5>3, CallerCounts
        <5> QED BY <2>8, <4>1, <5>2, <5>4 DEF Succeed, DueCounted, TypeOK
      <4>2. CASE ~(reply[c].resetIn > 0)
        BY <2>8, <4>2 DEF Succeed, TypeOK
      <4> QED BY <4>1, <4>2
    <3> QED BY <1>0, <2>8, <3>2, <3>3, <3>5, <3>6, <2>a, <2>b DEF Succeed, TypeOK
  <2>9. CASE Unauthorized(c)
    <3>1. pc[c] = "flight" /\ Notify(c, "raised")
      BY <2>9 DEF Unauthorized, Answered
    <3>2. pc' \in [Caller -> Label]
      BY <3>1, LandedByNotify DEF Landed
    <3> QED BY <1>0, <2>9, <3>2, <2>a, <2>b DEF Unauthorized, TypeOK
  <2>10. CASE TransientFailure(c)
    <3>1. pc[c] = "flight" /\ RetryOrFail(c, 0)
      BY <2>10 DEF TransientFailure, Answered
    <3>2. /\ pc' \in [Caller -> Label] /\ timer' \in [Caller -> Nat]
          /\ attempt' \in [Caller -> 0 .. MaxRetries]
      BY <3>1, LandedByRetry DEF Landed
    <3> QED BY <1>0, <2>10, <3>2, <2>a, <2>b DEF TransientFailure, TypeOK
  <2>11. CASE TimeOut(c)
    <3>1. pc[c] = "flight" /\ RetryOrFail(c, 0)
      BY <2>11 DEF TimeOut
    <3>2. /\ pc' \in [Caller -> Label] /\ timer' \in [Caller -> Nat]
          /\ attempt' \in [Caller -> 0 .. MaxRetries]
      BY <3>1, LandedByRetry DEF Landed
    <3> QED BY <1>0, <2>11, <3>2, <2>a, <2>b DEF TimeOut, TypeOK
  <2>12. CASE SecondaryLimit(c)
    <3>1. /\ pc[c] = "flight" /\ reply[c] # None /\ reply[c].status = "secondary"
          /\ RetryOrFail(c, reply[c].after)
      BY <2>12 DEF SecondaryLimit, Answered
    <3>2. reply[c] \in Reply
      BY <3>1 DEF TypeOK
    <3>3. reply[c].after \in Nat
      BY <3>1, <3>2 DEF Reply, Turned
    <3>4. /\ pc' \in [Caller -> Label] /\ timer' \in [Caller -> Nat]
          /\ attempt' \in [Caller -> 0 .. MaxRetries]
      BY <3>1, <3>3, LandedByRetry DEF Landed
    <3>5. Halved \in 1 .. MaxConcurrency
      BY DEF Halved, LargerOf, TypeOK
    <3> QED BY <1>0, <2>12, <3>4, <3>5, <2>a, <2>b DEF SecondaryLimit, TypeOK
  <2>13. CASE Retry(c)
    BY <1>0, <2>13, <2>b, Strolled DEF Retry, Label, TypeOK
  <2>14. CASE GoOn(c)
    BY <1>0, <2>14, <2>b, Strolled DEF GoOn, Label, TypeOK
  <2> QED BY <1>4, <2>1, <2>2, <2>3, <2>4, <2>5, <2>6, <2>7, <2>8, <2>9, <2>10, <2>11,
             <2>12, <2>13, <2>14 DEF Step
<1>5. ASSUME UNCHANGED vars PROVE TypeOK'
  BY <1>5 DEF vars, github, limiter, task, history, TypeOK
<1> QED BY <1>1, <1>2, <1>3, <1>4, <1>5 DEF Next

-----------------------------------------------------------------------------
(* The answers on their way are of the present window or of an earlier one,   *)
(* and those of the present one are counted.                                  *)

LEMMA FewerCounts ==
    ASSUME NEW S \in SUBSET Caller, NEW T \in SUBSET S
    PROVE  Cardinality(T) <= Cardinality(S) /\ Cardinality(T) \in Nat
<1>1. IsFiniteSet(S)
  BY CallerAssumption, FS_Subset
<1> QED BY <1>1, FS_Subset, FS_CardinalityType

\* An action that only takes answers away.
LEMMA AnswersTaken ==
    ASSUME TypeOK, RepliesTimely, DueCounted, resetsIn' = resetsIn, unseen' = unseen,
           \A d \in Caller : reply'[d] # None =>
               reply'[d] = reply[d] /\ (pc[d] = "flight" => pc'[d] = "flight")
    PROVE  RepliesTimely' /\ DueCounted'
<1>1. RepliesTimely'
  BY DEF RepliesTimely, HasOk
<1>2. Due' \in SUBSET Due /\ Due \in SUBSET Caller
  BY DEF Due, HasOk
<1>3. Cardinality(Due') <= Cardinality(Due) /\ Cardinality(Due') \in Nat
      /\ Cardinality(Due) \in Nat
  BY <1>2, FewerCounts
<1> QED BY <1>1, <1>3 DEF DueCounted, TypeOK

LEMMA AnswersStep ==
    ASSUME TypeOK, SlotsConserved, RepliesTimely, DueCounted, [Next]_vars
    PROVE  RepliesTimely' /\ DueCounted'
<1>0. Due \in SUBSET Caller /\ Cardinality(Due) \in Nat /\ unseen \in Nat
  BY CallerCounts DEF Due, TypeOK
<1>1. ASSUME Tick PROVE RepliesTimely' /\ DueCounted'
  <2>1. ASSUME NEW c \in Caller, HasOk(c)'
        PROVE  HasOk(c) /\ reply'[c].resetIn = Nearer(reply[c].resetIn)
    <3>1. reply'[c] = IF HasOk(c) THEN [reply[c] EXCEPT !.resetIn = Nearer(reply[c].resetIn)]
                                  ELSE reply[c]
      BY <1>1 DEF Tick, HasOk
    <3>2. HasOk(c)
      BY <2>1, <3>1 DEF HasOk
    <3>3. reply[c] \in [status : {"ok"}, remaining : 0 .. Limit, resetIn : 0 .. Window]
      BY <3>2 DEF HasOk, TypeOK, Reply, Turned
    <3> QED BY <3>1, <3>2, <3>3
  <2>2. ASSUME NEW c \in Caller, reply'[c] # None PROVE pc'[c] = "flight"
    <3>1. reply[c] # None
      BY <1>1, <2>2 DEF Tick
    <3> QED BY <1>1, <3>1 DEF Tick, RepliesTimely
  <2>3. ASSUME NEW c \in Caller, HasOk(c)
        PROVE  /\ resetsIn = 1 => Nearer(reply[c].resetIn) = 0
               /\ resetsIn # 1 => Nearer(reply[c].resetIn) \in {0, resetsIn - 1}
    <3>1. reply[c].resetIn \in {0, resetsIn} /\ resetsIn \in Nat
      BY <2>3, CountAssumption DEF RepliesTimely, TypeOK, CountAssumption
    <3> QED BY <3>1 DEF Nearer, LargerOf
  <2>4. CASE resetsIn = 1
    <3>1. \A c \in Caller : HasOk(c)' => reply'[c].resetIn = 0
      BY <2>1, <2>3, <2>4
    <3>2. Due' = {}
      BY <3>1 DEF Due
    <3>3. unseen' = 0 /\ Cardinality(Due') = 0
      BY <1>1, <2>4, <3>2, FS_EmptySet DEF Tick
    <3>4. RepliesTimely'
      BY <2>2, <3>1 DEF RepliesTimely
    <3> QED BY <3>3, <3>4 DEF DueCounted
  <2>5. CASE resetsIn # 1
    <3>1. resetsIn' = resetsIn - 1 /\ unseen' = unseen
      BY <1>1, <2>5 DEF Tick, history
    <3>2. RepliesTimely'
      BY <2>1, <2>2, <2>3, <2>5, <3>1 DEF RepliesTimely
    <3>3. Due' \in SUBSET Due
      <4>1. ASSUME NEW c \in Caller, HasOk(c)', reply'[c].resetIn > 0
            PROVE  c \in Due
        <5>1. HasOk(c) /\ reply'[c].resetIn = Nearer(reply[c].resetIn)
          BY <2>1, <4>1
        <5>2. reply[c].resetIn \in {0, resetsIn} /\ resetsIn \in Nat /\ resetsIn > 0
          BY <5>1, CountAssumption DEF RepliesTimely, TypeOK, CountAssumption
        <5>3. reply[c].resetIn > 0
          BY <4>1, <5>1, <5>2 DEF Nearer, LargerOf
        <5> QED BY <5>1, <5>3 DEF Due
      <4> QED BY <4>1 DEF Due
    <3>4. Cardinality(Due') <= Cardinality(Due) /\ Cardinality(Due') \in Nat
      BY <3>3, <1>0, FewerCounts
    <3> QED BY <3>1, <3>2, <3>4, <1>0 DEF DueCounted
  <2> QED BY <2>4, <2>5
<1>2. ASSUME NEW c \in Caller, Charge(c) PROVE RepliesTimely' /\ DueCounted'
  <2>1. /\ pc[c] = "flight" /\ reply[c] = None /\ unseen' = unseen + 1 /\ resetsIn' = resetsIn
        /\ pc' = pc
        /\ reply' = [reply EXCEPT ![c] = [status |-> "ok", remaining |-> quota - 1,
                                          resetIn |-> resetsIn]]
    BY <1>2 DEF Charge
  <2>2. /\ reply'[c].resetIn = resetsIn
        /\ \A d \in Caller \ {c} : reply'[d] = reply[d]
    BY <2>1 DEF TypeOK
  <2>3. RepliesTimely'
    BY <2>1, <2>2 DEF RepliesTimely, HasOk
  <2>4. c \in Caller \ Due /\ Due' \in SUBSET (Due \cup {c}) /\ Due \cup {c} \in SUBSET Caller
    BY <2>1, <2>2 DEF Due, HasOk
  <2>5. /\ Cardinality(Due') <= Cardinality(Due \cup {c}) /\ Cardinality(Due') \in Nat
        /\ Cardinality(Due \cup {c}) = Cardinality(Due) + 1
    BY <2>4, <1>0, FewerCounts, CallerCounts
  <2> QED BY <2>1, <2>3, <2>5, <1>0 DEF DueCounted
<1>3. ASSUME NEW c \in Caller, TurnAway(c) PROVE RepliesTimely' /\ DueCounted'
  <2>1. PICK answer \in Turned : reply' = [reply EXCEPT ![c] = answer]
    BY <1>3 DEF TurnAway
  <2>2. /\ pc' = pc /\ pc[c] = "flight" /\ resetsIn' = resetsIn /\ unseen' = unseen
        /\ reply'[c] = answer /\ \A d \in Caller \ {c} : reply'[d] = reply[d]
    BY <1>3, <2>1 DEF TurnAway, github, history, TypeOK
  <2>3. ~HasOk(c)'
    BY <2>2 DEF HasOk, Turned
  <2>4. RepliesTimely'
    BY <2>2, <2>3 DEF RepliesTimely, HasOk
  <2>5. Due' \in SUBSET Due
    BY <2>2, <2>3 DEF Due, HasOk
  <2>6. Cardinality(Due') <= Cardinality(Due) /\ Cardinality(Due') \in Nat
    BY <2>5, <1>0, FewerCounts
  <2> QED BY <2>2, <2>4, <2>6, <1>0 DEF DueCounted
<1>4. ASSUME NEW c \in Caller, Step(c) PROVE RepliesTimely' /\ DueCounted'
  <2> USE DEF github, limiter, task, history
  <2>a. ASSUME pc[c] # "flight", reply' = reply, NEW label \in Label, Goto(c, label),
               resetsIn' = resetsIn, unseen' = unseen
        PROVE  RepliesTimely' /\ DueCounted'
    <3>1. \A d \in Caller : pc[d] = "flight" => pc'[d] = "flight"
      BY <2>a, Strolled
    <3> QED BY <2>a, <3>1, AnswersTaken
  <2>b. ASSUME Landed(c), reply' = [reply EXCEPT ![c] = None],
               resetsIn' = resetsIn, unseen' = unseen
        PROVE  RepliesTimely' /\ DueCounted'
    <3>1. \A d \in Caller : reply'[d] # None =>
             reply'[d] = reply[d] /\ (pc[d] = "flight" => pc'[d] = "flight")
      BY <2>b DEF Landed, TypeOK
    <3> QED BY <2>b, <3>1, AnswersTaken
  <2>1. CASE Call(c)
    BY <2>1, <2>a DEF Call, Label
  <2>2. CASE BudgetLeft(c)
    BY <2>2, <2>a DEF BudgetLeft, Label
  <2>3. CASE BeginWait(c)
    BY <2>3, <2>a DEF BeginWait, Label
  <2>4. CASE RefuseWait(c)
    BY <2>4, <2>a DEF RefuseWait, Label
  <2>5. CASE EndWait(c)
    BY <2>5, <2>a DEF EndWait, Label
  <2>6. CASE Admit(c)
    <3>1. \A d \in Caller : pc[d] = "flight" => pc'[d] = "flight"
      BY <2>6, Strolled DEF Admit, Label
    <3> QED BY <2>6, <3>1, AnswersTaken DEF Admit
  <2>7. CASE Queue(c)
    BY <2>7, <2>a DEF Queue, Label
  <2>8. CASE Succeed(c)
    <3>1. /\ pc[c] = "flight" /\ HasOk(c) /\ Notify(c, "idle") /\ resetsIn' = resetsIn
          /\ reply' = [reply EXCEPT ![c] = None]
          /\ unseen' = IF reply[c].resetIn > 0 THEN unseen - 1 ELSE unseen
      BY <2>8 DEF Succeed, Answered, HasOk
    <3>2. Landed(c)
      BY <3>1, LandedByNotify
    <3>3. \A d \in Caller : reply'[d] # None =>
             reply'[d] = reply[d] /\ (pc[d] = "flight" => pc'[d] = "flight")
      BY <3>1, <3>2 DEF Landed, TypeOK
    <3>4. RepliesTimely'
      BY <3>1, <3>3 DEF RepliesTimely, HasOk
    <3>5. Due' \in SUBSET (Due \ {c}) /\ Due \ {c} \in SUBSET Caller
      BY <3>1, <3>3 DEF Due, HasOk, TypeOK
    <3>6. Cardinality(Due') <= Cardinality(Due \ {c}) /\ Cardinality(Due') \in Nat
          /\ Cardinality(Due \ {c}) \in Nat
      BY <3>5, FewerCounts
    <3>7. CASE reply[c].resetIn > 0
      <4>1. c \in Due
        BY <3>1, <3>7 DEF Due
      <4>2. Cardinality(Due \ {c}) = Cardinality(Due) - 1
        BY <4>1, <1>0, CallerCounts
      <4> QED BY <3>1, <3>4, <3>6, <3>7, <4>2, <1>0 DEF DueCounted
    <3>8. CASE ~(reply[c].resetIn > 0)
      <4>1. Due \ {c} = Due
        BY <3>8 DEF Due
      <4> QED BY <3>1, <3>4, <3>6, <3>8, <4>1, <1>0 DEF DueCounted
    <3> QED BY <3>7, <3>8
  <2>9. CASE Unauthorized(c)
    <3>1. pc[c] = "flight" /\ Notify(c, "raised")
      BY <2>9 DEF Unauthorized, Answered
    <3> QED BY <2>9, <2>b, <3>1, LandedByNotify DEF Unauthorized
  <2>10. CASE TransientFailure(c)
    <3>1. pc[c] = "flight" /\ RetryOrFail(c, 0)
      BY <2>10 DEF TransientFailure, Answered
    <3> QED BY <2>10, <2>b, <3>1, LandedByRetry DEF TransientFailure
  <2>11. CASE TimeOut(c)
    <3>1. pc[c] = "flight" /\ RetryOrFail(c, 0)
      BY <2>11 DEF TimeOut
    <3> QED BY <2>11, <2>b, <3>1, LandedByRetry DEF TimeOut
  <2>12. CASE SecondaryLimit(c)
    <3>1. /\ pc[c] = "flight" /\ reply[c] # None /\ reply[c].status = "secondary"
          /\ RetryOrFail(c, reply[c].after)
      BY <2>12 DEF SecondaryLimit, Answered
    <3>2. reply[c] \in Reply
      BY <3>1 DEF TypeOK
    <3>3. reply[c].after \in Nat
      BY <3>1, <3>2, CountAssumption DEF Reply, Turned, CountAssumption
    <3> QED BY <2>12, <2>b, <3>1, <3>3, LandedByRetry DEF SecondaryLimit
  <2>13. CASE Retry(c)
    BY <2>13, <2>a DEF Retry, Label
  <2>14. CASE GoOn(c)
    BY <2>14, <2>a DEF GoOn, Label
  <2> QED BY <1>4, <2>1, <2>2, <2>3, <2>4, <2>5, <2>6, <2>7, <2>8, <2>9, <2>10, <2>11,
             <2>12, <2>13, <2>14 DEF Step
<1>5. ASSUME UNCHANGED vars PROVE RepliesTimely' /\ DueCounted'
  BY <1>5, AnswersTaken DEF vars, github, task, history
<1> QED BY <1>1, <1>2, <1>3, <1>4, <1>5 DEF Next

-----------------------------------------------------------------------------
(* The gate before the budget.  While it is open, what is left stays above    *)
(* the floor but for N points for each time the tracker was misled; once it   *)
(* is shut, only the callers that have passed it can take one more each.      *)

Gate ==
    /\ Exhausted => /\ known.resetIn = resetsIn
                    /\ Left + N * (1 + misled) > ReserveFloor + Cardinality(Past)
    /\ ~Exhausted => Left + N * misled > ReserveFloor

LEMMA PastCounts ==
    ASSUME TypeOK
    PROVE  /\ Past \in SUBSET Caller /\ Cardinality(Past) \in Nat /\ N \in Nat
           /\ Cardinality(Past) <= N
           /\ Left \in Nat /\ misled \in Nat /\ ReserveFloor \in Nat
           /\ N * misled \in Nat /\ N * (1 + misled) = N * misled + N
<1>1. Past \in SUBSET Caller
  BY DEF Past, InState
<1>2. Cardinality(Past) \in Nat /\ N \in Nat /\ Cardinality(Past) <= N
  BY <1>1, CallerCounts
<1>3. Left \in Nat /\ misled \in Nat /\ ReserveFloor \in Nat
  BY CountAssumption DEF CountAssumption, TypeOK, Left
<1> QED BY <1>1, <1>2, <1>3, OneMore

\* Open or shut, each caller is good for at most one point more.
LEMMA GateEither ==
    ASSUME TypeOK, Gate
    PROVE  Left + N * (1 + misled) > ReserveFloor + Cardinality(Past)
<1>1. CASE Exhausted
  BY <1>1 DEF Gate
<1>2. CASE ~Exhausted
  BY <1>2, PastCounts DEF Gate
<1> QED BY <1>1, <1>2

\* An action that lets nobody past, learns nothing and charges nothing unseen.
LEMMA GateKept ==
    ASSUME TypeOK, TypeOK', Gate, known' = known, resetsIn' = resetsIn, misled' = misled,
           Left' = Left, Exhausted => Past' \in SUBSET Past
    PROVE  Gate'
<1>1. Exhausted' <=> Exhausted
  BY DEF Exhausted
<1>2. CASE ~Exhausted
  BY <1>1, <1>2 DEF Gate
<1>3. CASE Exhausted
  <2>1. Cardinality(Past') <= Cardinality(Past)
        /\ Cardinality(Past') \in Nat /\ Cardinality(Past) \in Nat
    BY <1>3, PastCounts, FewerCounts
  <2> QED BY <1>1, <1>3, <2>1, PastCounts DEF Gate
<1> QED BY <1>2, <1>3

\* An action by which the tracker takes a figure, right or wrong, leaves l
\* points and has let p callers past.
LEMMA GateLearns ==
    ASSUME TypeOK, NEW l \in Nat, l = Left', NEW p \in Nat, p = Cardinality(Past'),
           NEW figure \in [remaining : 0 .. Limit, resetIn : 0 .. Window],
           Learn(figure, l), resetsIn' = resetsIn,
           l + N * (1 + misled) > ReserveFloor,
           figure.remaining <= ReserveFloor /\ figure.resetIn > 0 =>
               /\ figure.resetIn = resetsIn
               /\ l + N * (1 + misled) > ReserveFloor + p
    PROVE  Gate'
<1>1. known' = figure /\ known' # None
  BY NoneAssumption DEF NoneAssumption, Learn
<1>2. /\ N' = N /\ N \in Nat /\ misled \in Nat /\ ReserveFloor \in Nat
      /\ N * misled \in Nat /\ N * (1 + misled) = N * misled + N
  BY PastCounts DEF N
<1>3. figure.remaining \in Nat /\ figure.resetIn \in Nat
  OBVIOUS
<1>4. misled' = IF l <= ReserveFloor /\ (figure.resetIn = 0 \/ figure.remaining > l)
                THEN misled + 1 ELSE misled
  BY DEF Learn, Misleads
<1>5. Exhausted' <=> figure.remaining <= ReserveFloor /\ figure.resetIn > 0
  BY <1>1 DEF Exhausted
<1>6. SUFFICES /\ Exhausted' => /\ figure.resetIn = resetsIn
                                /\ l + N * (1 + misled') > ReserveFloor + p
               /\ ~Exhausted' => l + N * misled' > ReserveFloor
  BY <1>1, <1>2 DEF Gate
<1>7. CASE misled' = misled + 1
  <2>1. /\ N * misled' = N * (1 + misled)
        /\ N * (1 + misled') = N * (1 + misled) + N
    BY <1>2, <1>7
  <2>2. l + N * misled' > ReserveFloor
    BY <2>1
  <2>3. ASSUME l + N * (1 + misled) > ReserveFloor + p
        PROVE  l + N * (1 + misled') > ReserveFloor + p
    BY <1>2, <2>1, <2>3
  <2> QED BY <1>5, <2>2, <2>3, Zenon
<1>8. CASE misled' = misled
  <2>1. CASE Exhausted'
    BY <1>5, <1>8, <2>1
  <2>2. CASE ~Exhausted'
    <3>1. l > ReserveFloor
      BY <1>2, <1>3, <1>4, <1>5, <1>8, <2>2
    <3>2. l + N * misled > ReserveFloor
      BY <1>2, <3>1, StillMore
    <3> QED BY <1>8, <2>2, <3>2
  <2> QED BY <2>1, <2>2
<1> QED BY <1>4, <1>7, <1>8

LEMMA GateStep ==
    ASSUME TypeOK, TypeOK', RepliesTimely, Gate, [Next]_vars
    PROVE  Gate'
<1>1. ASSUME Tick PROVE Gate'
  <2>1. Past' = Past /\ N' = N
    BY <1>1 DEF Tick, Past, InState, N
  <2>2. CASE resetsIn = 1
    <3>1. Left' = Limit /\ misled' = 0 /\ Limit > ReserveFloor /\ N * 0 = 0
      BY <1>1, <2>2, PastCounts, CountAssumption DEF Tick, CountAssumption, Left
    <3>2. ~Exhausted'
      <4>1. SUFFICES ASSUME Exhausted' PROVE FALSE
        OBVIOUS
      <4>2. known # None /\ known' = [known EXCEPT !.resetIn = Nearer(known.resetIn)]
        BY <1>1, <4>1 DEF Tick, Exhausted
      <4>3. known \in [remaining : 0 .. Limit, resetIn : 0 .. Window]
        BY <4>2 DEF TypeOK
      <4>4. known'.remaining = known.remaining /\ known'.resetIn = Nearer(known.resetIn)
        BY <4>2, <4>3
      <4>5. known.resetIn > 0
        BY <4>1, <4>3, <4>4 DEF Exhausted, Nearer, LargerOf
      <4>6. known.resetIn = resetsIn
        BY <4>1, <4>2, <4>4, <4>5 DEF Exhausted, Gate
      <4> QED BY <4>1, <4>4, <4>6, <2>2 DEF Exhausted, Nearer, LargerOf
    <3>3. Left' + N' * misled' > ReserveFloor
      BY <2>1, <3>1, CountAssumption DEF CountAssumption
    <3> QED BY <3>2, <3>3 DEF Gate
  <2>3. CASE resetsIn # 1
    <3>1. /\ Left' = Left /\ misled' = misled /\ resetsIn' = resetsIn - 1 /\ resetsIn \in Nat
          /\ resetsIn > 1
      BY <1>1, <2>3, CountAssumption DEF Tick, Left, history, TypeOK, CountAssumption
    <3>2. CASE known = None
      <4>1. ~Exhausted /\ ~Exhausted'
        BY <1>1, <3>2 DEF Tick, Exhausted
      <4> QED BY <2>1, <3>1, <4>1 DEF Gate
    <3>3. CASE known # None
      <4>1. known' = [known EXCEPT !.resetIn = Nearer(known.resetIn)]
        BY <1>1, <3>3 DEF Tick
      <4>2. known \in [remaining : 0 .. Limit, resetIn : 0 .. Window]
        BY <3>3 DEF TypeOK
      <4>3. /\ known'.remaining = known.remaining /\ known' # None
            /\ known'.resetIn = Nearer(known.resetIn)
            /\ known' \in [remaining : 0 .. Limit, resetIn : 0 .. Window]
        <5>1. Nearer(known.resetIn) \in 0 .. Window
          BY <4>2, CountAssumption DEF Nearer, LargerOf, CountAssumption
        <5> QED BY <4>1, <4>2, <5>1, NoneAssumption DEF NoneAssumption
      <4>4. CASE Exhausted
        <5>1. known.resetIn = resetsIn
          BY <4>4 DEF Gate
        <5>2. Exhausted' /\ known'.resetIn = resetsIn'
          BY <3>1, <4>3, <4>4, <5>1 DEF Exhausted, Nearer, LargerOf
        <5> QED BY <2>1, <3>1, <4>4, <5>2 DEF Gate
      <4>5. CASE ~Exhausted
        <5>1. ~Exhausted'
          BY <4>2, <4>3, <4>5, <3>3 DEF Exhausted, Nearer, LargerOf
        <5> QED BY <2>1, <3>1, <4>5, <5>1 DEF Gate
      <4> QED BY <4>4, <4>5
    <3> QED BY <3>2, <3>3
  <2> QED BY <2>2, <2>3
<1>2. ASSUME NEW c \in Caller, Charge(c) PROVE Gate'
  <2>1. /\ known' = known /\ resetsIn' = resetsIn /\ misled' = misled /\ Past' = Past
        /\ quota' = quota - 1 /\ unseen' = unseen + 1
    BY <1>2 DEF Charge, Past, InState
  <2>2. Left' = Left
    BY <2>1 DEF Left, TypeOK
  <2> QED BY <2>1, <2>2, GateKept
<1>3. ASSUME NEW c \in Caller, TurnAway(c) PROVE Gate'
  BY <1>3, GateKept DEF TurnAway, Past, InState, Left, github, history
<1>4. ASSUME NEW c \in Caller, Step(c) PROVE Gate'
  <2> USE DEF github, limiter, task, history
  <2>a. ASSUME known' = known, resetsIn' = resetsIn, quota' = quota, unseen' = unseen,
               misled' = misled, Exhausted => Past' \in SUBSET Past
        PROVE  Gate'
    BY <2>a, GateKept DEF Left
  <2>b. ASSUME known' = known, resetsIn' = resetsIn, quota' = quota, unseen' = unseen,
               misled' = misled, Landed(c)
        PROVE  Gate'
    BY <2>a, <2>b DEF Landed
  <2>1. CASE Call(c)
    BY <2>1, <2>a, Strolled DEF Call, Label, Past, InState
  <2>2. CASE BudgetLeft(c)
    BY <2>2, <2>a DEF BudgetLeft
  <2>3. CASE BeginWait(c)
    BY <2>3, <2>a, Strolled DEF BeginWait, Label, Past, InState
  <2>4. CASE RefuseWait(c)
    BY <2>4, <2>a, Strolled DEF RefuseWait, Label, Past, InState
  <2>5. CASE EndWait(c)
    <3> DEFINE figure == [remaining |-> Limit, resetIn |-> Window]
    <3>1. Learn(figure, Left) /\ Left' = Left /\ resetsIn' = resetsIn
      BY <2>5 DEF EndWait, Left
    <3>2. figure \in [remaining : 0 .. Limit, resetIn : 0 .. Window]
          /\ ~(figure.remaining <= ReserveFloor)
      BY CountAssumption DEF CountAssumption
    <3>3. Past' \in SUBSET Caller
      BY DEF Past, InState
    <3>4. Cardinality(Past') \in Nat
      BY <3>3, CallerCounts
    <3>5. Left + N * (1 + misled) > ReserveFloor
      BY PastCounts, GateEither
    <3> HIDE DEF figure
    <3> QED BY <3>1, <3>2, <3>4, <3>5, PastCounts, GateLearns
  <2>6. CASE Admit(c)
    BY <2>6, <2>a, Strolled DEF Admit, Label, Past, InState
  <2>7. CASE Queue(c)
    BY <2>7, <2>a, Strolled DEF Queue, Label, Past, InState
  <2>8. CASE Succeed(c)
    <3> DEFINE figure == [remaining |-> reply[c].remaining, resetIn |-> reply[c].resetIn]
    <3>1. /\ pc[c] = "flight" /\ HasOk(c) /\ Notify(c, "idle") /\ resetsIn' = resetsIn
          /\ quota' = quota
          /\ unseen' = IF reply[c].resetIn > 0 THEN unseen - 1 ELSE unseen
          /\ Learn(figure, quota + unseen')
      BY <2>8 DEF Succeed, Answered, HasOk
    <3>2. reply[c] \in [status : {"ok"}, remaining : 0 .. Limit, resetIn : 0 .. Window]
      BY <3>1 DEF HasOk, TypeOK, Reply, Turned
    <3>3. /\ figure \in [remaining : 0 .. Limit, resetIn : 0 .. Window]
          /\ figure.resetIn = reply[c].resetIn
      BY <3>2
    <3>4. figure.resetIn \in {0, resetsIn}
      BY <3>1, <3>3 DEF RepliesTimely
    <3>5. Past' = Past \ {c} /\ c \in Past
      BY <3>1, LandedByNotify DEF Landed, Past, InState
    <3>6. Past \in SUBSET Caller /\ Past' \in SUBSET Caller
      BY DEF Past, InState
    <3>7. /\ Cardinality(Past') = Cardinality(Past) - 1
          /\ Cardinality(Past) \in Nat /\ Cardinality(Past') \in Nat
      BY <3>5, <3>6, CallerCounts
    <3>8. /\ Left' = quota + unseen' /\ Left' = quota' + unseen'
          /\ Left' = IF figure.resetIn > 0 THEN Left - 1 ELSE Left
      BY <3>1, <3>3 DEF Left, TypeOK
    <3>9. PICK l \in Nat : l = Left' /\ l = quota + unseen'
      BY <3>1, <3>8 DEF TypeOK
    <3>10. PICK p \in Nat : p = Cardinality(Past')
      BY <3>7
    <3>11. Left + N * (1 + misled) > ReserveFloor + Cardinality(Past)
      BY GateEither
    <3> HIDE DEF figure
    <3>12. PICK most \in Nat : most = N * (1 + misled)
      BY PastCounts, OneMore
    <3>13. l + most > ReserveFloor + p
      BY <3>7, <3>8, <3>9, <3>10, <3>11, <3>12, PastCounts
    <3>14. l + most > ReserveFloor
      BY <3>13, PastCounts
    <3>15. Learn(figure, l)
      BY <3>1, <3>9
    <3>16. figure.remaining <= ReserveFloor /\ figure.resetIn > 0 => figure.resetIn = resetsIn
      BY <3>3, <3>4
    <3> QED BY <3>1, <3>3, <3>9, <3>10, <3>12, <3>13, <3>14, <3>15, <3>16, GateLearns
  <2>9. CASE Unauthorized(c)
    <3>1. pc[c] = "flight" /\ Notify(c, "raised")
      BY <2>9 DEF Unauthorized, Answered
    <3> QED BY <2>9, <2>b, <3>1, LandedByNotify DEF Unauthorized
  <2>10. CASE TransientFailure(c)
    <3>1. pc[c] = "flight" /\ RetryOrFail(c, 0)
      BY <2>10 DEF TransientFailure, Answered
    <3> QED BY <2>10, <2>b, <3>1, LandedByRetry DEF TransientFailure
  <2>11. CASE TimeOut(c)
    <3>1. pc[c] = "flight" /\ RetryOrFail(c, 0)
      BY <2>11 DEF TimeOut
    <3> QED BY <2>11, <2>b, <3>1, LandedByRetry DEF TimeOut
  <2>12. CASE SecondaryLimit(c)
    <3>1. /\ pc[c] = "flight" /\ reply[c] # None /\ reply[c].status = "secondary"
          /\ RetryOrFail(c, reply[c].after)
      BY <2>12 DEF SecondaryLimit, Answered
    <3>2. reply[c] \in Reply
      BY <3>1 DEF TypeOK
    <3>3. reply[c].after \in Nat
      BY <3>1, <3>2, CountAssumption DEF Reply, Turned, CountAssumption
    <3> QED BY <2>12, <2>b, <3>1, <3>3, LandedByRetry DEF SecondaryLimit
  <2>13. CASE Retry(c)
    BY <2>13, <2>a, Strolled DEF Retry, Label, Past, InState
  <2>14. CASE GoOn(c)
    BY <2>14, <2>a, Strolled DEF GoOn, Label, Past, InState
  <2> QED BY <1>4, <2>1, <2>2, <2>3, <2>4, <2>5, <2>6, <2>7, <2>8, <2>9, <2>10, <2>11,
             <2>12, <2>13, <2>14 DEF Step
<1>5. ASSUME UNCHANGED vars PROVE Gate'
  BY <1>5, GateKept DEF vars, github, task, history, Past, InState, Left
<1> QED BY <1>1, <1>2, <1>3, <1>4, <1>5 DEF Next

-----------------------------------------------------------------------------
(* One caller alone is never misled: it waits until the window has ended, and *)
(* the only answer on its way is the last word on the budget.                 *)

WaitsItOut(c) ==
    pc[c] = "wait" => \/ Exhausted /\ timer[c] = known.resetIn
                      \/ timer[c] = 0 /\ Left = Limit
AnswerIsTrue(c) ==
    HasOk(c) => IF reply[c].resetIn = 0 THEN Left = Limit ELSE reply[c].remaining = quota
Alone == N = 1 => misled = 0 /\ \A c \in Caller : WaitsItOut(c) /\ AnswerIsTrue(c)

\* The one caller is the one that acts.
LEMMA AloneBy ==
    ASSUME NEW c \in Caller,
           N = 1 => misled' = 0 /\ WaitsItOut(c)' /\ AnswerIsTrue(c)'
    PROVE  Alone'
<1>1. SUFFICES ASSUME N = 1 PROVE misled' = 0 /\ \A d \in Caller : WaitsItOut(d)' /\ AnswerIsTrue(d)'
  BY DEF Alone, N
<1>2. \A d \in Caller : d = c
  BY <1>1, OnlyCaller
<1> QED BY <1>1, <1>2

LEMMA AloneStep ==
    ASSUME TypeOK, TypeOK', RepliesTimely, Gate, Alone, [Next]_vars
    PROVE  Alone'
<1> USE DEF github, limiter, task, history
<1>1. ASSUME Tick PROVE Alone'
  <2>0. N = 1 => misled' = 0
    BY <1>1 DEF Tick, Alone
  <2>1. SUFFICES ASSUME N = 1, NEW c \in Caller
                 PROVE  misled' = 0 /\ WaitsItOut(c)' /\ AnswerIsTrue(c)'
    BY <2>0 DEF Alone, N
  <2>2. misled = 0 /\ WaitsItOut(c) /\ AnswerIsTrue(c)
    BY <2>1 DEF Alone
  <2>3. /\ pc' = pc /\ timer'[c] = Nearer(timer[c]) /\ resetsIn \in Nat /\ resetsIn > 0
        /\ timer[c] \in Nat
    <3>1. resetsIn \in Nat /\ resetsIn > 0 /\ timer[c] \in Nat
      BY CountAssumption DEF TypeOK, CountAssumption
    <3> QED BY <1>1, <3>1 DEF Tick
  <2>4. CASE resetsIn = 1
    <3>1. misled' = 0 /\ Left' = Limit
      BY <1>1, <2>4, CountAssumption DEF Tick, Left, CountAssumption
    <3>2. WaitsItOut(c)'
      <4>1. SUFFICES ASSUME pc[c] = "wait" PROVE timer'[c] = 0
        BY <2>3, <3>1 DEF WaitsItOut
      <4>2. timer[c] = 0 \/ timer[c] = 1
        BY <2>2, <2>4, <4>1 DEF WaitsItOut, Gate
      <4> QED BY <2>3, <4>2 DEF Nearer, LargerOf
    <3>3. AnswerIsTrue(c)'
      <4>1. SUFFICES ASSUME HasOk(c)' PROVE reply'[c].resetIn = 0
        BY <3>1 DEF AnswerIsTrue
      <4>2. HasOk(c) /\ reply'[c] = [reply[c] EXCEPT !.resetIn = Nearer(reply[c].resetIn)]
        BY <1>1, <4>1 DEF Tick, HasOk
      <4>3. reply[c] \in [status : {"ok"}, remaining : 0 .. Limit, resetIn : 0 .. Window]
        BY <4>2 DEF HasOk, TypeOK, Reply, Turned
      <4>4. reply[c].resetIn \in {0, 1}
        BY <2>4, <4>2 DEF RepliesTimely
      <4> QED BY <4>2, <4>3, <4>4 DEF Nearer, LargerOf
    <3> QED BY <3>1, <3>2, <3>3
  <2>5. CASE resetsIn # 1
    <3>1. misled' = 0 /\ Left' = Left /\ quota' = quota
      BY <1>1, <2>2, <2>5 DEF Tick, Left
    <3>2. WaitsItOut(c)'
      <4>1. SUFFICES ASSUME pc[c] = "wait"
                     PROVE  \/ Exhausted' /\ timer'[c] = known'.resetIn
                            \/ timer'[c] = 0 /\ Left' = Limit
        BY <2>3 DEF WaitsItOut
      <4>2. CASE timer[c] = 0 /\ Left = Limit
        BY <2>3, <3>1, <4>2 DEF Nearer, LargerOf
      <4>3. CASE Exhausted /\ timer[c] = known.resetIn
        <5>1. /\ known \in [remaining : 0 .. Limit, resetIn : 0 .. Window]
              /\ known' = [known EXCEPT !.resetIn = Nearer(known.resetIn)]
          BY <1>1, <4>3 DEF Tick, Exhausted, TypeOK
        <5>2. known.resetIn > 1
          BY <2>3, <2>5, <4>3 DEF Gate
        <5>3. /\ known'.remaining = known.remaining
              /\ known'.resetIn = Nearer(known.resetIn) /\ known'.resetIn > 0
          BY <5>1, <5>2 DEF Nearer, LargerOf
        <5>4. known' # None
          <6>1. Nearer(known.resetIn) \in 0 .. Window
            BY <5>1, CountAssumption DEF Nearer, LargerOf, CountAssumption
          <6> QED BY <5>1, <6>1, NoneAssumption DEF NoneAssumption
        <5> QED BY <2>3, <4>3, <5>3, <5>4 DEF Exhausted
      <4> QED BY <2>2, <4>1, <4>2, <4>3 DEF WaitsItOut
    <3>3. AnswerIsTrue(c)'
      <4>1. SUFFICES ASSUME HasOk(c)'
                     PROVE IF reply'[c].resetIn = 0 THEN Left' = Limit
                                                    ELSE reply'[c].remaining = quota'
        BY DEF AnswerIsTrue
      <4>2. HasOk(c) /\ reply'[c] = [reply[c] EXCEPT !.resetIn = Nearer(reply[c].resetIn)]
        BY <1>1, <4>1 DEF Tick, HasOk
      <4>3. reply[c] \in [status : {"ok"}, remaining : 0 .. Limit, resetIn : 0 .. Window]
        BY <4>2 DEF HasOk, TypeOK, Reply, Turned
      <4>4. reply[c].resetIn \in {0, resetsIn}
        BY <4>2 DEF RepliesTimely
      <4>5. /\ reply'[c].remaining = reply[c].remaining
            /\ reply'[c].resetIn = 0 <=> reply[c].resetIn = 0
        BY <2>3, <2>5, <4>2, <4>3, <4>4 DEF Nearer, LargerOf
      <4> QED BY <2>2, <3>1, <4>2, <4>5 DEF AnswerIsTrue
    <3> QED BY <3>1, <3>2, <3>3
  <2> QED BY <2>4, <2>5
<1>2. ASSUME NEW c \in Caller, Charge(c) PROVE Alone'
  <2>1. /\ pc'[c] = "flight" /\ misled' = misled /\ quota' = quota - 1
        /\ reply'[c] = [status |-> "ok", remaining |-> quota - 1, resetIn |-> resetsIn]
    BY <1>2 DEF Charge, TypeOK
  <2>2. reply'[c].resetIn # 0 /\ reply'[c].remaining = quota'
    BY <2>1, CountAssumption DEF TypeOK, CountAssumption
  <2> QED BY <2>1, <2>2, AloneBy DEF Alone, WaitsItOut, AnswerIsTrue
<1>3. ASSUME NEW c \in Caller, TurnAway(c) PROVE Alone'
  <2>1. pc'[c] = "flight" /\ misled' = misled /\ reply'[c] \in Turned
    BY <1>3 DEF TurnAway, TypeOK
  <2> QED BY <2>1, AloneBy DEF Alone, WaitsItOut, AnswerIsTrue, HasOk, Turned
<1>4. ASSUME NEW c \in Caller, Step(c) PROVE Alone'
  <2>a. ASSUME pc[c] # "flight", reply' = reply, NEW label \in Label \ {"wait"},
               Goto(c, label), misled' = misled
        PROVE  Alone'
    <3>1. reply'[c] = None
      BY <2>a DEF RepliesTimely
    <3>2. pc'[c] # "wait"
      BY <2>a, Strolled
    <3> QED BY <2>a, <3>1, <3>2, AloneBy DEF Alone, WaitsItOut, AnswerIsTrue, HasOk
  <2>b. ASSUME Landed(c), reply' = [reply EXCEPT ![c] = None], N = 1 => misled' = 0
        PROVE  Alone'
    <3>1. reply'[c] = None /\ pc'[c] # "wait"
      BY <2>b DEF Landed, TypeOK
    <3> QED BY <2>b, <3>1, AloneBy DEF Alone, WaitsItOut, AnswerIsTrue, HasOk
  <2>1. CASE Call(c)
    BY <2>1, <2>a DEF Call, Label
  <2>2. CASE BudgetLeft(c)
    BY <2>2, <2>a DEF BudgetLeft, Label
  <2>3. CASE BeginWait(c)
    <3>1. reply'[c] = None /\ misled' = misled /\ known' = known
      BY <2>3 DEF BeginWait, RepliesTimely
    <3>2. Exhausted' /\ timer'[c] = known'.resetIn
      BY <2>3, <3>1 DEF BeginWait, Exhausted, TypeOK
    <3> QED BY <3>1, <3>2, AloneBy DEF Alone, WaitsItOut, AnswerIsTrue, HasOk
  <2>4. CASE RefuseWait(c)
    BY <2>4, <2>a DEF RefuseWait, Label
  <2>5. CASE EndWait(c)
    <3>1. /\ pc[c] = "wait" /\ timer[c] = 0 /\ reply' = reply /\ Goto(c, "acquire")
          /\ Learn([remaining |-> Limit, resetIn |-> Window], Left)
      BY <2>5 DEF EndWait, Left
    <3>2. reply'[c] = None /\ pc'[c] # "wait"
      BY <3>1, Strolled DEF RepliesTimely, Label
    <3>3. ASSUME N = 1 PROVE misled' = 0
      <4>1. misled = 0 /\ WaitsItOut(c)
        BY <3>3 DEF Alone
      <4>2. known.resetIn # 0 \/ ~Exhausted
        BY DEF Exhausted
      <4>3. Left = Limit
        BY <3>1, <4>1, <4>2 DEF WaitsItOut
      <4> QED BY <3>1, <4>1, <4>3, CountAssumption DEF Learn, Misleads, CountAssumption
    <3> QED BY <3>2, <3>3, AloneBy DEF WaitsItOut, AnswerIsTrue, HasOk
  <2>6. CASE Admit(c)
    <3>1. reply'[c] = None /\ pc'[c] # "wait" /\ misled' = misled
      BY <2>6, Strolled DEF Admit, RepliesTimely, Label
    <3> QED BY <3>1, AloneBy DEF Alone, WaitsItOut, AnswerIsTrue, HasOk
  <2>7. CASE Queue(c)
    BY <2>7, <2>a DEF Queue, Label
  <2>8. CASE Succeed(c)
    <3>1. /\ pc[c] = "flight" /\ HasOk(c) /\ Notify(c, "idle") /\ quota' = quota
          /\ reply' = [reply EXCEPT ![c] = None]
          /\ unseen' = IF reply[c].resetIn > 0 THEN unseen - 1 ELSE unseen
          /\ misled' = IF Misleads([remaining |-> reply[c].remaining,
                                    resetIn |-> reply[c].resetIn], quota + unseen')
                       THEN misled + 1 ELSE misled
      BY <2>8 DEF Succeed, Answered, HasOk, Learn
    <3>2. reply[c] \in [status : {"ok"}, remaining : 0 .. Limit, resetIn : 0 .. Window]
      BY <3>1 DEF HasOk, TypeOK, Reply, Turned
    <3>3. ASSUME N = 1 PROVE misled' = 0
      <4>1. misled = 0 /\ AnswerIsTrue(c)
        BY <3>3 DEF Alone
      <4>2. CASE reply[c].resetIn = 0
        <5>1. quota + unseen' = Limit
          BY <3>1, <4>1, <4>2 DEF AnswerIsTrue, Left
        <5> QED BY <3>1, <4>1, <5>1, CountAssumption DEF Misleads, CountAssumption
      <4>3. CASE reply[c].resetIn # 0
        <5>1. reply[c].remaining = quota /\ unseen' \in Nat /\ quota \in Nat
          BY <3>1, <4>1, <4>3 DEF AnswerIsTrue, TypeOK
        <5> QED BY <3>1, <4>1, <4>3, <5>1 DEF Misleads
      <4> QED BY <4>2, <4>3
    <3> QED BY <2>b, <3>1, <3>3, LandedByNotify
  <2>9. CASE Unauthorized(c)
    <3>1. pc[c] = "flight" /\ Notify(c, "raised")
      BY <2>9 DEF Unauthorized, Answered
    <3> QED BY <2>9, <2>b, <3>1, LandedByNotify DEF Unauthorized, Alone
  <2>10. CASE TransientFailure(c)
    <3>1. pc[c] = "flight" /\ RetryOrFail(c, 0)
      BY <2>10 DEF TransientFailure, Answered
    <3> QED BY <2>10, <2>b, <3>1, LandedByRetry DEF TransientFailure, Alone
  <2>11. CASE TimeOut(c)
    <3>1. pc[c] = "flight" /\ RetryOrFail(c, 0)
      BY <2>11 DEF TimeOut
    <3> QED BY <2>11, <2>b, <3>1, LandedByRetry DEF TimeOut, Alone
  <2>12. CASE SecondaryLimit(c)
    <3>1. /\ pc[c] = "flight" /\ reply[c] # None /\ reply[c].status = "secondary"
          /\ RetryOrFail(c, reply[c].after)
      BY <2>12 DEF SecondaryLimit, Answered
    <3>2. reply[c] \in Reply
      BY <3>1 DEF TypeOK
    <3>3. reply[c].after \in Nat
      BY <3>1, <3>2, CountAssumption DEF Reply, Turned, CountAssumption
    <3> QED BY <2>12, <2>b, <3>1, <3>3, LandedByRetry DEF SecondaryLimit, Alone
  <2>13. CASE Retry(c)
    BY <2>13, <2>a DEF Retry, Label
  <2>14. CASE GoOn(c)
    BY <2>14, <2>a DEF GoOn, Label
  <2> QED BY <1>4, <2>1, <2>2, <2>3, <2>4, <2>5, <2>6, <2>7, <2>8, <2>9, <2>10, <2>11,
             <2>12, <2>13, <2>14 DEF Step
<1>5. ASSUME UNCHANGED vars PROVE Alone'
  BY <1>5 DEF vars, Alone, N, WaitsItOut, AnswerIsTrue, Exhausted, Left, HasOk
<1> QED BY <1>1, <1>2, <1>3, <1>4, <1>5 DEF Next

-----------------------------------------------------------------------------
(* The theorems.                                                              *)

IInv == /\ TypeOK /\ SlotsConserved /\ WaitsWithinCeiling
        /\ RepliesTimely /\ DueCounted /\ Gate /\ Alone

LEMMA InitHolds == Init => IInv
<1> SUFFICES ASSUME Init PROVE IInv
  OBVIOUS
<1> USE CountAssumption DEF CountAssumption
<1>1. TypeOK
  BY DEF Init, TypeOK
<1>2. SlotsConserved
  <2>1. {c \in Caller : pc[c] = "flight"} = {}
    BY DEF Init
  <2>2. Cardinality({c \in Caller : pc[c] = "flight"}) = 0
    BY <2>1, FS_EmptySet
  <2> QED BY <2>2 DEF Init, SlotsConserved
<1>3. WaitsWithinCeiling /\ RepliesTimely
  BY DEF Init, WaitsWithinCeiling, RepliesTimely, HasOk
<1>4. DueCounted
  <2>1. Due = {}
    BY DEF Init, Due, HasOk
  <2> QED BY <2>1, FS_EmptySet DEF Init, DueCounted
<1>5. Gate
  <2>1. ~Exhausted /\ misled = 0 /\ Left > ReserveFloor /\ N * 0 = 0 /\ Left \in Nat
    BY <1>1, PastCounts DEF Init, Exhausted, Left
  <2> QED BY <2>1 DEF Gate
<1>6. Alone
  BY DEF Init, Alone, WaitsItOut, AnswerIsTrue, HasOk
<1> QED BY <1>1, <1>2, <1>3, <1>4, <1>5, <1>6 DEF IInv

LEMMA CeilingStep ==
    ASSUME WaitsWithinCeiling, [Next]_vars
    PROVE  WaitsWithinCeiling'
<1> USE DEF WaitsWithinCeiling
<1>1. CASE Tick
  BY <1>1 DEF Tick
<1>2. ASSUME NEW c \in Caller, BeginWait(c) PROVE WaitsWithinCeiling'
  BY <1>2 DEF BeginWait, WaitIsSafe
<1>3. ASSUME NEW c \in Caller, Step(c) \/ Charge(c) \/ TurnAway(c), ~BeginWait(c)
      PROVE  totalWait' = totalWait
  BY <1>3 DEF Step, Charge, TurnAway, Call, BudgetLeft, RefuseWait, EndWait, Admit, Queue,
              Succeed, Unauthorized, TransientFailure, TimeOut, SecondaryLimit, Retry, GoOn
<1>4. CASE UNCHANGED vars
  BY <1>4 DEF vars
<1> QED BY <1>1, <1>2, <1>3, <1>4 DEF Next

LEMMA Inductive == Spec => []IInv
<1>1. IInv /\ [Next]_vars => IInv'
  <2> SUFFICES ASSUME IInv, [Next]_vars PROVE IInv'
    OBVIOUS
  <2>1. TypeOK'
    BY TypeStep DEF IInv
  <2>2. SlotsConserved' /\ WaitsWithinCeiling'
    BY SlotsStep, CeilingStep DEF IInv
  <2>3. RepliesTimely' /\ DueCounted'
    BY AnswersStep DEF IInv
  <2>4. Gate' /\ Alone'
    BY <2>1, GateStep, AloneStep DEF IInv
  <2> QED BY <2>1, <2>2, <2>3, <2>4 DEF IInv
<1> QED BY <1>1, InitHolds, PTL DEF Spec

(* The variables keep their types: no reduction takes the concurrency bound    *)
(* to zero, no retry runs past the last delay, no count becomes negative.      *)
THEOREM TransportTypes == Spec => []TypeOK
BY Inductive, PTL DEF IInv

(* The limiter's count is the number of requests in flight and never passes    *)
(* max_concurrency, on every path out of a request and under any signals.      *)
THEOREM SlotsAreConserved == Spec => []SlotsConserved
BY Inductive, PTL DEF IInv

(* The rate-limit waits of all callers together stay within the ceiling.       *)
THEOREM WaitsStayWithinCeiling == Spec => []WaitsWithinCeiling
BY Inductive, PTL DEF IInv

(* Lost and late answers aside, the reserve is taken only by callers that had  *)
(* passed the check, once for each time the tracker was misled; and with one   *)
(* caller it never is.                                                         *)
THEOREM FloorHolds == Spec => []FloorCrossedOnlyUnseen
<1>1. IInv => FloorCrossedOnlyUnseen
  <2> SUFFICES ASSUME IInv PROVE FloorCrossedOnlyUnseen
    OBVIOUS
  <2>1. Left + N * (1 + misled) > ReserveFloor + Cardinality(Past)
    BY GateEither DEF IInv
  <2>2. PICK most \in Nat : most = N * (1 + misled)
    BY PastCounts, OneMore DEF IInv
  <2>3. Left + most > ReserveFloor
    BY <2>1, <2>2, PastCounts DEF IInv
  <2>4. quota + unseen + Cardinality(Caller) * (1 + misled) > ReserveFloor
    BY <2>2, <2>3 DEF Left, N
  <2>5. Cardinality(Caller) = 1 => misled = 0
    BY DEF IInv, Alone, N
  <2> QED BY <2>4, <2>5 DEF FloorCrossedOnlyUnseen
<1> QED BY <1>1, Inductive, PTL

=============================================================================
