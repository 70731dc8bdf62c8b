-------------------------- MODULE OrgDirectoryProofs --------------------------
(***************************************************************************)
(* Theorems about OrgDirectory and its failure guard, for every set of     *)
(* teams, every size of a connection, every page size and any thresholds   *)
(* of the guard.                                                           *)
(***************************************************************************)
EXTENDS OrgDirectory, SequenceFacts, FiniteSetTheorems

\* The guard's counters are functions of the requests of this run, and a run whose
\* guard has raised is over.
FailedIn(v, n) == {i \in 1 .. n : v[i]}
\* The last k of v failed, and the one before them did not.
RowIn(v, k) == /\ k \in 0 .. Len(v)
               /\ \A i \in Len(v) - k + 1 .. Len(v) : v[i]
               /\ k < Len(v) => ~v[Len(v) - k]
CountersTellHistory ==
    /\ requests \in Seq(BOOLEAN) /\ total = Len(requests)
    /\ failures = Cardinality(FailedIn(requests, Len(requests)))
    /\ RowIn(requests, consecutive)
    /\ tripped \in BOOLEAN /\ (tripped => pc = "down")
GuardInv == CountersTellHistory /\ StopsExactlyAtOutage

\* Where the engine is, and with which connection.
InLoop    == pc \in {"query", "page"}
FanningOut == pc = "next" \/ (pc \in {"query", "page", "give_up"} /\ conn # Teams)
Placement ==
    /\ pc \in {"query", "page", "give_up", "status"} => conn \in Connection
    /\ InLoop => cursor[conn] # Done /\ at = cursor[conn]
    /\ InLoop /\ conn = Teams => "teams" \notin complete
    /\ pc = "give_up" => conn # Teams /\ conn \in ledger
    /\ FanningOut => "teams" \in complete
    /\ cursor[Teams] # Done
    /\ "team_members" \in complete => "teams" \in complete

\* The page being written: what is left of it runs from the item after Reached to
\* its end, and what is before is stored.
Reached == PageEnd - Len(left)
PageShape ==
    pc = "page" =>
        /\ Reached >= at /\ \A i \in DOMAIN left : left[i] = Reached + i
        /\ \A i \in 1 .. Reached : Has(conn, i)
        /\ (more <=> PageEnd < Size[conn])
        /\ end = IF PageEnd = at THEN 0 ELSE PageEnd

\* Nothing is missing of a connection that is through, or there is a gap.
Accounted(c) == c \in ledger \/ \A i \in 1 .. Size[c] : Has(c, i)
Listed == \A i \in 1 .. Size[Teams] : Teams \in ledger \/ Has(Teams, i)
TeamsThrough ==
    /\ pc = "status" => interrupted \/ Listed
    /\ "teams" \in complete => Listed
OrganizationThrough ==
    pc = "organization_done" \/ "organization" \in complete =>
        Has(Organization, 1) \/ Organization \in ledger
\* A team the file lists is still to come, at work, or through.
NoTeamPassedOver ==
    FanningOut /\ ~interrupted =>
        \A i \in Range(file[Teams]) :
            \/ TeamAt[i] \in Range(roster)
            \/ pc # "next" /\ TeamAt[i] = conn
            \/ Accounted(TeamAt[i])
MembersThrough ==
    "team_members" \in complete => \A i \in Range(file[Teams]) : Accounted(TeamAt[i])

\* Before any crash the files hold nothing twice, and of a team no item the engine
\* has still to fetch.
Fetched(t) == IF pc = "page" /\ conn = t THEN Reached ELSE cursor[t]
NothingTwice ==
    crashes = 0 =>
        /\ IsInjective(file[Organization])
        /\ pc # "organization_done" /\ "organization" \notin complete
               => file[Organization] = <<>>
        /\ \A t \in Team : /\ IsInjective(file[t])
                           /\ cursor[t] # Done => \A i \in Range(file[t]) : i <= Fetched(t)

IInv == /\ TypeOK /\ GuardInv /\ Placement /\ PageShape /\ SkippedIsStored
        /\ TeamsThrough /\ OrganizationThrough /\ NoTeamPassedOver /\ MembersThrough
        /\ NothingTwice

----------------------------------------------------------------------------
(* Type correctness                                                        *)

LEMMA Pages ==
    ASSUME TypeOK, conn \in Connection, at <= Size[conn]
    PROVE  /\ PageEnd \in Nat /\ at <= PageEnd /\ PageEnd <= Size[conn] /\ Size[conn] \in Nat
           /\ PageEnd < Size[conn] => PageEnd > at
<1>1. Size[conn] \in Nat /\ at \in Nat /\ PageSize \in Nat \ {0}
  BY SizeAssumption DEF SizeAssumption, TypeOK
<1> QED BY <1>1 DEF PageEnd

LEMMA ExitTypes ==
    ASSUME Exit
    PROVE  /\ pc' = "down" /\ interrupted' \in BOOLEAN /\ conn' = None /\ roster' \in Seq(Team)
           /\ at' \in Nat /\ end' \in Nat /\ left' \in Seq(Nat) /\ more' \in BOOLEAN
BY EmptyFacts DEF Exit, Goto

LEMMA TypeStep ==
    ASSUME TypeOK, Placement, PageShape, [Next]_vars
    PROVE  TypeOK'
<1> USE DEF disk, memory, page, guard, Goto
<1>0. /\ \A c \in Connection : Size[c] \in Nat /\ cursor[c] \in Nat \cup {Done}
      /\ Done \notin Nat /\ Teams \in Connection /\ \A t \in Team : t \in Connection
  BY SizeAssumption DEF SizeAssumption, TypeOK, Connection
<1>1. CASE Start
  BY <1>1, SizeAssumption DEF Start, SizeAssumption, TypeOK
<1>2. CASE PassOrganization \/ OrganizationFails \/ OrganizationDone
  BY <1>2 DEF PassOrganization, OrganizationFails, OrganizationDone, WithGap, Resource, TypeOK
<1>3. CASE OrganizationAnswers
  <2>1. /\ file' \in [Resource -> Seq(Nat)] /\ file'[Organization] \in Seq({1})
        /\ \A c \in Connection : file'[c] = file[c]
    <3>1. /\ Append(file[Organization], 1) \in Seq({1})
          /\ Append(file[Organization], 1) \in Seq(Nat)
      <4>1. file[Organization] \in Seq({1}) /\ file[Organization] \in Seq(Nat)
        BY DEF TypeOK, Resource
      <4>2. Append(file[Organization], 1) \in Seq({1})
        BY <4>1, AppendFacts
      <4>3. Append(file[Organization], 1) \in Seq(Nat)
        BY <4>1, AppendFacts
      <4> QED BY <4>2, <4>3
    <3>2. CASE file' = [file EXCEPT ![Organization] = Append(@, 1)]
      BY <3>1, <3>2, ConnectionAssumption DEF ConnectionAssumption, Resource, TypeOK
    <3>3. CASE file' = file
      BY <3>3 DEF TypeOK
    <3> QED BY <1>3, <3>2, <3>3 DEF OrganizationAnswers
  <2> QED BY <1>3, <2>1 DEF OrganizationAnswers, WithGap, Resource, TypeOK
<1>4. CASE TakeTeams
  BY <1>0, <1>4 DEF TakeTeams, TypeOK, Placement
<1>5. CASE ReadRoster
  <2>1. file[Teams] \in Seq(1 .. Size[Teams])
    BY <1>0 DEF TypeOK
  <2>2. \A i \in DOMAIN file[Teams] : TeamAt[file[Teams][i]] \in Team
    BY <2>1, SizeAssumption, LenProperties, ElementOfSeq DEF SizeAssumption
  <2>3. roster' \in Seq(Team)
    BY <1>5, <2>1, <2>2, LenProperties, SeqDef DEF ReadRoster
  <2> QED BY <1>5, <2>3 DEF ReadRoster, TypeOK
<1>6. CASE SkipTeam \/ TakeTeam
  <2>1. Head(roster) \in Team /\ roster' \in Seq(Team)
    <3>1. roster \in Seq(Team) /\ roster # <<>> /\ roster' = Tail(roster)
      BY <1>6 DEF SkipTeam, TakeTeam, TypeOK
    <3> QED BY <3>1, TailFacts
  <2>2. FirstItem(Head(roster)) \in Nat
    BY <1>0, <2>1 DEF FirstItem
  <2> QED BY <1>0, <1>6, <2>1, <2>2 DEF SkipTeam, TakeTeam, TypeOK
<1>7. CASE QueryFails \/ NoConnection
  BY <1>7 DEF QueryFails, NoConnection, AfterLoop, WithGap, Placement, Resource, TypeOK
<1>8. CASE GiveUpTeam
  BY <1>8 DEF GiveUpTeam, AfterLoop, Placement, TypeOK
<1>9. CASE PageArrives
  <2>1. conn \in Connection /\ at <= Size[conn] /\ at \in Nat
    BY <1>9, <1>0 DEF PageArrives, Placement, InLoop, TypeOK
  <2>2. PageEnd \in Nat /\ PageEnd - at \in Nat
    BY <2>1, Pages
  <2>3. left' \in Seq(Nat)
    BY <1>9, <2>1, <2>2, SeqDef DEF PageArrives
  <2>4. end' \in Nat /\ more' \in BOOLEAN
    BY <1>9, <2>2 DEF PageArrives
  <2> QED BY <1>9, <2>1, <2>3, <2>4 DEF PageArrives, WithGap, Resource, TypeOK
<1>10. CASE WriteRecord
  <2>1. conn \in Connection /\ at <= Size[conn]
    BY <1>10, <1>0 DEF WriteRecord, Placement, InLoop, TypeOK
  <2>2. left \in Seq(Nat) /\ left # <<>> /\ 1 \in DOMAIN left /\ Head(left) = left[1]
        /\ Len(left) \in Nat \ {0} /\ left' \in Seq(Nat)
    BY <1>10, TailFacts, EmptySeq, LenProperties DEF WriteRecord, TypeOK
  <2>3. left[1] = Reached + 1 /\ Reached >= at
    BY <1>10, <2>2 DEF WriteRecord, PageShape
  <2>4. Head(left) \in 1 .. Size[conn]
    BY <2>1, <2>2, <2>3, Pages DEF Reached, TypeOK
  <2>5. /\ file' \in [Resource -> Seq(Nat)]
        /\ file'[conn] \in Seq(1 .. Size[conn])
        /\ \A c \in Connection \ {conn} : file'[c] = file[c]
        /\ file'[Organization] = file[Organization]
    <3>1. file[conn] \in Seq(1 .. Size[conn])
      BY <2>1 DEF TypeOK
    <3>2. Append(file[conn], Head(left)) \in Seq(1 .. Size[conn])
      BY <2>4, <3>1, AppendFacts
    <3>3. Append(file[conn], Head(left)) \in Seq(Nat) /\ conn \in Resource
      <4>1. file[conn] \in Seq(Nat) /\ Head(left) \in Nat /\ conn \in Resource
        BY <2>1, <2>4 DEF Resource, TypeOK
      <4> QED BY <4>1, AppendFacts
    <3>4. file' = [file EXCEPT ![conn] = Append(@, Head(left))] /\ conn # Organization
      BY <1>10, <2>1, ConnectionAssumption DEF WriteRecord, ConnectionAssumption
    <3> QED BY <2>1, <3>2, <3>3, <3>4 DEF Resource, TypeOK
  <2> QED BY <1>10, <2>2, <2>5 DEF WriteRecord, TypeOK
<1>11. CASE SaveCursor
  <2>1. conn \in Connection /\ at <= Size[conn]
    BY <1>11, <1>0 DEF SaveCursor, Placement, InLoop, TypeOK
  <2>2. end <= Size[conn] /\ end \in Nat
    BY <1>11, <2>1, Pages DEF SaveCursor, PageShape, TypeOK
  <2>3. Kept \in Nat \cup {Done} /\ (Kept # Done => Kept <= Size[conn])
    BY <2>2 DEF Kept
  <2> QED BY <1>0, <1>11, <2>1, <2>2, <2>3 DEF SaveCursor, AfterLoop, TypeOK
<1>12. CASE TeamsEnd \/ FanOutEnds
  BY <1>12 DEF TeamsEnd, FanOutEnds, WithStatus, TypeOK
<1>13. CASE PhaseEnds \/ GuardStops \/ QueryRaises \/ Crash
  <2>1. /\ Exit /\ cursor' = cursor /\ file' = file /\ complete' = complete /\ starts' = starts
        /\ ledger' \in SUBSET (Resource \cup Unimplemented) /\ crashes' \in Nat
    BY <1>13 DEF PhaseEnds, GuardStops, QueryRaises, Crash, TypeOK
  <2> QED BY <2>1, ExitTypes DEF TypeOK
<1>14. CASE Sigint
  BY <1>14 DEF Sigint, TypeOK
<1>15. CASE UNCHANGED vars
  BY <1>15 DEF vars, TypeOK
<1> QED BY <1>1, <1>2, <1>3, <1>4, <1>5, <1>6, <1>7, <1>8, <1>9, <1>10, <1>11, <1>12, <1>13,
           <1>14, <1>15 DEF Next, Engine

----------------------------------------------------------------------------
(* The guard: its counters tell the history, so it raises at an outage.    *)

OutageIn(v, n) ==
    \/ n >= MaxConsecutive /\ \A i \in n - MaxConsecutive + 1 .. n : v[i]
    \/ n >= MinAttempts /\ Cardinality(FailedIn(v, n)) * RateDen >= RateNum * n

LEMMA OutageIs == \A n : Outage(n) <=> OutageIn(requests, n)
BY DEF Outage, OutageIn, FailedIn

LEMMA FailedCount ==
    ASSUME NEW s, NEW u, NEW n \in Nat, \A i \in 1 .. n : u[i] = s[i]
    PROVE  /\ u[n + 1] => Cardinality(FailedIn(u, n + 1)) = Cardinality(FailedIn(s, n)) + 1
           /\ ~u[n + 1] => Cardinality(FailedIn(u, n + 1)) = Cardinality(FailedIn(s, n))
           /\ \A k \in 1 .. n : FailedIn(u, k) = FailedIn(s, k)
           /\ Cardinality(FailedIn(s, n)) \in Nat
<1>1. \A i \in 1 .. n : u[i] = s[i]
  OBVIOUS
<1>2. \A k \in 1 .. n : FailedIn(u, k) = FailedIn(s, k)
  <2>1. ASSUME NEW k \in 1 .. n PROVE \A i \in 1 .. k : i \in 1 .. n
    BY <1>1
  <2> QED BY <1>1, <2>1, Zenon DEF FailedIn
<1>3. /\ n + 1 \notin FailedIn(s, n) /\ IsFiniteSet(FailedIn(s, n))
      /\ Cardinality(FailedIn(s, n)) \in Nat
  <2>1. IsFiniteSet(1 .. n) /\ FailedIn(s, n) \in SUBSET (1 .. n) /\ n + 1 \notin 1 .. n
    <3>1. n + 1 \notin 1 .. n /\ 1 \in Int /\ n \in Int
      BY <1>1
    <3>2. IsFiniteSet(1 .. n)
      BY <3>1, FS_Interval
    <3> QED BY <3>1, <3>2, Zenon DEF FailedIn
  <2> QED BY <2>1, FS_Subset, FS_CardinalityType
<1>4. 1 .. n + 1 = (1 .. n) \cup {n + 1}
  OBVIOUS
<1>5. ASSUME u[n + 1]
      PROVE  Cardinality(FailedIn(u, n + 1)) = Cardinality(FailedIn(s, n)) + 1
  <2>1. FailedIn(u, n + 1) = FailedIn(s, n) \cup {n + 1}
    BY <1>1, <1>4, <1>5, Zenon DEF FailedIn
  <2> QED BY <1>3, <2>1, FS_AddElement
<1>6. ASSUME ~u[n + 1] PROVE Cardinality(FailedIn(u, n + 1)) = Cardinality(FailedIn(s, n))
  <2>1. FailedIn(u, n + 1) = FailedIn(s, n)
    BY <1>1, <1>4, <1>6, Zenon DEF FailedIn
  <2> QED BY <2>1
<1> QED BY <1>2, <1>3, <1>5, <1>6

\* The guard trips on the counters of a history exactly when that is an outage.
LEMMA TripsAtOutage ==
    ASSUME NEW v \in Seq(BOOLEAN), NEW k, RowIn(v, k)
    PROVE  Trips(k, Len(v), Cardinality(FailedIn(v, Len(v)))) <=> OutageIn(v, Len(v))
<1> DEFINE n == Len(v)
<1>1. MaxConsecutive \in Nat \ {0} /\ n \in Nat /\ k \in 0 .. n
  BY GuardAssumption, LenProperties DEF GuardAssumption, RowIn
<1>2. /\ \A i \in n - k + 1 .. n : v[i]
      /\ k < n => ~v[n - k]
  BY DEF RowIn
<1> HIDE DEF n
<1>3. ASSUME k >= MaxConsecutive
      PROVE  n >= MaxConsecutive /\ \A i \in n - MaxConsecutive + 1 .. n : v[i]
  <2>1. \A i \in n - MaxConsecutive + 1 .. n : i \in n - k + 1 .. n
    BY <1>1, <1>3
  <2>2. \A i \in n - MaxConsecutive + 1 .. n : v[i]
    BY <1>2, <2>1, Zenon
  <2>3. n >= MaxConsecutive
    BY <1>1, <1>3
  <2> QED BY <2>2, <2>3
<1>4. ASSUME n >= MaxConsecutive, \A i \in n - MaxConsecutive + 1 .. n : v[i]
      PROVE  k >= MaxConsecutive
  <2>1. SUFFICES ASSUME k < MaxConsecutive PROVE FALSE
    BY <1>1
  <2>2. k < n /\ n - k \in n - MaxConsecutive + 1 .. n
    BY <1>1, <1>4, <2>1
  <2> QED BY <1>2, <1>4, <2>2, Zenon
<1> QED BY <1>3, <1>4, Zenon DEF Trips, OutageIn, n

\* One more request lengthens the row of failures or ends it.
LEMMA RowGrows ==
    ASSUME NEW s \in Seq(BOOLEAN), NEW k, RowIn(s, k), NEW failed \in BOOLEAN
    PROVE  RowIn(Append(s, failed), IF failed THEN k + 1 ELSE 0)
<1> DEFINE n == Len(s)
           u == Append(s, failed)
<1>1. /\ u \in Seq(BOOLEAN) /\ Len(u) = n + 1 /\ n \in Nat
      /\ \A i \in 1 .. n : u[i] = s[i]
      /\ u[n + 1] = failed
  BY AppendProperties, LenProperties
<1>2. /\ k \in 0 .. n /\ \A i \in n - k + 1 .. n : s[i]
      /\ k < n => ~s[n - k]
  BY DEF RowIn
<1> HIDE DEF n, u
<1>3. CASE failed
  <2>1. ASSUME NEW i \in n + 1 - (k + 1) + 1 .. n + 1 PROVE u[i]
    <3>1. CASE i = n + 1
      BY <1>1, <1>3, <3>1
    <3>2. CASE i # n + 1
      <4>1. i \in 1 .. n /\ i \in n - k + 1 .. n
        BY <1>1, <1>2, <3>2
      <4>2. s[i] /\ u[i] = s[i]
        BY <1>1, <1>2, <4>1, Zenon
      <4> QED BY <4>2
    <3> QED BY <3>1, <3>2
  <2>2. ASSUME k + 1 < n + 1 PROVE ~u[n + 1 - (k + 1)]
    <3>1. k < n /\ n + 1 - (k + 1) = n - k /\ n - k \in 1 .. n
      BY <1>1, <1>2, <2>2
    <3> QED BY <1>1, <1>2, <3>1, Zenon
  <2>3. k + 1 \in 0 .. n + 1
    BY <1>1, <1>2
  <2>4. RowIn(u, k + 1)
    <3>1. /\ k + 1 \in 0 .. Len(u)
          /\ \A i \in Len(u) - (k + 1) + 1 .. Len(u) : u[i]
      BY <1>1, <2>1, <2>3
    <3>2. k + 1 < Len(u) => ~u[Len(u) - (k + 1)]
      <4>1. Len(u) = n + 1
        BY <1>1
      <4>2. ASSUME k + 1 < Len(u) PROVE ~u[Len(u) - (k + 1)]
        <5>1. k + 1 < n + 1 /\ Len(u) - (k + 1) = n + 1 - (k + 1)
          <6>1. n \in Nat /\ k \in Nat
            BY <1>1, <1>2
          <6> QED BY <4>1, <4>2, <6>1
        <5>2. ~u[n + 1 - (k + 1)]
          BY <2>2, <5>1
        <5> QED BY <5>1, <5>2, Zenon
      <4> QED BY <4>2
    <3> QED BY <3>1, <3>2, Zenon DEF RowIn
  <2> QED BY <1>3, <2>4 DEF u
<1>4. CASE ~failed
  <2>1. n + 1 - 0 + 1 .. n + 1 = {} /\ n + 1 - 0 = n + 1 /\ 0 \in 0 .. n + 1
    BY <1>1
  <2>2. RowIn(u, 0)
    <3>1. /\ 0 \in 0 .. Len(u) /\ Len(u) - 0 + 1 .. Len(u) = {}
          /\ ~u[Len(u) - 0]
      BY <1>1, <1>4, <2>1
    <3> QED BY <3>1, Zenon DEF RowIn
  <2> QED BY <1>4, <2>2 DEF u
<1> QED BY <1>3, <1>4

LEMMA RecordStep ==
    ASSUME GuardInv, ~tripped, NEW failed \in BOOLEAN, RecordAttempt(failed)
    PROVE  /\ requests' \in Seq(BOOLEAN) /\ total' = Len(requests')
           /\ failures' = Cardinality(FailedIn(requests', Len(requests')))
           /\ RowIn(requests', consecutive')
           /\ tripped' \in BOOLEAN /\ tripped' = Raises(failed)
           /\ StopsExactlyAtOutage'
<1> DEFINE n == Len(requests)
<1>1. /\ requests \in Seq(BOOLEAN) /\ total = n
      /\ failures = Cardinality(FailedIn(requests, n)) /\ RowIn(requests, consecutive)
  BY DEF GuardInv, CountersTellHistory, n
<1>2. /\ requests' = Append(requests, failed) /\ tripped' = Raises(failed)
      /\ consecutive' = InRow(failed) /\ total' = total + 1 /\ failures' = Failed(failed)
  BY DEF RecordAttempt
<1>3. /\ requests' \in Seq(BOOLEAN) /\ Len(requests') = n + 1 /\ n \in Nat
      /\ \A i \in 1 .. n : requests'[i] = requests[i]
      /\ requests'[n + 1] = failed
  BY <1>1, <1>2, AppendProperties, LenProperties
<1> HIDE DEF n
<1>a. /\ requests'[n + 1] => Cardinality(FailedIn(requests', n + 1))
                              = Cardinality(FailedIn(requests, n)) + 1
      /\ ~requests'[n + 1] => Cardinality(FailedIn(requests', n + 1))
                              = Cardinality(FailedIn(requests, n))
      /\ \A k \in 1 .. n : FailedIn(requests', k) = FailedIn(requests, k)
  BY <1>3, FailedCount
<1>4. failures' = Cardinality(FailedIn(requests', n + 1)) /\ total' = n + 1
  <2>1. CASE failed
    BY <1>1, <1>2, <1>3, <1>a, <2>1 DEF Failed
  <2>2. CASE ~failed
    BY <1>1, <1>2, <1>3, <1>a, <2>2 DEF Failed
  <2> QED BY <2>1, <2>2
<1>5. RowIn(requests', consecutive')
  BY <1>1, <1>2, RowGrows DEF InRow
<1>6. Raises(failed) <=> OutageIn(requests', n + 1)
  <2>1. Raises(failed) <=> Trips(consecutive', total', failures')
    BY <1>2 DEF Raises
  <2> QED BY <1>3, <1>4, <1>5, <2>1, TripsAtOutage
<1>7. ASSUME NEW k \in 1 .. n PROVE OutageIn(requests', k) <=> OutageIn(requests, k)
  <2>1. MaxConsecutive \in Nat \ {0}
    BY GuardAssumption DEF GuardAssumption
  <2>2. k >= MaxConsecutive => \A i \in k - MaxConsecutive + 1 .. k : i \in 1 .. n
    BY <1>3, <2>1
  <2> QED BY <1>3, <1>a, <2>2, Zenon DEF OutageIn
<1>8. \A k \in 1 .. n : ~OutageIn(requests, k)
  <2>1. /\ ~OutageIn(requests, n)
        /\ \A k \in 1 .. n - 1 : ~OutageIn(requests, k)
    BY OutageIs DEF GuardInv, StopsExactlyAtOutage, n
  <2>2. \A k \in 1 .. n : k = n \/ k \in 1 .. n - 1
    BY <1>3
  <2> QED BY <2>1, <2>2, Zenon
<1>9. \A k : Outage(k)' <=> OutageIn(requests', k)
  BY DEF Outage, OutageIn, FailedIn
<1>10. StopsExactlyAtOutage'
  <2>1. tripped' <=> Outage(Len(requests))'
    <3>1. Outage(Len(requests))' <=> OutageIn(requests', Len(requests'))
      BY DEF Outage, OutageIn, FailedIn
    <3> QED BY <1>2, <1>3, <1>6, <3>1
  <2>2. \A k \in 1 .. Len(requests') - 1 : ~Outage(k)'
    <3>1. Len(requests') - 1 = n
      BY <1>3
    <3> QED BY <1>7, <1>8, <1>9, <3>1, Zenon
  <2> QED BY <2>1, <2>2 DEF StopsExactlyAtOutage
<1> QED BY <1>2, <1>3, <1>4, <1>5, <1>10 DEF Raises, Trips

\* An action that makes no request.
LEMMA GuardKept ==
    ASSUME GuardInv, UNCHANGED guard, pc # "down" \/ pc' = pc
    PROVE  GuardInv'
<1>1. /\ requests' = requests /\ total' = total /\ failures' = failures
      /\ consecutive' = consecutive /\ tripped' = tripped
  BY DEF guard
<1>2. CountersTellHistory'
  BY <1>1 DEF GuardInv, CountersTellHistory
<1>3. StopsExactlyAtOutage'
  BY <1>1, Zenon DEF GuardInv, StopsExactlyAtOutage, Outage
<1> QED BY <1>2, <1>3 DEF GuardInv

LEMMA GuardStep ==
    ASSUME GuardInv, [Next]_vars
    PROVE  GuardInv'
<1>0. tripped \in BOOLEAN /\ (tripped => pc = "down")
  BY DEF GuardInv, CountersTellHistory
<1>1. CASE Start
  <2>1. /\ consecutive' = 0 /\ total' = 0 /\ failures' = 0 /\ requests' = <<>>
        /\ tripped' = FALSE
    BY <1>1 DEF Start, NewGuard, FreshCounters
  <2>2. Len(requests') = 0 /\ requests' \in Seq(BOOLEAN)
    BY <2>1, EmptyFacts
  <2>3. FailedIn(requests', 0) = {} /\ Cardinality({}) = 0
    BY FS_EmptySet DEF FailedIn
  <2>4. RowIn(requests', 0)
    BY <2>2 DEF RowIn
  <2>5. ~OutageIn(requests', 0)
    BY GuardAssumption DEF GuardAssumption, OutageIn
  <2>6. Outage(Len(requests))' <=> OutageIn(requests', Len(requests'))
    BY DEF Outage, OutageIn, FailedIn
  <2>7. StopsExactlyAtOutage'
    BY <2>1, <2>2, <2>5, <2>6 DEF StopsExactlyAtOutage
  <2> QED BY <2>1, <2>2, <2>3, <2>4, <2>7 DEF GuardInv, CountersTellHistory
<1>2. ASSUME NEW failed \in BOOLEAN, Attempt(failed) PROVE GuardInv'
  <2>1. ~Raises(failed) /\ RecordAttempt(failed) /\ ~tripped
    BY <1>0, <1>2 DEF Attempt, Asks
  <2>2. tripped' \in BOOLEAN /\ ~tripped'
    BY <2>1, RecordStep, Zenon
  <2> QED BY <2>1, <2>2, RecordStep DEF GuardInv, CountersTellHistory
<1>3. CASE GuardStops
  <2>1. PICK failed \in BOOLEAN : Raises(failed) /\ RecordAttempt(failed)
    BY <1>3 DEF GuardStops
  <2>2. ~tripped /\ pc' = "down"
    BY <1>0, <1>3 DEF GuardStops, Asks, Exit, Goto
  <2> QED BY <2>1, <2>2, RecordStep DEF GuardInv, CountersTellHistory
<1>4. CASE \/ OrganizationFails \/ OrganizationAnswers \/ QueryFails \/ NoConnection
           \/ PageArrives
  BY <1>2, <1>4 DEF OrganizationFails, OrganizationAnswers, QueryFails, NoConnection,
                    PageArrives
<1>5. CASE \/ PassOrganization \/ OrganizationDone \/ TakeTeams \/ ReadRoster \/ SkipTeam
           \/ TakeTeam \/ GiveUpTeam \/ WriteRecord \/ SaveCursor \/ TeamsEnd \/ FanOutEnds
           \/ PhaseEnds \/ QueryRaises \/ Sigint \/ Crash
  <2>1. UNCHANGED guard /\ pc # "down"
    BY <1>5 DEF PassOrganization, OrganizationDone, TakeTeams, ReadRoster, SkipTeam,
                TakeTeam, GiveUpTeam, WriteRecord, SaveCursor, TeamsEnd, FanOutEnds,
                PhaseEnds, QueryRaises, Sigint, Crash, Running, Asks
  <2> QED BY <2>1, GuardKept
<1>6. CASE UNCHANGED vars
  BY <1>6, GuardKept DEF vars
<1> QED BY <1>1, <1>3, <1>4, <1>5, <1>6 DEF Next, Engine

----------------------------------------------------------------------------
(* What an action leaves of the disk, and what it adds.                    *)

\* Gaps and records are only ever added.
LEMMA Grows ==
    ASSUME TypeOK, [Next]_vars
    PROVE  /\ ledger \subseteq ledger'
           /\ \A r \in Resource : Range(file[r]) \subseteq Range(file'[r])
<1>1. ledger \subseteq ledger'
  BY DEF Next, Engine, Start, PassOrganization, OrganizationFails, OrganizationAnswers,
         OrganizationDone, TakeTeams, ReadRoster, SkipTeam, TakeTeam, QueryFails,
         NoConnection, GiveUpTeam, PageArrives, WriteRecord, SaveCursor, TeamsEnd,
         FanOutEnds, PhaseEnds, GuardStops, QueryRaises, Sigint, Crash, disk, vars, WithGap
<1>2. \/ file' = file
      \/ file' = [file EXCEPT ![Organization] = Append(@, 1)]
      \/ WriteRecord
  BY DEF Next, Engine, Start, PassOrganization, OrganizationFails, OrganizationAnswers,
         OrganizationDone, TakeTeams, ReadRoster, SkipTeam, TakeTeam, QueryFails,
         NoConnection, GiveUpTeam, PageArrives, SaveCursor, TeamsEnd,
         FanOutEnds, PhaseEnds, GuardStops, QueryRaises, Sigint, Crash, disk, vars
<1>3. ASSUME NEW q, NEW e \in Nat, file' = [file EXCEPT ![q] = Append(@, e)],
             NEW r \in Resource
      PROVE  Range(file[r]) \subseteq Range(file'[r])
  <2>1. file[r] \in Seq(Nat)
    BY DEF TypeOK
  <2>2. Range(Append(file[r], e)) = Range(file[r]) \cup {e}
    BY <2>1, AppendFacts
  <2>3. file'[r] = IF r = q THEN Append(file[r], e) ELSE file[r]
    BY <1>3 DEF TypeOK
  <2> QED BY <2>2, <2>3
<1>4. ASSUME WriteRecord
      PROVE  file' = [file EXCEPT ![conn] = Append(@, Head(left))] /\ Head(left) \in Nat
  <2>1. left \in Seq(Nat) /\ left # <<>>
    BY <1>4 DEF WriteRecord, TypeOK
  <2>2. Head(left) \in Nat
    BY <2>1, TailFacts
  <2> QED BY <1>4, <2>2 DEF WriteRecord
<1>5. ASSUME NEW r \in Resource PROVE Range(file[r]) \subseteq Range(file'[r])
  <2>1. CASE file' = file
    BY <2>1
  <2>2. CASE file' = [file EXCEPT ![Organization] = Append(@, 1)]
    BY <1>3, <2>2
  <2>3. CASE WriteRecord
    BY <1>3, <1>4, <2>3
  <2> QED BY <1>2, <2>1, <2>2, <2>3
<1> QED BY <1>1, <1>5

\* What is stored or accounted for stays so.
LEMMA StaysThrough ==
    ASSUME TypeOK, [Next]_vars
    PROVE  /\ \A c \in Resource : \A i : Has(c, i) => Has(c, i)'
           /\ \A c \in Connection : Accounted(c) => Accounted(c)'
           /\ Listed => Listed'
<1>1. ledger \subseteq ledger' /\ Teams \in Resource /\ Connection \subseteq Resource
  BY Grows DEF Resource, Connection
<1>2. \A c \in Resource : \A i : Has(c, i) => Has(c, i)'
  BY Grows DEF Has
<1>3. \A c \in Connection : Accounted(c) => Accounted(c)'
  BY <1>1, <1>2 DEF Accounted
<1>4. Listed => Listed'
  BY <1>1, <1>2 DEF Listed
<1> QED BY <1>2, <1>3, <1>4

\* The items a file holds are those it held and the one just appended.
LEMMA NextItem ==
    ASSUME TypeOK, Placement, PageShape, WriteRecord
    PROVE  /\ conn \in Connection /\ Head(left) = Reached + 1 /\ Reached \in Nat
           /\ Reached + 1 <= PageEnd /\ Reached >= at
           /\ Reached' = Reached + 1 /\ PageEnd' = PageEnd
           /\ \A i \in DOMAIN left' : left'[i] = Reached' + i
           /\ \A r \in Resource \ {conn} : file'[r] = file[r]
           /\ Range(file'[conn]) = Range(file[conn]) \cup {Reached + 1}
           /\ Reached + 1 \notin Range(file[conn]) /\ IsInjective(file[conn])
                => IsInjective(file'[conn])
<1>1. conn \in Connection /\ at <= Size[conn] /\ conn \in Resource
  BY DEF WriteRecord, Placement, InLoop, TypeOK, Resource
<1>2. /\ left \in Seq(Nat) /\ left # <<>> /\ Len(left) \in Nat \ {0} /\ left' = Tail(left)
      /\ DOMAIN left = 1 .. Len(left) /\ Head(left) = left[1]
      /\ Len(left') = Len(left) - 1 /\ left' \in Seq(Nat)
      /\ \A i \in 1 .. Len(left') : left'[i] = left[i + 1]
      /\ DOMAIN left' = 1 .. Len(left')
  <2>1. left \in Seq(Nat) /\ left # <<>> /\ left' = Tail(left)
    BY DEF WriteRecord, TypeOK
  <2> QED BY <2>1, HeadTailProperties, EmptySeq, LenProperties, TailFacts
<1>3. /\ Reached >= at /\ \A i \in DOMAIN left : left[i] = Reached + i
      /\ PageEnd \in Nat /\ at \in Nat
  BY <1>1, Pages DEF WriteRecord, PageShape, TypeOK
<1>4. Reached = PageEnd - Len(left)
  BY DEF Reached
<1>5. PageEnd' = PageEnd
  BY DEF WriteRecord, PageEnd
<1>6. Reached' = PageEnd - Len(left')
  BY <1>5 DEF Reached
<1>7. /\ Reached \in Nat /\ Reached + 1 <= PageEnd /\ Reached' = Reached + 1
      /\ Head(left) = Reached + 1
  BY <1>2, <1>3, <1>4, <1>6
<1>8. ASSUME NEW i \in DOMAIN left' PROVE left'[i] = Reached' + i
  <2>1. i \in Nat /\ i + 1 \in DOMAIN left /\ left'[i] = left[i + 1]
    BY <1>2
  <2>2. left'[i] = Reached + (i + 1)
    BY <1>3, <2>1
  <2> QED BY <1>7, <2>1, <2>2
<1>9. /\ \A r \in Resource \ {conn} : file'[r] = file[r]
      /\ file'[conn] = Append(file[conn], Reached + 1)
      /\ file[conn] \in Seq(Nat)
  BY <1>1, <1>7 DEF WriteRecord, TypeOK
<1> QED BY <1>1, <1>3, <1>5, <1>7, <1>8, <1>9, AppendFacts

----------------------------------------------------------------------------
(* Where the engine is, and its page.                                      *)

LEMMA PlacementStep ==
    ASSUME TypeOK, Placement, PageShape, [Next]_vars
    PROVE  Placement'
<1> USE DEF disk, memory, page, guard, Goto
<1>0. /\ Done \notin Nat /\ Teams \in Connection /\ None \notin Connection
      /\ \A t \in Team : t \in Connection /\ t # Teams
  BY SizeAssumption, ConnectionAssumption
     DEF SizeAssumption, ConnectionAssumption, Connection, Resource
<1>1. CASE \/ Start \/ PassOrganization \/ OrganizationFails \/ OrganizationAnswers
           \/ OrganizationDone
  BY <1>1 DEF Start, PassOrganization, OrganizationFails, OrganizationAnswers,
              OrganizationDone, Placement, InLoop, FanningOut
<1>2. CASE TakeTeams
  BY <1>0, <1>2 DEF TakeTeams, Placement, InLoop, FanningOut
<1>3. CASE ReadRoster \/ SkipTeam
  BY <1>3 DEF ReadRoster, SkipTeam, Placement, InLoop, FanningOut
<1>4. CASE TakeTeam
  <2>1. Head(roster) \in Team
    <3>1. roster \in Seq(Team) /\ roster # <<>>
      BY <1>4 DEF TakeTeam, TypeOK
    <3> QED BY <3>1, TailFacts
  <2> QED BY <1>0, <1>4, <2>1
          DEF TakeTeam, FirstItem, Skipped, Placement, InLoop, FanningOut
<1>5. CASE QueryFails \/ NoConnection
  BY <1>5 DEF QueryFails, NoConnection, AfterLoop, WithGap, Placement, InLoop, FanningOut
<1>6. CASE GiveUpTeam
  BY <1>0, <1>6 DEF GiveUpTeam, AfterLoop, Placement, InLoop, FanningOut, TypeOK
<1>7. CASE PageArrives \/ WriteRecord
  BY <1>7 DEF PageArrives, WriteRecord, Placement, InLoop, FanningOut
<1>8. CASE SaveCursor
  <2>1. conn \in Connection /\ end \in Nat
    BY <1>8 DEF SaveCursor, Placement, TypeOK
  <2>2. more => Kept = end
    BY DEF Kept
  <2>3. conn = Teams => Kept = end
    BY DEF Kept
  <2>4. cursor' = [cursor EXCEPT ![conn] = Kept] /\ cursor'[conn] = Kept
    BY <1>8, <2>1 DEF SaveCursor, TypeOK
  <2>5. cursor'[Teams] # Done
    BY <1>0, <1>8, <2>1, <2>3, <2>4 DEF Placement, TypeOK
  <2> QED BY <1>0, <1>8, <2>1, <2>2, <2>4, <2>5
          DEF SaveCursor, AfterLoop, Placement, InLoop, FanningOut
<1>9. CASE TeamsEnd \/ FanOutEnds
  BY <1>9 DEF TeamsEnd, FanOutEnds, WithStatus, Placement, InLoop, FanningOut
<1>10. CASE PhaseEnds \/ GuardStops \/ QueryRaises \/ Crash
  BY <1>10 DEF PhaseEnds, GuardStops, QueryRaises, Crash, Exit, Placement, InLoop, FanningOut
<1>11. CASE Sigint
  BY <1>11 DEF Sigint, Placement, InLoop, FanningOut
<1>12. CASE UNCHANGED vars
  BY <1>12 DEF vars, Placement, InLoop, FanningOut
<1> QED BY <1>1, <1>2, <1>3, <1>4, <1>5, <1>6, <1>7, <1>8, <1>9, <1>10, <1>11, <1>12
        DEF Next, Engine

LEMMA PageStep ==
    ASSUME TypeOK, Placement, PageShape, SkippedIsStored, [Next]_vars
    PROVE  PageShape'
<1> USE DEF disk, memory, page, guard, Goto
<1>1. CASE PageArrives
  <2>1. conn \in Connection /\ at <= Size[conn] /\ at \in Nat /\ at = cursor[conn]
        /\ cursor[conn] # Done
    BY <1>1 DEF PageArrives, Placement, InLoop, TypeOK
  <2>2. PageEnd \in Nat /\ at <= PageEnd
    BY <2>1, Pages
  <2>3. Len(left') = PageEnd - at /\ DOMAIN left' = 1 .. PageEnd - at
        /\ \A i \in 1 .. PageEnd - at : left'[i] = at + i
    BY <1>1, <2>1, <2>2 DEF PageArrives
  <2>4. PageEnd' = PageEnd /\ Reached' = at
    <3>1. PageEnd' = PageEnd
      BY <1>1 DEF PageArrives, PageEnd
    <3>2. Reached' = PageEnd' - Len(left')
      BY DEF Reached
    <3> QED BY <2>1, <2>2, <2>3, <3>1, <3>2
  <2>5. \A i \in 1 .. at : Has(conn, i)
    BY <2>1 DEF SkippedIsStored
  <2>6. \A i \in 1 .. Reached' : Has(conn, i)'
    BY <1>1, <2>4, <2>5 DEF PageArrives, Has
  <2>7. /\ at' = at /\ conn' = conn /\ pc = "query"
        /\ more' <=> PageEnd' < Size[conn]
        /\ end' = IF PageEnd' = at THEN 0 ELSE PageEnd'
    BY <1>1, <2>4 DEF PageArrives
  <2>8. \A i \in 1 .. Reached' : i \in Range(file'[conn'])
    BY <2>6 DEF Has
  <2> QED BY <2>1, <2>3, <2>4, <2>7, <2>8 DEF PageShape, Has
<1>2. CASE WriteRecord
  <2>1. /\ conn \in Connection /\ Reached \in Nat /\ Reached >= at
        /\ Reached' = Reached + 1 /\ PageEnd' = PageEnd
        /\ \A i \in DOMAIN left' : left'[i] = Reached' + i
        /\ Range(file'[conn]) = Range(file[conn]) \cup {Reached + 1}
    BY <1>2, NextItem
  <2>2. /\ conn' = conn /\ at' = at /\ more' = more /\ end' = end /\ pc = "page"
    BY <1>2 DEF WriteRecord
  <2>3. \A i \in 1 .. Reached : Has(conn, i)
    BY <2>2 DEF PageShape
  <2>4. ASSUME NEW i \in 1 .. Reached' PROVE Has(conn, i)'
    <3>1. CASE i = Reached + 1
      BY <2>1, <2>2, <3>1, Zenon DEF Has
    <3>2. CASE i # Reached + 1
      <4>1. i \in 1 .. Reached
        BY <2>1, <3>2
      <4> QED BY <2>1, <2>2, <2>3, <4>1 DEF Has
    <3> QED BY <3>1, <3>2
  <2>5. Reached' >= at' /\ (more' <=> PageEnd' < Size[conn'])
        /\ end' = IF PageEnd' = at' THEN 0 ELSE PageEnd'
    <3>1. at \in Nat
      BY DEF TypeOK
    <3> QED BY <2>1, <2>2, <3>1 DEF PageShape
  <2> QED BY <2>1, <2>2, <2>4, <2>5 DEF PageShape
<1>3. CASE Sigint
  BY <1>3, Zenon DEF Sigint, PageShape, Reached, PageEnd, Has
<1>4. CASE UNCHANGED vars
  BY <1>4, Zenon DEF vars, PageShape, Reached, PageEnd, Has
<1>5. ASSUME [Next]_vars, ~PageArrives, ~WriteRecord, ~Sigint, ~UNCHANGED vars
      PROVE  pc' # "page"
  BY <1>5 DEF Next, Engine, Start, PassOrganization, OrganizationFails, OrganizationAnswers,
         OrganizationDone, TakeTeams, ReadRoster, SkipTeam, TakeTeam, QueryFails,
         NoConnection, GiveUpTeam, SaveCursor, TeamsEnd, FanOutEnds, PhaseEnds, GuardStops,
         QueryRaises, Crash, Exit, AfterLoop
<1> QED BY <1>1, <1>2, <1>3, <1>4, <1>5 DEF PageShape

\* What the cursor stored after a page skips.
LEMMA SaveFacts ==
    ASSUME TypeOK, Placement, PageShape, SaveCursor
    PROVE  /\ conn \in Connection /\ cursor' = [cursor EXCEPT ![conn] = Kept]
           /\ Reached = PageEnd /\ end <= PageEnd /\ end \in Nat /\ PageEnd \in Nat
           /\ PageEnd <= Size[conn] /\ \A i \in 1 .. PageEnd : Has(conn, i)
           /\ (more <=> PageEnd < Size[conn]) /\ (more => end = PageEnd)
           /\ Kept = IF conn = Teams \/ more THEN end ELSE Done
<1>1. conn \in Connection /\ at <= Size[conn] /\ left = <<>> /\ pc = "page" /\ at \in Nat
  BY DEF SaveCursor, Placement, InLoop, TypeOK
<1>2. /\ PageEnd \in Nat /\ at <= PageEnd /\ PageEnd <= Size[conn] /\ Size[conn] \in Nat
      /\ PageEnd < Size[conn] => PageEnd > at
  BY <1>1, Pages
<1>3. Reached = PageEnd
  BY <1>1, <1>2, EmptyFacts DEF Reached
<1> QED BY <1>1, <1>2, <1>3 DEF SaveCursor, PageShape, Kept

LEMMA SkippedStep ==
    ASSUME TypeOK, Placement, PageShape, SkippedIsStored, [Next]_vars
    PROVE  SkippedIsStored'
<1> USE DEF disk, memory, page
<1>0. /\ ledger \subseteq ledger' /\ Done \notin Nat
      /\ \A c \in Connection : c \in Resource /\ \A i : Has(c, i) => Has(c, i)'
  BY Grows, StaysThrough, SizeAssumption DEF SizeAssumption, Resource
<1>1. \/ cursor' = cursor
      \/ GiveUpTeam
      \/ SaveCursor
  BY DEF Next, Engine, Start, PassOrganization, OrganizationFails, OrganizationAnswers,
         OrganizationDone, TakeTeams, ReadRoster, SkipTeam, TakeTeam, QueryFails,
         NoConnection, PageArrives, WriteRecord, TeamsEnd,
         FanOutEnds, PhaseEnds, GuardStops, QueryRaises, Sigint, Crash, vars
<1>2. CASE cursor' = cursor
  BY <1>0, <1>2 DEF SkippedIsStored
<1>3. CASE GiveUpTeam
  <2>1. conn \in ledger /\ cursor' = [cursor EXCEPT ![conn] = Done]
    BY <1>3 DEF GiveUpTeam, Placement
  <2> QED BY <1>0, <2>1 DEF SkippedIsStored, TypeOK
<1>4. CASE SaveCursor
  <2>1. PICK d \in Connection : d = conn
    BY <1>4, SaveFacts
  <2>2. /\ end <= PageEnd /\ end \in Nat /\ PageEnd \in Nat /\ Size[d] \in Nat
        /\ PageEnd <= Size[d] /\ \A i \in 1 .. PageEnd : Has(d, i)
        /\ (more <=> PageEnd < Size[d])
    BY <1>4, <2>1, SaveFacts, SizeAssumption DEF SizeAssumption
  <2>3. /\ \A c \in Connection \ {d} : cursor'[c] = cursor[c]
        /\ cursor'[d] = IF d = Teams \/ more THEN end ELSE Done
    BY <1>4, <2>1, SaveFacts DEF TypeOK
  <2>4. ASSUME cursor'[d] # Done, NEW i \in 1 .. cursor'[d] PROVE Has(d, i)'
    <3>1. cursor'[d] = end
      BY <2>3, <2>4
    <3>2. i \in 1 .. PageEnd
      BY <2>2, <2>4, <3>1
    <3> QED BY <1>0, <2>2, <3>2
  <2>5. ASSUME cursor'[d] = Done, NEW i \in 1 .. Size[d] PROVE Has(d, i)'
    <3>1. ~more
      BY <1>0, <2>2, <2>3, <2>5
    <3>2. i \in 1 .. PageEnd
      BY <2>2, <2>5, <3>1
    <3> QED BY <1>0, <2>2, <3>2
  <2>6. ASSUME NEW c \in Connection, c # d
        PROVE  /\ cursor'[c] # Done => \A i \in 1 .. cursor'[c] : Has(c, i)'
               /\ cursor'[c] = Done => c \in ledger' \/ \A i \in 1 .. Size[c] : Has(c, i)'
    BY <1>0, <2>3, <2>6 DEF SkippedIsStored
  <2> QED BY <2>4, <2>5, <2>6 DEF SkippedIsStored
<1> QED BY <1>1, <1>2, <1>3, <1>4

----------------------------------------------------------------------------
(* What is called complete, and what the fan-out leaves behind.            *)

\* The three saves of a dataset's status.
LEMMA Completes ==
    ASSUME [Next]_vars
    PROVE  \/ complete' = complete
           \/ OrganizationDone /\ complete' = complete \cup {"organization"}
           \/ TeamsEnd /\ ~interrupted /\ complete' = complete \cup {"teams"}
           \/ FanOutEnds /\ ~interrupted /\ complete' = complete \cup {"team_members"}
<1>1. \/ complete' = complete
      \/ OrganizationDone \/ TeamsEnd \/ FanOutEnds
  BY DEF Next, Engine, Start, PassOrganization, OrganizationFails, OrganizationAnswers,
         TakeTeams, ReadRoster, SkipTeam, TakeTeam, QueryFails, NoConnection, GiveUpTeam,
         PageArrives, WriteRecord, SaveCursor, PhaseEnds, GuardStops, QueryRaises, Sigint,
         Crash, disk, vars
<1>2. CASE OrganizationDone
  BY <1>2 DEF OrganizationDone
<1>3. CASE TeamsEnd
  BY <1>3 DEF TeamsEnd, WithStatus, MayComplete
<1>4. CASE FanOutEnds
  BY <1>4 DEF FanOutEnds, WithStatus, MayComplete
<1> QED BY <1>1, <1>2, <1>3, <1>4

LEMMA TeamsStep ==
    ASSUME TypeOK, Placement, PageShape, TeamsThrough, [Next]_vars
    PROVE  TeamsThrough'
<1> USE DEF disk, memory, page, guard, Goto
<1>1. ASSUME QueryFails \/ NoConnection, pc' = "status" PROVE Listed'
  <2>1. conn = Teams /\ Teams \in ledger'
    BY <1>1 DEF QueryFails, NoConnection, AfterLoop, WithGap
  <2> QED BY <2>1 DEF Listed
<1>2. ASSUME SaveCursor, pc' = "status" PROVE interrupted' \/ Listed'
  <2>1. interrupted' = interrupted /\ conn = Teams /\ (interrupted \/ ~more) /\ file' = file
    BY <1>2 DEF SaveCursor, AfterLoop
  <2>2. /\ PageEnd \in Nat /\ PageEnd <= Size[Teams] /\ \A i \in 1 .. PageEnd : Has(Teams, i)
        /\ more <=> PageEnd < Size[Teams]
        /\ Size[Teams] \in Nat
    BY <1>2, <2>1, SaveFacts, SizeAssumption DEF SizeAssumption, Connection
  <2>3. ASSUME ~more PROVE \A i \in 1 .. Size[Teams] : Has(Teams, i)'
    BY <2>1, <2>2, <2>3 DEF Has
  <2> QED BY <2>1, <2>3 DEF Listed
<1>3. ASSUME pc' = "status", ~QueryFails, ~NoConnection, ~SaveCursor
      PROVE  pc = "status" /\ (interrupted => interrupted')
  BY <1>3 DEF Next, Engine, Start, PassOrganization, OrganizationFails, OrganizationAnswers,
         OrganizationDone, TakeTeams, ReadRoster, SkipTeam, TakeTeam, GiveUpTeam,
         PageArrives, WriteRecord, TeamsEnd, FanOutEnds, PhaseEnds, GuardStops, QueryRaises,
         Sigint, Crash, Exit, AfterLoop, Placement, vars
<1>4. ASSUME "teams" \in complete', "teams" \notin complete
      PROVE  TeamsEnd /\ ~interrupted
  BY <1>4, Completes
<1>5. Listed => Listed'
  BY StaysThrough
<1>6. pc' = "status" => interrupted' \/ Listed'
  BY <1>1, <1>2, <1>3, <1>5 DEF TeamsThrough
<1>7. "teams" \in complete' => Listed'
  BY <1>4, <1>5 DEF TeamsThrough, TeamsEnd
<1> QED BY <1>6, <1>7 DEF TeamsThrough

LEMMA OrganizationStep ==
    ASSUME TypeOK, OrganizationThrough, [Next]_vars
    PROVE  OrganizationThrough'
<1> USE DEF disk, memory, page, guard, Goto
<1>1. /\ ledger \subseteq ledger'
      /\ Has(Organization, 1) => Has(Organization, 1)'
  BY Grows, StaysThrough DEF Resource
<1>2. CASE OrganizationFails
  BY <1>2 DEF OrganizationFails, WithGap, OrganizationThrough
<1>3. CASE OrganizationAnswers
  <2>1. file[Organization] \in Seq(Nat)
    BY DEF TypeOK, Resource
  <2>2. 1 \in Range(Append(file[Organization], 1))
    BY <2>1, AppendFacts
  <2>3. CASE file' = [file EXCEPT ![Organization] = Append(@, 1)]
    BY <2>2, <2>3 DEF OrganizationThrough, Has, TypeOK, Resource
  <2>4. CASE ledger' = WithGap(Organization)
    BY <2>4 DEF OrganizationThrough, WithGap
  <2> QED BY <1>3, <2>3, <2>4 DEF OrganizationAnswers
<1>4. ASSUME ~OrganizationFails, ~OrganizationAnswers, pc' = "organization_done"
      PROVE  pc = "organization_done"
  BY <1>4 DEF Next, Engine, Start, PassOrganization, OrganizationDone, TakeTeams, ReadRoster,
         SkipTeam, TakeTeam, QueryFails, NoConnection, GiveUpTeam, PageArrives, WriteRecord,
         SaveCursor, TeamsEnd, FanOutEnds, PhaseEnds, GuardStops, QueryRaises, Sigint, Crash,
         Exit, AfterLoop, vars
<1>5. "organization" \in complete' => "organization" \in complete \/ pc = "organization_done"
  BY Completes DEF OrganizationDone
<1> QED BY <1>1, <1>2, <1>3, <1>4, <1>5 DEF OrganizationThrough

\* Once the teams are complete their file is not written any more.
LEMMA RosterKept ==
    ASSUME TypeOK, Placement, "teams" \in complete, [Next]_vars
    PROVE  file'[Teams] = file[Teams]
<1>1. Organization # Teams /\ Teams \in Resource
  BY ConnectionAssumption DEF ConnectionAssumption, Connection, Resource
<1>2. CASE WriteRecord
  <2>1. conn # Teams
    BY <1>2 DEF WriteRecord, Placement, InLoop
  <2> QED BY <1>1, <1>2, <2>1 DEF WriteRecord, TypeOK
<1>3. CASE OrganizationAnswers
  BY <1>1, <1>3 DEF OrganizationAnswers, TypeOK
<1>4. ASSUME ~WriteRecord, ~OrganizationAnswers PROVE file' = file
  BY <1>4 DEF Next, Engine, Start, PassOrganization, OrganizationFails,
         OrganizationDone, TakeTeams, ReadRoster, SkipTeam, TakeTeam, QueryFails,
         NoConnection, GiveUpTeam, PageArrives, SaveCursor, TeamsEnd,
         FanOutEnds, PhaseEnds, GuardStops, QueryRaises, Sigint, Crash, disk, vars
<1> QED BY <1>2, <1>3, <1>4

\* The team an item of the file of teams stands for.
LEMMA ListedTeam ==
    ASSUME TypeOK, NEW i \in Range(file[Teams])
    PROVE  i \in 1 .. Size[Teams] /\ TeamAt[i] \in Team
<1>1. file[Teams] \in Seq(1 .. Size[Teams])
  BY DEF TypeOK, Connection
<1>2. i \in 1 .. Size[Teams]
  <2>1. PICK k \in DOMAIN file[Teams] : i = file[Teams][k]
    BY DEF Range
  <2> QED BY <1>1, <2>1, LenProperties, ElementOfSeq
<1> QED BY <1>2, SizeAssumption DEF SizeAssumption

LEMMA PassedOverStep ==
    ASSUME TypeOK, Placement, PageShape, SkippedIsStored, NoTeamPassedOver, [Next]_vars
    PROVE  NoTeamPassedOver'
<1> USE DEF disk, memory, page, guard, Goto
<1> DEFINE Settled(i) == \/ TeamAt[i] \in Range(roster)
                         \/ pc # "next" /\ TeamAt[i] = conn
                         \/ Accounted(TeamAt[i])
<1>0. /\ \A c \in Connection : Accounted(c) => Accounted(c)'
      /\ Done \notin Nat /\ \A t \in Team : t \in Connection /\ t # Teams
      /\ Size \in [Connection -> Nat]
  BY StaysThrough, SizeAssumption, ConnectionAssumption
     DEF SizeAssumption, ConnectionAssumption, Connection
<1>1. SUFFICES ASSUME FanningOut', ~interrupted', NEW i \in Range(file'[Teams])
               PROVE  Settled(i)'
  BY DEF NoTeamPassedOver
<1>2. "teams" \in complete /\ file'[Teams] = file[Teams]
  <2>1. "teams" \in complete \/ ReadRoster
    BY <1>1 DEF Next, Engine, Start, PassOrganization, OrganizationFails,
         OrganizationAnswers, OrganizationDone, TakeTeams, ReadRoster, SkipTeam, TakeTeam,
         QueryFails, NoConnection, GiveUpTeam, PageArrives, WriteRecord, SaveCursor,
         TeamsEnd, FanOutEnds, PhaseEnds, GuardStops, QueryRaises, Sigint, Crash, Exit,
         AfterLoop, FanningOut, Placement, vars
  <2>2. "teams" \in complete
    BY <2>1 DEF ReadRoster
  <2> QED BY <2>2, RosterKept
<1>3. i \in Range(file[Teams]) /\ TeamAt[i] \in Team
  BY <1>1, <1>2, ListedTeam
<1>4. Accounted(TeamAt[i]) => Settled(i)'
  BY <1>0, <1>3
<1>5. CASE ReadRoster
  <2>1. PICK k \in DOMAIN file[Teams] : i = file[Teams][k]
    BY <1>3 DEF Range
  <2>2. roster' = [j \in DOMAIN file[Teams] |-> TeamAt[file[Teams][j]]]
    BY <1>5 DEF ReadRoster
  <2>3. k \in DOMAIN roster' /\ roster'[k] = TeamAt[i]
    BY <2>1, <2>2
  <2>4. TeamAt[i] \in Range(roster')
    BY <2>3 DEF Range
  <2> QED BY <2>4
<1>11. ASSUME ~ReadRoster PROVE FanningOut /\ ~interrupted
  <2>1. CASE SkipTeam \/ TakeTeam \/ QueryFails \/ NoConnection \/ GiveUpTeam \/ PageArrives
    <3>1. pc = "give_up" => conn # Teams
      BY DEF Placement
    <3>2. CASE SkipTeam \/ TakeTeam
      BY <3>2 DEF SkipTeam, TakeTeam, FanningOut
    <3>3. CASE QueryFails
      BY <1>1, <3>3 DEF QueryFails, AfterLoop, FanningOut
    <3>4. CASE NoConnection
      BY <1>1, <3>4 DEF NoConnection, AfterLoop, FanningOut
    <3>5. CASE GiveUpTeam
      BY <1>1, <3>1, <3>5 DEF GiveUpTeam, FanningOut
    <3>6. CASE PageArrives
      BY <1>1, <3>6 DEF PageArrives, FanningOut
    <3> QED BY <2>1, <3>2, <3>3, <3>4, <3>5, <3>6
  <2>2. CASE WriteRecord \/ SaveCursor
    BY <1>1, <2>2 DEF WriteRecord, SaveCursor, AfterLoop, FanningOut
  <2>3. CASE Sigint \/ UNCHANGED vars
    BY <1>1, <2>3 DEF Sigint, FanningOut, vars
  <2>4. CASE \/ Start \/ PassOrganization \/ OrganizationFails \/ OrganizationAnswers
             \/ OrganizationDone \/ TakeTeams \/ TeamsEnd \/ FanOutEnds \/ PhaseEnds
             \/ GuardStops \/ QueryRaises \/ Crash
    BY <1>1, <2>4 DEF Start, PassOrganization, OrganizationFails, OrganizationAnswers,
                      OrganizationDone, TakeTeams, TeamsEnd, FanOutEnds, PhaseEnds,
                      GuardStops, QueryRaises, Crash, Exit, FanningOut
  <2> QED BY <1>11, <2>1, <2>2, <2>3, <2>4 DEF Next, Engine
<1>6. ASSUME ~ReadRoster PROVE FanningOut /\ ~interrupted /\ Settled(i)
  BY <1>3, <1>6, <1>11 DEF NoTeamPassedOver
<1>7. CASE SkipTeam \/ TakeTeam
  <2>1. roster \in Seq(Team) /\ roster # <<>> /\ roster' = Tail(roster) /\ pc = "next"
    BY <1>7 DEF SkipTeam, TakeTeam, TypeOK
  <2>2. Range(roster) = {Head(roster)} \cup Range(roster') /\ Head(roster) \in Team
    BY <2>1, TailFacts
  <2>3. CASE TeamAt[i] = Head(roster)
    <3>1. CASE SkipTeam
      <4>1. Accounted(TeamAt[i])
        BY <1>0, <2>2, <2>3, <3>1 DEF SkipTeam, Skipped, SkippedIsStored, Accounted
      <4> QED BY <1>4, <4>1
    <3>2. CASE TakeTeam
      <4>1. pc' = "query" /\ conn' = TeamAt[i]
        BY <2>3, <3>2 DEF TakeTeam
      <4> QED BY <4>1
    <3> QED BY <1>7, <3>1, <3>2
  <2>4. CASE TeamAt[i] # Head(roster)
    <3>1. TeamAt[i] \in Range(roster') \/ Accounted(TeamAt[i])
      <4>1. ~ReadRoster
        BY <2>1 DEF ReadRoster
      <4> QED BY <1>6, <2>1, <2>2, <2>4, <4>1
    <3> QED BY <1>4, <3>1
  <2> QED BY <2>3, <2>4
<1>8. ASSUME ~ReadRoster, ~SkipTeam, ~TakeTeam
      PROVE  /\ roster' = roster /\ conn' = conn
             /\ pc' = "next" => pc = "next" \/ QueryFails \/ GiveUpTeam \/ SaveCursor
  BY <1>1, <1>6, <1>8 DEF Next, Engine, Start, PassOrganization, OrganizationFails,
         OrganizationAnswers, OrganizationDone, TakeTeams, QueryFails, NoConnection,
         GiveUpTeam, PageArrives, WriteRecord, SaveCursor, TeamsEnd, FanOutEnds, PhaseEnds,
         GuardStops, QueryRaises, Sigint, Crash, Exit, AfterLoop, FanningOut, vars
<1>9. ASSUME QueryFails \/ GiveUpTeam \/ SaveCursor, pc' = "next", TeamAt[i] = conn
      PROVE  Accounted(TeamAt[i])'
  <2>1. CASE QueryFails
    BY <1>9, <2>1 DEF QueryFails, WithGap, Accounted
  <2>2. CASE GiveUpTeam
    BY <1>9, <2>2 DEF GiveUpTeam, Placement, Accounted
  <2>3. CASE SaveCursor
    <3>1. ~more
      BY <1>1, <1>9, <2>3 DEF SaveCursor, AfterLoop
    <3>2. PICK d \in Team : d = TeamAt[i]
      BY <1>3
    <3>3. /\ Size[d] \in Nat /\ PageEnd \in Nat /\ ~(PageEnd < Size[d])
          /\ \A m \in 1 .. PageEnd : Has(d, m)
      BY <1>0, <1>9, <2>3, <3>1, <3>2, SaveFacts
    <3>4. \A m \in 1 .. Size[d] : Has(d, m)
      BY <3>3
    <3>5. Accounted(d)'
      BY <1>0, <3>4 DEF Accounted
    <3> QED BY <3>2, <3>5
  <2> QED BY <1>9, <2>1, <2>2, <2>3
<1>10. ASSUME ~ReadRoster, ~SkipTeam, ~TakeTeam PROVE Settled(i)'
  <2>1. CASE TeamAt[i] \in Range(roster)
    BY <1>8, <1>10, <2>1
  <2>2. CASE Accounted(TeamAt[i])
    BY <1>4, <2>2
  <2>3. CASE pc # "next" /\ TeamAt[i] = conn
    BY <1>8, <1>9, <1>10, <2>3
  <2> QED BY <1>6, <1>10, <2>1, <2>2, <2>3
<1> QED BY <1>5, <1>7, <1>10

LEMMA MembersStep ==
    ASSUME TypeOK, Placement, NoTeamPassedOver, MembersThrough, [Next]_vars
    PROVE  MembersThrough'
<1>1. SUFFICES ASSUME "team_members" \in complete', NEW i \in Range(file'[Teams])
               PROVE  Accounted(TeamAt[i])'
  BY DEF MembersThrough
<1>2. "team_members" \in complete \/ (FanOutEnds /\ ~interrupted)
  BY <1>1, Completes
<1>3. "teams" \in complete
  BY <1>2 DEF FanOutEnds, FanningOut, Placement
<1>4. i \in Range(file[Teams])
  BY <1>1, <1>3, RosterKept
<1>5. Accounted(TeamAt[i])
  <2>1. CASE "team_members" \in complete
    BY <1>4, <2>1 DEF MembersThrough
  <2>2. CASE FanOutEnds /\ ~interrupted
    <3>1. FanningOut /\ ~interrupted /\ pc = "next" /\ roster = <<>>
      BY <2>2 DEF FanOutEnds, FanningOut
    <3>2. TeamAt[i] \notin Range(roster)
      BY <3>1, EmptyFacts
    <3> QED BY <1>4, <3>1, <3>2 DEF NoTeamPassedOver
  <2> QED BY <1>2, <2>1, <2>2
<1>6. TeamAt[i] \in Connection
  BY <1>4, ListedTeam DEF Connection
<1> QED BY <1>5, <1>6, StaysThrough

----------------------------------------------------------------------------
(* Nothing is stored twice unless the process has crashed.                 *)

LEMMA OrganizationOnce ==
    ASSUME TypeOK, [Next]_vars, crashes' = crashes,
           IsInjective(file[Organization]),
           pc # "organization_done" /\ "organization" \notin complete
               => file[Organization] = <<>>
    PROVE  /\ IsInjective(file'[Organization])
           /\ pc' # "organization_done" /\ "organization" \notin complete'
               => file'[Organization] = <<>>
<1> USE DEF disk, memory, page, guard, Goto
<1>1. CASE OrganizationAnswers
  <2>1. /\ pc = "organization" /\ "organization" \notin complete
        /\ pc' = "organization_done"
    BY <1>1 DEF OrganizationAnswers, Attempt, Asks
  <2>2. IsInjective(Append(file[Organization], 1))
    <3>1. file[Organization] = <<>> /\ file[Organization] \in Seq(Nat)
          /\ 1 \notin Range(file[Organization])
      BY <2>1, EmptyFacts DEF TypeOK, Resource
    <3>2. \A s \in Seq(Nat) : IsInjective(s) /\ 1 \notin Range(s) => IsInjective(Append(s, 1))
      BY AppendFacts
    <3> QED BY <3>1, <3>2
  <2>3. \/ file'[Organization] = Append(file[Organization], 1)
        \/ file'[Organization] = file[Organization]
    BY <1>1 DEF OrganizationAnswers, TypeOK, Resource
  <2> QED BY <2>1, <2>2, <2>3
<1>2. ASSUME ~OrganizationAnswers PROVE file'[Organization] = file[Organization]
  <2>1. CASE WriteRecord
    <3>1. file' = [file EXCEPT ![conn] = Append(@, Head(left))] /\ conn # Organization
      BY <2>1, ConnectionAssumption
         DEF WriteRecord, ConnectionAssumption, TypeOK, Resource
    <3> QED BY <3>1 DEF TypeOK, Resource
  <2>2. ASSUME ~WriteRecord PROVE file' = file
    BY <1>2, <2>2 DEF Next, Engine, Start, PassOrganization, OrganizationFails,
         OrganizationDone, TakeTeams, ReadRoster, SkipTeam, TakeTeam, QueryFails,
         NoConnection, GiveUpTeam, PageArrives, SaveCursor, TeamsEnd,
         FanOutEnds, PhaseEnds, GuardStops, QueryRaises, Sigint, Crash, vars
  <2> QED BY <2>1, <2>2
<1>3. ASSUME ~OrganizationAnswers, pc' # "organization_done",
             "organization" \notin complete'
      PROVE  pc # "organization_done" /\ "organization" \notin complete
  <2>1. complete \subseteq complete'
    BY Completes
  <2>2. ASSUME pc = "organization_done" PROVE OrganizationDone \/ Crash
    BY <1>3, <2>2 DEF Next, Engine, Start, PassOrganization, OrganizationFails,
         TakeTeams, ReadRoster, SkipTeam, TakeTeam, QueryFails, NoConnection, GiveUpTeam,
         PageArrives, WriteRecord, SaveCursor, TeamsEnd, FanOutEnds, PhaseEnds, GuardStops,
         QueryRaises, Sigint, Asks, vars
  <2>3. ~OrganizationDone
    BY <1>3 DEF OrganizationDone
  <2>4. ~Crash
    <3>1. crashes \in Nat
      BY DEF TypeOK
    <3> QED BY <3>1 DEF Crash
  <2> QED BY <1>3, <2>1, <2>2, <2>3, <2>4
<1> QED BY <1>1, <1>2, <1>3

\* An action that neither writes the file of a team nor ends a page of it.
LEMMA FetchedKept ==
    ASSUME NEW t, file'[t] = file[t], cursor'[t] = cursor[t],
           \/ pc' # "page" /\ ~(pc = "page" /\ conn = t)
           \/ pc' = pc /\ conn' = conn /\ at' = at /\ left' = left
    PROVE  Fetched(t)' = Fetched(t)
<1>1. CASE pc' # "page" /\ ~(pc = "page" /\ conn = t)
  BY <1>1 DEF Fetched
<1>2. CASE pc' = pc /\ conn' = conn /\ at' = at /\ left' = left
  <2>1. PageEnd' = PageEnd
    BY <1>2 DEF PageEnd
  <2>2. Reached' = Reached
    BY <1>2, <2>1 DEF Reached
  <2> QED BY <1>2, <2>2 DEF Fetched
<1> QED BY <1>1, <1>2

LEMMA TeamOnce ==
    ASSUME TypeOK, Placement, PageShape, [Next]_vars, crashes' = crashes, NEW t \in Team,
           IsInjective(file[t]),
           cursor[t] # Done => \A i \in Range(file[t]) : i <= Fetched(t)
    PROVE  /\ IsInjective(file'[t])
           /\ cursor'[t] # Done => \A i \in Range(file'[t]) : i <= Fetched(t)'
<1> USE DEF disk, memory, page, guard, Goto
<1>0. t \in Connection /\ t \in Resource /\ t # Teams /\ t # Organization /\ Done \notin Nat
  BY ConnectionAssumption, SizeAssumption
     DEF ConnectionAssumption, SizeAssumption, Connection, Resource
<1>1. CASE PageArrives
  <2>1. file'[t] = file[t] /\ cursor'[t] = cursor[t] /\ pc = "query" /\ conn' = conn
        /\ pc' = "page" /\ at' = at
    BY <1>1 DEF PageArrives
  <2>2. CASE conn = t
    <3>1. at = cursor[t] /\ Fetched(t) = cursor[t] /\ at \in Nat /\ at <= Size[conn]
      BY <1>0, <2>1, <2>2 DEF Placement, InLoop, Fetched, TypeOK
    <3>2. PageEnd' = PageEnd /\ PageEnd \in Nat /\ at <= PageEnd /\ Len(left') = PageEnd - at
      <4>1. PageEnd \in Nat /\ at <= PageEnd
        BY <1>0, <2>2, <3>1, Pages
      <4>2. PageEnd' = PageEnd
        BY <2>1 DEF PageEnd
      <4> QED BY <1>1, <3>1, <4>1, <4>2 DEF PageArrives
    <3>3. Reached' = PageEnd' - Len(left')
      BY DEF Reached
    <3>4. Reached' = at
      BY <3>1, <3>2, <3>3
    <3>5. Fetched(t)' = Fetched(t)
      BY <2>1, <2>2, <3>1, <3>4 DEF Fetched
    <3> QED BY <2>1, <3>5
  <2>3. CASE conn # t
    <3>1. Fetched(t)' = Fetched(t)
      BY <2>1, <2>3 DEF Fetched
    <3> QED BY <2>1, <3>1
  <2> QED BY <2>2, <2>3
<1>2. CASE WriteRecord
  <2>1. cursor'[t] = cursor[t] /\ pc = "page" /\ pc' = "page" /\ conn' = conn /\ at' = at
    BY <1>2 DEF WriteRecord
  <2>2. CASE conn = t
    <3>1. /\ Reached \in Nat /\ Reached' = Reached + 1
          /\ Range(file'[t]) = Range(file[t]) \cup {Reached + 1}
          /\ Reached + 1 \notin Range(file[t]) => IsInjective(file'[t])
      BY <1>2, <2>2, NextItem
    <3>2. Fetched(t) = Reached /\ cursor[t] # Done /\ Fetched(t)' = Reached'
      BY <2>1, <2>2 DEF Fetched, Placement, InLoop
    <3>3. \A i \in Range(file[t]) : i <= Reached
      BY <3>2
    <3>4. Reached + 1 \notin Range(file[t])
      <4>1. ~(Reached + 1 <= Reached)
        BY <3>1
      <4> QED BY <3>3, <4>1
    <3>5. ASSUME NEW i \in Range(file'[t]) PROVE i <= Reached + 1
      <4>1. CASE i = Reached + 1
        BY <3>1, <4>1
      <4>2. CASE i \in Range(file[t])
        <5>1. i \in Nat
          <6>1. file[t] \in Seq(Nat)
            BY <1>0 DEF TypeOK
          <6>2. PICK k \in DOMAIN file[t] : i = file[t][k]
            BY <4>2 DEF Range
          <6> QED BY <6>1, <6>2, LenProperties, ElementOfSeq
        <5> QED BY <3>1, <3>3, <4>2, <5>1
      <4> QED BY <3>1, <3>5, <4>1, <4>2
    <3> QED BY <3>1, <3>2, <3>4, <3>5
  <2>3. CASE conn # t
    <3>1. file'[t] = file[t]
      BY <1>0, <1>2, <2>3, NextItem
    <3>2. Fetched(t)' = Fetched(t)
      BY <2>1, <2>3 DEF Fetched
    <3> QED BY <2>1, <3>1, <3>2
  <2> QED BY <2>2, <2>3
<1>3. CASE SaveCursor
  <2>1. file'[t] = file[t] /\ pc = "page" /\ pc' # "page"
    BY <1>3 DEF SaveCursor, AfterLoop
  <2>2. CASE conn = t
    <3>1. /\ cursor'[t] = IF more THEN end ELSE Done
          /\ Reached = PageEnd /\ (more => end = PageEnd)
      BY <1>0, <1>3, <2>2, SaveFacts DEF TypeOK
    <3>2. Fetched(t) = Reached /\ cursor[t] # Done /\ Fetched(t)' = cursor'[t]
      BY <2>1, <2>2 DEF Fetched, Placement, InLoop
    <3> QED BY <2>1, <3>1, <3>2
  <2>3. CASE conn # t
    <3>1. cursor'[t] = cursor[t]
      BY <1>0, <1>3, <2>3 DEF SaveCursor, TypeOK
    <3>2. Fetched(t)' = Fetched(t)
      BY <2>1, <2>3, <3>1, FetchedKept
    <3> QED BY <2>1, <3>1, <3>2
  <2> QED BY <2>2, <2>3
<1>4. CASE GiveUpTeam
  <2>1. file'[t] = file[t] /\ pc = "give_up" /\ pc' # "page"
    BY <1>4 DEF GiveUpTeam, AfterLoop
  <2>2. cursor'[t] = IF t = conn THEN Done ELSE cursor[t]
    BY <1>0, <1>4 DEF GiveUpTeam, TypeOK
  <2>3. CASE t # conn
    <3>1. Fetched(t)' = Fetched(t)
      BY <2>1, <2>2, <2>3, FetchedKept
    <3> QED BY <2>1, <2>2, <2>3, <3>1
  <2> QED BY <2>1, <2>2, <2>3
<1>5. CASE Sigint \/ UNCHANGED vars
  <2>1. /\ file' = file /\ cursor' = cursor /\ pc' = pc /\ conn' = conn /\ at' = at
        /\ left' = left
    BY <1>5 DEF Sigint, vars
  <2>2. Fetched(t)' = Fetched(t)
    BY <2>1, FetchedKept
  <2> QED BY <2>1, <2>2
<1>6. CASE \/ Start \/ PassOrganization \/ OrganizationFails \/ OrganizationAnswers
           \/ OrganizationDone \/ TakeTeams \/ ReadRoster \/ SkipTeam \/ TakeTeam
           \/ QueryFails \/ NoConnection \/ TeamsEnd \/ FanOutEnds \/ PhaseEnds
           \/ GuardStops \/ QueryRaises
  <2>1. cursor' = cursor /\ pc' # "page" /\ pc # "page"
    BY <1>6 DEF Start, PassOrganization, OrganizationFails, OrganizationAnswers,
         OrganizationDone, TakeTeams, ReadRoster, SkipTeam, TakeTeam, QueryFails,
         NoConnection, TeamsEnd, FanOutEnds, PhaseEnds, GuardStops, QueryRaises, Asks, Exit,
         AfterLoop
  <2>2. file'[t] = file[t]
    <3>1. CASE OrganizationAnswers
      BY <1>0, <3>1 DEF OrganizationAnswers, TypeOK
    <3>2. ASSUME ~OrganizationAnswers PROVE file' = file
      BY <1>6, <3>2 DEF Start, PassOrganization, OrganizationFails, OrganizationDone,
         TakeTeams, ReadRoster, SkipTeam, TakeTeam, QueryFails, NoConnection, TeamsEnd,
         FanOutEnds, PhaseEnds, GuardStops, QueryRaises
    <3> QED BY <3>1, <3>2
  <2>3. Fetched(t)' = Fetched(t)
    BY <2>1, <2>2, FetchedKept
  <2> QED BY <2>1, <2>2, <2>3
<1>7. ~Crash
  <2>1. crashes \in Nat
    BY DEF TypeOK
  <2> QED BY <2>1 DEF Crash
<1> QED BY <1>1, <1>2, <1>3, <1>4, <1>5, <1>6, <1>7 DEF Next, Engine

LEMMA OnceStep ==
    ASSUME TypeOK, Placement, PageShape, NothingTwice, [Next]_vars
    PROVE  NothingTwice'
<1>1. \/ crashes' = crashes
      \/ crashes' = crashes + 1
  BY DEF Next, Engine, Start, PassOrganization, OrganizationFails, OrganizationAnswers,
         OrganizationDone, TakeTeams, ReadRoster, SkipTeam, TakeTeam, QueryFails,
         NoConnection, GiveUpTeam, PageArrives, WriteRecord, SaveCursor, TeamsEnd,
         FanOutEnds, PhaseEnds, GuardStops, QueryRaises, Sigint, Crash, vars
<1>2. SUFFICES ASSUME crashes' = 0
               PROVE  /\ IsInjective(file'[Organization])
                      /\ pc' # "organization_done" /\ "organization" \notin complete'
                            => file'[Organization] = <<>>
                      /\ \A t \in Team :
                            /\ IsInjective(file'[t])
                            /\ cursor'[t] # Done
                                  => \A i \in Range(file'[t]) : i <= Fetched(t)'
  BY DEF NothingTwice
<1>3. crashes' = crashes /\ crashes = 0
  BY <1>1, <1>2 DEF TypeOK
<1>4. /\ IsInjective(file'[Organization])
      /\ pc' # "organization_done" /\ "organization" \notin complete'
            => file'[Organization] = <<>>
  BY <1>3, OrganizationOnce DEF NothingTwice
<1>5. ASSUME NEW t \in Team
      PROVE  /\ IsInjective(file'[t])
             /\ cursor'[t] # Done => \A i \in Range(file'[t]) : i <= Fetched(t)'
  <2>1. /\ IsInjective(file[t])
        /\ cursor[t] # Done => \A i \in Range(file[t]) : i <= Fetched(t)
    BY <1>3 DEF NothingTwice
  <2> QED BY <1>3, <2>1, TeamOnce
<1> QED BY <1>4, <1>5

----------------------------------------------------------------------------
(* The inductive invariant, and the theorems.                              *)

LEMMA InitHolds == Init => IInv
<1> SUFFICES ASSUME Init PROVE IInv
  OBVIOUS
<1> USE DEF Init
<1>0. /\ \A c \in Connection : Size[c] \in Nat
      /\ Done \notin Nat /\ Teams \in Connection /\ Organization \in Resource
      /\ Connection \subseteq Resource /\ Team \subseteq Connection /\ MaxStarts \in Nat
      /\ \A S : <<>> \in Seq(S)
  BY SizeAssumption, EmptyFacts DEF SizeAssumption, Connection, Resource
<1>1. TypeOK
  <2>1. /\ cursor \in [Connection -> Nat \cup {Done}]
        /\ \A c \in Connection : cursor[c] = 0 /\ 0 <= Size[c]
    BY <1>0
  <2>2. /\ file \in [Resource -> Seq(Nat)]
        /\ \A c \in Connection : file[c] \in Seq(1 .. Size[c])
        /\ file[Organization] \in Seq({1})
    BY <1>0
  <2>3. /\ complete \subseteq {"organization", "teams", "team_members"}
        /\ ledger \subseteq Resource \cup Unimplemented
        /\ roster \in Seq(Team) /\ left \in Seq(Nat)
    BY <1>0
  <2>4. pc = "down" /\ interrupted \in BOOLEAN /\ more \in BOOLEAN /\ conn = None
    BY Zenon
  <2>5. at \in Nat /\ end \in Nat /\ crashes \in Nat
    OBVIOUS
  <2>6. starts \in 0 .. MaxStarts
    <3>1. starts = 0 /\ MaxStarts \in Nat
      BY <1>0
    <3> HIDE DEF Init
    <3> QED BY <3>1
  <2> HIDE DEF Init
  <2> QED BY <2>1, <2>2, <2>3, <2>4, <2>5, <2>6 DEF TypeOK
<1>2. GuardInv
  <2>1. Len(requests) = 0 /\ requests \in Seq(BOOLEAN)
    BY <1>0, EmptyFacts DEF GuardInit
  <2>2. FailedIn(requests, 0) = {} /\ Cardinality({}) = 0
    BY FS_EmptySet DEF FailedIn
  <2>3. RowIn(requests, 0) /\ ~OutageIn(requests, 0)
    BY <2>1, GuardAssumption DEF RowIn, GuardAssumption, OutageIn
  <2>4. StopsExactlyAtOutage
    BY <2>1, <2>3, OutageIs DEF GuardInit, StopsExactlyAtOutage
  <2> QED BY <2>1, <2>2, <2>3, <2>4 DEF GuardInit, GuardInv, CountersTellHistory
<1>3. Placement /\ PageShape
  BY <1>0 DEF Placement, PageShape, InLoop, FanningOut
<1>4. SkippedIsStored
  BY <1>0 DEF SkippedIsStored
<1>5. TeamsThrough /\ OrganizationThrough /\ NoTeamPassedOver /\ MembersThrough
  BY DEF TeamsThrough, OrganizationThrough, NoTeamPassedOver, MembersThrough, FanningOut
<1>6. NothingTwice
  <2>1. \A r \in Resource : Range(file[r]) = {} /\ IsInjective(file[r])
    BY EmptyFacts
  <2> QED BY <1>0, <2>1 DEF NothingTwice
<1> QED BY <1>1, <1>2, <1>3, <1>4, <1>5, <1>6 DEF IInv

LEMMA Inductive == Spec => []IInv
<1>1. IInv /\ [Next]_vars => IInv'
  <2> SUFFICES ASSUME IInv, [Next]_vars PROVE IInv'
    OBVIOUS
  <2>1. TypeOK' /\ Placement' /\ PageShape' /\ SkippedIsStored'
    BY TypeStep, PlacementStep, PageStep, SkippedStep DEF IInv
  <2>2. GuardInv'
    BY GuardStep DEF IInv
  <2>3. TeamsThrough' /\ OrganizationThrough' /\ NoTeamPassedOver' /\ MembersThrough'
    BY TeamsStep, OrganizationStep, PassedOverStep, MembersStep DEF IInv
  <2>4. NothingTwice'
    BY OnceStep DEF IInv
  <2> QED BY <2>1, <2>2, <2>3, <2>4 DEF IInv
<1> QED BY <1>1, InitHolds, PTL DEF Spec

\* A value stands at most once in a sequence without repetition.
LEMMA AtMostOnce ==
    ASSUME NEW s, IsInjective(s), NEW i
    PROVE  Cardinality({k \in DOMAIN s : s[k] = i}) <= 1
<1>1. CASE \A k \in DOMAIN s : s[k] # i
  <2>1. {k \in DOMAIN s : s[k] = i} = {}
    BY <1>1
  <2> QED BY <2>1, FS_EmptySet
<1>2. ASSUME NEW k \in DOMAIN s, s[k] = i
      PROVE  Cardinality({l \in DOMAIN s : s[l] = i}) <= 1
  <2>1. {l \in DOMAIN s : s[l] = i} = {k}
    BY <1>2 DEF IsInjective
  <2> QED BY <2>1, FS_Singleton
<1> QED BY <1>1, <1>2

(* The variables keep their types, for any teams and any connections: no   *)
(* cursor points behind the end of its connection, and no file holds an    *)
(* item its connection does not have.                                      *)
THEOREM DirectoryTypes == Spec => []TypeOK
BY Inductive, PTL DEF IInv

(* What the stored cursor makes a resumed run skip is stored, or was given *)
(* up with a gap, wherever the process dies.                               *)
THEOREM NothingSkippedUnstored == Spec => []SkippedIsStored
BY Inductive, PTL DEF IInv

(* A complete dataset lacks nothing that is not in the gap ledger, after   *)
(* any failures, outages, interrupts, deaths and resumes.                  *)
THEOREM NothingMissingInSilence == Spec => []EveryTeamAccountedFor
<1>1. IInv => EveryTeamAccountedFor
  <2> SUFFICES ASSUME IInv PROVE EveryTeamAccountedFor
    OBVIOUS
  <2>1. "organization" \in complete => Has(Organization, 1) \/ Organization \in ledger
    BY DEF IInv, OrganizationThrough
  <2>2. ASSUME "team_members" \in complete, NEW i \in 1 .. Size[Teams]
        PROVE  /\ Has(Teams, i) \/ Teams \in ledger
               /\ Has(Teams, i) => \/ TeamAt[i] \in ledger
                                   \/ \A m \in 1 .. Size[TeamAt[i]] : Has(TeamAt[i], m)
    <3>1. Has(Teams, i) \/ Teams \in ledger
      BY <2>2 DEF IInv, Placement, TeamsThrough, Listed
    <3>2. Has(Teams, i) => Accounted(TeamAt[i])
      BY <2>2 DEF IInv, MembersThrough, Has
    <3> QED BY <3>1, <3>2 DEF Accounted
  <2> QED BY <2>1, <2>2 DEF EveryTeamAccountedFor
<1> QED BY <1>1, Inductive, PTL

(* Without a crash no record of the organization or of a team is stored    *)
(* twice, however often the run is interrupted, stopped and resumed.       *)
THEOREM NoDuplicateWithoutCrash == Spec => []TeamRecordsOnce
<1>1. IInv => TeamRecordsOnce
  <2> SUFFICES ASSUME IInv, crashes = 0
               PROVE  /\ Copies(Organization, 1) <= 1
                      /\ \A t \in Team : \A i \in 1 .. Size[t] : Copies(t, i) <= 1
    BY DEF TeamRecordsOnce
  <2>1. IsInjective(file[Organization]) /\ \A t \in Team : IsInjective(file[t])
    BY DEF IInv, NothingTwice
  <2>2. \A r : IsInjective(file[r]) => \A i : Copies(r, i) <= 1
    BY AtMostOnce DEF Copies
  <2> QED BY <2>1, <2>2
<1> QED BY <1>1, Inductive, PTL

(* The failure guard stops a run exactly at its first outage, for any      *)
(* thresholds.                                                             *)
THEOREM GuardStopsAtOutage == Spec => []StopsExactlyAtOutage
BY Inductive, PTL DEF IInv, GuardInv
=============================================================================
