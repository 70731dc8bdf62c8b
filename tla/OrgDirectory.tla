----------------------------- MODULE OrgDirectory -----------------------------
(***************************************************************************)
(* Phase 1 of a run, org_level.py: the organization itself (one query), a  *)
(* paginated connection of it (here "teams"), one that fans out over the   *)
(* teams its file lists ("team_members"), and the gap of a selected        *)
(* dataset that nobody fetches; across kills, interrupts, outages and      *)
(* resumed runs.  Every query reports to the failure guard.  The two loops *)
(* over pages differ in what they keep of a finished connection: the first *)
(* stores the end cursor of every page, the second CURSOR_DONE after the   *)
(* last.                                                                   *)
(*                                                                         *)
(* A connection holds the items 1 .. Size[c]; a cursor is the number of    *)
(* items before it, and 0 is the null cursor, from which a query starts at *)
(* the beginning.  GitHub gives a page without items a null end cursor.    *)
(***************************************************************************)
EXTENDS FailureGuard, Functions

CONSTANTS
    Organization,    \* the file and the gaps of the organization query
    Teams,           \* the organization's connection
    Team,            \* the teams
    Unimplemented,   \* selected datasets without a connection
    Size,            \* Size[c]: items of connection c at GitHub
    TeamAt,          \* TeamAt[i]: the team that is item i of Teams
    PageSize,
    MaxStarts,       \* bound: process starts
    Done,            \* resume.CURSOR_DONE
    None

Connection == {Teams} \cup Team
Resource   == Connection \cup {Organization}

ASSUME ConnectionAssumption == /\ Teams \notin Team /\ Organization \notin Connection
                               /\ None \notin Resource
                               /\ Unimplemented \cap Resource = {}
ASSUME SizeAssumption == /\ Size \in [Connection -> Nat]
                         /\ TeamAt \in [1 .. Size[Teams] -> Team]
                         /\ IsInjective(TeamAt) /\ Range(TeamAt) = Team
                         /\ PageSize \in Nat \ {0}
                         /\ MaxStarts \in Nat
                         /\ Done \notin Nat

VARIABLES
    \* on disk
    cursor,          \* cursor[c] in the checkpoint
    file,            \* file[r]: the items appended for r, in order
    complete,        \* the datasets the checkpoint calls complete
    ledger,          \* what has a gap in the checkpoint
    \* in memory
    pc, interrupted,
    conn,            \* the connection being fetched
    roster,          \* teams still to visit, as teams.ndjson lists them
    at,              \* the local variable cursor
    left,            \* items of the page still to append
    end,             \* the page's endCursor
    more,            \* the page's hasNextPage
    \* bounds and history
    starts,
    crashes          \* process deaths that were not interrupts

disk   == <<cursor, file, complete, ledger>>
page   == <<left, end, more>>
memory == <<interrupted, conn, roster, at, page>>
vars   == <<disk, pc, memory, guard, starts, crashes>>

Running == pc # "down"
Goto(label) == pc' = label

Init ==
    /\ cursor = [c \in Connection |-> 0]
    /\ file = [r \in Resource |-> <<>>]
    /\ complete = {} /\ ledger = {}
    /\ pc = "down" /\ interrupted = FALSE
    /\ conn = None /\ roster = <<>> /\ at = 0
    /\ left = <<>> /\ end = 0 /\ more = FALSE
    /\ GuardInit
    /\ starts = 0 /\ crashes = 0

Exit ==
    /\ Goto("down") /\ interrupted' = FALSE
    /\ conn' = None /\ roster' = <<>> /\ at' = 0
    /\ left' = <<>> /\ end' = 0 /\ more' = FALSE

Start ==
    /\ pc = "down" /\ starts < MaxStarts
    /\ starts' = starts + 1
    /\ NewGuard
    /\ Goto("organization")
    /\ UNCHANGED <<disk, memory, crashes>>

(* _query: an attempt is reported when the request has failed for good or  *)
(* its answer has been read; a guard that trips ends the run there.        *)
Asks == pc \in {"organization", "query"} /\ (pc = "organization" => "organization" \notin complete)
Attempt(failed) ==
    /\ Asks /\ ~Raises(failed)
    /\ RecordAttempt(failed)

GuardStops ==
    /\ Asks
    /\ \E failed \in BOOLEAN : Raises(failed) /\ RecordAttempt(failed)
    /\ Exit
    /\ UNCHANGED <<disk, starts, crashes>>

WithGap(r) == ledger \cup {r}

----------------------------------------------------------------------------
(* fetch_organization_scalar.  An interrupt before it skips it, one during *)
(* it does not keep the dataset from being marked complete.                *)
PassOrganization ==
    /\ pc = "organization" /\ (interrupted \/ "organization" \in complete)
    /\ Goto("connections")
    /\ UNCHANGED <<disk, memory, guard, starts, crashes>>

OrganizationFails ==
    /\ pc = "organization" /\ ~interrupted
    /\ Attempt(TRUE)
    /\ ledger' = WithGap(Organization)
    /\ Goto("organization_done")
    /\ UNCHANGED <<cursor, file, complete, memory, starts, crashes>>

(* Without a record there is a gap: that of an error or of missing data.   *)
OrganizationAnswers ==
    /\ pc = "organization" /\ ~interrupted
    /\ Attempt(FALSE)
    /\ \/ /\ file' = [file EXCEPT ![Organization] = Append(@, 1)]
          /\ ledger' \in {ledger, WithGap(Organization)}
       \/ /\ ledger' = WithGap(Organization)
          /\ UNCHANGED file
    /\ Goto("organization_done")
    /\ UNCHANGED <<cursor, complete, memory, starts, crashes>>

OrganizationDone ==
    /\ pc = "organization_done"
    /\ complete' = complete \cup {"organization"}
    /\ Goto("connections")
    /\ UNCHANGED <<cursor, file, ledger, memory, guard, starts, crashes>>

----------------------------------------------------------------------------
(* fetch_organization_directory: "teams" first, unless it is complete.     *)
TakeTeams ==
    /\ pc = "connections" /\ ~interrupted /\ "teams" \notin complete
    /\ Goto("query") /\ conn' = Teams /\ at' = cursor[Teams]
    /\ UNCHANGED <<disk, interrupted, roster, page, guard, starts, crashes>>

(* The teams are read back from teams.ndjson before the fan-out begins.    *)
ReadRoster ==
    /\ pc = "connections" /\ ~interrupted /\ "teams" \in complete
    /\ roster' = [i \in DOMAIN file[Teams] |-> TeamAt[file[Teams][i]]]
    /\ Goto(IF "team_members" \in complete THEN "tail" ELSE "next")
    /\ UNCHANGED <<disk, interrupted, conn, at, page, guard, starts, crashes>>

(* A team whose cursor is CURSOR_DONE is passed over.                      *)
MutantSkipped(t) == FALSE
Skipped(t) == cursor[t] = Done

SkipTeam ==
    /\ pc = "next" /\ roster # <<>> /\ ~interrupted /\ Skipped(Head(roster))
    /\ roster' = Tail(roster)
    /\ UNCHANGED <<disk, pc, interrupted, conn, at, page, guard, starts, crashes>>

FirstItem(c) == IF cursor[c] = Done THEN 0 ELSE cursor[c]
TakeTeam ==
    /\ pc = "next" /\ roster # <<>> /\ ~interrupted /\ ~Skipped(Head(roster))
    /\ conn' = Head(roster)
    /\ at' = FirstItem(Head(roster))
    /\ roster' = Tail(roster)
    /\ Goto("query")
    /\ UNCHANGED <<disk, interrupted, page, guard, starts, crashes>>

----------------------------------------------------------------------------
(* One query and its page                                                  *)

(* Where the loop over pages goes when it breaks.                          *)
AfterLoop == IF conn = Teams THEN "status" ELSE "next"

QueryFails ==
    /\ pc = "query"
    /\ Attempt(TRUE)
    /\ ledger' = WithGap(conn)
    /\ Goto(AfterLoop)
    /\ UNCHANGED <<cursor, file, complete, memory, starts, crashes>>

(* No data for the connection: one gap, or one per error of the answer;    *)
(* a team is then done with, in a save of its own.                         *)
NoConnection ==
    /\ pc = "query"
    /\ Attempt(FALSE)
    /\ ledger' = WithGap(conn)
    /\ Goto(IF conn = Teams THEN AfterLoop ELSE "give_up")
    /\ UNCHANGED <<cursor, file, complete, memory, starts, crashes>>

GiveUpTeam ==
    /\ pc = "give_up"
    /\ cursor' = [cursor EXCEPT ![conn] = Done]
    /\ Goto(AfterLoop)
    /\ UNCHANGED <<file, complete, ledger, memory, guard, starts, crashes>>

(* An answer with a page, perhaps with errors on fields beside it.         *)
PageEnd == IF at + PageSize <= Size[conn] THEN at + PageSize ELSE Size[conn]
PageArrives ==
    /\ pc = "query"
    /\ Attempt(FALSE)
    /\ ledger' \in {ledger, WithGap(conn)}
    /\ left' = [i \in 1 .. PageEnd - at |-> at + i]
    /\ end' = IF PageEnd = at THEN 0 ELSE PageEnd
    /\ more' = (PageEnd < Size[conn])
    /\ Goto("page")
    /\ UNCHANGED <<cursor, file, complete, interrupted, conn, roster, at, starts, crashes>>

WriteRecord ==
    /\ pc = "page" /\ left # <<>>
    /\ file' = [file EXCEPT ![conn] = Append(@, Head(left))]
    /\ left' = Tail(left)
    /\ UNCHANGED <<cursor, complete, ledger, pc, interrupted, conn, roster, at, end,
                   more, guard, starts, crashes>>

(* The cursor kept after a page: for the organization the end cursor, even *)
(* of the last page; for a team CURSOR_DONE after the last page.           *)
MutantKept == IF more THEN end + 1 ELSE IF conn = Teams THEN end ELSE Done
Kept == IF conn = Teams \/ more THEN end ELSE Done
SaveCursor ==
    /\ pc = "page" /\ left = <<>>
    /\ cursor' = [cursor EXCEPT ![conn] = Kept]
    /\ at' = end
    /\ Goto(IF more /\ ~interrupted THEN "query" ELSE AfterLoop)
    /\ UNCHANGED <<file, complete, ledger, interrupted, conn, roster, page, guard, starts,
                   crashes>>

----------------------------------------------------------------------------
(* The status of a dataset is saved unless the user has asked to stop.     *)
MutantMayComplete == TRUE
MayComplete == ~interrupted
WithStatus(dataset) == IF MayComplete THEN complete \cup {dataset} ELSE complete

TeamsEnd ==
    /\ pc = "status"
    /\ complete' = WithStatus("teams")
    /\ Goto("connections")
    /\ UNCHANGED <<cursor, file, ledger, memory, guard, starts, crashes>>

FanOutEnds ==
    /\ pc = "next" /\ (roster = <<>> \/ interrupted)
    /\ complete' = WithStatus("team_members")
    /\ Goto("tail")
    /\ UNCHANGED <<cursor, file, ledger, memory, guard, starts, crashes>>

(* Each selected dataset that has no connection here is a gap.             *)
PhaseEnds ==
    /\ pc = "tail" \/ (pc = "connections" /\ interrupted)
    /\ ledger' = IF interrupted THEN ledger ELSE ledger \cup Unimplemented
    /\ Exit
    /\ UNCHANGED <<cursor, file, complete, guard, starts, crashes>>

(* Errors that are nobody's gap end the run; so does a kill anywhere, or a *)
(* second interrupt.                                                       *)
QueryRaises ==
    /\ Asks
    /\ Exit
    /\ UNCHANGED <<disk, guard, starts, crashes>>

Sigint ==
    /\ Running /\ ~interrupted
    /\ interrupted' = TRUE
    /\ UNCHANGED <<disk, pc, conn, roster, at, page, guard, starts, crashes>>

Crash ==
    /\ Running
    /\ crashes' = crashes + 1
    /\ Exit
    /\ UNCHANGED <<disk, guard, starts>>

Engine ==
    \/ PassOrganization \/ OrganizationFails \/ OrganizationAnswers \/ OrganizationDone
    \/ TakeTeams \/ ReadRoster \/ SkipTeam \/ TakeTeam
    \/ QueryFails \/ NoConnection \/ GiveUpTeam \/ PageArrives \/ WriteRecord \/ SaveCursor
    \/ TeamsEnd \/ FanOutEnds \/ PhaseEnds \/ GuardStops \/ QueryRaises

Next == Start \/ Engine \/ Sigint \/ Crash

Spec == Init /\ [][Next]_vars

----------------------------------------------------------------------------
Copies(r, i) == Cardinality({k \in DOMAIN file[r] : file[r][k] = i})
Has(r, i)    == i \in Range(file[r])

(* Type invariant.                                                         *)
TypeOK ==
    /\ cursor \in [Connection -> Nat \cup {Done}]
    /\ \A c \in Connection : cursor[c] # Done => cursor[c] <= Size[c]
    /\ file \in [Resource -> Seq(Nat)]
    /\ \A c \in Connection : file[c] \in Seq(1 .. Size[c])
    /\ file[Organization] \in Seq({1})
    /\ complete \subseteq {"organization", "teams", "team_members"}
    /\ ledger \subseteq Resource \cup Unimplemented
    /\ pc \in {"down", "organization", "organization_done", "connections", "query",
               "page", "give_up", "status", "next", "tail"}
    /\ interrupted \in BOOLEAN
    /\ conn \in Connection \cup {None}
    /\ roster \in Seq(Team)
    /\ at \in Nat /\ end \in Nat /\ left \in Seq(Nat) /\ more \in BOOLEAN
    /\ starts \in 0 .. MaxStarts /\ crashes \in Nat

(* Whatever the stored cursor skips on resume is in the file, or was given *)
(* up with a gap, at every point where the process can die.                *)
SkippedIsStored ==
    \A c \in Connection :
        /\ cursor[c] # Done => \A i \in 1 .. cursor[c] : Has(c, i)
        /\ cursor[c] = Done => c \in ledger \/ \A i \in 1 .. Size[c] : Has(c, i)

(* What the checkpoint calls complete lacks nothing in silence, whatever   *)
(* failures, outages, interrupts and deaths came before: the organization  *)
(* is in its file or has a gap; every team is in the file of teams or that *)
(* dataset has a gap; and every member of a team in the file is stored or  *)
(* the team has a gap (set_dataset_status of the three fetches).           *)
EveryTeamAccountedFor ==
    /\ "organization" \in complete => Has(Organization, 1) \/ Organization \in ledger
    /\ "team_members" \in complete =>
          \A i \in 1 .. Size[Teams] :
              /\ Has(Teams, i) \/ Teams \in ledger
              /\ Has(Teams, i) =>
                    \/ TeamAt[i] \in ledger
                    \/ \A m \in 1 .. Size[TeamAt[i]] : Has(TeamAt[i], m)

(* Interrupts, errors, outages and resumes, in any number, duplicate no    *)
(* record of the organization or of a team: only a crash does, even when   *)
(* teams.ndjson lists a team twice.                                        *)
TeamRecordsOnce ==
    crashes = 0 => /\ Copies(Organization, 1) <= 1
                   /\ \A t \in Team : \A i \in 1 .. Size[t] : Copies(t, i) <= 1
=============================================================================
