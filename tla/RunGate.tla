------------------------------- MODULE RunGate -------------------------------
(***************************************************************************)
(* What stands between a command and the data, and what its exit status    *)
(* tells: run_snapshot of run.py from the request to the manifest, with    *)
(* the choice and the checks of a snapshot to resume, the preflight gate   *)
(* of preflight.py and the command line around it; retry-gaps as far as    *)
(* it shares these.  Commands run one at a time on one organization; what  *)
(* the phases do to the data is left to the modules of the engines.        *)
(*                                                                         *)
(* A snapshot is named by the second it was created in, a tick of clock.   *)
(* An administrator edits the installation at GitHub at any time, and the  *)
(* tool is upgraded between commands.                                      *)
(***************************************************************************)
EXTENDS Selection, Integers

CONSTANTS
    Required,        \* Required[d]: the App permissions d is read with
    OrgLevel,        \* the datasets phase 1 is to fetch
    Fetchable,       \* the datasets the engines have a query for
    Flaky,           \* bound: the datasets GitHub may answer with an error
    Ask,             \* bound: the options users give the run command
    Installations,   \* bound: what an administrator lets the App reach and read
    StaleAfter,      \* stale_after_days
    MaxClock, MaxStarts, MaxEdits, MaxUpgrades,   \* bounds
    Automatic, Fresh \* no --resume, and --force-fresh

Tick  == 0 .. MaxClock
Reach == {"all", "selected"}

Permissions == UNION {Required[d] : d \in Dataset}

(* What a filter, a manifest and a checkpoint hold, as far as a command    *)
(* looks at it.                                                            *)
Filters     == [names : {None} \cup SUBSET Repo, noArchived : BOOLEAN, noForks : BOOLEAN]
Manifests   == [gaps : SUBSET Dataset, restricted : BOOLEAN]
Checkpoints == [schema : Nat, datasets : Seq(Dataset),
                names : {None} \cup SUBSET Repo, noArchived : BOOLEAN, noForks : BOOLEAN,
                listing : {"open", "complete", "gapped"}]

ASSUME GateAssumption ==
    /\ Installations \subseteq [reach : Reach, granted : SUBSET Permissions]
    /\ OrgLevel \subseteq Dataset /\ Fetchable \subseteq Dataset /\ Flaky \subseteq Dataset
    /\ \A ask \in Ask : /\ ask.request = None \/ ask.request \in Seq(Range(ask.request))
                        /\ ask.filter \in Filters
                        /\ ask.resume \in {Automatic, Fresh} \cup Nat
    /\ {StaleAfter, MaxClock, MaxStarts, MaxEdits, MaxUpgrades} \subseteq Nat

(* The markers are no values of the kinds they are used beside.            *)
ASSUME MarkerAssumption ==
    /\ Automatic \notin Nat /\ Fresh \notin Nat /\ Automatic # Fresh
    /\ None \notin Nat /\ None \notin Reach /\ \A i \in Installations : i.granted # None
    /\ None \notin Manifests /\ None \notin Checkpoints /\ \A R \in SUBSET Repo : R # None

(* ExitStatus, and the status Python gives an exception nobody catches.    *)
ExitStatus ==
    [SUCCESS |-> 0, COMPLETED_WITH_GAPS |-> 1, STOPPED_RESUMABLE |-> 2,
     INVALID_USAGE |-> 3, AUTH_FAILURE |-> 4, CONCURRENT_RUN_REFUSED |-> 5,
     PREFLIGHT_BLOCKED |-> 6, UNEXPECTED_FAILURE |-> 7, USER_INTERRUPT |-> 130]
Uncaught == 1

(* exit_status_for_error.                                                  *)
StatusOf(kind) ==
    CASE kind \in {"CREDENTIAL_CONFLICT", "CREDENTIAL_INVALID"} -> ExitStatus.INVALID_USAGE
      [] kind \in {"AUTH_EXPIRED", "AUTH_FAILED", "ORG_NOT_FOUND", "APP_NOT_INSTALLED"}
            -> ExitStatus.AUTH_FAILURE
      [] kind \in {"RATE_LIMIT_WAIT_EXCEEDED", "SYSTEMIC_FAILURE"}
            -> ExitStatus.STOPPED_RESUMABLE
      [] kind = "REQUEST_FAILED" -> ExitStatus.UNEXPECTED_FAILURE

----------------------------------------------------------------------------
VARIABLES
    clock, version,  \* the current second; CHECKPOINT_SCHEMA_VERSION
    installation,    \* GitHub: what the installation reaches and may read
    edits,           \* edits an administrator has made
    form,            \* the credential form all commands are given
    dirs,            \* the snapshot directories under org_dir
    checkpoint,      \* checkpoint[s]: what checkpoint.json holds, or None
    manifest,        \* manifest[s]: what manifest.json holds, or None
    left,            \* a killed run has left its claim behind
    command, asked,  \* the latest command and its options
    pc,
    snap,            \* the snapshot in hand, or None
    selection,       \* credentials.repository_selection
    permissions,     \* credentials.permissions
    scope_restricted,\* OrgLevelResult.scope_restricted
    found,           \* datasets with a gap in the outcomes so far
    exit, report,    \* exit status and snapshot_dir of the result
    starts,          \* commands given so far
    before,          \* history: the disk as the command found it
    scopes,          \* history: scopes[s]: what s was worked on for
    listed,          \* history: the reach under which repositories of s were listed
    stirred,         \* history: snapshots in whose life an edit fell, None for
                     \* one the command at work has yet to create
    odd,             \* history: snapshots created twice, or listed again by a retry
    raised           \* history: an exception nobody catches ended the command

github  == <<installation, edits>>
disk    == <<dirs, checkpoint, manifest>>
known   == <<selection, permissions>>
outcome == <<scope_restricted, found>>
result  == <<exit, report>>
history == <<before, scopes, listed, stirred, odd>>
fixed   == <<form, version, command, asked, starts>>
vars    == <<clock, fixed, github, disk, left, pc, snap, known, outcome, result,
             history, raised>>

NoAsk == [request |-> None, filter |-> NoFilter, resume |-> Automatic,
          fail_fast |-> FALSE, allow_stale |-> FALSE]

Init ==
    /\ clock = 0 /\ version = 1 /\ edits = 0
    /\ installation \in Installations /\ form \in {"app", "static"}
    /\ dirs = {} /\ left = FALSE
    /\ checkpoint = [s \in Tick |-> None] /\ manifest = [s \in Tick |-> None]
    /\ command = "run" /\ asked = NoAsk /\ pc = "off" /\ snap = None
    /\ selection = None /\ permissions = None
    /\ scope_restricted = FALSE /\ found = {}
    /\ exit = None /\ report = None /\ raised = FALSE /\ starts = 0
    /\ before = <<dirs, checkpoint, manifest>>
    /\ scopes = [s \in Tick |-> {}] /\ listed = [s \in Tick |-> {}]
    /\ stirred = {} /\ odd = {}

----------------------------------------------------------------------------
(* Commands and their ends                                                 *)

Begin(cmd, ask) ==
    /\ pc = "off" /\ starts < MaxStarts
    /\ starts' = starts + 1
    /\ command' = cmd /\ asked' = ask
    /\ before' = disk /\ stirred' = stirred \ {None} /\ raised' = FALSE
    /\ UNCHANGED <<clock, form, version, github, dirs, manifest, left, known, outcome,
                   scopes, listed, odd>>

Invoke(ask) ==
    /\ Begin("run", ask)
    /\ pc' = "start" /\ UNCHANGED snap
    /\ exit' = None /\ report' = None
    /\ UNCHANGED checkpoint

(* The process is gone, and what it knew.                                  *)
Gone ==
    /\ pc' = "off" /\ snap' = None
    /\ selection' = None /\ permissions' = None
    /\ scope_restricted' = FALSE /\ found' = {}

(* A RunResult, or an exception, ends the process and releases the claim.  *)
End(status, where) ==
    /\ Gone /\ exit' = status /\ report' = where
    /\ UNCHANGED <<clock, fixed, github, history>>

Stop(status, where) ==
    End(status, where) /\ UNCHANGED <<disk, left, raised>>

(* build_credential_provider raises: neither form, both, or a bad key.     *)
RefuseCredentials == pc = "start" /\ Stop(StatusOf("CREDENTIAL_CONFLICT"), None)

----------------------------------------------------------------------------
(* The choice of a snapshot and the checks of a resume                     *)

Chosen == Range(Resolved(asked.request).names)

(* An empty allowlist is stored, and compared, as if there were none.      *)
Stored(names) == IF names = {} THEN None ELSE names

(* find_newest_incomplete_snapshot and find_named_snapshot.                *)
Incomplete == {s \in dirs : checkpoint[s] # None /\ manifest[s] = None}
Newest     == IF Incomplete = {} THEN None ELSE Max(Incomplete)
Candidate ==
    CASE asked.resume = Fresh     -> None
      [] asked.resume = Automatic -> Newest
      [] OTHER                    -> asked.resume

(* _resume_compatibility_error.                                            *)
MutantCompatible(c, ask) ==
    Range(checkpoint[c].datasets) = Range(Resolved(ask.request).names)
Compatible(c, ask) ==
    /\ Range(checkpoint[c].datasets) = Range(Resolved(ask.request).names)
    /\ checkpoint[c].names = Stored(ask.filter.names)
    /\ checkpoint[c].noArchived = ask.filter.noArchived
    /\ checkpoint[c].noForks = ask.filter.noForks

(* CheckpointStore.resume fails in a directory without a checkpoint.       *)
MayResume(c) ==
    /\ checkpoint[c] # None /\ checkpoint[c].schema = version
    /\ Compatible(c, asked)
    /\ clock - c <= StaleAfter \/ asked.allow_stale

Acceptable ==
    /\ Resolvable(asked.request)
    /\ asked.resume \in {Automatic, Fresh} \cup dirs
    /\ Candidate # None => MayResume(Candidate)

Refuse == pc = "start" /\ ~Acceptable /\ Stop(ExitStatus.INVALID_USAGE, None)

MutantAccept ==
    /\ pc = "start" /\ Acceptable
    /\ pc' = "claim" /\ snap' = Candidate
    /\ dirs' = dirs \cup (IF Candidate = None THEN {clock} ELSE {})
    /\ UNCHANGED <<clock, fixed, github, checkpoint, manifest, left, known, outcome,
                   result, history, raised>>
Accept ==
    /\ pc = "start" /\ Acceptable
    /\ pc' = "claim" /\ snap' = Candidate
    /\ UNCHANGED <<clock, fixed, github, disk, left, known, outcome, result, history, raised>>

(* OrgClaim.acquire: the claim of a killed run counts only when its pid    *)
(* belongs to another process by now.                                      *)
ClaimRefused == pc = "claim" /\ left /\ Stop(ExitStatus.CONCURRENT_RUN_REFUSED, None)

ClaimTaken ==
    /\ pc = "claim" /\ pc' = "preflight" /\ left' = FALSE
    /\ UNCHANGED <<clock, fixed, github, disk, snap, known, outcome, result, history, raised>>

----------------------------------------------------------------------------
(* Credentials and preflight                                               *)

(* _mint_token: the answer may leave repository_selection out, and then    *)
(* what discovery told stays.  Tokens minted in phase 2 tell nobody.       *)
MutantTold(answer) == answer
Told(answer) == IF answer = None THEN selection ELSE answer

MintToken ==
    /\ form = "app" /\ pc \in {"preflight", "phase1", "retry"}
    /\ \E answer \in {installation.reach} \cup (IF selection = None THEN {} ELSE {None}) :
          selection' = Told(answer)
    /\ permissions' = installation.granted
    /\ UNCHANGED <<clock, fixed, github, disk, left, pc, snap, outcome, result, history, raised>>

TokenInHand == form = "static" \/ permissions # None

(* What the first request of a process may raise, and a later one; a       *)
(* request that fails for good is a gap once the phases have begun.        *)
AuthErrors == IF form = "static" THEN {"AUTH_EXPIRED"} ELSE {"AUTH_FAILED"}
FirstErrors ==
    AuthErrors \cup {"RATE_LIMIT_WAIT_EXCEEDED"}
        \cup (IF form = "app"
              THEN {"ORG_NOT_FOUND", "APP_NOT_INSTALLED", "CREDENTIAL_INVALID"} ELSE {})
PreflightErrors == FirstErrors \cup {"REQUEST_FAILED"}
PhaseErrors == AuthErrors \cup {"RATE_LIMIT_WAIT_EXCEEDED", "SYSTEMIC_FAILURE"}

PreflightFails ==
    pc = "preflight" /\ \E kind \in PreflightErrors : Stop(StatusOf(kind), None)

(* _check_dataset_permissions and any_blocked: a pre-minted token does not *)
(* tell its permissions, and blocks nothing.                               *)
Blocked(d) == permissions # None /\ ~(Required[d] \subseteq permissions)
MutantAnyBlocked == \A d \in Chosen : Blocked(d)
AnyBlocked == \E d \in Chosen : Blocked(d)

PreflightBlocks ==
    /\ pc = "preflight" /\ TokenInHand /\ asked.fail_fast /\ AnyBlocked
    /\ Stop(ExitStatus.PREFLIGHT_BLOCKED, None)

Scope(datasets, filter) == [datasets |-> datasets, repos |-> Considered(filter)]
WorkOn(s) == scopes' = [scopes EXCEPT ![s] = @ \cup {Scope(Chosen, asked.filter)}]

PreflightPasses ==
    /\ pc = "preflight" /\ TokenInHand /\ ~(asked.fail_fast /\ AnyBlocked)
    /\ IF snap = None THEN pc' = "mkdir" /\ UNCHANGED scopes
                      ELSE pc' = "phase1" /\ WorkOn(snap)
    /\ UNCHANGED <<clock, fixed, github, disk, left, snap, known, outcome, result, before,
                   listed, stirred, odd, raised>>

(* mkdir with exist_ok, and CheckpointStore.create.                        *)
MakeDirectory ==
    /\ pc = "mkdir" /\ pc' = "create"
    /\ snap' = clock /\ dirs' = dirs \cup {clock}
    /\ odd' = IF clock \in dirs THEN odd \cup {clock} ELSE odd
    /\ stirred' = IF None \in stirred THEN stirred \cup {clock} ELSE stirred
    /\ UNCHANGED <<clock, fixed, github, checkpoint, manifest, left, known, outcome, result,
                   before, scopes, listed, raised>>

MutantCreated(ask) ==
    [schema |-> version, datasets |-> Resolved(ask.request).names,
     names |-> Stored(ask.filter.names), noArchived |-> ask.filter.noArchived,
     noForks |-> FALSE, listing |-> "open"]
Created(ask) ==
    [schema |-> version, datasets |-> Resolved(ask.request).names,
     names |-> Stored(ask.filter.names), noArchived |-> ask.filter.noArchived,
     noForks |-> ask.filter.noForks, listing |-> "open"]

CreateCheckpoint ==
    /\ pc = "create" /\ pc' = "phase1"
    /\ checkpoint' = [checkpoint EXCEPT ![snap] = Created(asked)]
    /\ WorkOn(snap)
    /\ UNCHANGED <<clock, fixed, github, dirs, manifest, left, snap, known, outcome, result,
                   before, listed, stirred, odd, raised>>

----------------------------------------------------------------------------
(* The phases, as far as the result depends on them                        *)

Listing == /\ pc \in {"phase1", "retry"} /\ TokenInHand
           /\ checkpoint[snap].listing = "open"
           /\ "repositories" \in IF command = "run" THEN Chosen ELSE manifest[snap].gaps

(* A page of the repositories connection, under the filter of the command: *)
(* a retry has none.                                                       *)
ListPage ==
    /\ Listing
    /\ \E now \in {"open", "complete"} :
          checkpoint' = [checkpoint EXCEPT ![snap].listing = now]
    /\ listed' = [listed EXCEPT ![snap] = @ \cup {installation.reach}]
    /\ IF command = "run" THEN UNCHANGED <<scopes, odd>>
       ELSE /\ scopes' = [scopes EXCEPT ![snap] =
                              @ \cup {Scope(Range(checkpoint[snap].datasets), NoFilter)}]
            /\ odd' = odd \cup {snap}
    /\ UNCHANGED <<clock, fixed, github, dirs, manifest, left, pc, snap, known, outcome,
                   result, before, stirred, raised>>

(* The connection ends in a gap, and counts as complete all the same.      *)
ListingFails ==
    /\ Listing
    /\ checkpoint' = [checkpoint EXCEPT ![snap].listing = "gapped"]
    /\ UNCHANGED <<clock, fixed, github, dirs, manifest, left, pc, snap, known, outcome,
                   result, history, raised>>

(* The gaps of the datasets of S: one the engines cannot fetch always has  *)
(* one, the repositories when their listing failed, others may.            *)
GapsIn(S) ==
    {g \cup (S \ Fetchable)
       \cup (IF checkpoint[snap].listing = "gapped" THEN S \cap {"repositories"} ELSE {}) :
     g \in SUBSET (S \cap Flaky)}

Restricted == selection = "selected"

EndPhase1 ==
    /\ pc = "phase1" /\ TokenInHand /\ ~Listing
    /\ found' \in GapsIn(Chosen \cap OrgLevel)
    /\ scope_restricted' = Restricted
    /\ pc' = "phase2"
    /\ UNCHANGED <<clock, fixed, github, disk, left, snap, known, result, history, raised>>

EndPhase2 ==
    /\ pc = "phase2" /\ pc' = "finalize"
    /\ \E gaps \in GapsIn(Chosen \ OrgLevel) : found' = found \cup gaps
    /\ UNCHANGED <<clock, fixed, github, disk, left, snap, known, scope_restricted, result,
                   history, raised>>

PhaseFails ==
    pc \in {"phase1", "phase2"} /\ \E kind \in PhaseErrors : Stop(StatusOf(kind), snap)

(* Manifest.status, and the status a command takes from it.                *)
MutantComplete(m) == m.gaps = {}
Complete(m) == m.gaps = {} /\ ~m.restricted
StatusBy(m) == IF Complete(m) THEN ExitStatus.SUCCESS ELSE ExitStatus.COMPLETED_WITH_GAPS

(* finalize_snapshot, whose conversions may fail, build_manifest and       *)
(* write_manifest.                                                         *)
Write(m) ==
    /\ manifest' = [manifest EXCEPT ![snap] = m]
    /\ End(StatusBy(m), snap)
    /\ UNCHANGED <<dirs, checkpoint, left, raised>>

Publish ==
    /\ pc = "finalize"
    /\ \E unconverted \in SUBSET (Flaky \cap Chosen) :
          Write([gaps |-> found \cup unconverted, restricted |-> scope_restricted])

----------------------------------------------------------------------------
(* retry-gaps                                                              *)

RetryAsk(s) == [NoAsk EXCEPT !.resume = s]

(* A snapshot without a manifest is refused, one without gaps left alone.  *)
InvokeRetry(s) ==
    /\ Begin("retry", RetryAsk(s))
    /\ IF manifest[s] = None \/ manifest[s].gaps = {}
       THEN /\ UNCHANGED <<pc, snap, checkpoint>>
            /\ IF manifest[s] = None
               THEN exit' = ExitStatus.INVALID_USAGE /\ report' = None
               ELSE exit' = ExitStatus.SUCCESS /\ report' = s
       ELSE /\ pc' = "retry" /\ snap' = s /\ exit' = None /\ report' = None
            /\ checkpoint' = IF "repositories" \in manifest[s].gaps
                             THEN [checkpoint EXCEPT ![s].listing = "open"] ELSE checkpoint

RetryEnds ==
    /\ pc = "retry" /\ TokenInHand /\ ~Listing
    /\ \E gaps \in GapsIn(manifest[snap].gaps),
          unconverted \in SUBSET (Flaky \cap Range(checkpoint[snap].datasets)) :
          Write([gaps |-> gaps \cup unconverted, restricted |-> manifest[snap].restricted])

RetryFails ==
    /\ pc = "retry"
    /\ \E kind \in FirstErrors \cup PhaseErrors : Stop(StatusOf(kind), None)

----------------------------------------------------------------------------
(* What may end a command from outside                                     *)

(* The first Ctrl-C of the phases is seen between two pages.               *)
Interrupt == pc \in {"phase1", "phase2"} /\ Stop(ExitStatus.USER_INTERRUPT, snap)

(* Any other is a KeyboardInterrupt: the run command has a handler for it. *)
KeyboardInterrupt ==
    /\ pc # "off" /\ command = "run"
    /\ Stop(ExitStatus.USER_INTERRUPT, None)

(* A reply without data, one that is not JSON, a full disk: an exception   *)
(* outside OrgHarvestError, as is a Ctrl-C of retry-gaps, is not caught.   *)
Raise ==
    /\ pc \notin {"off", "start", "claim"}
    /\ End(Uncaught, None) /\ raised' = TRUE
    /\ UNCHANGED <<disk, left>>

Kill ==
    /\ pc # "off" /\ Gone
    /\ left' = (left \/ (command = "run" /\ pc \notin {"start", "claim"}))
    /\ UNCHANGED <<clock, fixed, github, disk, result, history, raised>>

(* The clock is read where a snapshot is judged and where one is named.    *)
TimePasses ==
    /\ pc \in {"off", "mkdir"} /\ clock < MaxClock /\ clock' = clock + 1
    /\ UNCHANGED <<fixed, github, disk, left, pc, snap, known, outcome, result, history, raised>>

(* GitHub: an administrator edits the installation.  Only a minting and a  *)
(* listing see it, so nothing is lost with the other moments of a run.     *)
Edit ==
    /\ pc \in {"off", "mkdir", "phase1", "retry"}
    /\ edits < MaxEdits /\ edits' = edits + 1
    /\ installation' \in Installations \ {installation}
    /\ stirred' = stirred \cup dirs \cup {None}
    /\ UNCHANGED <<clock, fixed, disk, left, pc, snap, known, outcome, result, before,
                   scopes, listed, odd, raised>>

Upgrade ==
    /\ pc = "off" /\ dirs # {} /\ version <= MaxUpgrades /\ version' = version + 1
    /\ UNCHANGED <<clock, form, command, asked, starts, github, disk, left, pc, snap, known,
                   outcome, result, history, raised>>

Next ==
    \/ \E ask \in Ask : Invoke(ask)
    \/ RefuseCredentials \/ Refuse \/ Accept \/ ClaimRefused \/ ClaimTaken
    \/ MintToken \/ PreflightFails \/ PreflightBlocks \/ PreflightPasses
    \/ MakeDirectory \/ CreateCheckpoint
    \/ ListPage \/ ListingFails \/ EndPhase1 \/ EndPhase2 \/ PhaseFails \/ Publish
    \/ \E s \in Tick : InvokeRetry(s)
    \/ RetryEnds \/ RetryFails
    \/ Interrupt \/ KeyboardInterrupt \/ Raise \/ Kill
    \/ TimePasses \/ Edit \/ Upgrade

Spec == Init /\ [][Next]_vars

----------------------------------------------------------------------------
(* Properties                                                              *)

(* SelectionIsClosure: a run fetches exactly the datasets its request      *)
(* needs, each after the ones it depends on, and reports every one the     *)
(* request did not name (AC-2.6).                                          *)
SelectionIsClosure ==
    pc = "start" /\ asked.request # None /\ Resolvable(asked.request)
        => IsClosureOf(Resolved(asked.request), asked.request)

(* OneScopePerSnapshot: whatever resumes a snapshot works on the datasets  *)
(* and the repositories it was started for, so no stored cursor or gap is  *)
(* read under another scope (AC-4.8), unless two runs created it in one    *)
(* second, a retry has listed the repositories again, or a library caller  *)
(* gave an empty allowlist.                                                *)
OneScopePerSnapshot ==
    \A s \in dirs \ odd :
        Cardinality({sc \in scopes[s] : sc.repos # {}}) <= 1

(* RestrictionReported: a snapshot whose repositories were listed, in part *)
(* even, through an installation scoped to selected repositories is marked *)
(* as restricted (EC-3), however many attempts and tokens it took, if the  *)
(* installation was not edited in its life and an App key was used.        *)
RestrictionReported ==
    form = "app" =>
        \A s \in dirs \ stirred :
            manifest[s] # None /\ "selected" \in listed[s] => manifest[s].restricted

(* FailFastSparesTheBudget: with fail-fast and an App key the phases begin *)
(* only if every dataset of the selection can be read (EC-20), also in a   *)
(* run that resumes, as long as no edit fell in the snapshot's life.       *)
FailFastSparesTheBudget ==
    /\ form = "app" /\ command = "run" /\ asked.fail_fast
    /\ pc \in {"phase1", "phase2", "finalize"} /\ snap \notin stirred
    => \A d \in Chosen : Required[d] \subseteq installation.granted

(* ExitTellsOutcome: a caller that sees only the exit status of a command  *)
(* knows what is on disk (FR-10): all that was asked for, a manifest with  *)
(* something missing, or a snapshot that can be resumed.  Exceptions       *)
(* nobody catches also exit with 1, a stopped run leaves a finished        *)
(* snapshot it was reopening finished, and a retry with nothing to do      *)
(* succeeds on a restricted snapshot.                                      *)
ExitTellsOutcome ==
    exit # None /\ ~raised =>
        /\ exit = ExitStatus.SUCCESS =>
              /\ manifest[report] # None /\ manifest[report].gaps = {}
              /\ manifest[report].restricted => command = "retry" /\ disk = before
        /\ exit = ExitStatus.COMPLETED_WITH_GAPS =>
              /\ manifest[report] # None
              /\ manifest[report].gaps # {} \/ manifest[report].restricted
        /\ exit \notin {ExitStatus.SUCCESS, ExitStatus.COMPLETED_WITH_GAPS} =>
              /\ manifest = before[3]
              /\ report # None => checkpoint[report] # None

(* RefusalLeavesNoTrace: a run that is refused, or that fails before it    *)
(* reports a snapshot, leaves every snapshot as it found them and creates  *)
(* none (AC-2.4, AC-4.8, AC-6.4, FR-9).                                    *)
RefusalLeavesNoTrace ==
    /\ command = "run" /\ exit \notin {None, ExitStatus.USER_INTERRUPT}
    /\ report = None /\ ~raised
    => disk = before

(* StoppedIsResumable: after a run that stopped or was interrupted and     *)
(* reports a snapshot, the same command continues that snapshot if no      *)
(* snapshot was named, and is not refused for its scope or its version     *)
(* (AC-4.2), unless the snapshot was a finished one before.                *)
StoppedIsResumable ==
    /\ command = "run" /\ report # None
    /\ exit \in {ExitStatus.STOPPED_RESUMABLE, ExitStatus.USER_INTERRUPT}
    /\ before[3][report] = None /\ checkpoint[report].schema = version
    => /\ Compatible(report, asked)
       /\ asked.resume \in {Automatic, Fresh} => Newest = report

----------------------------------------------------------------------------
(* What the documents say, and the code does not keep.                     *)

(* "On interruption by the user, the tool ... prints the command to        *)
(* resume" (AC-4.11): the command it prints names the organization and the *)
(* snapshot, and nothing of the request or the filter.                     *)
PrintedCommandResumes ==
    command = "run" /\ exit = ExitStatus.USER_INTERRUPT /\ report # None
        => Compatible(report, NoAsk)
=============================================================================
