----------------------------- MODULE SnapshotRun -----------------------------
(***************************************************************************)
(* The life of the snapshots of one organization: run_snapshot (run.py),   *)
(* the choice of the snapshot to resume (resume.py), the order of the      *)
(* datasets (org_level.py, repo_level.py), the conversion to Parquet       *)
(* (finalize.py), manifest and root index (manifest.py) and retry_gaps     *)
(* (retry.py), one process at a time (OrgClaim is about several).          *)
(*                                                                         *)
(* What RepoHarvest shows step by step is one step here: a repository is   *)
(* fetched for a dataset, or found unfetchable, together with its line and *)
(* its cursor.  Snapshots are numbered by their timestamps.                *)
(***************************************************************************)
EXTENDS Integers, Sequences, FiniteSetsExt, Functions

CONSTANTS
    Repo,            \* the repositories GitHub lists for the organization
    Before, After,   \* repository-level datasets whose names sort before and
                     \* after "repositories", in the order they are fetched
    Repositories,    \* the dataset "repositories"
    Org,             \* resource of a gap of a whole organization dataset
    NoResource,      \* resource of a failed conversion
    AllowNamed,      \* does the user pass --resume <name>?
    AllowRetry,      \* does the user run retry-gaps?
    MaxSnapshots, MaxStarts, MaxDeaths,   \* bounds
    None

Dataset  == Range(Before) \cup {Repositories} \cup Range(After)
Sorted   == Before \o <<Repositories>> \o After
MutantPhases == Sorted
Phases   == <<Repositories>> \o Before \o After
Snapshot == 1 .. MaxSnapshots
Resource == Repo \cup {Org, NoResource}
Gap      == Dataset \X Resource

ASSUME NameAssumption == /\ Org \notin Repo /\ NoResource \notin Repo
                         /\ Org # NoResource
                         /\ None \notin Snapshot /\ None \notin [Repo -> Nat]
ASSUME RepoAssumption == IsFiniteSet(Repo)
ASSUME OrderAssumption == Before \in Seq(Dataset) /\ After \in Seq(Dataset)
                          /\ IsInjective(Sorted)
ASSUME BoundAssumption == /\ MaxSnapshots \in Nat /\ MaxStarts \in Nat
                          /\ MaxDeaths \in Nat

VARIABLES
    made,            \* snapshots made so far
    status,          \* status[s]: datasets the checkpoint calls complete
    cursors,         \* cursors[s][d]: units of d the checkpoint has passed
    ledger,          \* ledger[s]: gaps in the checkpoint
    ndjson,          \* ndjson[s][d]: lines per unit, or None (no file)
    parquet,         \* parquet[s][d]: rows per unit, or None
    manifest,        \* manifest[s]: counts and gaps, or None
    index,           \* index.json: an entry per listed snapshot, and latest
    \* the running process
    pc, snap,
    plan,            \* datasets still to fetch
    found,           \* gaps of the dataset being fetched (local to it)
    outcome,         \* the DatasetOutcome of each dataset fetched or skipped so far
    files,           \* NDJSON files still to convert
    failed,          \* gaps of failed conversions
    base,            \* the manifest retry_gaps has read; None in a run
    \* bounds and history
    starts, deaths,
    again,           \* snapshots on which a second process has worked
    reopened,        \* those on which one began after a file was converted
    retried,         \* snapshots on which retry-gaps has begun to work
    unlisted         \* a process died between its manifest and the index

checkpoint == <<status, cursors, ledger>>
output     == <<ndjson, parquet>>
published  == <<manifest, index>>
memory     == <<plan, found, outcome, files, failed, base>>
history    == <<starts, deaths, again, reopened, retried, unlisted>>
vars       == <<made, checkpoint, output, published, pc, snap, memory, history>>

MutantLines(content) ==
    IF content = None THEN -1 ELSE MapThenSumSet(LAMBDA u : content[u], Repo)
Lines(content) ==
    IF content = None THEN 0 ELSE MapThenSumSet(LAMBDA u : content[u], Repo)
Holds(content, u) == content # None /\ content[u] > 0
Add(content, u) ==
    [v \in Repo |-> (IF content = None THEN 0 ELSE content[v]) + (IF v = u THEN 1 ELSE 0)]

GapsOf(gaps, d)      == {g \in gaps : g[1] = d}
ResourcesOf(gaps, d) == {g[2] : g \in GapsOf(gaps, d)} \ {NoResource}

Incomplete(s) == s <= made /\ manifest[s] = None
Complete(s)   == manifest[s] # None /\ manifest[s].gaps = {}
ManifestStatus(s) == IF manifest[s] = None THEN "incomplete"
                     ELSE IF Complete(s) THEN "complete" ELSE "complete_with_gaps"

(* Loops visit the datasets of a set in a given order.                     *)
First(order, S) == order[Min({i \in DOMAIN order : order[i] \in S})]

IdleMemory ==
    /\ plan = {} /\ found = {} /\ files = {} /\ failed = {} /\ base = None
    /\ outcome = [d \in {} |-> None]

Init ==
    /\ made = 0
    /\ status = [s \in Snapshot |-> {}]
    /\ cursors = [s \in Snapshot |-> [d \in Dataset |-> {}]]
    /\ ledger = [s \in Snapshot |-> {}]
    /\ ndjson = [s \in Snapshot |-> [d \in Dataset |-> None]]
    /\ parquet = [s \in Snapshot |-> [d \in Dataset |-> None]]
    /\ manifest = [s \in Snapshot |-> None]
    /\ index = [entries |-> <<>>, latest |-> None]
    /\ pc = "idle" /\ snap = None
    /\ IdleMemory
    /\ starts = 0 /\ deaths = 0
    /\ again = {} /\ reopened = {} /\ retried = {} /\ unlisted = FALSE

----------------------------------------------------------------------------
(* run_snapshot: which snapshot to work on                                 *)

Begin(s, work, from) ==
    /\ pc = "idle" /\ starts < MaxStarts
    /\ pc' = "fetch" /\ snap' = s
    /\ plan' = work /\ base' = from
    /\ starts' = starts + 1
    /\ UNCHANGED <<found, outcome, files, failed, deaths, unlisted,
                   checkpoint, output, published>>

Reopen(s) ==
    /\ again' = again \cup {s}
    /\ reopened' = IF \E d \in Dataset : parquet[s][d] # None
                   THEN reopened \cup {s} ELSE reopened

Newest(S) == CHOOSE s \in S : \A t \in S : t <= s

(* --force-fresh, or no incomplete snapshot to resume: a new directory.    *)
RunFresh ==
    /\ made < MaxSnapshots
    /\ made' = made + 1
    /\ Begin(made + 1, Dataset, None)
    /\ UNCHANGED <<again, reopened, retried>>

(* Without a name the newest incomplete snapshot is resumed.               *)
RunResume ==
    /\ \E s \in Snapshot : Incomplete(s)
    /\ LET s == Newest({t \in Snapshot : Incomplete(t)})
       IN  Begin(s, Dataset, None) /\ Reopen(s)
    /\ UNCHANGED <<made, retried>>

(* A named snapshot is resumed whether or not it has a manifest.           *)
RunNamed ==
    /\ AllowNamed
    /\ \E s \in 1 .. made : Begin(s, Dataset, None) /\ Reopen(s)
    /\ UNCHANGED <<made, retried>>

(* retry_gaps works on a snapshot whose manifest has gaps, one gapped      *)
(* dataset after the other in the order of their names.                    *)
MutantRetryPlan(s) == Dataset
RetryPlan(s) == {d \in Dataset : GapsOf(manifest[s].gaps, d) # {}}
RetryGaps ==
    /\ AllowRetry
    /\ \E s \in 1 .. made :
          /\ manifest[s] # None /\ manifest[s].gaps # {}
          /\ Begin(s, RetryPlan(s), manifest[s])
          /\ Reopen(s)
          /\ retried' = retried \cup {s}
    /\ UNCHANGED made

----------------------------------------------------------------------------
(* Fetching one dataset after another                                      *)

(* A run fetches "repositories" first, a retry goes by the names.          *)
Current == First(IF base = None THEN Phases ELSE Sorted, plan)

(* The units of the current dataset: pages of the organization connection, *)
(* or the repositories repositories.ndjson lists at this moment; a retry   *)
(* narrows the latter to the resources of the gaps, if they name any.      *)
Units ==
    IF Current = Repositories THEN Repo
    ELSE LET listed == {u \in Repo : Holds(ndjson[snap][Repositories], u)}
             named  == IF base = None THEN {} ELSE ResourcesOf(base.gaps, Current)
         IN  IF named = {} THEN listed ELSE listed \cap named
Unfetched == Units \ cursors[snap][Current]

(* The outcome returned for the current dataset: its count is what the     *)
(* NDJSON file holds now.                                                  *)
MutantOutcome(gaps) == [count |-> Cardinality(cursors[snap][Current]), gaps |-> gaps]
Outcome(gaps) == [count |-> Lines(ndjson[snap][Current]), gaps |-> gaps]
Return(gaps) ==
    outcome' = [d \in DOMAIN outcome \cup {Current} |->
                  IF d = Current THEN Outcome(gaps) ELSE outcome[d]]

(* A dataset the checkpoint calls complete is skipped; its gaps are those  *)
(* of the ledger.                                                          *)
SkipDataset ==
    /\ pc = "fetch" /\ plan # {} /\ base = None
    /\ Current \in status[snap]
    /\ Return(GapsOf(ledger[snap], Current))
    /\ plan' = plan \ {Current}
    /\ UNCHANGED <<made, checkpoint, output, published, pc, snap, found, files,
                   failed, base, history>>

(* _reset_for_retry: status and gaps of the dataset go, and the cursors of *)
(* its gapped resources, or of the whole organization dataset.             *)
CursorsKept(d) ==
    IF d = Repositories THEN {} ELSE cursors[snap][d] \ ResourcesOf(base.gaps, d)
ResetDataset ==
    /\ pc = "fetch" /\ plan # {} /\ base # None
    /\ pc' = "refetch"
    /\ status' = [status EXCEPT ![snap] = @ \ {Current}]
    /\ ledger' = [ledger EXCEPT ![snap] = @ \ GapsOf(@, Current)]
    /\ cursors' = [cursors EXCEPT ![snap][Current] = CursorsKept(Current)]
    /\ UNCHANGED <<made, output, published, snap, memory, history>>

Entered ==
    /\ plan # {}
    /\ \/ pc = "fetch" /\ base = None /\ Current \notin status[snap]
       \/ pc = "refetch"
Unopened == Current = Repositories /\ ndjson[snap][Current] = None
Fetching == Entered /\ ~Unopened

(* An organization dataset opens its file, and so creates it, before the   *)
(* first query; a repository-level one at its first record.                *)
OpenFile ==
    /\ Entered /\ Unopened
    /\ ndjson' = [ndjson EXCEPT ![snap][Current] = [u \in Repo |-> 0]]
    /\ UNCHANGED <<made, checkpoint, parquet, published, pc, snap, memory, history>>

(* A unit is fetched: its line is appended, its cursor saved.              *)
FetchRecord ==
    /\ Fetching
    /\ \E u \in Unfetched :
          /\ ndjson' = [ndjson EXCEPT ![snap][Current] = Add(@, u)]
          /\ cursors' = [cursors EXCEPT ![snap][Current] = @ \cup {u}]
    /\ UNCHANGED <<made, status, ledger, parquet, published, pc, snap, memory, history>>

NextDataset ==
    /\ status' = [status EXCEPT ![snap] = @ \cup {Current}]
    /\ plan' = plan \ {Current}
    /\ found' = {}
    /\ pc' = "fetch"
    /\ UNCHANGED <<made, output, published, snap, files, failed, base, history>>

MutantRecorded(gap) == ledger[snap]
Recorded(gap) == ledger[snap] \cup {gap}

(* A repository is given up: the gap is recorded, then its cursor.         *)
FetchGap ==
    /\ Fetching /\ Current # Repositories
    /\ \E u \in Unfetched :
          /\ ledger' = [ledger EXCEPT ![snap] = Recorded(<<Current, u>>)]
          /\ found' = found \cup {<<Current, u>>}
          /\ cursors' = [cursors EXCEPT ![snap][Current] = @ \cup {u}]
    /\ UNCHANGED <<made, status, output, published, pc, snap, plan, outcome, files,
                   failed, base, history>>

(* A page of the organization connection that fails ends the dataset.      *)
ConnectionFails ==
    /\ Fetching /\ Current = Repositories
    /\ ledger' = [ledger EXCEPT ![snap] = Recorded(<<Current, Org>>)]
    /\ Return(found \cup {<<Current, Org>>})
    /\ NextDataset
    /\ UNCHANGED cursors

EndDataset ==
    /\ Fetching /\ Unfetched = {}
    /\ Return(found)
    /\ NextDataset
    /\ UNCHANGED <<cursors, ledger>>

----------------------------------------------------------------------------
(* finalize_snapshot, write_manifest, rebuild_root_index                   *)

StartFinalize ==
    /\ pc = "fetch" /\ plan = {}
    /\ files' = {d \in Dataset : ndjson[snap][d] # None}
    /\ pc' = "convert"
    /\ UNCHANGED <<made, checkpoint, output, published, snap, plan, found, outcome,
                   failed, base, history>>

(* The Parquet file is written anew from the lines of the NDJSON file, the *)
(* NDJSON file is removed in a second step.                                *)
NextFile == First(Sorted, files)
MutantConverted(d) == [u \in Repo |-> 0]
Converted(d) == ndjson[snap][d]
Convert ==
    /\ pc = "convert" /\ files # {}
    /\ parquet' = [parquet EXCEPT ![snap][NextFile] = Converted(NextFile)]
    /\ pc' = "unlink"
    /\ UNCHANGED <<made, checkpoint, ndjson, published, snap, memory, history>>

Unlink ==
    /\ pc = "unlink"
    /\ ndjson' = [ndjson EXCEPT ![snap][NextFile] = None]
    /\ files' = files \ {NextFile}
    /\ pc' = "convert"
    /\ UNCHANGED <<made, checkpoint, parquet, published, snap, plan, found, outcome,
                   failed, base, history>>

(* A conversion that fails becomes a gap, and the NDJSON file stays.       *)
ConvertFails ==
    /\ pc = "convert" /\ files # {}
    /\ failed' = failed \cup {<<NextFile, NoResource>>}
    /\ files' = files \ {NextFile}
    /\ UNCHANGED <<made, checkpoint, output, published, pc, snap, plan, found, outcome,
                   base, history>>

(* build_manifest: counts and gaps of the outcomes, those of datasets a    *)
(* retry did not touch from the manifest it read, and the failed           *)
(* conversions.                                                            *)
Reported(d) == IF d \in DOMAIN outcome THEN outcome[d]
               ELSE [count |-> base.counts[d], gaps |-> GapsOf(base.gaps, d)]
MutantConversionGaps == {}
ConversionGaps == failed
BuiltManifest ==
    [counts |-> [d \in Dataset |-> Reported(d).count],
     gaps   |-> (UNION {Reported(d).gaps : d \in Dataset}) \cup ConversionGaps]

WriteManifest ==
    /\ pc = "convert" /\ files = {}
    /\ manifest' = [manifest EXCEPT ![snap] = BuiltManifest]
    /\ pc' = "index"
    /\ UNCHANGED <<made, checkpoint, output, index, snap, memory, history>>

(* The index lists every directory with the status of its manifest and the *)
(* newest snapshot whose status is complete.                               *)
MutantIndexNow ==
    [entries |-> [s \in 1 .. made |-> ManifestStatus(s)], latest |-> snap]
IndexNow ==
    [entries |-> [s \in 1 .. made |-> ManifestStatus(s)],
     latest  |-> LET whole == {s \in 1 .. made : Complete(s)}
                 IN  IF whole = {} THEN None ELSE Newest(whole)]

Forget ==
    /\ pc' = "idle" /\ snap' = None
    /\ plan' = {} /\ found' = {} /\ files' = {} /\ failed' = {} /\ base' = None
    /\ outcome' = [d \in {} |-> None]

RebuildIndex ==
    /\ pc = "index"
    /\ index' = IndexNow
    /\ unlisted' = FALSE
    /\ Forget
    /\ UNCHANGED <<made, checkpoint, output, manifest, starts, deaths, again, reopened,
                   retried>>

(* The process is killed anywhere.  While it fetches, an interrupt or an   *)
(* error that ends the run leaves the disk in the same way.                *)
Die ==
    /\ pc # "idle" /\ deaths < MaxDeaths
    /\ deaths' = deaths + 1
    /\ unlisted' = (unlisted \/ pc = "index")
    /\ Forget
    /\ UNCHANGED <<made, checkpoint, output, published, starts, again, reopened, retried>>

Next ==
    \/ RunFresh \/ RunResume \/ RunNamed \/ RetryGaps
    \/ SkipDataset \/ ResetDataset \/ OpenFile \/ FetchRecord \/ FetchGap
    \/ ConnectionFails \/ EndDataset \/ StartFinalize \/ Convert \/ Unlink \/ ConvertFails
    \/ WriteManifest \/ RebuildIndex \/ Die

Spec == Init /\ [][Next]_vars
----------------------------------------------------------------------------
(* Type invariant.                                                         *)
Content == [Repo -> Nat] \cup {None}
Report  == [count : Nat, gaps : SUBSET Gap]
TypeOK ==
    /\ made \in 0 .. MaxSnapshots
    /\ status \in [Snapshot -> SUBSET Dataset]
    /\ cursors \in [Snapshot -> [Dataset -> SUBSET Repo]]
    /\ ledger \in [Snapshot -> SUBSET Gap]
    /\ ndjson \in [Snapshot -> [Dataset -> Content]]
    /\ parquet \in [Snapshot -> [Dataset -> Content]]
    /\ manifest \in [Snapshot -> [counts : [Dataset -> Nat], gaps : SUBSET Gap] \cup {None}]
    /\ index.latest \in Snapshot \cup {None}
    /\ pc \in {"idle", "fetch", "refetch", "convert", "unlink", "index"}
    /\ snap \in 1 .. made \cup {None}
    /\ plan \subseteq Dataset /\ files \subseteq Dataset
    /\ found \subseteq Gap /\ failed \subseteq Gap
    /\ DOMAIN outcome \subseteq Dataset /\ \A d \in DOMAIN outcome : outcome[d] \in Report
    /\ starts \in 0 .. MaxStarts /\ deaths \in 0 .. MaxDeaths

Stored(s, d, u) == Holds(ndjson[s][d], u) \/ Holds(parquet[s][d], u)

(* What a run has downloaded stays in the snapshot, in the NDJSON file or  *)
(* in the Parquet file, through kills at every point, resumes of any       *)
(* snapshot and failed conversions, as long as retry-gaps is not used      *)
(* (finalize_dataset overwrites the one and then removes the other).       *)
FetchedIsKept ==
    [][\A s \in Snapshot : s \notin retried' =>
          \A d \in Dataset, u \in Repo : Stored(s, d, u) => Stored(s, d, u)']_vars

(* A finished snapshot lacks nothing in silence: for every repository it   *)
(* lists, each repository-level dataset holds its record or the checkpoint *)
(* has a gap for it, whatever died in between and whatever was resumed.    *)
EveryRepoAccountedFor ==
    \A s \in Snapshot : manifest[s] # None /\ s \notin retried =>
        \A d \in Dataset \ {Repositories}, u \in Repo :
            Stored(s, Repositories, u) => Stored(s, d, u) \/ <<d, u>> \in ledger[s]

(* What DatasetFetch promises of one dataset, among the other datasets and *)
(* snapshots, while processes die and others resume: until retry-gaps      *)
(* works on a snapshot, each of its repository-level datasets takes only   *)
(* the steps of the promise.  A repository is excused if the finished      *)
(* "repositories" does not list it, or by its gap in the checkpoint.       *)
Promise(s, d) == INSTANCE DatasetFetch WITH
    Item      <- Repo,
    collected <- {u \in Repo : Stored(s, d, u)},
    excused   <- IF Repositories \in status[s]
                 THEN {u \in Repo : ~Stored(s, Repositories, u) \/ <<d, u>> \in ledger[s]}
                 ELSE {},
    complete  <- d \in status[s]
PromiseKept ==
    [][\A s \in Snapshot, d \in Dataset \ {Repositories} :
          s \notin retried' => [Promise(s, d)!Next]_(Promise(s, d)!absVars)]_vars

(* A snapshot made by one process and called complete is whole: every      *)
(* dataset has been converted and holds every repository exactly once      *)
(* (build_manifest collects the gaps of fetching and of converting).       *)
CompleteIsWhole ==
    \A s \in Snapshot : Complete(s) /\ s \notin again =>
        \A d \in Dataset, u \in Repo : parquet[s][d] # None /\ parquet[s][d][u] = 1

CountsMatch(s) ==
    \A d \in Dataset :
        manifest[s].counts[d] = Lines(IF parquet[s][d] # None THEN parquet[s][d]
                                      ELSE ndjson[s][d])

(* The counts of a manifest are those of the files, also after kills and   *)
(* resumes, unless a process began on files that were already converted    *)
(* (a retry always does).                                                  *)
CountsMatchUnlessReopened ==
    \A s \in Snapshot :
        manifest[s] # None /\ s \notin reopened \cup retried => CountsMatch(s)

(* A retry leaves the Parquet files of the datasets that had no gap alone  *)
(* (finalize_snapshot converts whatever NDJSON file it finds).             *)
RetryTouchesOnlyGaps ==
    [][base # None => \A d \in Dataset :
          GapsOf(base.gaps, d) = {} => parquet'[snap][d] = parquet[snap][d]]_vars

(* Between processes the index names the newest snapshot that is complete, *)
(* unless one died after its manifest and before its index.                *)
IndexNamesLatest ==
    pc = "idle" /\ ~unlisted =>
        \A s \in 1 .. made :
            (index.latest = s) <=>
                (Complete(s) /\ \A t \in s + 1 .. made : ~Complete(t))

----------------------------------------------------------------------------
(* What the documents say, and the code does not keep.                     *)

(* "Resources that now succeed are written into that snapshot and their    *)
(* gaps cleared" (AC-11.2): a gap on a repository that a retry clears has  *)
(* its record.                                                             *)
ClearedGapHasRecord ==
    [][base # None /\ manifest' # manifest =>
          \A g \in base.gaps : g[2] \in Repo /\ g \notin manifest'[snap].gaps =>
              Holds(parquet[snap][g[1]], g[2])]_vars
=============================================================================
