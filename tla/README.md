# A TLA+ model of org-harvest

org-harvest (`src/src/org_harvest`) downloads the metadata of a GitHub
organization into *snapshots*: one directory per snapshot, one NDJSON file per
dataset while it is being fetched, one Parquet file per dataset afterwards, a
`checkpoint.json` that makes the run resumable, a `manifest.json` that says what
the snapshot contains, and an `index.json` over all snapshots of the
organization. Its hard part is not what it downloads but what it may claim about
it after Ctrl-C, kills, retries, rate limits and refused queries.

This directory holds the specifications, the TLC configurations that check them
on small instances, and proofs checked by TLAPS. Paths below are relative to
`src/src/org_harvest`, `spec.md` is `src/features/org-harvest/spec.md`.

Contents

1. Inventory of the system
2. Modules, and how they correspond to the code
3. What each run checks
4. Bounds, and why they are enough
5. Fairness
6. What is proved
7. Where the code and its documentation disagree
8. What is only model-checked, and what is not modelled
9. Plan

## 1. Inventory of the system

One run is one process, one event loop and no spawned task: the engines send
one request at a time. Concurrency comes from elsewhere: from the kill, the
SIGINT and the restart, from a second process on the same directory, from
GitHub's clock and budget, from an administrator who edits the App's
installation, and from a library caller that shares a transport.

| component | code | state | operations |
|---|---|---|---|
| repository engine | `harvest/repo_level.py` | queue of repositories, sub-batches being split, page size, written counts, local gaps; on disk cursors, gaps, lines | take a batch, query, shrink the page, split the batch, give up, write a record, save a cursor, requeue, mark complete |
| organization engine | `harvest/org_level.py` | connection, cursor, team roster; on disk cursors, gaps, lines | page through a connection, fan out over `teams.ndjson`, skip stored teams, record gaps |
| checkpoint | `checkpoint.py` | dataset status, cursors, gaps, selection | create, load, save (temporary file and rename), set, record, clear |
| NDJSON output | `output.py` | an append-only file | append and fsync one line, tolerant read, strict read |
| interrupt guard | `interrupt.py` | a flag | first SIGINT sets it, second kills |
| run lifecycle | `run.py`, `resume.py` | the snapshot being worked on | choose it, claim, preflight, two phases, finalize, manifest, index |
| retry-gaps | `retry.py` | the manifest it read, the plan | reset datasets with gaps, refetch, convert, write the manifest |
| finalization | `finalize.py` | NDJSON and Parquet files | convert one dataset, unlink its NDJSON, or record a gap |
| manifest, index | `manifest.py` | `manifest.json`, `index.json` | build, write, rebuild |
| claim | `lock.py` | `.run.lock`, its temporary file, pids | read, judge, write, rename, unlink |
| transport | `transport.py`, `ratelimit.py` | known budget, slots, reduced bound, total wait | check the budget, wait, admit, send, classify, back off, release |
| credentials | `credentials.py` | JWT, token and its expiry, installation | discover, mint, refresh, classify a 401 |
| preflight | `preflight.py` | verdicts, repository selection | check permissions, fail fast |
| selection | `selection.py`, `datasets/` | resolved names, filter | resolve dependencies, compare with a checkpoint |
| failure guard | `harvest/systemic.py` | three counters | record an attempt, stop the run |
| gap ledger | `gaps.py` | records | none of its own |
| error kinds | `errors.py` | none | kind to exit status |
| command line | `cli.py` | none | options to a run, result or exception to an exit status |
| library surface | `__init__.py` | none | open a transport, call the run |
| flattening, hosts, time, progress, constants | `harvest/flatten.py`, `graphql.py`, ... | none | pure functions, display |

How they interact. `run_snapshot` picks a snapshot (`resume.py`), loads its
checkpoint, takes the claim, runs preflight and then the two engines, which call
the transport for every query; the transport asks the limiter, the budget
tracker and the credential provider. Engines report every request to the failure
guard, poll the interrupt guard between pages, append lines through
`NdjsonWriter` and save the checkpoint after each page. The second phase reads
the NDJSON files of the first (`repositories.ndjson`, `teams.ndjson`) from disk.
Then `finalize_snapshot`, `write_manifest` and `rebuild_root_index` follow, each
on what is on disk. `retry_gaps` enters the same engines later, on a snapshot
whose NDJSON files are normally gone.

What makes each part correct, and where it is hard:

* **repository engine** - the cursor on disk never claims a record the file does
  not hold; no repository is lost or queried twice while batches are split,
  shrunk and requeued; all of that ends. Hard: a kill between any two durable
  writes, cursors of one batch that advance apart, an item cap in mid-page.
* **organization engine** - a connection is complete only if every team has its
  records or a gap. Hard: null cursors, which mean both "not started" and
  "nothing there", and interrupts on the last page.
* **NDJSON output** - one torn line costs one record. Hard: append after a tear,
  readers that disagree on what a line is.
* **lifecycle, finalization, manifest, retry** - what a manifest says of a
  snapshot is so, and nothing that was fetched disappears. Hard: a kill between
  convert, unlink, manifest and index; a named resume; a retry after the NDJSON
  is gone.
* **claim** - one run at a time; a dead run does not block the directory. Hard:
  it is built from separate file-system calls.
* **transport** - slots are conserved, waits bounded, the reserve kept, and every
  send ends. Hard: late and lost replies, a bound that changes under waiting
  callers.
* **credentials** - no request carries a token that has run out. Hard: the host's
  clock is not GitHub's, and a JWT ages while its request is retried.
* **selection, preflight, command line** - the dependency closure; no resume
  under another scope; a restricted installation is in the manifest; fail-fast
  stops before the budget is spent; the exit status tells what is on disk, and a
  refusal leaves no trace. Hard: some dozen returns, three handlers, and commands
  of different options on the same snapshots while an administrator edits the
  installation.
* **failure guard** - stops exactly at an outage. Hard: what it stops has to be
  resumable in mid-connection.

`PROJECT.json` lists these hazards at their lines, with the properties about
them.

## 2. Modules, and how they correspond to the code

| module | models | checked by | proved in |
|---|---|---|---|
| `DatasetFetch` | the promise of fetching one dataset (abstract) | as property `Implements` of RepoHarvest, `PromiseKept` of SnapshotRun | `RepoHarvestProofs`, `SnapshotRunProofs` |
| `RepoHarvest` | repository engine with checkpoint, file, interrupt guard | `MCRepoHarvest` | `RepoHarvestProofs`, `SequenceFacts` |
| `OrgDirectory` | organization engine: the organization's own query, a connection and its fan-out | `MCOrgDirectory` | `OrgDirectoryProofs` |
| `FailureGuard` | the systemic failure guard, extended by OrgDirectory | `MCOrgDirectory` | `OrgDirectoryProofs` |
| `NdjsonFile` | the file down to half-lines, its three readers | `MCNdjsonFile` | `RepoHarvestProofs` |
| `SnapshotRun` | finalization, manifest, index, retry-gaps, on all snapshots | `MCSnapshotRun` | `SnapshotRunProofs` |
| `OrgClaim` | the claim, by file-system calls | `MCOrgClaim`, `MCSharedOrg` | `SharedOrgProofs` |
| `SharedOrg` | several runs: OrgClaim with the files it claims | `MCSharedOrg` | `SharedOrgProofs` |
| `RunGate` | commands: choice and checks, preflight, scope, exit status | `MCRunGate` | `RunGateProofs` |
| `Selection` | selection and filter, as operators | `MCRunGate` | `RunGateProofs` |
| `Catalog` | the program's catalog of datasets | `MCRunGate` | |
| `Transport` | `Transport.send`, budget tracker, limiter | `MCTransport` | `TransportProofs` |
| `Credentials` | providers, token life, authentication failures | `MCCredentials` | `CredentialsProofs` |

Who uses whom: RunGate EXTENDS Selection and is instantiated with Catalog;
OrgDirectory EXTENDS FailureGuard; SharedOrg EXTENDS OrgClaim, which it
implements; RepoHarvest and SnapshotRun instantiate DatasetFetch, which both
implement, the one for its dataset and the other for each of its own. Where two
modules meet, one of them has the other's part as a single step: SnapshotRun has
a whole fetch, RunGate a whole phase.

Each module is one component, and its `MC` module only names constants (that of
RunGate also the bound on the exploration, section 4).
Definitions whose name starts with `Mutant` (and `DeniedIsDead`,
`UnknownIsAlive` in `OrgClaim`) are not part of the models: each is a plausible
bug, in the shape of the definition that follows it, and serves to see that the
property it is listed with would notice.

**RepoHarvest.** One action per durable write and per outcome of a query.
`TakeBatch`/`EndLoop` are the head of the `while queue` loop of
`fetch_repo_dataset`; `TransportFails`, `Reply`, `QueryRaises` the outcomes of
`_query`; `TransportGap`, `ShrinkPage`, `SplitBatch`, `NodeLimitGap` the
branches at the top of `_run_batch`, where the local stack `work` is the
recursion of `_run_batch` on its halves; `NoData`, `MarkDone`, `PageArrives`,
`WriteRecord`, `SaveCursor` its loop over the aliases; `BatchDone` the requeue.
A cursor is the number of items before it. What is `memory` vanishes when the
process ends (`Exit`), what is `disk` does not. `Publish` writes the manifest
from the outcome in memory, as `run_snapshot` does. A torn line is kept as the
state of the file's tail (`clean`, `torn`, `garbled`, `corrupt`) and the set
`lost` of records merged into it; a full line that lacks only its newline is
told apart from a half line in `NdjsonFile`, not here. Several errors of one
alias collapse into one gap. A dataset without pagination is one page.
Exceptions that end the run from inside a query (the failure guard, the wait
ceiling, a 401, a body that is not JSON) are one action, `QueryRaises`.
`RepoOrder` is injective: `repositories.ndjson` is taken to list a repository
once.

**OrgDirectory.** `fetch_organization_scalar`, one paginated connection of the
organization (`teams`) and one fan-out (`team_members`), each query reported to
the failure guard before its answer is looked at (`Attempt`), and the gap of a
selected dataset that has no connection (`PhaseEnds`). `cursor` 0 is the null
cursor. The two loops store different things for a finished connection, which is
what most of the properties are about (`Kept`, `Skipped`, `MayComplete`).
`GuardStops` ends the run inside a query, before the failed request becomes a
gap. The other connections of the organization run the same loops.

**FailureGuard.** The three counters of `harvest/systemic.py` beside the whole
history of requests of the run; `Trips` judges the counters, `Outage` the
history. A run has a guard of its own (`NewGuard`).

**NdjsonFile.** A record's text is two halves of which neither parses; a record
in `Splits` has a separator such as U+2028 between them. `AppendRecord` appends a
line, `Kill` a proper prefix of one; the readers are operators on the file, which
they read character by character (`Read`): the lines they have seen the end of, and
the one they are in. Its `FileSpec` has names of its own, so that the proofs of
RepoHarvest can extend both.

**SnapshotRun.** What `RepoHarvest` shows step by step is one step here: a
repository is fetched for a dataset, or becomes a gap. In return the module has
all snapshots of one organization and every step of finalization, manifest and
index. `Die` during the fetch also stands for an interrupt or an error that
ends the run, which leave the same files. `ResetDataset` is one step, although
`retry.py` saves the checkpoint several times. A snapshot is its number in time,
so snapshot names are distinct. The loops over datasets, by phase, by name
(`retry_gaps`) or by file (`finalize_snapshot`), are the set of what is still to be
visited (`plan`, `files`) and the order of the visits (`First`); `outcome` is the
dictionary of the outcomes returned so far. `again`, `reopened`, `retried`, `unlisted` are
history variables for the exceptions the properties name.

**OrgClaim.** A file name stands for an inode, an inode for its creator, its
text for a pid. `OpenTmp`, `CloseTmp`, `ReplaceClaim` are the three calls of
`_write_claim`; `CheckRefused` and `CheckFree` the reading of the claim with
`os.kill(pid, 0)` (`Alive`); `Load` the reading of the checkpoint, before the
claim; `Finish` the end of a run for any reason, with the release. The pid of a
dead process is not given out again in the model.

**SharedOrg.** OrgClaim with one unfinished snapshot and the files of one of its
datasets. `SharedLoad` is the choice of the snapshot and the reading of its
checkpoint, before the claim; `mem` is what the run keeps of it, and `saved` the
disk. `OpenFile` to `WriteManifest` are what a run does under the claim: append a
page and write the whole checkpoint from memory, convert, unlink, publish. A file
that another run has unlinked stays writable for the run that has it open
(`onFile`), and what it appends is lost. `overtaken` and `clobbered` are history:
a run is overtaken when another has worked on the files since it loaded them, and
`clobbered` says that one of those went to work.

**RunGate.** One command at a time, from its options to its exit status. `Begin`
to `Kill` follow `run_snapshot` in its order: credentials, choice of a snapshot
(`Candidate`), its checks (`MayResume`), claim, preflight with the first token,
directory, checkpoint, phases, publication; `InvokeRetry` to `RetryEnds` do so
for `retry_gaps`. A snapshot is the second it was created in, so that two can
coincide. What the phases do is reduced to what a result depends on: which
datasets have a gap (`GapsIn`), through which installation repositories were
listed, under which filter (`ListPage`). Errors are their kinds, each raised
where the code can raise it (`FirstErrors`, `PhaseErrors`); what is not an
`OrgHarvestError` is `Raise`. `Edit` is an administrator at GitHub, `Upgrade` a
new schema version between two commands. `before`, `scopes`, `listed`, `stirred`,
`odd`, `raised` are history.

**Selection, Catalog.** Operators without state: `Resolved` for
`resolve_dataset_selection`, `Include` for `_include`, a recursive function on its
calls (the selection so far, a name, whether it was asked for), `Allows` for the
filter; `Needed` and `IsClosureOf` define the dependency closure by reference. `Catalog`
has the program's datasets with tier, level, permission and dependencies, so that RunGate
is checked with the real ones.

**Transport.** A step is what a coroutine does between two awaits that can
suspend it; times are ticks left. GitHub's side (`Charge`, `TurnAway`, the
window in `Tick`) is external. `TimeOut` may come after the request was charged.
`known` is what the tracker believes, `quota` what GitHub will grant; the whole
module is about the difference.

**Credentials.** Minutes on GitHub's clock; the host's clock trails it by
`Slow`. `Discover`, `Probe`, `Mint` are the bootstrap requests, each retried by
`BootstrapFails` with the same JWT, and `Delay` the time between `get_token` and
the request's arrival. `StrayStatus` is the `httpx` exception of
`raise_for_status`.

## 3. What each run checks

| run | properties | shows |
|---|---|---|
| `MCRepoHarvest_harvest` | `TypeOK`, `CursorNeverAhead`, `NothingDropped`, `DuplicatesBoundedByCrashes`, `FirstAttemptReportsAll`, `CursorsOnlyAdvance`, `Implements`, `AttemptsEnd` | checkpoint, file and gaps stay in step over kills, tears, Ctrl-C and resumes; shrinking and splitting lose nothing and end; the engine implements `DatasetFetch` |
| `MCOrgDirectory_safety` | `SkippedIsStored`, `EveryTeamAccountedFor`, `TeamRecordsOnce`, `StopsExactlyAtOutage` | a team is skipped only if stored, a dataset complete only if everything in it is accounted for, only a kill repeats a record, and the guard stops at the first outage and only there |
| `MCSnapshotRun_snapshots` | `EveryRepoAccountedFor`, `CompleteIsWhole`, `CountsMatchUnlessReopened`, `IndexNamesLatest`, `FetchedIsKept`, `PromiseKept`, `RetryTouchesOnlyGaps` | what manifest and index say is so, files survive, and each dataset takes only the steps of `DatasetFetch`, with the stated exceptions |
| `MCSharedOrg_runs` | `AloneUnlessRaced`, `ClaimNamesItsRun`, `SomeRunWorks`, `StaleClaimGoes`, `OneCopyUnlessOvertaken`, `FinishedIsFinalUnlessOvertaken` | the claim excludes unless two acquisitions overlap, never refuses everybody, and is reclaimed; the files stay whole and a finished snapshot final unless a run works from a checkpoint it read too early |
| `MCRunGate_commands` | `SelectionIsClosure`, `OneScopePerSnapshot`, `RestrictionReported`, `FailFastSparesTheBudget`, `ExitTellsOutcome`, `RefusalLeavesNoTrace`, `StoppedIsResumable` | two commands of any options: scope, restriction mark, fail-fast gate, refusals and exit statuses tell the truth of what is on disk, with the stated exceptions |
| `MCTransport_send` | `SlotsConserved`, `WaitsWithinCeiling`, `FloorCrossedOnlyUnseen`, `EverySendEnds` | slots, ceiling, reserve and progress with two callers |
| `MCNdjsonFile_safety` | `FirstKillIsHarmless`, `NothingInvented` | one tear costs one record; no reader makes a record up |
| `MCCredentials_safety` | `SentTokenIsLive`, `OutlivesItsTokens` | the refresh margin covers slow clocks and slow requests over two token lifetimes |
| `MCRepoHarvest_gaps_resume` | `ManifestReportsEveryGap` (violated) | section 7, 1 |
| `MCSnapshotRun_retry_clears` | `ClearedGapHasRecord` (violated) | section 7, 2 |
| `MCOrgClaim_race` | `OneRunAtWork` (violated) | section 7, 3 |
| `MCRunGate_printed_command` | `PrintedCommandResumes` (violated) | section 7, 4 |

Type correctness is proved for every module with a state, as `TypeOK`, `DataTypeOK`
(SharedOrg) and `FileTypeOK` (NdjsonFile; RunGate's is stated with its proof). One
run evaluates it besides, that of RepoHarvest.

Exceptions in the passing properties are the code's real limits, and are part of
what the runs establish. `DuplicatesBoundedByCrashes` allows one more copy of a
record per kill, and no more: neither an interrupt, nor a page fetched again at
a smaller size, nor a stop by an exception repeats one. `FloorCrossedOnlyUnseen`
counts the two ways in which several callers get below the reserve: each that is
past the check when the reserve is reached takes one point, and each time the
tracker is misled, by an answer that arrives out of order or by the fresh window it
assumes after a wait (`ratelimit.py:95`), it lets every caller through once more.
With one caller fewer in the bound TLC finds a violation. A single caller, which is
how the harvest engines use the transport, is never misled: `misled` stays 0.
`CountsMatchUnlessReopened` excludes exactly the snapshots on which a process
began after a file had been converted. `AloneUnlessRaced` excludes overlapping
acquisitions and nothing else: kills at every call and reclaimed claims are in.
`OneCopyUnlessOvertaken` and `FinishedIsFinalUnlessOvertaken` do not mention
overlapping acquisitions at all: what spoils files is not that two runs are at
work, but that one goes on from a checkpoint that has moved, and without their
`~clobbered` TLC finds both violated by two runs one after the other. The
exceptions of RunGate's properties (`odd`, `stirred`, `raised`) are named in
their comments; without any one of them TLC finds a violation.

Deadlock is not checked in any run: the command-line process really stops, and
every instance ends in states where all starts are used up.

## 4. Bounds, and why they are enough

* **RepoHarvest**: repositories of 4 items and 1, pages of 2, batches of 2, a cap
  of 3, two process starts. One repository needs two pages and the other one,
  so a batch ends with one repository requeued and one done; a batch of two can
  split once and a page of two shrink once; the cap falls in the middle of a
  page. The second attempt resumes from every state a kill or stop can leave.
  What more repositories, pages or attempts could add is the subject of the
  theorems, which have no bounds.
* **OrgDirectory**: two teams, two members and none, a page for every item, four
  runs, a guard that raises at two failures in a row or at half of four or more
  requests. A team without members exercises the null cursor of an empty page;
  four runs let one interrupt, one kill and one outage each end a different run
  before the last; both rules of the guard trip, each before the other.
* **SnapshotRun**: two repositories, two datasets (`issues` sorts before
  `repositories`, so that the order of a retry is not the order of a run), two
  snapshots, three starts of any kind, one kill. Two snapshots are needed for
  the index; three starts for run, second process and retry.
* **SharedOrg**: three runs and two pages. Two runs race or overtake each other;
  the third can inherit what they, or a kill, left behind. `OrgClaim` alone is
  run with two, which is enough for its violation. The theorems have no bounds.
* **RunGate**: two commands, two seconds, one edit, one upgrade, eleven forms of
  the run command and retries of any snapshot. One command makes a snapshot and
  the next resumes, refuses, reopens or retries it, with the clock before or past
  the staleness limit. The requests have every shape of dependency the catalog
  has, an order and its reverse, a repeated and an unknown name; filters are over
  an archived repository and a fork, with no, an empty and a proper allowlist.
  Only `issues` may fail, since one dataset that may fail and others that do not
  give every set of gaps a status depends on. `MoreToSee` stops the exploration
  when the last command has ended, where only time could pass. `TimePasses`,
  `MintToken` and `Edit` happen where their effect can be read.
* **Transport**: two callers of two requests each, a retry each, a budget of 4
  with a reserve of 3, windows of two ticks. Out-of-order answers need two
  callers, a stale figure a second request; the reserve bound is checked where
  it is not vacuous (`ReserveFloor` exceeds the number of callers).
* **NdjsonFile**: three records (one with a separator), three writes, two tears:
  a tear continued by a line, by a tear, and in mid-file.
* **Credentials**: GitHub's real periods in minutes, two lifetimes and a little
  more, host clock three minutes slow, one minute of delay.

Constants that are only bounds (`MaxAttempts`, `MaxStarts`, `MaxDeaths`,
`MaxSnapshots`, `Requests`, `MaxWrites`, `MaxKills`, `MaxTime`, `MaxClock`,
`MaxEdits`, `MaxUpgrades`, and `Ask`, `Installations`, `Flaky` of RunGate) are
named as such in the modules.

## 5. Fairness

* `RepoHarvest!FairSpec` has weak fairness of `Engine`: the process goes on as
  long as it is not killed. It is justified because every await returns: the
  transport bounds its retries, its waits and its timeouts (`EverySendEnds` is
  that claim). Nothing obliges an operator to start or interrupt, or a process to
  die.
* `SharedOrg!SharedFairSpec` has weak fairness of each run's steps in the claim:
  a process that is not killed goes on until it ends (`OrgClaim!FairSpec` says the
  same of the claim alone). They are local file-system calls, and the work between
  them ends for the reasons given for RepoHarvest; it may end anywhere, so the
  files need no fairness of their own. `StaleClaimGoes` excludes kills, which may
  happen always.
* `Transport!FairSpec` has weak fairness of each coroutine (the event loop runs
  what is ready), which includes the timeout of a request, and of time. GitHub's
  answers are not fair: they may never come.

## 6. What is proved

All theorems are for arbitrary constants under the modules' assumptions, none of
which excludes an input of the program. Besides the ranges of numbers these say that
an organization has finitely many repositories (`RepoAssumption`), that the markers
(`None`, `Org`, `NoResource`, `Automatic`, `Fresh`) are not values they mark the
absence of, that the callers of a transport are finitely many, that the catalog
lists a dataset once (`OrderAssumption`, `RegistryAssumption`), and that its
dependencies have no cycle (`AcyclicAssumption`), on which `_include` would not come
back either. Every invariant and action property of the passing runs is proved.

**RepoHarvestProofs.** `Invariant` proves `Spec => []IInv`, with

    IInv == TypeOK /\ Shape /\ HeldOnce /\ NothingDropped /\ Progress /\ CursorNeverAhead

`CursorNeverAhead` is not inductive: that the next saved cursor is covered by
the file depends on how far the page has been written (`PageProgress`), that the
page starts at the stored cursor (`HeldOffsets`), and that the cap counts no
more than is stored (`written`); marking a repository done without data depends
on the gap recorded one step before (`MarkedHasGap`). `NothingDropped` needs to
know where a repository can be, for which lists may be empty when (`Shape`) and
`HeldOnce`. `SequenceFacts` has the lemmas about head, tail, concatenation and
subsequence that splitting a batch needs. From the invariant follow

* `CheckpointBehindFile`: `CursorNeverAhead`,
* `NoRepositoryDropped`, `NoRepositoryTwice`: `NothingDropped`, `HeldOnce`,
* `CursorsAdvance`: no step of any attempt moves a cursor back,
* `Refinement`: every behaviour of the engine is one of `DatasetFetch`, under the
  mapping `collected` = records with a line, `excused` = records lost in a torn
  line, above the cap, or of a repository with a gap, `complete` = the dataset's
  status. The step that finishes the dataset uses `NothingDropped` and
  `CursorNeverAhead` together (`NothingLeft`),
* `DuplicatesNeedKills`: `DuplicatesBoundedByCrashes`, with the invariant
  `OncePerKill`: an item the cursor, or the page being written, has not reached is
  on file at most once for every kill; only the items before may have one copy more,
* `FirstAttemptIsHonest`: `FirstAttemptReportsAll`, with the invariant
  `FirstAttempt`: in the first process the local gaps are the ledger's.

**OrgDirectoryProofs**, for any teams, sizes of connections and pages, and any
thresholds of the guard. The guard is apart from the rest: `CountersTellHistory`
says that the three counters are functions of the history of requests (`RowIn`:
the last `consecutive` requests failed and the one before did not), from which
`TripsAtOutage` has the counters raise where the history is an outage, and
`GuardStopsAtOutage` (`StopsExactlyAtOutage`) follows. The invariant of the engine
has, beside types and `Placement` (which connection it is at, with which cursor
not done),

* `PageShape`: the items of a page up to the ones still to write are stored. With
  it, saving the page's end as the cursor keeps `SkippedIsStored`
  (`NothingSkippedUnstored`);
* `TeamsThrough`, `OrganizationThrough`, `NoTeamPassedOver`, `MembersThrough`: what
  is accounted for before the status is set. A team the file lists is in the
  roster, at work, or accounted for; without that `EveryTeamAccountedFor`
  (`NothingMissingInSilence`) says nothing about a fan-out under way;
* `NothingTwice`: before any crash, of a team nothing is on file that is still to
  be fetched, from which `TeamRecordsOnce` (`NoDuplicateWithoutCrash`).

**SnapshotRunProofs**, for any repositories, datasets in any order, numbers of
snapshots, processes and deaths. The invariant has a part for each thing a later
step relies on:

* `Shapes`, `Places`, `Unmade`: what the variables are made of; every dataset is
  complete or still planned, every NDJSON file is still to be converted or its
  conversion has failed; nobody has worked on a directory that was not made;
* `RetryScope`: the manifest a retry has read is the one on disk, and in a snapshot
  with a manifest a dataset that is not complete, or has lines to convert, has a
  gap there. This is why a retry does not convert what it was not asked for
  (`RetryStaysInScope`: `RetryTouchesOnlyGaps`), although `finalize_snapshot` takes
  whatever NDJSON file it finds, and although a process before it may have been
  killed or have failed to convert;
* `Kept`: without retries, Parquet files are only of complete datasets, and an NDJSON
  file beside one has the same lines, so that unlinking it, or writing the Parquet
  file anew after a kill in between, loses nothing (`DownloadsAreKept`:
  `FetchedIsKept`);
* `Accounted`: a cursor passes only what is stored or has a gap
  (`NoRepoLostInSilence`: `EveryRepoAccountedFor`);
* `Counted`: the outcomes in memory count the lines the files have
  (`CountsMatchFiles`: `CountsMatchUnlessReopened`);
* `FirstProcess`, `FirstComplete`: the first process on a snapshot fetches every
  unit once, and what it calls clean is full in the one file or in the other
  (`CompleteHoldsAll`: `CompleteIsWhole`);
* `Listing`: between processes the index agrees with the manifests
  (`IndexIsRight`: `IndexNamesLatest`).

`StepsKeepPromise` (`PromiseKept`) takes each repository-level dataset of a snapshot to
`DatasetFetch`, as `Refinement` takes the engine's: `collected` is what is stored,
`excused` what the finished `repositories` does not list or the checkpoint has a gap
for, `complete` the dataset's status. What has to be shown is that other datasets and
processes do not move it: that the list does not change once it is finished (`Kept`,
and the order of the datasets), and that the dataset finishes with all of the list
behind its cursors (`Accounted`). Where retry-gaps is not used, `DatasetsFetched` makes
of it that every behaviour of SnapshotRun is one of `DatasetFetch`, for each dataset.
So the single step by which SnapshotRun fetches a repository, and the many by which
RepoHarvest does, keep the same promise.

`TypeCorrect` adds what `Shapes` leaves out (`Numbers`), chiefly that counts are
numbers. They are sums over the repositories, a recursion over subsets, which is built
up as a table by the size of the subset (`SumsExist`, `LinesIsNumber`).

**TransportProofs**, for any number of callers. `SlotsAreConserved` and
`WaitsStayWithinCeiling` need types only, and a count of the callers in flight over
every way out of a request. `FloorHolds` (`FloorCrossedOnlyUnseen`) needs three
more: that every answer of the present window on its way is among the `unseen`
(`DueCounted`); that the budget check is a gate (`Gate`), above the floor while it
is open, and when it is shut, below it by no more than the callers that have
passed it; and, for a single caller, that its answer is the last word on the budget
and its wait lasts until the window's end (`Alone`).

**NdjsonFile, in RepoHarvestProofs**, for any records, any of them with a separator,
and any number of writes and kills. A reader takes the file character by
character and the file only grows at its end, so the invariants are about
`Reading`, which one more character turns into `Read` of it (`ReadingAppend`), and the
longest file is never looked at as a whole.

* `FileInventsNothing` (`NothingInvented`): `Accounted` says of either way to split,
  and of each record, that its whole texts among the lines, plus the second halves in
  the line being read, are no more than the writes and tears of it. A separator or a
  newline only turns the second halves of a line into at most one text; every other
  character is counted when it is written.
* `FileRecovers` (`FirstKillIsHarmless`): as long as no record has a separator and
  nothing follows the first kill, the reader has the texts written, and is in no line
  or in the beginning of the one cut off (`Recovered`). A beginning does not parse
  unless it is the whole text (`HalfDoesNotParse`), and texts differ as their records
  do (`ParsedFacts`).

**RunGateProofs**, for any options, installations, edits, upgrades and number of
commands, and any catalog without a cycle. `ResolvedIsClosure` is about the operators
alone: whatever is requested, `Resolved` lists the datasets it needs, once each, each
after those it depends on, and reports those nobody named. Its induction is over the
number of datasets that one leads to (`Depth`), for `Include` calls itself on
dependencies, and over the sequence that a fold goes through (`FoldSteps`, `FoldIn`,
`FoldSame`). `Include` and `Needed` are shown to have the values their recursions
describe (`IncludeFacts`) before anything else is said about them. `InvariantHolds`
proves `Spec => []IInv`, with

    IInv == /\ TypeOK /\ Placed /\ Kept /\ Untouched /\ Asked /\ Scoped /\ Seen /\ Granted
            /\ ExitTellsOutcome /\ RefusalLeavesNoTrace /\ Resumable

* `Placed`, `Kept`: what a command at work has in hand, and what a directory without
  a checkpoint cannot have. Every other part rests on them.
* `Untouched`: no manifest is written before a command ends, and a run has changed
  nothing before it makes its snapshot. It is what lets `ExitTellsOutcome`
  (`ExitTells`) and `RefusalLeavesNoTrace` (`RefusalTraceless`) compare the disk with
  `before`, and is not to be seen in either, which speak of ended commands only.
* `Asked`: the snapshot in hand is compatible with the options and, if none was
  named, newer than every other unfinished one. When the run stops this becomes
  `Resumable`; `StoppedResumes` (`StoppedIsResumable`) is weaker, since an upgrade
  between the two commands makes the next one refuse, and not inductive for that.
* `Scoped`: every scope that was worked on is the checkpoint's
  (`ScopeIsKept`: `OneScopePerSnapshot`).
* `Seen`: what the tokens told and the listing saw is what the installation is, as
  long as it was not edited (`RestrictionIsReported`: `RestrictionReported`).
* `Granted`: the verdict of the gate, carried from preflight into the phases
  (`FailFastSpares`: `FailFastSparesTheBudget`).

`RunFetchesClosure` (`SelectionIsClosure`) follows from `Placed` and
`ResolvedIsClosure`.

**The claim, in SharedOrgProofs.** `ClaimInvariant`: as long as no acquisitions
overlapped, at most one process is between its check and its end (`Exclusive`), the claim names
it (`Named`), and the temporary file it opened is the one it will rename
(`OwnsTmp`). `ClaimExcludes` and `ClaimNames` follow, for any number of runs.
`ClaimLetsOneWork` (`SomeRunWorks`) is about acquisitions that do overlap, with an
invariant of its own: until a run has worked nobody has been turned away, for no
claim of a live process can be read (`NobodyTurnedAway`), and afterwards a claim
outlives no run (`NoneLeftBehind`).

**SharedOrgProofs.** `SharedImplementsClaim`: every step of the composition is one
of OrgClaim or leaves its variables alone, so `SharedExcludes`, `SharedNames` and
`SharedLetsOneWork` are the claim's theorems in the composition. `FilesInvariant` is
about the files:

    FilesInv == /\ DataTypeOK
                /\ ~clobbered => Content /\ \A p \in Run : Agrees(p)

`Content` relates the files to each other: without an NDJSON file nothing has
been fetched, or everything has been converted. `Agrees(p)` says what a run that
has loaded and was not overtaken knows: its memory is the checkpoint, and what
its next step needs is there. It is inductive because the work of one run
overtakes all others that have loaded (`TouchOvertakes`). That the claim excludes
is not used: it is neither needed nor, with a checkpoint read before the claim,
enough. `FilesWhole` and `FinishedStays` follow. The assumption on constants is
that there is a page and that the mark for an absent file is not a sequence.

**CredentialsProofs.** `RequestsCarryLiveTokens` says how much the refresh margin
covers: if `Slow + MaxDelay < Margin` (and the delay is below a token's life),
no request carries an expired token. `RunsOutliveTokens` adds what GitHub must
tolerate of the host's clock (`SkewTolerated`: a JWT dated by it is accepted
through all retries); then a run on an App key ends in an authentication failure
only if the App was removed or GitHub was out of reach three times running. The
two conditions are hypotheses of the theorems, not assumptions about the world:
with the shipped periods they hold for a host clock at most three minutes slow
and a request that takes at most a minute.

Two statements that hold on the instances of the runs turned out not to hold on
others when their proof was tried, and say now what the code keeps. Three
callers or more can take the budget further below the reserve than any fixed number
of points for each, as often as the tracker is misled (`FloorCrossedOnlyUnseen`). And a snapshot of an organization
without repositories is whole only if every dataset has its, empty, Parquet file
(`CompleteIsWhole`), which it has not: nothing opens the NDJSON file of a
repository-level dataset, so the property is about the records of repositories.

## 7. Where the code and its documentation disagree

Shown by runs:

1. *Gaps are forgotten on resume* (`harvest/repo_level.py:562`). The gap list
   starts empty in each attempt, so the manifest of the attempt that completes a
   dataset lacks gaps of earlier ones, although `spec.md:82` wants them
   discoverable from the snapshot. `MCRepoHarvest_gaps_resume`.
2. *A retry clears gaps without fetching* (`harvest/repo_level.py:308`). After
   finalization `repositories.ndjson` is gone, the retry finds no repository to
   query, and the gap disappears (`spec.md:156`). `MCSnapshotRun_retry_clears`.
3. *Two overlapping acquisitions both win* (`lock.py:89`); the claim is read and
   replaced without exclusion (`stories/deviations.md:93`). `MCOrgClaim_race`.
4. *The printed command does not resume* (`run.py:442`). It names organization
   and snapshot only, and a run with a selection or a filter refuses it as
   printed (`spec.md:71`). `MCRunGate_printed_command`.

Met while modelling, visible in the exceptions of the passing properties or in
the code, with no run of their own:

* After a kill a page is written again (`harvest/repo_level.py:506`;
  `spec.md:65`): the bound of `DuplicatesBoundedByCrashes`.
* A torn line is appended to (`output.py:30`; `spec.md:66`); the record after it
  is merged and, if last, silently discarded (`output.py:64`): the condition of
  `FirstKillIsHarmless` and the set `lost`.
* `str.splitlines` splits at U+0085, U+2028 and U+2029, which the writer leaves
  unescaped (`output.py:58`): the other condition of `FirstKillIsHarmless`.
* The item cap counts one attempt's records (`harvest/repo_level.py:563`;
  `spec.md:41`).
* A run that is killed after conversion, and a named resume of a finished
  snapshot (`run.py:298`; `spec.md:25`), count no NDJSON and publish zero
  (`harvest/repo_level.py:584`; `spec.md:371`): `reopened`.
* A retry overwrites a Parquet file with the retried records only
  (`finalize.py:67`) and counts only those (`retry.py:143`; `spec.md:158`):
  `retried`.
* The index is stale after a kill between manifest and index
  (`manifest.py:217`): `unlisted`.
* An interrupt on the last page of an organization connection saves a null cursor
  without completing it, and the resumed run lists every page again
  (`harvest/org_level.py:446`).
* The release unlinks whatever claim is there, and the checkpoint is loaded before
  the claim is held (`run.py:316`): a run that waited in between repeats pages and
  may change a finished snapshot (`spec.md:25`): `clobbered`. retry-gaps takes no
  claim at all (`retry.py:127`).
* A retry lists repositories without the filter of the snapshot (`retry.py:145`),
  and a retry without gaps exits 0 on a restricted snapshot: `odd`, and the
  exception in `ExitTellsOutcome`.
* An exception outside `OrgHarvestError`, and a Ctrl-C in retry-gaps, exit with 1,
  the status of a snapshot with gaps: `raised`. An error during preflight or a
  retry may exit with 2, "resumable", when there is nothing to resume.
* The restriction mark (`spec.md:84`) is that of the tokens of one attempt: it is
  lost when the installation is edited between listing and completion, and a
  pre-minted token does not tell it; fail-fast does not refuse it.
* Lost replies let retries cross the reserve (`transport.py:210`;
  `spec.md:106`), and back-off after a secondary limit is not counted against the
  total-wait ceiling (`transport.py:243`; `spec.md:104`).
* An empty allowlist is stored as none (`run.py:185`); a dataset that was asked
  for may be reported as auto-included, and names come in request order
  (`selection.py:70`, `selection.py:75`).
* A refresh that cannot reach GitHub ends with the kind of a revoked key
  (`credentials.py:289`); a clock several minutes slow is not named as the cause
  (`credentials.py:335`); an unexpected status during discovery or minting, or a
  body without data in preflight, escapes as a foreign exception
  (`credentials.py:219`, `preflight.py:121`; `errors.py:1`). A query's body that
  is not JSON does too (`harvest/repo_level.py:374`).
* Fail-fast looks at blocked datasets only (`run.py:390`; `spec.md:295`), and the
  scope restriction is read at the end of phase 1 of the last attempt
  (`harvest/org_level.py:674`): `stirred`.
* Two fresh runs in the same second share a directory (`run.py:410`): `odd`.
* `organization` is marked complete even when a Ctrl-C came during its query, which
  is right only because it then has its record or a gap (`EveryTeamAccountedFor`).

## 8. What is only model-checked, and what is not modelled

Only model-checked: liveness (`AttemptsEnd`, `StaleClaimGoes`, `EverySendEnds`), which
rests on fairness, outside of what TLAPS handles here. That the program's own catalog
satisfies the assumptions about catalogs is evaluated by the runs of RunGate.

Recursion over data is proved about where it is needed, without the library's
induction theorems, whose parameters are operators: `SetInduction` is induction for a
set of numbers, from the well-foundedness of `<`, and a recursive function, or a fold,
is shown to have its values by building the table of them (`TableExists`, `FoldSteps`,
`SumsExist`).

Not modelled:

* flattening, GraphQL text, column types, hosts, timestamps, progress and display:
  data no property tells apart;
* option parsing and printing of the command line, its commands that change
  nothing (`auth-check`, `datasets list`, `preflight`), the library wrappers: no
  state of their own;
* a run at work beside a retry (nothing in the code orders them), and the
  narrowing of a retry to teams;
* the failure guard under the repository engine, where it ends a run as any
  exception of a query does (`QueryRaises`); a reply that is not JSON, which is
  one of these as well;
* a torn Parquet file, and pids that are given out again;
* the consumption statistics, the cost estimate and the start time a resume
  resets.

## 9. Plan

The modules were written in the order of section 2, each with its run before its
proofs. What is left, in the order of what it would show:

1. **RepoHarvest under SnapshotRun**: both keep the promise of `DatasetFetch`; that
   SnapshotRun's single step is what RepoHarvest's steps amount to, file and cursors
   included, is not stated.
2. **RepoHarvest**: the failure guard and the exception of a body that is not JSON
   as actions of their own; the cap over several attempts.
3. **Retry**: the narrowing to teams, and a retry beside a run once the code orders
   the two.
