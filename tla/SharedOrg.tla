------------------------------ MODULE SharedOrg ------------------------------
(***************************************************************************)
(* Several runs on one organization, with what they do to its newest       *)
(* incomplete snapshot: OrgClaim composed with the files of one dataset of *)
(* that snapshot.  A run picks the snapshot and reads its checkpoint       *)
(* before it asks for the claim (run.py), and keeps what it has read; what *)
(* another run does to the files in between it does not see.  A run that   *)
(* finds the snapshot finished starts one of its own and touches none of   *)
(* these files.                                                            *)
(*                                                                         *)
(* A page and the cursor save that follows it are one step here, and every *)
(* page arrives: RepoHarvest and OrgDirectory have the kill between the    *)
(* two, and the gaps.                                                      *)
(***************************************************************************)
EXTENDS OrgClaim, Integers, Sequences

CONSTANT Pages       \* pages of the dataset

ASSUME PagesAssumption == Pages \in Nat \ {0} /\ NoFile \notin Seq(Nat)

VARIABLES
    saved,           \* the checkpoint: pages its cursor is past
    ndjson,          \* the pages in the NDJSON file, or NoFile
    parquet,         \* the pages in the Parquet file, or NoFile
    manifest,        \* the run that published the snapshot, or NoFile
    step,            \* step[p]: what run p has to do to them next
    mem,             \* mem[p]: the checkpoint as p has it in memory
    onFile,          \* onFile[p]: p's open file still has its name
    overtaken,       \* history: loaded runs that another's work has passed
    clobbered        \* history: one of them went to work all the same

files == <<saved, ndjson, parquet, manifest>>
data  == <<files, step, mem, onFile, overtaken, clobbered>>
sharedVars == <<vars, data>>

Whole(n) == [i \in 1..n |-> i]

(* A snapshot whose first run was killed right after it had made it.       *)
SharedInit ==
    /\ Init
    /\ saved = 0 /\ ndjson = NoFile /\ parquet = NoFile /\ manifest = NoFile
    /\ step = [p \in Run |-> "none"]
    /\ mem = [p \in Run |-> 0]
    /\ onFile = [p \in Run |-> FALSE]
    /\ overtaken = {} /\ clobbered = FALSE

(* find_newest_incomplete_snapshot and CheckpointStore.resume: a dataset   *)
(* that the checkpoint calls complete is not opened again.                 *)
MutantIsFinished == FALSE
IsFinished == manifest # NoFile
SharedLoad(p) ==
    /\ Load(p)
    /\ IF IsFinished
         THEN UNCHANGED <<step, mem>>
         ELSE /\ step' = [step EXCEPT ![p] = "fetch"]
              /\ mem' = [mem EXCEPT ![p] = saved]
    /\ UNCHANGED <<files, onFile, overtaken, clobbered>>

(* Work on the files: a run that has loaded them before is overtaken.      *)
Touch(p) ==
    /\ overtaken' = overtaken \cup {q \in Run \ {p} : step[q] # "none"}
    /\ clobbered' = (clobbered \/ p \in overtaken)
    /\ UNCHANGED vars

At(p, label) == pc[p] = "running" /\ step[p] = label
Proceed(p, label) == step' = [step EXCEPT ![p] = label]

OpenFile(p) ==
    /\ At(p, "fetch") /\ mem[p] < Pages
    /\ ndjson' = IF ndjson = NoFile THEN <<>> ELSE ndjson
    /\ onFile' = [onFile EXCEPT ![p] = TRUE]
    /\ Proceed(p, "page")
    /\ Touch(p)
    /\ UNCHANGED <<saved, parquet, manifest, mem>>

(* The page is appended to the file that was opened, whether or not it     *)
(* still has a name; then the whole checkpoint is written from memory.     *)
MutantCursor(p) == mem[p]
Cursor(p) == mem[p] + 1
HarvestPage(p) ==
    /\ At(p, "page") /\ mem[p] < Pages
    /\ ndjson' = IF onFile[p] THEN Append(ndjson, mem[p] + 1) ELSE ndjson
    /\ saved' = Cursor(p)
    /\ mem' = [mem EXCEPT ![p] = Cursor(p)]
    /\ Touch(p)
    /\ UNCHANGED <<parquet, manifest, step, onFile>>

(* finalize_snapshot converts the NDJSON files it finds.                   *)
StartFinalize(p) ==
    /\ pc[p] = "running" /\ step[p] \in {"fetch", "page"} /\ mem[p] = Pages
    /\ Proceed(p, IF ndjson = NoFile THEN "manifest" ELSE "convert")
    /\ UNCHANGED <<vars, files, mem, onFile, overtaken, clobbered>>

Convert(p) ==
    /\ At(p, "convert")
    /\ parquet' = IF ndjson = NoFile THEN <<>> ELSE ndjson
    /\ Proceed(p, "unlink")
    /\ Touch(p)
    /\ UNCHANGED <<saved, ndjson, manifest, mem, onFile>>

Unlink(p) ==
    /\ At(p, "unlink")
    /\ ndjson' = NoFile
    /\ onFile' = [q \in Run |-> FALSE]
    /\ Proceed(p, "manifest")
    /\ Touch(p)
    /\ UNCHANGED <<saved, parquet, manifest, mem>>

WriteManifest(p) ==
    /\ At(p, "manifest")
    /\ manifest' = p
    /\ Proceed(p, "done")
    /\ Touch(p)
    /\ UNCHANGED <<saved, ndjson, parquet, mem, onFile>>

Work(p) ==
    \/ OpenFile(p) \/ HarvestPage(p) \/ StartFinalize(p)
    \/ Convert(p) \/ Unlink(p) \/ WriteManifest(p)

(* The steps of the claim leave the files alone.                           *)
Claiming(p) ==
    /\ \/ CheckFree(p) \/ OpenTmp(p) \/ CloseTmp(p) \/ ReplaceClaim(p) \/ Leave(p)
    /\ UNCHANGED data

(* A run stops working when it is refused, when it is killed, or at any    *)
(* point of its work: a failed preflight, an error, a Ctrl-C, or the end.  *)
(* What it had in memory is gone.                                          *)
Forget(p) ==
    /\ step' = [step EXCEPT ![p] = "none"]
    /\ mem' = [mem EXCEPT ![p] = 0]
    /\ onFile' = [onFile EXCEPT ![p] = FALSE]
    /\ overtaken' = overtaken \ {p}
    /\ UNCHANGED <<files, clobbered>>

Stop(p) == (CheckRefused(p) \/ ReplaceFails(p) \/ Finish(p)) /\ Forget(p)

Killed(p) == Kill(p) /\ Forget(p)

SharedStep(p) == SharedLoad(p) \/ Work(p) \/ Claiming(p) \/ Stop(p)

SharedNext == \E p \in Run : SharedStep(p) \/ Killed(p)

SharedSpec == SharedInit /\ [][SharedNext]_sharedVars

(* A process that is not killed goes on until it ends; its work may end    *)
(* anywhere.                                                               *)
SharedFairSpec == SharedSpec /\ \A p \in Run : WF_vars(RunStep(p))

----------------------------------------------------------------------------
(* Whatever is killed and resumed, the NDJSON file holds the pages that    *)
(* the checkpoint is past, each once and in order, and a published         *)
(* snapshot holds every page once, unless a run went to work on files that *)
(* another run had moved on since it read them (run_snapshot reads the     *)
(* checkpoint before OrgClaim.acquire).                                    *)
OneCopyUnlessOvertaken ==
    ~clobbered =>
        /\ ndjson # NoFile => ndjson = Whole(saved)
        /\ manifest # NoFile => parquet = Whole(Pages)

(* "A completed snapshot is never modified by a later run" (AC-1.5): from  *)
(* the manifest on no run changes its files, unless it had picked the      *)
(* snapshot before it was finished.                                        *)
FinishedIsFinalUnlessOvertaken ==
    [][manifest # NoFile /\ ~clobbered' => UNCHANGED files]_sharedVars
=============================================================================
