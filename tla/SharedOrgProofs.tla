--------------------------- MODULE SharedOrgProofs ---------------------------
(***************************************************************************)
(* What several runs on one organization keep, for any number of runs and  *)
(* pages.  First the claim alone: type correctness, and mutual exclusion   *)
(* as long as no acquisitions overlap.  Its invariant adds to the two      *)
(* properties what an acquisition owns: the temporary file it opened is    *)
(* the one it will rename.  Then the composition: it implements the claim, *)
(* so what is shown of the claim holds in it.  The files stay whole        *)
(* because a run that nobody has overtaken agrees with the disk on the     *)
(* checkpoint, and because the work of one run overtakes all others that   *)
(* have loaded.                                                            *)
(***************************************************************************)
EXTENDS SharedOrg, SequenceTheorems, TLAPS

----------------------------------------------------------------------------
(* The claim                                                               *)


Exclusive == \A p, q \in Run : pc[p] \in Active /\ pc[q] \in Active => p = q

Named == \A p \in Run : pc[p] = "running" => lock # NoFile /\ text[lock] = p

OwnsTmp ==
    \A p \in Run :
        /\ pc[p] = "close" => /\ tmp # NoFile /\ tmp = handle[p]
                              /\ text[tmp] = Nobody
        /\ pc[p] = "replace" => /\ tmp # NoFile /\ tmp = handle[p]
                                /\ text[tmp] = p

HandleOpen ==
    \A p \in Run : pc[p] \in {"close", "replace"} => handle[p] # NoFile

IInv == /\ TypeOK
        /\ HandleOpen
        /\ ~raced => Exclusive /\ Named /\ OwnsTmp

(* The claim of a dead process, or none, is all there is at the start.     *)
LEMMA InitIInv == Init => IInv
<1> SUFFICES ASSUME Init PROVE IInv
  OBVIOUS
<1> USE ProcAssumption, MarkAssumption DEF Init
<1>1. lock \in Inode \cup {NoFile} /\ text \in [Inode -> Text]
  BY DEF Inode, Text
<1>2. pc \in [Run -> Active \cup {"idle", "check", "leaving", "ended"}]
  OBVIOUS
<1>3. \A p \in Run : pc[p] = "idle"
  OBVIOUS
<1>5. TypeOK
  BY <1>1, <1>2 DEF TypeOK
<1> QED BY <1>3, <1>5 DEF IInv, HandleOpen, Exclusive, Named, OwnsTmp, Active, Acquiring

(* Each step keeps the types, and a writer of the claim has a file open.   *)
LEMMA NextTypeOK == TypeOK /\ HandleOpen /\ [Next]_vars => TypeOK' /\ HandleOpen'
<1> SUFFICES ASSUME TypeOK, HandleOpen, [Next]_vars PROVE TypeOK' /\ HandleOpen'
  OBVIOUS
<1> USE ProcAssumption, MarkAssumption
    DEF TypeOK, HandleOpen, Inode, Text, Active, Acquiring, Goto, claim, history
<1>1. ASSUME NEW p \in Run, Load(p) PROVE TypeOK' /\ HandleOpen'
  BY <1>1 DEF Load
<1>2. ASSUME NEW p \in Run, CheckRefused(p) PROVE TypeOK' /\ HandleOpen'
  BY <1>2 DEF CheckRefused
<1>3. ASSUME NEW p \in Run, CheckFree(p) PROVE TypeOK' /\ HandleOpen'
  BY <1>3 DEF CheckFree
<1>4. ASSUME NEW p \in Run, OpenTmp(p) PROVE TypeOK' /\ HandleOpen'
  BY <1>4 DEF OpenTmp
<1>5. ASSUME NEW p \in Run, CloseTmp(p) PROVE TypeOK' /\ HandleOpen'
  BY <1>5 DEF CloseTmp
<1>6. ASSUME NEW p \in Run, ReplaceClaim(p) PROVE TypeOK' /\ HandleOpen'
  BY <1>6 DEF ReplaceClaim
<1>7. ASSUME NEW p \in Run, ReplaceFails(p) PROVE TypeOK' /\ HandleOpen'
  BY <1>7 DEF ReplaceFails
<1>8. ASSUME NEW p \in Run, Finish(p) PROVE TypeOK' /\ HandleOpen'
  BY <1>8 DEF Finish, Released
<1>9. ASSUME NEW p \in Run, Leave(p) PROVE TypeOK' /\ HandleOpen'
  BY <1>9 DEF Leave
<1>10. ASSUME NEW p \in Run, Kill(p) PROVE TypeOK' /\ HandleOpen'
  BY <1>10 DEF Kill
<1>11. ASSUME UNCHANGED vars PROVE TypeOK' /\ HandleOpen'
  BY <1>11 DEF vars
<1> QED BY <1>1, <1>2, <1>3, <1>4, <1>5, <1>6, <1>7, <1>8, <1>9, <1>10,
           <1>11 DEF Next, RunStep

(* As long as acquisitions have not overlapped, no step breaks exclusion,  *)
(* the name in the claim or the ownership of the temporary file.           *)
LEMMA NextExclusive ==
    IInv /\ [Next]_vars => (~raced => Exclusive /\ Named /\ OwnsTmp)'
<1> SUFFICES ASSUME IInv, [Next]_vars, ~raced'
             PROVE Exclusive' /\ Named' /\ OwnsTmp'
  OBVIOUS
<1> DEFINE Good == Exclusive' /\ Named' /\ OwnsTmp'
<1>t. TypeOK /\ TypeOK' /\ HandleOpen
  BY NextTypeOK DEF IInv
<1>0. ~raced
  BY DEF IInv, TypeOK, Next, RunStep, Load, CheckRefused, CheckFree, OpenTmp,
     CloseTmp, ReplaceClaim, ReplaceFails, Finish, Leave, Kill,
     vars, history
<1>i. Exclusive /\ Named /\ OwnsTmp
  BY <1>0 DEF IInv
<1> USE ProcAssumption, MarkAssumption, <1>t, <1>0, <1>i
    DEF Exclusive, Named, OwnsTmp, HandleOpen, TypeOK, Inode, Text, Active, Acquiring,
        Goto, claim, history
<1>1. ASSUME NEW p \in Run, Load(p) PROVE Good
  BY <1>1 DEF Load
<1>2. ASSUME NEW p \in Run, CheckRefused(p) PROVE Good
  BY <1>2 DEF CheckRefused
<1>3. ASSUME NEW p \in Run, CheckFree(p) PROVE Good
  <2>1. \A q \in Run : pc[q] \notin Active
    BY <1>3 DEF CheckFree, Held, Alive
  <2> QED BY <1>3, <2>1 DEF CheckFree
<1>4. ASSUME NEW p \in Run, OpenTmp(p) PROVE Good
  <2>1. \A q \in Run : q # p => pc[q] \notin Active /\ pc'[q] = pc[q]
    BY <1>4 DEF OpenTmp
  <2>2. pc'[p] = "close" /\ tmp' # NoFile /\ tmp' = handle'[p] /\ text'[tmp'] = Nobody
    BY <1>4 DEF OpenTmp
  <2> QED BY <2>1, <2>2
<1>5. ASSUME NEW p \in Run, CloseTmp(p) PROVE Good
  <2>1. \A q \in Run : q # p => pc[q] \notin Active /\ pc'[q] = pc[q]
    BY <1>5 DEF CloseTmp
  <2>2. pc'[p] = "replace" /\ tmp' # NoFile /\ tmp' = handle'[p] /\ text'[tmp'] = p
    BY <1>5 DEF CloseTmp
  <2> QED BY <2>1, <2>2
<1>6. ASSUME NEW p \in Run, ReplaceClaim(p) PROVE Good
  <2>1. \A q \in Run : q # p => pc[q] \notin Active /\ pc'[q] = pc[q]
    BY <1>6 DEF ReplaceClaim
  <2>2. pc'[p] = "running" /\ lock' # NoFile /\ text'[lock'] = p
    BY <1>6 DEF ReplaceClaim
  <2> QED BY <2>1, <2>2
<1>7. ASSUME NEW p \in Run, ReplaceFails(p) PROVE Good
  BY <1>7 DEF ReplaceFails
<1>8. ASSUME NEW p \in Run, Finish(p) PROVE Good
  <2>1. \A q \in Run : pc'[q] \notin Active
    BY <1>8 DEF Finish
  <2> QED BY <2>1
<1>9. ASSUME NEW p \in Run, Leave(p) PROVE Good
  BY <1>9 DEF Leave
<1>10. ASSUME NEW p \in Run, Kill(p) PROVE Good
  BY <1>10 DEF Kill
<1>11. ASSUME UNCHANGED vars PROVE Good
  BY <1>11 DEF vars
<1> QED BY <1>1, <1>2, <1>3, <1>4, <1>5, <1>6, <1>7, <1>8, <1>9, <1>10,
           <1>11 DEF IInv, Next, RunStep

(* The strengthened invariant holds in every behaviour of the claim.       *)
THEOREM ClaimInvariant == Spec => []IInv
<1>1. IInv /\ [Next]_vars => IInv'
  BY NextTypeOK, NextExclusive DEF IInv
<1> QED BY InitIInv, <1>1, PTL DEF Spec

(* Every variable keeps its type, for any number of processes.   *)
THEOREM ClaimTypeCorrect == Spec => []TypeOK
<1>1. IInv => TypeOK
  BY DEF IInv
<1> QED BY ClaimInvariant, <1>1, PTL

(* Runs whose acquisitions never overlapped exclude each other, whatever   *)
(* was killed and whichever stale claims were reclaimed.                   *)
THEOREM ClaimExcludes == Spec => []AloneUnlessRaced
<1>1. IInv => AloneUnlessRaced
  BY DEF IInv, Exclusive, AloneUnlessRaced, Active
<1> QED BY ClaimInvariant, <1>1, PTL

(* Under the same condition the claim on disk names the run at work, so a  *)
(* release never removes the claim of another.                             *)
THEOREM ClaimNames == Spec => []ClaimNamesItsRun
<1>1. IInv => ClaimNamesItsRun
  BY DEF IInv, Named, ClaimNamesItsRun
<1> QED BY ClaimInvariant, <1>1, PTL

----------------------------------------------------------------------------
(* Acquisitions that do overlap                                            *)

(* Until a run has worked nobody has been turned away: the only claim that *)
(* can be there is of a dead process, and whoever writes one has a         *)
(* temporary file to rename.  Afterwards a claim outlives no run.          *)
NobodyTurnedAway ==
    worked = {} =>
        /\ lock \in {NoFile, Old}
        /\ \A p \in Run : /\ pc[p] \in {"idle", "check", "open", "close", "replace"}
                          /\ pc[p] \in {"close", "replace"} => tmp # NoFile
NoneLeftBehind ==
    worked # {} /\ (\A p \in Run : pc[p] # "running") => lock = NoFile

RaceInv == /\ text[Old] = Old
           /\ ~killed => NobodyTurnedAway /\ NoneLeftBehind

LEMMA RaceStep == IInv /\ RaceInv /\ [Next]_vars => RaceInv'
<1> SUFFICES ASSUME IInv, RaceInv, [Next]_vars PROVE RaceInv'
  OBVIOUS
<1>0. TypeOK /\ HandleOpen
  BY DEF IInv
<1> USE ProcAssumption, MarkAssumption, <1>0
    DEF RaceInv, NobodyTurnedAway, NoneLeftBehind, TypeOK, Inode, Text, Active, Acquiring,
        Goto, claim, history
<1>1. ASSUME NEW p \in Run, Load(p) \/ CheckFree(p) PROVE RaceInv'
  BY <1>1 DEF Load, CheckFree
<1>2. ASSUME NEW p \in Run, CheckRefused(p) PROVE RaceInv'
  <2>1. ~killed => worked # {}
    BY <1>2 DEF CheckRefused, Held, Alive
  <2> QED BY <1>2, <2>1 DEF CheckRefused
<1>3. ASSUME NEW p \in Run, OpenTmp(p) PROVE RaceInv'
  BY <1>3 DEF OpenTmp
<1>4. ASSUME NEW p \in Run, CloseTmp(p) PROVE RaceInv'
  <2>1. handle[p] \in Run
    BY <1>4 DEF CloseTmp, HandleOpen
  <2> QED BY <1>4, <2>1 DEF CloseTmp
<1>5. ASSUME NEW p \in Run, ReplaceClaim(p) PROVE RaceInv'
  <2>1. pc'[p] = "running" /\ worked' # {} /\ text' = text
    BY <1>5 DEF ReplaceClaim
  <2> QED BY <2>1
<1>6. ASSUME NEW p \in Run, ReplaceFails(p) PROVE RaceInv'
  <2>1. ~killed => worked # {}
    BY <1>6 DEF ReplaceFails
  <2> QED BY <1>6, <2>1 DEF ReplaceFails
<1>7. ASSUME NEW p \in Run, Finish(p) PROVE RaceInv'
  <2>1. ~killed => worked # {}
    BY <1>7 DEF Finish
  <2> QED BY <1>7, <2>1 DEF Finish, Released
<1>8. ASSUME NEW p \in Run, Leave(p) PROVE RaceInv'
  <2>1. ~killed => worked # {}
    BY <1>8 DEF Leave
  <2> QED BY <1>8, <2>1 DEF Leave
<1>9. ASSUME NEW p \in Run, Kill(p) PROVE RaceInv'
  BY <1>9 DEF Kill
<1>10. ASSUME UNCHANGED vars PROVE RaceInv'
  BY <1>10 DEF vars
<1> QED BY <1>1, <1>2, <1>3, <1>4, <1>5, <1>6, <1>7, <1>8, <1>9, <1>10 DEF Next, RunStep

(* However the acquisitions overlap, they do not all fail, and the last    *)
(* run to end leaves no claim (acquire and release).                       *)
THEOREM ClaimLetsOneWork == Spec => []SomeRunWorks
<1>1. Init => RaceInv
  <2> SUFFICES ASSUME Init PROVE RaceInv
    OBVIOUS
  <2>1. text[Old] = Old /\ lock \in {NoFile, Old} /\ worked = {} /\ \A p \in Run : pc[p] = "idle"
    BY DEF Init, Inode
  <2> QED BY <2>1 DEF RaceInv, NobodyTurnedAway, NoneLeftBehind
<1>2. RaceInv => SomeRunWorks
  BY DEF RaceInv, NobodyTurnedAway, NoneLeftBehind, SomeRunWorks
<1> QED BY <1>1, <1>2, RaceStep, ClaimInvariant, PTL DEF Spec

----------------------------------------------------------------------------
(* The runs and their files                                                *)


StepLabel == {"none", "fetch", "page", "convert", "unlink", "manifest", "done"}

DataTypeOK ==
    /\ saved \in 0..Pages
    /\ step \in [Run -> StepLabel]
    /\ mem \in [Run -> 0..Pages]
    /\ onFile \in [Run -> BOOLEAN]
    /\ overtaken \subseteq Run
    /\ clobbered \in BOOLEAN

(* The files among themselves: without an NDJSON file nothing has been     *)
(* fetched, or everything has been converted.                              *)
Content ==
    /\ ndjson # NoFile => ndjson = Whole(saved)
    /\ ndjson = NoFile => saved = 0 \/ (saved = Pages /\ parquet = Whole(Pages))
    /\ manifest # NoFile => parquet = Whole(Pages)

(* A run that has loaded the files and that nobody has overtaken.          *)
Agrees(p) ==
    step[p] # "none" /\ p \notin overtaken =>
        /\ mem[p] = saved
        /\ manifest # NoFile => step[p] = "done"
        /\ step[p] = "page" => onFile[p] /\ ndjson # NoFile
        /\ step[p] = "convert" => ndjson # NoFile /\ saved = Pages
        /\ step[p] = "unlink" => saved = Pages /\ parquet = Whole(Pages)
        /\ step[p] = "manifest" => saved = Pages /\ parquet = Whole(Pages)

FilesInv == /\ DataTypeOK
            /\ ~clobbered => Content /\ \A p \in Run : Agrees(p)

(* One more page after the first n.                                        *)
LEMMA WholeExtends ==
    ASSUME NEW n \in Nat
    PROVE  /\ Whole(0) = <<>>
           /\ Whole(n) \in Seq(Nat)
           /\ Append(Whole(n), n + 1) = Whole(n + 1)
<1>1. Whole(n) \in Seq(Nat) /\ Whole(n + 1) \in Seq(Nat)
  BY DEF Whole
<1>2. Len(Whole(n)) = n /\ Len(Whole(n + 1)) = n + 1
  BY <1>1 DEF Whole
<1>3. Append(Whole(n), n + 1) \in Seq(Nat) /\ Len(Append(Whole(n), n + 1)) = n + 1
  BY <1>1, <1>2
<1>4. \A i \in 1 .. n + 1 : Append(Whole(n), n + 1)[i] = Whole(n + 1)[i]
  BY <1>1, <1>2 DEF Whole
<1>5. Append(Whole(n), n + 1) = Whole(n + 1)
  BY <1>1, <1>2, <1>3, <1>4, SeqEqual
<1>6. Whole(0) = <<>>
  BY DEF Whole
<1> QED BY <1>1, <1>5, <1>6

(* A snapshot that has just been made is whole.                            *)
LEMMA InitFiles == SharedInit => FilesInv
<1> SUFFICES ASSUME SharedInit PROVE FilesInv
  OBVIOUS
<1>1. DataTypeOK
  <2>0. overtaken \subseteq Run /\ clobbered \in BOOLEAN
    BY DEF SharedInit
  <2>1. saved \in 0..Pages
    BY PagesAssumption DEF SharedInit
  <2>2. step \in [Run -> StepLabel] /\ onFile \in [Run -> BOOLEAN]
    BY DEF SharedInit, StepLabel
  <2>3. mem \in [Run -> 0..Pages]
    <3>1. 0 \in 0..Pages
      BY PagesAssumption
    <3> QED BY <3>1 DEF SharedInit
  <2> QED BY <2>0, <2>1, <2>2, <2>3 DEF DataTypeOK
<1>2. Content
  BY DEF SharedInit, Content
<1>3. \A p \in Run : Agrees(p)
  BY DEF SharedInit, Agrees
<1> QED BY <1>1, <1>2, <1>3 DEF FilesInv

(* Every step keeps the types of the files and of what runs know of them.  *)
LEMMA NextDataTypeOK == DataTypeOK /\ [SharedNext]_sharedVars => DataTypeOK'
<1> SUFFICES ASSUME DataTypeOK, [SharedNext]_sharedVars PROVE DataTypeOK'
  OBVIOUS
<1> USE PagesAssumption DEF DataTypeOK, StepLabel, Proceed, Touch, files
<1>1. ASSUME NEW p \in Run, SharedLoad(p) PROVE DataTypeOK'
  BY <1>1 DEF SharedLoad
<1>2. ASSUME NEW p \in Run, Work(p) PROVE DataTypeOK'
  <2>1. CASE OpenFile(p)
    BY <2>1 DEF OpenFile
  <2>2. CASE HarvestPage(p)
    BY <2>2 DEF HarvestPage, Cursor
  <2>3. CASE StartFinalize(p)
    BY <2>3 DEF StartFinalize
  <2>4. CASE Convert(p)
    BY <2>4 DEF Convert
  <2>5. CASE Unlink(p)
    BY <2>5 DEF Unlink
  <2>6. CASE WriteManifest(p)
    BY <2>6 DEF WriteManifest
  <2> QED BY <1>2, <2>1, <2>2, <2>3, <2>4, <2>5, <2>6 DEF Work
<1>3. ASSUME NEW p \in Run, Claiming(p) PROVE DataTypeOK'
  BY <1>3 DEF Claiming, data
<1>4. ASSUME NEW p \in Run, Forget(p) PROVE DataTypeOK'
  BY <1>4 DEF Forget
<1>5. ASSUME UNCHANGED sharedVars PROVE DataTypeOK'
  BY <1>5 DEF sharedVars, data
<1> QED BY <1>1, <1>2, <1>3, <1>4, <1>5 DEF SharedNext, SharedStep, Stop, Killed

(* What a run that works leaves of the others: none of those that have     *)
(* loaded the files is any longer not overtaken.                           *)
LEMMA TouchOvertakes ==
    ASSUME DataTypeOK, NEW p \in Run, Touch(p), NEW q \in Run \ {p},
           step'[q] = step[q]
    PROVE  Agrees(q)'
BY DEF Touch, Agrees, DataTypeOK

(* No step of a run that agrees with the disk spoils the files.            *)
LEMMA NextFiles == FilesInv /\ [SharedNext]_sharedVars => FilesInv'
<1> SUFFICES ASSUME FilesInv, [SharedNext]_sharedVars, ~clobbered'
             PROVE  Content' /\ \A q \in Run : Agrees(q)'
  BY NextDataTypeOK DEF FilesInv
<1> DEFINE Good == Content' /\ \A q \in Run : Agrees(q)'
<1>t. DataTypeOK /\ DataTypeOK'
  BY NextDataTypeOK DEF FilesInv
<1>0. ~clobbered
  BY DEF SharedNext, SharedStep, SharedLoad, Work, OpenFile, HarvestPage, StartFinalize,
     Convert, Unlink, WriteManifest, Touch, Claiming, Stop, Killed, Forget, sharedVars, data
<1>i. Content /\ \A q \in Run : Agrees(q)
  BY <1>0 DEF FilesInv
<1>1. ASSUME NEW p \in Run, SharedLoad(p) PROVE Good
  BY <1>1, <1>t, <1>i DEF SharedLoad, IsFinished, Content, Agrees, DataTypeOK, files
<1>2. ASSUME NEW p \in Run, Work(p) PROVE Good
  <2>1. CASE StartFinalize(p)
    <3>1. Content'
      BY <2>1, <1>i DEF StartFinalize, Content, files
    <3>2. Agrees(p)'
      BY <2>1, <1>t, <1>i, PagesAssumption
         DEF StartFinalize, Proceed, Content, Agrees, DataTypeOK, files
    <3>3. ASSUME NEW q \in Run \ {p} PROVE Agrees(q)'
      BY <2>1, <1>t, <1>i DEF StartFinalize, Proceed, Agrees, DataTypeOK, files
    <3> QED BY <3>1, <3>2, <3>3
  <2>2. CASE OpenFile(p)
    <3>1. p \notin overtaken /\ mem[p] = saved /\ manifest = NoFile
      BY <2>2, <1>i, <1>0 DEF OpenFile, Touch, At, Agrees
    <3>2. ndjson' = Whole(saved)
      <4>1. CASE ndjson # NoFile
        BY <2>2, <4>1, <1>i DEF OpenFile, Content
      <4>2. CASE ndjson = NoFile
        <5>1. saved # Pages
          BY <2>2, <3>1, <1>t, PagesAssumption DEF OpenFile, DataTypeOK
        <5>2. saved = 0
          BY <4>2, <5>1, <1>i DEF Content
        <5>3. Whole(0) = <<>>
          BY WholeExtends
        <5> QED BY <2>2, <4>2, <5>2, <5>3 DEF OpenFile
      <4> QED BY <4>1, <4>2
    <3>3. Whole(saved) # NoFile
      BY <1>t, WholeExtends, PagesAssumption DEF DataTypeOK
    <3>4. Content' /\ Agrees(p)'
      BY <2>2, <3>1, <3>2, <3>3, <1>t, <1>i
         DEF OpenFile, Proceed, Content, Agrees, DataTypeOK
    <3>5. ASSUME NEW q \in Run \ {p} PROVE Agrees(q)'
      BY <2>2, <1>t, TouchOvertakes DEF OpenFile, Proceed, DataTypeOK
    <3> QED BY <3>4, <3>5
  <2>3. CASE HarvestPage(p)
    <3>1. /\ p \notin overtaken /\ mem[p] = saved /\ manifest = NoFile
          /\ onFile[p] /\ ndjson = Whole(saved)
      BY <2>3, <1>i, <1>0 DEF HarvestPage, Touch, At, Agrees, Content
    <3>2. ndjson' = Whole(saved') /\ saved' = saved + 1
      <4>1. saved \in Nat
        BY <1>t, PagesAssumption DEF DataTypeOK
      <4>2. Append(Whole(saved), saved + 1) = Whole(saved + 1)
        BY <4>1, WholeExtends
      <4>3. ndjson' = Append(ndjson, saved + 1) /\ saved' = saved + 1
        BY <2>3, <3>1 DEF HarvestPage, Cursor
      <4> QED BY <3>1, <4>2, <4>3
    <3>3. Whole(saved') # NoFile
      BY <1>t, WholeExtends, PagesAssumption DEF DataTypeOK
    <3>4. Content' /\ Agrees(p)'
      BY <2>3, <3>1, <3>2, <3>3, <1>t DEF HarvestPage, Cursor, At, Content, Agrees, DataTypeOK
    <3>5. ASSUME NEW q \in Run \ {p} PROVE Agrees(q)'
      BY <2>3, <1>t, TouchOvertakes DEF HarvestPage
    <3> QED BY <3>4, <3>5
  <2>4. CASE Convert(p)
    <3>1. /\ p \notin overtaken /\ mem[p] = saved /\ manifest = NoFile
          /\ ndjson = Whole(Pages) /\ ndjson # NoFile /\ saved = Pages
      BY <2>4, <1>i, <1>0 DEF Convert, Touch, At, Agrees, Content
    <3>2. Content' /\ Agrees(p)'
      BY <2>4, <3>1, <1>t DEF Convert, Proceed, Content, Agrees, DataTypeOK
    <3>3. ASSUME NEW q \in Run \ {p} PROVE Agrees(q)'
      BY <2>4, <1>t, TouchOvertakes DEF Convert, Proceed, DataTypeOK
    <3> QED BY <3>2, <3>3
  <2>5. CASE Unlink(p)
    <3>1. /\ p \notin overtaken /\ mem[p] = saved /\ manifest = NoFile
          /\ saved = Pages /\ parquet = Whole(Pages)
      BY <2>5, <1>i, <1>0 DEF Unlink, Touch, At, Agrees
    <3>2. Content' /\ Agrees(p)'
      BY <2>5, <3>1, <1>t DEF Unlink, Proceed, Content, Agrees, DataTypeOK
    <3>3. ASSUME NEW q \in Run \ {p} PROVE Agrees(q)'
      BY <2>5, <1>t, TouchOvertakes DEF Unlink, Proceed, DataTypeOK
    <3> QED BY <3>2, <3>3
  <2>6. CASE WriteManifest(p)
    <3>1. /\ p \notin overtaken /\ mem[p] = saved
          /\ saved = Pages /\ parquet = Whole(Pages)
      BY <2>6, <1>i, <1>0 DEF WriteManifest, Touch, At, Agrees
    <3>2. Content' /\ Agrees(p)'
      BY <2>6, <3>1, <1>t, <1>i DEF WriteManifest, Proceed, Content, Agrees, DataTypeOK
    <3>3. ASSUME NEW q \in Run \ {p} PROVE Agrees(q)'
      BY <2>6, <1>t, TouchOvertakes DEF WriteManifest, Proceed, DataTypeOK
    <3> QED BY <3>2, <3>3
  <2> QED BY <1>2, <2>1, <2>2, <2>3, <2>4, <2>5, <2>6 DEF Work
<1>3. ASSUME NEW p \in Run, Claiming(p) PROVE Good
  BY <1>3, <1>i DEF Claiming, data, files, Content, Agrees
<1>4. ASSUME NEW p \in Run, Forget(p) PROVE Good
  BY <1>4, <1>t, <1>i DEF Forget, files, Content, Agrees, DataTypeOK
<1>5. ASSUME UNCHANGED sharedVars PROVE Good
  BY <1>5, <1>i DEF sharedVars, data, files, Content, Agrees
<1> QED BY <1>1, <1>2, <1>3, <1>4, <1>5 DEF SharedNext, SharedStep, Stop, Killed

(* The files and the runs that know them keep the invariant.               *)
THEOREM FilesInvariant == SharedSpec => []FilesInv
BY InitFiles, NextFiles, PTL DEF SharedSpec

(* Unless a run works from what it read too early, the NDJSON file holds   *)
(* each page once and a published snapshot holds them all.                 *)
THEOREM FilesWhole == SharedSpec => []OneCopyUnlessOvertaken
<1>1. FilesInv => OneCopyUnlessOvertaken
  BY DEF FilesInv, Content, OneCopyUnlessOvertaken
<1> QED BY FilesInvariant, <1>1, PTL

(* A finished snapshot changes only under a run that works from what it    *)
(* read before (AC-1.5).                                                   *)
THEOREM FinishedStays == SharedSpec => FinishedIsFinalUnlessOvertaken
<1>1. ASSUME FilesInv, [SharedNext]_sharedVars, manifest # NoFile, ~clobbered'
      PROVE  UNCHANGED files
  <2>1. ASSUME NEW p \in Run, Work(p) PROVE UNCHANGED files
    <3>1. CASE StartFinalize(p)
      BY <3>1 DEF StartFinalize
    <3>2. CASE ~StartFinalize(p)
      <4>1. Touch(p) /\ \E label \in StepLabel \ {"none", "done"} : step[p] = label
        BY <2>1, <3>2 DEF Work, OpenFile, HarvestPage, Convert, Unlink, WriteManifest,
           At, StepLabel
      <4>2. ~clobbered /\ p \notin overtaken
        BY <1>1, <4>1 DEF Touch
      <4>3. Agrees(p)
        BY <1>1, <4>2 DEF FilesInv
      <4> QED BY <1>1, <4>1, <4>2, <4>3 DEF Agrees
    <3> QED BY <3>1, <3>2
  <2>2. ASSUME NEW p \in Run, ~Work(p), SharedStep(p) \/ Killed(p) PROVE UNCHANGED files
    BY <2>2 DEF SharedStep, SharedLoad, Claiming, Stop, Killed, Forget, data
  <2>3. ASSUME UNCHANGED sharedVars PROVE UNCHANGED files
    BY <2>3 DEF sharedVars, data
  <2> QED BY <1>1, <2>1, <2>2, <2>3 DEF SharedNext
<1>2. FilesInv /\ [SharedNext]_sharedVars
          => [manifest # NoFile /\ ~clobbered' => UNCHANGED files]_sharedVars
  BY <1>1
<1> QED BY FilesInvariant, <1>2, PTL DEF SharedSpec, FinishedIsFinalUnlessOvertaken

(* The composition implements the claim: its work steps leave the claim    *)
(* as it is.                                                               *)
THEOREM SharedImplementsClaim == SharedSpec => Spec
<1>1. SharedInit => Init
  BY DEF SharedInit
<1>2. [SharedNext]_sharedVars => [Next]_vars
  <2> SUFFICES ASSUME [SharedNext]_sharedVars PROVE [Next]_vars
    OBVIOUS
  <2>1. ASSUME NEW p \in Run, SharedStep(p) \/ Killed(p) PROVE [Next]_vars
    <3>1. CASE Work(p)
      BY <3>1 DEF Work, OpenFile, HarvestPage, StartFinalize, Convert, Unlink,
         WriteManifest, Touch
    <3>2. CASE ~Work(p)
      BY <2>1, <3>2 DEF SharedStep, SharedLoad, Claiming, Stop, Killed, Next, RunStep
    <3> QED BY <3>1, <3>2
  <2> QED BY <2>1 DEF SharedNext, sharedVars
<1> QED BY <1>1, <1>2, PTL DEF SharedSpec, Spec

(* So runs on one snapshot exclude each other unless acquisitions overlap. *)
THEOREM SharedExcludes == SharedSpec => []AloneUnlessRaced
BY SharedImplementsClaim, ClaimExcludes

(* And the claim names the run at work.                                    *)
THEOREM SharedNames == SharedSpec => []ClaimNamesItsRun
BY SharedImplementsClaim, ClaimNames

(* And when every run has ended and nobody was killed, one of them has     *)
(* worked, however their acquisitions overlapped.                          *)
THEOREM SharedLetsOneWork == SharedSpec => []SomeRunWorks
BY SharedImplementsClaim, ClaimLetsOneWork
=============================================================================
