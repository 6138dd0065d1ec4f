---------------------------- MODULE InstallerProofs ----------------------------
(***************************************************************************)
(* Proofs about Installer, for any games, builds, files and bounds.        *)
(***************************************************************************)
EXTENDS Installer, FiniteSetTheorems, TLAPS

--------------------------------------------------------------------------------
(* Places and what fits there. *)

\* The places are distinct, and those in game folders are places.
LEMMA Places ==
    /\ {Runtime, AlphaRuntime, Mod, AlphaMod, Maintenance} \subseteq Place
    /\ GamePlace \subseteq Place
    /\ \A g \in Game : Lovely(g) \in GamePlace /\ AppId(g) \in GamePlace
    /\ {Mod, AlphaMod} \cap GamePlace = {}
    /\ AlphaMod \notin {Runtime, AlphaRuntime, Mod, Maintenance}
  BY DEF Place, GamePlace, Lovely, AppId, Runtime, AlphaRuntime, Mod, AlphaMod, Maintenance

\* The kinds of files by place.
LEMMA Fitting ==
    /\ \A p \in {Runtime, Mod, Maintenance} : Fits(p) = {NoFile} \cup Build
    /\ \A p \in {AlphaRuntime, AlphaMod} : Fits(p) = {NoFile, Alpha}
    /\ \A g \in Game : /\ Build \subseteq Fits(Lovely(g))
                       /\ Fits(AppId(g)) = {NoFile, UserAppId, OurAppId}
    /\ \A p \in Place : Fits(p) \subseteq Content /\ NoFile \in Fits(p)
  <1>1. \A p \in {Runtime, Mod, Maintenance} : Fits(p) = {NoFile} \cup Build
    BY DEF Fits, Runtime, Mod, Maintenance
  <1>2. \A p \in {AlphaRuntime, AlphaMod} : Fits(p) = {NoFile, Alpha}
    BY DEF Fits, AlphaRuntime, AlphaMod
  <1>3. \A g \in Game : Fits(Lovely(g)) = {NoFile, UserDll, UserLovely} \cup Build
    BY DEF Fits, Injector, Lovely
  <1>4. \A g \in Game : Fits(AppId(g)) = {NoFile, UserAppId, OurAppId}
    BY DEF Fits, AppId
  <1>5. \A p \in GamePlace : \E g \in Game : p = Lovely(g) \/ p = AppId(g)
    BY DEF GamePlace, Lovely, AppId
  <1> QED BY <1>1, <1>2, <1>3, <1>4, <1>5 DEF Place, Content

\* A file that fits can be put at its place.
LEMMA PutTyped ==
    ASSUME disk \in Disk, NEW p \in Place, NEW v \in Fits(p),
           disk' = [disk EXCEPT ![p] = v]
    PROVE  disk' \in Disk
  BY Fitting DEF Disk

\* A guarded write keeps disk and log well-formed.
LEMMA WriteTyped ==
    ASSUME disk \in Disk, undo \in Seq(Guard), NEW p \in Place, NEW v \in Fits(p),
           Write(p, v)
    PROVE  disk' \in Disk /\ undo' \in Seq(Guard)
  <1>1. disk' \in Disk
    BY PutTyped DEF Write
  <1>2. [place |-> p, was |-> disk[p]] \in Guard
    BY DEF Guard, Disk
  <1>3. undo' \in Seq(Guard)
    BY <1>2 DEF Write
  <1> QED BY <1>1, <1>3

\* What is given back fits.
LEMMA GivenBackFits ==
    ASSUME backup \in Backup, NEW g \in Game, NEW claim
    PROVE  AppIdGivenBack(g, claim) \in Fits(AppId(g))
  BY Places, Fitting DEF AppIdGivenBack, Recorded, Backup

--------------------------------------------------------------------------------
(* Types. *)

\* What TypeOK needs: a running operation has a game folder and a build, a
\* removal has a manifest until it deletes it, and the folder it works on is
\* the one the manifest names.
Shape ==
    /\ job # "idle" => target \in Game
    /\ job = "install" => build \in Build
    /\ job \in {"restore", "uninstall"} /\ step # "rest" => manifest # None
    /\ job = "undoing" => step \in {"failed", "uncommitted"}

Typed == TypeOK /\ Shape

LEMMA TypedInit == Init => Typed
<1> SUFFICES ASSUME Init PROVE Typed
  OBVIOUS
<1>1. original \in Backup
  BY InitAssumption DEF Init, Backup
<1>2. disk \in Disk
  <2>1. PICK alpha \in {NoFile, Alpha} :
            disk = [p \in Place |-> IF p \in GamePlace THEN original[p]
                                    ELSE IF p \in {AlphaRuntime, AlphaMod} THEN alpha
                                    ELSE NoFile]
    BY DEF Init
  <2>2. ASSUME NEW p \in Place
        PROVE  disk[p] \in Fits(p)
    <3>1. CASE p \in GamePlace
      BY <1>1, <2>1, <3>1 DEF Backup
    <3>2. CASE p \notin GamePlace /\ p \in {AlphaRuntime, AlphaMod}
      BY <2>1, <3>2, Fitting
    <3>3. CASE p \notin GamePlace /\ p \notin {AlphaRuntime, AlphaMod}
      BY <2>1, <3>3, Fitting
    <3> QED BY <3>1, <3>2, <3>3
  <2> QED BY <2>1, <2>2, Fitting DEF Disk
<1>3. backup \in Backup
  BY Places, Fitting DEF Init, Backup
<1>4. NoClaims \in Claims /\ None \in Manifest /\ <<>> \in Seq(Guard)
  BY DEF NoClaims, Claims, Manifest
<1>5. 0 \in 0..MaxJobs /\ 0 \in 0..MaxMishaps
  BY JobAssumption
<1> QED
  BY <1>1, <1>2, <1>3, <1>4, <1>5 DEF Init, Typed, TypeOK, Shape, Jobs, Step, Outcome

\* Steps that change files and guards and go on to the next step.
LEMMA TypedGoto ==
    ASSUME Typed, NEW s \in Step, step # "rest", Goto(s), job \in Jobs \ {"idle", "undoing"},
           disk' \in Disk, undo' \in Seq(Guard), backup' \in Backup, claims' \in Claims,
           registered' \in BOOLEAN, quarantined' \in BOOLEAN,
           UNCHANGED manifest \/ (job = "install" /\ manifest' \in Manifest)
    PROVE  Typed'
  BY DEF Typed, TypeOK, Shape, Goto, jobVars, worldVars, historyVars, originVars, Manifest

\* The end of an operation.
LEMMA TypedEnd ==
    ASSUME Typed, NEW result \in Outcome, End(result),
           UNCHANGED <<otherMods, steam, found, originVars>>, litter' \in BOOLEAN,
           disk' \in Disk, backup' \in Backup, manifest' \in Manifest,
           registered' \in BOOLEAN, quarantined' \in BOOLEAN, mishaps' \in 0..MaxMishaps
    PROVE  Typed'
<1>1. NoClaims \in Claims /\ <<>> \in Seq(Guard)
  BY DEF NoClaims, Claims
<1> QED
  BY <1>1 DEF Typed, TypeOK, Shape, End, originVars, Jobs, Step

LEMMA TypedBegin ==
    ASSUME Typed, Install \/ Repair \/ Restore \/ Uninstall
    PROVE  Typed'
<1>1. jobs < MaxJobs => jobs + 1 \in 0..MaxJobs
  BY JobAssumption DEF Typed, TypeOK
<1>2. ASSUME NEW g \in Game, NEW b \in Build, BeginInstall(g, b)
      PROVE  Typed'
  <2>1. Previous(g) \in Claims
    BY DEF Previous, NoClaims, Claims, Typed, TypeOK, Manifest
  <2>2. Snapshot \in Snapshots
    BY DEF Snapshot, Snapshots, Typed, TypeOK
  <2>3. /\ disk' = disk /\ backup' = backup /\ quarantined' = quarantined
        /\ manifest' = manifest /\ registered' = registered
        /\ litter' = litter /\ otherMods' = otherMods /\ steam' = steam /\ found' = found
        /\ undo' = undo /\ original' = original /\ mishaps' = mishaps
        /\ job' = "install" /\ step' = "runtime" /\ target' = g /\ build' = b
        /\ claims' \in Claims /\ outcome' = "none"
        /\ before' \in Snapshots
        /\ used' \subseteq Build /\ jobs' \in 0..MaxJobs
    BY <1>1, <1>2, <2>1, <2>2 DEF BeginInstall, diskVars, worldVars, Typed, TypeOK
  <2> QED
    BY <2>3 DEF Typed, TypeOK, Shape, Jobs, Step, Outcome
<1>3. ASSUME NEW kind \in {"restore", "uninstall"}, Begin(kind)
      PROVE  Typed'
  BY <1>1, <1>3 DEF Begin, Typed, TypeOK, Shape, Manifest, diskVars, worldVars, Jobs, Step, Outcome
<1>4. Repair => \E g \in Game, b \in Build : BeginInstall(g, b)
  BY DEF Repair, Typed, TypeOK, Manifest
<1> QED
  BY <1>2, <1>3, <1>4 DEF Install, Restore, Uninstall

LEMMA TypedInstall ==
    ASSUME Typed, job = "install",
           \/ ReplaceRuntime \/ RemoveAlphaRuntime \/ MoveModAside \/ ActivateMod
           \/ QuarantineAlphaMod \/ KeepMaintenanceCopy \/ Register
    PROVE  Typed'
<1> USE DEF Installing, At
<1>1. /\ disk \in Disk /\ undo \in Seq(Guard) /\ backup \in Backup /\ claims \in Claims
      /\ registered \in BOOLEAN /\ quarantined \in BOOLEAN /\ build \in Build
      /\ job \in Jobs \ {"idle", "undoing"}
  BY DEF Typed, TypeOK, Shape, Jobs
<1>2. CASE ReplaceRuntime
  <2>1. disk' \in Disk /\ undo' \in Seq(Guard)
    BY <1>1, <1>2, WriteTyped, Places, Fitting DEF ReplaceRuntime
  <2> QED BY <1>1, <1>2, <2>1, TypedGoto DEF ReplaceRuntime, Step
<1>3. CASE RemoveAlphaRuntime
  <2>1. disk' \in Disk /\ undo' \in Seq(Guard)
    BY <1>1, <1>3, WriteTyped, Places, Fitting DEF RemoveAlphaRuntime, RemoveAlphaFile
  <2> QED BY <1>1, <1>3, <2>1, TypedGoto DEF RemoveAlphaRuntime, Step
<1>4. CASE MoveModAside
  <2>1. disk' \in Disk /\ undo' \in Seq(Guard)
    BY <1>1, <1>4, WriteTyped, Places, Fitting DEF MoveModAside
  <2> QED BY <1>1, <1>4, <2>1, TypedGoto DEF MoveModAside, Step
<1>5. CASE ActivateMod
  <2>1. disk' \in Disk /\ undo' \in Seq(Guard)
    BY <1>1, <1>5, PutTyped, Places, Fitting DEF ActivateMod, Put
  <2> QED BY <1>1, <1>5, <2>1, TypedGoto DEF ActivateMod, Step
<1>6. CASE QuarantineAlphaMod
  <2>1. disk' \in Disk /\ undo' \in Seq(Guard)
    BY <1>1, <1>6, WriteTyped, Places, Fitting DEF QuarantineAlphaMod, RemoveAlphaFile
  <2> QED BY <1>1, <1>6, <2>1, TypedGoto DEF QuarantineAlphaMod, Step
<1>7. CASE KeepMaintenanceCopy
  <2>1. disk' \in Disk /\ undo' \in Seq(Guard)
    BY <1>1, <1>7, WriteTyped, Places, Fitting DEF KeepMaintenanceCopy
  <2> QED BY <1>1, <1>7, <2>1, TypedGoto DEF KeepMaintenanceCopy, Step
<1>8. CASE Register
  BY <1>1, <1>8, TypedGoto DEF Register, Step, diskVars
<1> QED BY <1>2, <1>3, <1>4, <1>5, <1>6, <1>7, <1>8

LEMMA TypedInstallGame ==
    ASSUME Typed, job = "install",
           \/ BackUpLovely \/ ReplaceLovely \/ BackUpAppId \/ ReplaceAppId
           \/ ReturnOldLovely \/ ReturnOldAppId \/ SaveManifest
    PROVE  Typed'
<1> USE DEF Installing, At
<1>1. /\ disk \in Disk /\ undo \in Seq(Guard) /\ backup \in Backup /\ claims \in Claims
      /\ registered \in BOOLEAN /\ quarantined \in BOOLEAN /\ build \in Build
      /\ target \in Game /\ job \in Jobs \ {"idle", "undoing"} /\ manifest \in Manifest
  BY DEF Typed, TypeOK, Shape, Jobs
<1>p. /\ Lovely(target) \in GamePlace /\ AppId(target) \in GamePlace
      /\ Lovely(target) \in Place /\ AppId(target) \in Place
  BY <1>1, Places
<1>2. CASE BackUpLovely
  <2>1. backup' \in Backup /\ claims' \in Claims
    BY <1>1, <1>2, <1>p DEF BackUpLovely, Claims, Backup, Disk
  <2> QED BY <1>1, <1>2, <2>1, TypedGoto DEF BackUpLovely, Step
<1>3. CASE ReplaceLovely
  <2>1. disk' \in Disk /\ undo' \in Seq(Guard)
    BY <1>1, <1>3, <1>p, WriteTyped, Fitting DEF ReplaceLovely
  <2> QED BY <1>1, <1>3, <2>1, TypedGoto DEF ReplaceLovely, Step
<1>4. CASE BackUpAppId
  <2>1. backup' \in Backup /\ claims' \in Claims
    BY <1>1, <1>4, <1>p DEF BackUpAppId, Claims, Backup, Disk
  <2> QED BY <1>1, <1>4, <2>1, TypedGoto DEF BackUpAppId, Step
<1>5. CASE ReplaceAppId
  <2>1. disk' \in Disk /\ undo' \in Seq(Guard)
    <3>1. AppIdGivenBack(target, claims.appIdBackup) \in Fits(AppId(target))
      BY <1>1, GivenBackFits
    <3>2. OurAppId \in Fits(AppId(target))
      BY <1>1, Fitting
    <3> QED BY <1>1, <1>5, <1>p, <3>1, <3>2, WriteTyped DEF ReplaceAppId
  <2>2. claims' \in Claims
    <3>1. WritesAppId(target) \in BOOLEAN
      BY DEF WritesAppId
    <3> QED BY <1>1, <1>5, <3>1 DEF ReplaceAppId, Claims
  <2> QED BY <1>1, <1>5, <2>1, <2>2, TypedGoto DEF ReplaceAppId, Step
<1>6. CASE ReturnOldLovely
  <2>1. disk' \in Disk /\ undo' \in Seq(Guard)
    <3>1. CASE UNCHANGED <<disk, undo>>
      BY <1>1, <3>1
    <3>2. CASE Leaving /\ \E v \in {NoFile, backup[Lovely(manifest.game)]} :
                              Write(Lovely(manifest.game), v)
      <4>1. manifest.game \in Game
        BY <1>1, <3>2 DEF Leaving, Manifest
      <4>2. /\ Lovely(manifest.game) \in Place
            /\ {NoFile, backup[Lovely(manifest.game)]} \subseteq Fits(Lovely(manifest.game))
        BY <1>1, <4>1, Places, Fitting DEF Backup
      <4> QED BY <1>1, <3>2, <4>2, WriteTyped
    <3> QED BY <1>6, <3>1, <3>2 DEF ReturnOldLovely
  <2> QED BY <1>1, <1>6, <2>1, TypedGoto DEF ReturnOldLovely, Step
<1>7. CASE ReturnOldAppId
  <2>1. disk' \in Disk /\ undo' \in Seq(Guard)
    <3>1. Leaving => manifest.game \in Game
      BY <1>1 DEF Leaving, Manifest
    <3>2. Leaving => AppIdGivenBack(manifest.game, manifest.claims.appIdBackup)
                        \in Fits(AppId(manifest.game))
      BY <1>1, <3>1, GivenBackFits
    <3> QED BY <1>1, <1>7, <3>1, <3>2, WriteTyped, Places DEF ReturnOldAppId
  <2> QED BY <1>1, <1>7, <2>1, TypedGoto DEF ReturnOldAppId, Step
<1>8. CASE SaveManifest
  <2>1. manifest' \in Manifest
    BY <1>1, <1>8 DEF SaveManifest, Manifest
  <2> QED BY <1>1, <1>8, <2>1, TypedGoto DEF SaveManifest, Step, diskVars
<1> QED BY <1>2, <1>3, <1>4, <1>5, <1>6, <1>7, <1>8

LEMMA TypedUndo ==
    ASSUME Typed, Commit \/ Fail \/ CommitFails \/ DropGuard \/ Undone \/ Crash
    PROVE  Typed'
<1>1. mishaps < MaxMishaps => mishaps + 1 \in 0..MaxMishaps
  BY JobAssumption DEF Typed, TypeOK
<1>2. CASE Commit
  <2>1. quarantined' \in BOOLEAN
    BY <1>2 DEF Commit, Typed, TypeOK
  <2> QED BY <1>2, <2>1, TypedEnd DEF Commit, Typed, TypeOK, Outcome, worldVars
<1>3. CASE Fail \/ CommitFails
  <2>1. litter' \in BOOLEAN
    BY <1>3 DEF Fail, CommitFails, LeavesStage, worldVars, Typed, TypeOK
  <2> QED
    BY <1>1, <1>3, <2>1 DEF Fail, CommitFails, Installing, Typed, TypeOK, Shape, Jobs, Step,
       diskVars, worldVars, historyVars, originVars
<1>4. CASE DropGuard
  <2>1. Head(undo) \in Guard /\ Tail(undo) \in Seq(Guard)
    BY <1>4 DEF DropGuard, Typed, TypeOK
  <2>2. disk' \in Disk
    <3>1. Head(undo).place \in Place /\ Head(undo).was \in Fits(Head(undo).place)
      BY <2>1 DEF Guard
    <3> QED BY <1>4, <3>1, PutTyped DEF DropGuard, Typed, TypeOK
  <2>3. quarantined' \in BOOLEAN
    BY <1>4 DEF DropGuard
  <2> QED
    BY <1>4, <2>1, <2>2, <2>3 DEF DropGuard, Typed, TypeOK, Shape, jobVars, worldVars,
                                  historyVars, originVars
<1>5. CASE Undone
  <2>1. step \in Outcome
    BY <1>5 DEF Undone, Typed, Shape, Outcome
  <2> QED BY <1>5, <2>1, TypedEnd DEF Undone, Typed, TypeOK, diskVars, worldVars
<1>6. CASE Crash
  <2>1. litter' \in BOOLEAN
    BY <1>6 DEF Crash, LeavesStage, Typed, TypeOK
  <2> QED
    BY <1>1, <1>6, <2>1, TypedEnd DEF Crash, Typed, TypeOK, Outcome, diskVars, historyVars
<1> QED BY <1>2, <1>3, <1>4, <1>5, <1>6

LEMMA TypedRemoval ==
    ASSUME Typed, RemovalStep
    PROVE  Typed'
<1> USE DEF Removing, At
<1>1. /\ disk \in Disk /\ undo \in Seq(Guard) /\ backup \in Backup /\ claims \in Claims
      /\ registered \in BOOLEAN /\ quarantined \in BOOLEAN /\ manifest \in Manifest
      /\ mishaps \in 0..MaxMishaps /\ litter \in BOOLEAN
  BY DEF Typed, TypeOK
<1>p. ASSUME job \in {"restore", "uninstall"}
      PROVE  /\ target \in Game /\ job \in Jobs \ {"idle", "undoing"}
             /\ Lovely(target) \in GamePlace /\ Lovely(target) \in Place
             /\ AppId(target) \in Place
  BY <1>p, Places DEF Typed, Shape, Jobs
<1>2. CASE RemoveMod
  <2>1. disk' \in Disk /\ undo' \in Seq(Guard)
    BY <1>1, <1>2, PutTyped, Places, Fitting DEF RemoveMod, Put
  <2> QED BY <1>1, <1>2, <1>p, <2>1, TypedGoto DEF RemoveMod, Step
<1>3. CASE ReturnLovely
  <2>1. disk' \in Disk /\ undo' \in Seq(Guard)
    <3>1. {NoFile, backup[Lovely(target)]} \subseteq Fits(Lovely(target))
      BY <1>1, <1>3, <1>p, Fitting DEF ReturnLovely, Backup
    <3>2. \/ UNCHANGED <<disk, undo>>
          \/ \E v \in {NoFile, backup[Lovely(target)]} : Put(Lovely(target), v)
      BY <1>3 DEF ReturnLovely
    <3> QED BY <1>1, <1>3, <1>p, <3>1, <3>2, PutTyped DEF ReturnLovely, Put
  <2> QED BY <1>1, <1>3, <1>p, <2>1, TypedGoto DEF ReturnLovely, Step
<1>4. CASE ReturnAppId
  <2>1. disk' \in Disk /\ undo' \in Seq(Guard)
    <3>1. AppIdGivenBack(target, manifest.claims.appIdBackup) \in Fits(AppId(target))
      BY <1>1, <1>4, <1>p, GivenBackFits DEF ReturnAppId
    <3> QED BY <1>1, <1>4, <1>p, <3>1, PutTyped DEF ReturnAppId, Put
  <2> QED BY <1>1, <1>4, <1>p, <2>1, TypedGoto DEF ReturnAppId, Step
<1>5. CASE Restored
  BY <1>1, <1>5, TypedEnd DEF Restored, Outcome, diskVars, worldVars, historyVars
<1>6. CASE ForgetManifest
  BY <1>6 DEF ForgetManifest, Typed, TypeOK, Shape, Goto, Manifest, Step, jobVars,
              worldVars, historyVars, originVars, diskVars
<1>7. CASE RemoveRest
  <2>1. disk' \in Disk
    <3>1. PICK gone \in SUBSET {Runtime, AlphaRuntime, Maintenance} :
            disk' = [p \in Place |-> IF p \in gone THEN NoFile ELSE disk[p]]
      BY <1>7 DEF RemoveRest
    <3> QED BY <1>1, <3>1, Fitting DEF Disk
  <2> QED BY <1>1, <1>7, <2>1, TypedEnd DEF RemoveRest, Outcome, worldVars, historyVars
<1>8. CASE Stop
  BY <1>1, <1>8, TypedEnd DEF Stop, Outcome, diskVars, worldVars, historyVars
<1> QED BY <1>2, <1>3, <1>4, <1>5, <1>6, <1>7, <1>8 DEF RemovalStep

LEMMA TypedOutside ==
    ASSUME Typed, Outside
    PROVE  Typed'
<1>1. mishaps < MaxMishaps => mishaps + 1 \in 0..MaxMishaps
  BY JobAssumption DEF Typed, TypeOK
<1>2. PICK g \in Game : Adopt(g) \/ Vanish(g) \/ Reappear(g)
  BY DEF Outside
<1> QED
  BY <1>1, <1>2 DEF Adopt, Vanish, Reappear, Typed, TypeOK, Shape, diskVars, jobVars,
                    historyVars, originVars

LEMMA TypedNext == Typed /\ [Next]_vars => Typed'
<1> SUFFICES ASSUME Typed, [Next]_vars PROVE Typed'
  OBVIOUS
<1>1. CASE Install \/ Repair \/ Restore \/ Uninstall
  BY <1>1, TypedBegin
<1>2. CASE InstallStep
  <2>1. \/ job = "install" \/ Commit \/ Fail \/ CommitFails \/ DropGuard \/ Undone
    BY <1>2 DEF InstallStep, ReplaceRuntime, RemoveAlphaRuntime, MoveModAside,
                ActivateMod, QuarantineAlphaMod, BackUpLovely, ReplaceLovely, BackUpAppId,
                ReplaceAppId, KeepMaintenanceCopy, Register, ReturnOldLovely,
                ReturnOldAppId, SaveManifest, Installing
  <2> QED BY <1>2, <2>1, TypedInstall, TypedInstallGame, TypedUndo DEF InstallStep
<1>3. CASE RemovalStep
  BY <1>3, TypedRemoval
<1>4. CASE Crash
  BY <1>4, TypedUndo
<1>5. CASE Outside
  BY <1>5, TypedOutside
<1>6. CASE UNCHANGED vars
  BY <1>6 DEF Typed, TypeOK, Shape, vars
<1> QED BY <1>1, <1>2, <1>3, <1>4, <1>5, <1>6 DEF Next

\* Every place holds a file of its kind, and the manifest, the rollback guards
\* and the program's own state keep their shape, for all games, builds and bounds.
THEOREM InstallerTypeCorrect == Spec => []TypeOK
<1>1. Typed => TypeOK
  BY DEF Typed
<1> QED BY <1>1, TypedInit, TypedNext, PTL DEF Spec

--------------------------------------------------------------------------------
(* A failed install undoes everything it did. *)

InLog(p) == \E i \in DOMAIN undo : undo[i].place = p

\* Dropping all the guards leaves v at p: the first guard taken for p decides.
Owes(p, v) ==
    \/ ~InLog(p) /\ disk[p] = v
    \/ \E i \in DOMAIN undo : /\ undo[i].place = p /\ undo[i].was = v
                             /\ \A j \in DOMAIN undo : j > i => undo[j].place # p

\* The guards owe every place what it held when the install began, the quarantine
\* follows the guard of the retired mod, and until the commit the manifest is the
\* old one. The new mod is put in without a guard of its own, so the guard of the
\* folder moved aside must be there before it.
Undoable ==
    /\ job \in {"install", "undoing"} =>
          /\ before \in Snapshots
          /\ \A p \in Place : Owes(p, before.disk[p])
          /\ InLog(AlphaMod) => ~before.quarantined
          /\ ~InLog(AlphaMod) => quarantined = before.quarantined
    /\ job = "install" /\ InLog(AlphaMod) => quarantined
    /\ job = "install" /\ step = "modIn" => InLog(Mod)
    /\ job = "install" /\ step # "commit" => manifest = before.manifest
    /\ job = "undoing" /\ step = "failed" => manifest = before.manifest
    /\ job \in {"idle", "restore", "uninstall"} => undo = <<>>
    /\ ~(Present(AlphaMod) /\ quarantined)

\* How a guarded write changes the log.
LEMMA Logged ==
    ASSUME Typed, NEW p \in Place, NEW v, Write(p, v)
    PROVE  /\ InLog(p)'
           /\ \A q : q # p => (InLog(q)' <=> InLog(q))
           /\ \A q \in Place : q # p => disk'[q] = disk[q]
           /\ disk'[p] = v
           /\ \A q \in Place : \A w : Owes(q, w) => Owes(q, w)'
<1>1. undo \in Seq(Guard) /\ disk \in [Place -> Content]
  BY DEF Typed, TypeOK, Disk
<1> DEFINE guard == [place |-> p, was |-> disk[p]]
<1>2. /\ Len(undo) \in Nat /\ DOMAIN undo = 1..Len(undo)
      /\ DOMAIN undo' = 1..Len(undo) + 1
      /\ undo'[1] = guard
      /\ \A i \in 1..Len(undo) : undo'[i + 1] = undo[i]
  BY <1>1 DEF Write
<1>3. \A i \in DOMAIN undo' : i = 1 \/ (i - 1 \in DOMAIN undo /\ undo'[i] = undo[i - 1])
  BY <1>2
<1>4. \A q : q # p => (InLog(q)' <=> InLog(q))
  <2>1. ASSUME NEW q, q # p, InLog(q)
        PROVE  InLog(q)'
    <3>1. PICK i \in DOMAIN undo : undo[i].place = q
      BY <2>1 DEF InLog
    <3>2. i + 1 \in DOMAIN undo' /\ undo'[i + 1] = undo[i]
      BY <1>2
    <3> QED BY <3>1, <3>2 DEF InLog
  <2>2. ASSUME NEW q, q # p, InLog(q)'
        PROVE  InLog(q)
    BY <1>2, <1>3, <2>2 DEF InLog
  <2> QED BY <2>1, <2>2
<1>5. InLog(p)'
  BY <1>2 DEF InLog
<1>6. (\A q \in Place : q # p => disk'[q] = disk[q]) /\ disk'[p] = v
  BY <1>1 DEF Write
<1>7. ASSUME NEW q \in Place, NEW w, Owes(q, w)
      PROVE  Owes(q, w)'
  <2>1. CASE ~InLog(q) /\ disk[q] = w /\ q # p
    BY <1>4, <1>6, <2>1 DEF Owes
  <2>2. CASE ~InLog(q) /\ disk[q] = w /\ q = p
    <3>1. \A j \in DOMAIN undo' : j > 1 => undo'[j].place # q
      BY <1>2, <1>3, <2>2 DEF InLog
    <3> QED BY <1>2, <2>2, <3>1 DEF Owes
  <2>3. ASSUME NEW i \in DOMAIN undo, undo[i].place = q, undo[i].was = w,
               \A j \in DOMAIN undo : j > i => undo[j].place # q
        PROVE  Owes(q, w)'
    <3>1. i + 1 \in DOMAIN undo' /\ undo'[i + 1] = undo[i]
      BY <1>2
    <3>2. ASSUME NEW j \in DOMAIN undo', j > i + 1
          PROVE  undo'[j].place # q
      BY <1>2, <1>3, <2>3, <3>2
    <3> QED BY <2>3, <3>1, <3>2 DEF Owes
  <2> QED BY <1>7, <2>1, <2>2, <2>3 DEF Owes
<1> QED BY <1>4, <1>5, <1>6, <1>7

\* How the drop of a guard does.
LEMMA Dropped ==
    ASSUME Typed, DropGuard
    PROVE  /\ \A q : q # Head(undo).place => (InLog(q)' <=> InLog(q))
           /\ Head(undo).place \in Place /\ InLog(Head(undo).place)
           /\ \A q \in Place : \A w : Owes(q, w) => Owes(q, w)'
<1>1. undo \in Seq(Guard) /\ disk \in [Place -> Content] /\ undo # <<>>
  BY DEF Typed, TypeOK, Disk, DropGuard
<1>2. /\ Len(undo) \in Nat /\ Len(undo) > 0 /\ DOMAIN undo = 1..Len(undo)
      /\ Head(undo) = undo[1]
      /\ DOMAIN undo' = 1..Len(undo) - 1
      /\ \A i \in DOMAIN undo' : undo'[i] = undo[i + 1]
  BY <1>1 DEF DropGuard
<1>3. \A i \in DOMAIN undo : i = 1 \/ (i - 1 \in DOMAIN undo' /\ undo'[i - 1] = undo[i])
  BY <1>2
<1>4. /\ Head(undo).place \in Place /\ InLog(Head(undo).place)
      /\ Head(undo).was \in Content
  BY <1>1, <1>2 DEF Guard, InLog
<1>5. \A q : q # Head(undo).place => (InLog(q)' <=> InLog(q))
  <2>1. ASSUME NEW q, q # Head(undo).place, InLog(q)
        PROVE  InLog(q)'
    BY <1>2, <1>3, <2>1 DEF InLog
  <2>2. ASSUME NEW q, InLog(q)'
        PROVE  InLog(q)
    <3>1. PICK i \in DOMAIN undo' : undo'[i].place = q
      BY <2>2 DEF InLog
    <3>2. i + 1 \in DOMAIN undo /\ undo[i + 1].place = q
      BY <1>2, <3>1
    <3> QED BY <3>2 DEF InLog
  <2> QED BY <2>1, <2>2
<1>6. /\ \A q \in Place : q # Head(undo).place => disk'[q] = disk[q]
      /\ disk'[Head(undo).place] = Head(undo).was
  BY <1>1, <1>4 DEF DropGuard
<1>7. ASSUME NEW q \in Place, NEW w, Owes(q, w)
      PROVE  Owes(q, w)'
  <2>1. CASE ~InLog(q) /\ disk[q] = w
    BY <1>4, <1>5, <1>6, <2>1 DEF Owes
  <2>2. ASSUME NEW i \in DOMAIN undo, undo[i].place = q, undo[i].was = w,
               \A j \in DOMAIN undo : j > i => undo[j].place # q
        PROVE  Owes(q, w)'
    <3>1. CASE i = 1
      <4>1. ~InLog(q)'
        <5>1. ASSUME NEW j \in DOMAIN undo'
              PROVE  undo'[j].place # q
          BY <1>2, <2>2, <3>1
        <5> QED BY <5>1 DEF InLog
      <4>2. disk'[q] = w
        BY <1>2, <1>6, <2>2, <3>1
      <4> QED BY <4>1, <4>2 DEF Owes
    <3>2. CASE i # 1
      <4>1. i - 1 \in DOMAIN undo' /\ undo'[i - 1] = undo[i]
        BY <1>3, <3>2
      <4>2. ASSUME NEW j \in DOMAIN undo', j > i - 1
            PROVE  undo'[j].place # q
        BY <1>2, <2>2, <4>2
      <4> QED BY <2>2, <4>1, <4>2 DEF Owes
    <3> QED BY <3>1, <3>2
  <2> QED BY <1>7, <2>1, <2>2 DEF Owes
<1> QED BY <1>4, <1>5, <1>7

LEMMA GuardedStep ==
    ASSUME Typed, Undoable, job = "install", step # "commit",
           NEW s, s # "modIn", Goto(s),
           NEW p \in Place \ {AlphaMod}, NEW v, Write(p, v),
           UNCHANGED <<quarantined, manifest>>
    PROVE  Undoable'
<1>1. before' = before /\ job' = "install" /\ step' = s
  BY DEF Goto, jobVars, historyVars, originVars
<1>2. /\ InLog(AlphaMod)' <=> InLog(AlphaMod)
      /\ disk'[AlphaMod] = disk[AlphaMod]
      /\ \A q \in Place : \A w : Owes(q, w) => Owes(q, w)'
  BY Logged, Places
<1>3. \A q \in Place : Owes(q, before.disk[q])'
  <2> SUFFICES ASSUME NEW q \in Place PROVE Owes(q, before.disk[q])'
    OBVIOUS
  <2>1. Owes(q, before.disk[q])
    BY DEF Undoable
  <2>2. \A w : Owes(q, w) => Owes(q, w)'
    BY <1>2
  <2> QED BY <1>1, <2>1, <2>2 DEF Owes
<1> QED BY <1>1, <1>2, <1>3 DEF Undoable, Present

LEMMA UnguardedStep ==
    ASSUME Typed, Undoable, job = "install", step # "commit",
           NEW s, s # "modIn", Goto(s),
           UNCHANGED <<disk, undo, quarantined>>, UNCHANGED manifest \/ s = "commit"
    PROVE  Undoable'
<1>1. before' = before /\ job' = "install" /\ step' = s
  BY DEF Goto, jobVars, historyVars, originVars
<1> QED BY <1>1 DEF Undoable, Owes, InLog, Present

LEMMA UndoableInit == Init => Undoable
<1> SUFFICES ASSUME Init PROVE Undoable
  OBVIOUS
<1> QED BY DEF Init, Undoable

LEMMA UndoableBegin ==
    ASSUME Typed, Undoable, Install \/ Repair \/ Restore \/ Uninstall
    PROVE  Undoable'
<1>1. ASSUME NEW g, NEW b, BeginInstall(g, b)
      PROVE  Undoable'
  <2>1. /\ undo = <<>> /\ undo' = <<>> /\ disk' = disk /\ manifest' = manifest
        /\ quarantined' = quarantined /\ job' = "install" /\ step' = "runtime"
        /\ before' = Snapshot
    BY <1>1 DEF BeginInstall, Undoable, diskVars
  <2>2. before'.disk = disk /\ before'.manifest = manifest /\ before'.quarantined = quarantined
    BY <2>1 DEF Snapshot
  <2>3. before' \in Snapshots
    BY <2>1 DEF Snapshot, Snapshots, Typed, TypeOK
  <2>4. \A q : ~InLog(q)'
    BY <2>1 DEF InLog
  <2>5. \A q \in Place : Owes(q, before.disk[q])'
    BY <2>1, <2>2, <2>4 DEF Owes
  <2> QED BY <2>1, <2>2, <2>3, <2>4, <2>5 DEF Undoable, Present
<1>2. ASSUME NEW kind \in {"restore", "uninstall"}, Begin(kind)
      PROVE  Undoable'
  BY <1>2 DEF Begin, Undoable, diskVars, Present
<1> QED BY <1>1, <1>2 DEF Install, Repair, Restore, Uninstall

LEMMA UndoableInstall ==
    ASSUME Typed, Undoable, job = "install",
           \/ ReplaceRuntime \/ RemoveAlphaRuntime \/ MoveModAside \/ ActivateMod
           \/ QuarantineAlphaMod \/ KeepMaintenanceCopy \/ Register
    PROVE  Undoable'
<1> USE DEF Installing, At
<1>1. CASE ReplaceRuntime
  BY <1>1, GuardedStep, Places DEF ReplaceRuntime
<1>2. CASE RemoveAlphaRuntime
  BY <1>2, GuardedStep, UnguardedStep, Places DEF RemoveAlphaRuntime, RemoveAlphaFile
<1>3. CASE MoveModAside
  <2>1. /\ InLog(Mod)' /\ (InLog(AlphaMod)' <=> InLog(AlphaMod))
        /\ disk'[AlphaMod] = disk[AlphaMod]
        /\ \A q \in Place : \A w : Owes(q, w) => Owes(q, w)'
    BY <1>3, Logged, Places DEF MoveModAside
  <2>2. /\ before' = before /\ job' = "install" /\ manifest' = manifest
        /\ quarantined' = quarantined
    BY <1>3 DEF MoveModAside, Goto, jobVars, historyVars, originVars
  <2>3. \A q \in Place : Owes(q, before.disk[q])'
    BY <2>1, <2>2 DEF Undoable, Owes
  <2> QED BY <1>3, <2>1, <2>2, <2>3 DEF MoveModAside, Undoable, Present
<1>4. CASE ActivateMod
  <2>1. /\ before' = before /\ job' = "install" /\ manifest' = manifest /\ undo' = undo
        /\ quarantined' = quarantined /\ step' = "alphaMod" /\ InLog(Mod)
    BY <1>4 DEF ActivateMod, Goto, Put, jobVars, historyVars, originVars, Undoable
  <2>2. \A q \in Place : q # Mod => disk'[q] = disk[q]
    BY <1>4 DEF ActivateMod, Put, Typed, TypeOK, Disk
  <2>3. \A q \in Place : Owes(q, before.disk[q])'
    BY <2>1, <2>2 DEF Undoable, Owes, InLog
  <2> QED BY <1>4, <2>1, <2>2, <2>3, Places DEF ActivateMod, Undoable, InLog, Present
<1>5. CASE QuarantineAlphaMod
  <2>1. CASE ~Present(AlphaMod)
    BY <1>5, <2>1, UnguardedStep DEF QuarantineAlphaMod
  <2>2. CASE Present(AlphaMod)
    <3>1. /\ before' = before /\ job' = "install" /\ manifest' = manifest
          /\ quarantined' /\ step' = "lovelyBackup" /\ Write(AlphaMod, NoFile)
      BY <1>5, <2>2 DEF QuarantineAlphaMod, RemoveAlphaFile, Goto, jobVars, historyVars,
                       originVars
    <3>2. /\ InLog(AlphaMod)' /\ disk'[AlphaMod] = NoFile
          /\ \A q \in Place : \A w : Owes(q, w) => Owes(q, w)'
      BY <3>1, Logged, Places
    <3>3. ~before.quarantined
      BY <2>2 DEF Undoable
    <3>4. \A q \in Place : Owes(q, before.disk[q])'
      BY <3>1, <3>2 DEF Undoable, Owes
    <3> QED BY <1>5, <3>1, <3>2, <3>3, <3>4 DEF QuarantineAlphaMod, Undoable, Present
  <2> QED BY <2>1, <2>2
<1>6. CASE KeepMaintenanceCopy
  BY <1>6, GuardedStep, Places DEF KeepMaintenanceCopy
<1>7. CASE Register
  BY <1>7, UnguardedStep DEF Register, diskVars
<1> QED BY <1>1, <1>2, <1>3, <1>4, <1>5, <1>6, <1>7

LEMMA UndoableInstallGame ==
    ASSUME Typed, Undoable, job = "install",
           \/ BackUpLovely \/ ReplaceLovely \/ BackUpAppId \/ ReplaceAppId
           \/ ReturnOldLovely \/ ReturnOldAppId \/ SaveManifest
    PROVE  Undoable'
<1> USE DEF Installing, At
<1>1. \A g \in Game : /\ Lovely(g) \in Place \ {AlphaMod} /\ AppId(g) \in Place \ {AlphaMod}
  BY Places
<1>2. target \in Game /\ (Leaving => manifest.game \in Game)
  BY DEF Typed, TypeOK, Shape, Leaving, Manifest
<1>3. CASE BackUpLovely
  <2>1. UNCHANGED <<disk, undo, quarantined, manifest>> /\ step # "commit"
        /\ Goto("lovely")
    BY <1>3 DEF BackUpLovely
  <2> QED BY <2>1, UnguardedStep
<1>4. CASE ReplaceLovely
  BY <1>1, <1>2, <1>4, GuardedStep, UnguardedStep DEF ReplaceLovely
<1>5. CASE BackUpAppId
  BY <1>5, UnguardedStep DEF BackUpAppId
<1>6. CASE ReplaceAppId
  <2>1. UNCHANGED <<quarantined, manifest>> /\ step # "commit" /\ Goto("maintenance")
    BY <1>6 DEF ReplaceAppId
  <2>2. \/ UNCHANGED <<disk, undo>>
        \/ \E v : Write(AppId(target), v)
    BY <1>6 DEF ReplaceAppId
  <2> QED BY <1>1, <1>2, <2>1, <2>2, GuardedStep, UnguardedStep
<1>7. CASE ReturnOldLovely
  <2>1. UNCHANGED <<quarantined, manifest>> /\ step # "commit" /\ Goto("oldAppId")
    BY <1>7 DEF ReturnOldLovely
  <2>2. \/ UNCHANGED <<disk, undo>>
        \/ Leaving /\ \E v : Write(Lovely(manifest.game), v)
    BY <1>7 DEF ReturnOldLovely
  <2> QED BY <1>1, <1>2, <2>1, <2>2, GuardedStep, UnguardedStep
<1>8. CASE ReturnOldAppId
  <2>1. UNCHANGED <<quarantined, manifest>> /\ step # "commit" /\ Goto("save")
    BY <1>8 DEF ReturnOldAppId
  <2>2. \/ UNCHANGED <<disk, undo>>
        \/ Leaving /\ \E v : Write(AppId(manifest.game), v)
    BY <1>8 DEF ReturnOldAppId
  <2> QED BY <1>1, <1>2, <2>1, <2>2, GuardedStep, UnguardedStep
<1>9. CASE SaveManifest
  BY <1>9, UnguardedStep DEF SaveManifest, diskVars
<1> QED BY <1>3, <1>4, <1>5, <1>6, <1>7, <1>8, <1>9

LEMMA UndoableUndo ==
    ASSUME Typed, Undoable, Commit \/ Fail \/ CommitFails \/ DropGuard \/ Undone \/ Crash
    PROVE  Undoable'
<1>1. CASE Commit
  <2>1. ~(Present(AlphaMod) /\ quarantined)'
    BY <1>1 DEF Commit, Installing, Undoable, InLog, Present
  <2> QED BY <1>1, <2>1 DEF Commit, End, Undoable
<1>2. CASE Fail \/ CommitFails
  <2>1. /\ job' = "undoing" /\ job = "install"
        /\ UNCHANGED <<disk, undo, quarantined, manifest, before>>
        /\ step' = "failed" => step # "commit"
    BY <1>2 DEF Fail, CommitFails, Installing, diskVars, historyVars, originVars
  <2> QED BY <2>1 DEF Undoable, Owes, InLog, Present
<1>3. CASE DropGuard
  <2>1. /\ job = "undoing" /\ job' = "undoing" /\ step' = step
        /\ UNCHANGED <<manifest, before>>
        /\ quarantined' = (quarantined /\ Head(undo).place # AlphaMod)
    BY <1>3 DEF DropGuard, jobVars, historyVars, originVars
  <2>2. /\ \A q : q # Head(undo).place => (InLog(q)' <=> InLog(q))
        /\ InLog(Head(undo).place)
        /\ \A q \in Place : \A w : Owes(q, w) => Owes(q, w)'
    BY <1>3, Dropped
  <2>3. \A q \in Place : Owes(q, before.disk[q])'
    BY <2>1, <2>2 DEF Undoable, Owes
  <2>4. /\ InLog(AlphaMod)' => ~before'.quarantined
        /\ ~InLog(AlphaMod)' => quarantined' = before'.quarantined
    <3>1. CASE Head(undo).place = AlphaMod
      BY <2>1, <2>2, <3>1 DEF Undoable, Snapshots
    <3>2. CASE Head(undo).place # AlphaMod
      BY <2>1, <2>2, <3>2 DEF Undoable, Typed, TypeOK
    <3> QED BY <3>1, <3>2
  <2>5. ~(Present(AlphaMod) /\ quarantined)'
    BY <1>3, <2>1, Places DEF DropGuard, Undoable, Present, Typed, TypeOK, Disk
  <2> QED BY <2>1, <2>3, <2>4, <2>5 DEF Undoable
<1>4. CASE Undone
  BY <1>4 DEF Undone, End, Undoable, diskVars, Present
<1>5. CASE Crash
  BY <1>5 DEF Crash, End, Undoable, diskVars, Present
<1> QED BY <1>1, <1>2, <1>3, <1>4, <1>5

LEMMA UndoableRest ==
    ASSUME Typed, Undoable, RemovalStep \/ Outside
    PROVE  Undoable'
<1>1. CASE RemoveMod \/ ReturnLovely \/ ReturnAppId \/ ForgetManifest
  <2>1. /\ job \in {"restore", "uninstall"} /\ job' = job
        /\ UNCHANGED <<undo, quarantined>>
    BY <1>1 DEF RemoveMod, ReturnLovely, ReturnAppId, ForgetManifest, Removing, Put, Goto,
                jobVars, diskVars
  <2>2. target \in Game
    BY <2>1 DEF Typed, Shape
  <2>3. disk'[AlphaMod] = disk[AlphaMod]
    BY <1>1, <2>2, Places DEF RemoveMod, ReturnLovely, ReturnAppId, ForgetManifest, Put,
                              diskVars, Typed, TypeOK, Disk
  <2> QED BY <2>1, <2>3 DEF Undoable, Present
<1>2. CASE Restored \/ Stop
  BY <1>2 DEF Restored, Stop, End, Undoable, diskVars, Present
<1>3. CASE RemoveRest
  <2>1. disk'[AlphaMod] \in {NoFile, disk[AlphaMod]}
    BY <1>3, Places DEF RemoveRest
  <2> QED BY <1>3, <2>1 DEF RemoveRest, End, Undoable, Present
<1>4. CASE Outside
  BY <1>4 DEF Outside, Adopt, Vanish, Reappear, Undoable, diskVars, jobVars, Present
<1> QED BY <1>1, <1>2, <1>3, <1>4 DEF RemovalStep

LEMMA UndoableNext == Typed /\ Undoable /\ [Next]_vars => Undoable'
<1> SUFFICES ASSUME Typed, Undoable, [Next]_vars PROVE Undoable'
  OBVIOUS
<1>1. CASE Install \/ Repair \/ Restore \/ Uninstall
  BY <1>1, UndoableBegin
<1>2. CASE InstallStep
  <2>1. \/ job = "install" \/ Commit \/ Fail \/ CommitFails \/ DropGuard \/ Undone
    BY <1>2 DEF InstallStep, ReplaceRuntime, RemoveAlphaRuntime, MoveModAside,
                ActivateMod, QuarantineAlphaMod, BackUpLovely, ReplaceLovely, BackUpAppId,
                ReplaceAppId, KeepMaintenanceCopy, Register, ReturnOldLovely,
                ReturnOldAppId, SaveManifest, Installing
  <2> QED BY <1>2, <2>1, UndoableInstall, UndoableInstallGame, UndoableUndo DEF InstallStep
<1>3. CASE RemovalStep \/ Outside
  BY <1>3, UndoableRest
<1>4. CASE Crash
  BY <1>4, UndoableUndo
<1>5. CASE UNCHANGED vars
  BY <1>5 DEF Undoable, Owes, InLog, Present, vars
<1> QED BY <1>1, <1>2, <1>3, <1>4, <1>5 DEF Next

\* Nobody removes a stage folder that was left behind.
Littered == job \in {"install", "undoing"} /\ before.litter => litter

LEMMA LitteredNext == Littered /\ [Next]_vars => Littered'
<1> SUFFICES ASSUME Littered, [Next]_vars PROVE Littered'
  OBVIOUS
<1>1. CASE Install \/ Repair \/ Restore \/ Uninstall
  <2>1. \/ job' = "install" /\ before' = Snapshot /\ litter' = litter
        \/ job' \in {"restore", "uninstall"}
    BY <1>1 DEF Install, Repair, Restore, Uninstall, BeginInstall, Begin, worldVars
  <2> QED BY <2>1 DEF Littered, Snapshot
<1>2. CASE InstallStep
  <2>1. \/ /\ job \in {"install", "undoing"} /\ before' = before
           /\ litter' = litter \/ LeavesStage
        \/ job' = "idle"
    BY <1>2 DEF InstallStep, ReplaceRuntime, RemoveAlphaRuntime, MoveModAside, ActivateMod,
       QuarantineAlphaMod, BackUpLovely, ReplaceLovely, BackUpAppId, ReplaceAppId,
       KeepMaintenanceCopy, Register, ReturnOldLovely, ReturnOldAppId, SaveManifest, Commit,
       Fail, CommitFails, DropGuard, Undone, Installing, Goto, End, worldVars, historyVars
  <2> QED BY <2>1 DEF Littered, LeavesStage
<1>3. CASE RemovalStep
  BY <1>3 DEF RemovalStep, RemoveMod, ReturnLovely, ReturnAppId, Restored, ForgetManifest,
     RemoveRest, Stop, Removing, Goto, End, jobVars, At, Littered
<1>4. CASE Crash \/ Outside
  BY <1>4 DEF Crash, Outside, Adopt, Vanish, Reappear, End, jobVars, Littered
<1>5. CASE UNCHANGED vars
  BY <1>5 DEF vars, Littered
<1> QED BY <1>1, <1>2, <1>3, <1>4, <1>5 DEF Next

\* An install that fails at any step before its manifest is written, a move to
\* another game folder included and whatever state earlier crashes left, undoes
\* everything it did but the folder its package was staged in: every file, the
\* manifest and the retired mod are as before.
THEOREM FailureUndone == Spec => []FailedInstallChangesNothing
<1>1. Typed /\ Undoable /\ Littered => FailedInstallChangesNothing
  <2> SUFFICES ASSUME Typed, Undoable, Littered, job = "undoing", step = "failed", undo = <<>>
               PROVE  Snapshot \in {before, [before EXCEPT !.litter = TRUE]}
    BY DEF FailedInstallChangesNothing
  <2>1. \A p : ~InLog(p)
    BY DEF InLog
  <2>2. before \in Snapshots /\ \A p \in Place : disk[p] = before.disk[p]
    BY <2>1 DEF Undoable, Owes
  <2>3. disk = before.disk
    BY <2>2 DEF Snapshots, Typed, TypeOK, Disk
  <2>4. manifest = before.manifest /\ quarantined = before.quarantined
    BY <2>1 DEF Undoable
  <2>5. litter = before.litter \/ litter = TRUE
    BY <2>2 DEF Littered, Snapshots, Typed, TypeOK
  <2>6. before = [disk |-> before.disk, manifest |-> before.manifest,
                  quarantined |-> before.quarantined, litter |-> before.litter]
    BY <2>2 DEF Snapshots
  <2>7. Snapshot = [before EXCEPT !.litter = litter]
    BY <2>3, <2>4, <2>6 DEF Snapshot
  <2> QED BY <2>5, <2>6, <2>7
<1>2. Init => Littered
  BY DEF Init, Littered
<1> QED
  BY <1>1, <1>2, TypedInit, TypedNext, UndoableInit, UndoableNext, LitteredNext, PTL DEF Spec

--------------------------------------------------------------------------------
(* How far an install has come. *)

Busy == job \in {"install", "undoing"}

PastSystem == {"oldLovely", "oldAppId", "save", "commit"}
PastMaintenance == {"system"} \cup PastSystem
PastAppId == {"maintenance"} \cup PastMaintenance
PastLovely == {"appIdBackup", "appId"} \cup PastAppId
PastAlphaMod == {"lovelyBackup", "lovely"} \cup PastLovely
PastMod == {"alphaMod"} \cup PastAlphaMod
PastAlphaRuntime == {"modAside", "modIn"} \cup PastMod
PastRuntime == {"alphaRuntime"} \cup PastAlphaRuntime

\* What the steps behind have put in place stays there.
Progress ==
    /\ job # "idle" => outcome = "none"
    /\ job \in {"restore", "uninstall"} /\ step # "rest" => manifest.game = target
    /\ job = "install" =>
          /\ step \in PastRuntime \cup {"runtime"}
          /\ step \in PastRuntime => disk[Runtime] = build
          /\ step \in PastAlphaRuntime => ~Present(AlphaRuntime)
          /\ step \in PastMod => disk[Mod] = build
          /\ step \in PastAlphaMod => ~Present(AlphaMod)
          /\ step \in PastLovely => disk[Lovely(target)] \in Injector
          /\ step \in PastAppId => target \in steam \/ disk[AppId(target)] = OurAppId
          /\ step \in PastMaintenance => disk[Maintenance] = build
          /\ step \in PastSystem => registered
          /\ step = "commit" => manifest = [game |-> target, build |-> build, claims |-> claims]
    /\ InstalledIsWhole

--------------------------------------------------------------------------------
(* What the game folders came with. *)

\* The contents of p, and those it gets back when guards are dropped.
Lying(p) == {disk[p]} \cup {undo[i].was : i \in {j \in DOMAIN undo : undo[j].place = p}}

\* The claims about a folder: the manifest's and those of the install at work.
ClaimsOn(g) ==
    (IF target = g THEN {claims} ELSE {}) \cup
    (IF manifest # None /\ manifest.game = g THEN {manifest.claims} ELSE {})

\* The original of p is the content v, or in the backups, or there was none.
Kept(p, v) == original[p] \in {NoFile, v, backup[p]}

\* Only a second build after a mishap can take a version.dll for the user's that
\* an earlier install put there.
OneBuild == \A b, c \in used : b = c
Exposed == mishaps > 0 /\ ~OneBuild

\* An app id is replaced only once its original is in the backups, and claimed
\* only then.
AppIdKept(g) ==
    LET p == AppId(g) IN
    /\ backup[p] \in {NoFile, original[p]}
    /\ \A v \in Lying(p) : v \in {NoFile, OurAppId, original[p]} /\ Kept(p, v)
    /\ \A c \in ClaimsOn(g) : /\ c.appIdOwned => original[p] \in {NoFile, backup[p]}
                              /\ c.appIdBackup => backup[p] # NoFile

\* The same of version.dll while it is not exposed; what lies there is always the
\* original or some build's, and the backup a claim names is there.
LovelyKept(g) ==
    LET p == Lovely(g) IN
    /\ \A v \in Lying(p) \cup {backup[p]} : v \in {NoFile, original[p]} \cup used
    /\ OneBuild => backup[p] \in {NoFile, original[p]}
    /\ \A c \in ClaimsOn(g) : c.lovelyBackup => backup[p] # NoFile
    /\ ~Exposed =>
          /\ original[p] = NoFile \/ backup[p] \in {NoFile, original[p]}
          /\ \A v \in Lying(p) : Kept(p, v)
          /\ \A c \in ClaimsOn(g) : c.lovelyOwned => original[p] \in {NoFile, backup[p]}

\* And when an install is about to write over a file, the original of that file,
\* if there was one, is in the backups.
Originals ==
    /\ \A g \in Game : AppIdKept(g) /\ LovelyKept(g)
    /\ \A p \in GamePlace : original[p] \notin Build
    /\ IsFiniteSet(used)
    /\ IF Busy THEN build \in used ELSE claims = NoClaims
    /\ Installing("lovely") /\ ~Exposed =>
          original[Lovely(target)] \in {NoFile, backup[Lovely(target)]}
    /\ Installing("appId") /\ WritesAppId(target) =>
          original[AppId(target)] \in {NoFile, backup[AppId(target)]}

--------------------------------------------------------------------------------
(* The truth of the claims: without mishaps a manifest says what each game folder
   needs to be as it was, so that it can be given back. *)

\* What the manifest m claims of folder g.
ClaimsOf(m, g) == IF m # None /\ m.game = g THEN m.claims ELSE NoClaims

\* No other mod stood in the way.
Alone == OneBuild /\ ~otherMods /\ ~(IF Busy THEN before.quarantined ELSE quarantined)

\* In the files d, folder g has the version.dll it came with, or the app id.
LovelyBack(g, d) ==
    /\ original[Lovely(g)] \in {NoFile, d[Lovely(g)]}
    /\ Alone => d[Lovely(g)] = original[Lovely(g)]
AppIdBack(g, d) == d[AppId(g)] = original[AppId(g)]

\* The claims c tell how folder g differs in d from what it came with.
Truthful(g, d, c) ==
    /\ ~c.appIdOwned => AppIdBack(g, d)
    /\ c.appIdOwned /\ ~c.appIdBackup => original[AppId(g)] = NoFile
    /\ c.lovelyOwned => original[Lovely(g)] = NoFile
    /\ ~c.lovelyBackup => original[Lovely(g)] \in {NoFile, d[Lovely(g)]}
    /\ Alone /\ ~c.lovelyOwned /\ ~c.lovelyBackup => d[Lovely(g)] = original[Lovely(g)]

\* The files d are as the manifest m says.
Tidy(d, m) ==
    /\ \A g \in Game : Truthful(g, d, ClaimsOf(m, g))
    /\ m # None => d[AlphaMod] = NoFile

\* The claims an install has gathered, the folders it has not visited, and the
\* former folder once its files are returned.
InstallTrue ==
    /\ Truthful(target, disk, claims)
    /\ \A g \in Game \ {target} :
          /\ step # "commit" => Truthful(g, disk, ClaimsOf(manifest, g))
          /\ step \in {"oldAppId", "save", "commit"} => LovelyBack(g, disk)
          /\ step \in {"save", "commit"} => AppIdBack(g, disk)
    /\ step = "lovely" => /\ original[Lovely(target)] = NoFile \/ claims.lovelyBackup
                          /\ Alone => claims.lovelyOwned \/ claims.lovelyBackup
    /\ step = "appId" /\ WritesAppId(target) /\ ~claims.appIdOwned /\ Present(AppId(target))
          => claims.appIdBackup

\* What an uninstall has given back so far.
RemovalTrue ==
    /\ step \in {"appId", "manifest", "rest"} => LovelyBack(target, disk)
    /\ step \in {"manifest", "rest"} => AppIdBack(target, disk)

\* An install that runs can be undone to tidy files, and otherwise they are tidy.
Truth ==
    /\ outcome = "uninstalled" => job = "idle" /\ manifest = None
    /\ job = "uninstall" /\ step = "rest" => manifest = None
    /\ mishaps = 0 =>
       /\ found = Game
       /\ IF Busy THEN Tidy(before.disk, before.manifest) ELSE Tidy(disk, manifest)
       /\ Busy /\ before.manifest # None => ~InLog(AlphaMod)
       /\ job = "undoing" => step = "failed"
       /\ job = "install" => InstallTrue
       /\ job = "uninstall" => RemovalTrue

Sound == Typed /\ Undoable /\ Progress /\ Originals /\ Truth

--------------------------------------------------------------------------------
\* No two places are one.
LEMMA Distinct ==
    /\ \A p \in {Runtime, AlphaRuntime, Mod, AlphaMod, Maintenance} : p \notin GamePlace
    /\ Runtime \notin {AlphaRuntime, Mod, AlphaMod, Maintenance}
    /\ AlphaRuntime \notin {Mod, AlphaMod, Maintenance}
    /\ Mod \notin {AlphaMod, Maintenance} /\ AlphaMod # Maintenance
    /\ \A g, h \in Game : /\ Lovely(g) # AppId(h)
                          /\ Lovely(g) = Lovely(h) => g = h
                          /\ AppId(g) = AppId(h) => g = h
  BY DEF GamePlace, Lovely, AppId, Runtime, AlphaRuntime, Mod, AlphaMod, Maintenance

LEMMA GamePlaces == \A p \in GamePlace : \E g \in Game : p = Lovely(g) \/ p = AppId(g)
  BY DEF GamePlace, Lovely, AppId

\* What a file operation leaves alone.
LEMMA Changed ==
    ASSUME Typed, NEW p \in Place, NEW v, disk' = [disk EXCEPT ![p] = v]
    PROVE  disk'[p] = v /\ \A q \in Place \ {p} : disk'[q] = disk[q]
  BY DEF Typed, TypeOK, Disk

LEMMA Contents ==
    /\ NoFile \notin Build /\ Build \subseteq Injector /\ NoFile # OurAppId
  BY FileAssumption DEF Injector

\* What Goto leaves alone.
LEMMA Went ==
    ASSUME NEW s, Goto(s)
    PROVE  /\ step' = s /\ job' = job /\ target' = target /\ build' = build
           /\ outcome' = outcome /\ mishaps' = mishaps /\ otherMods' = otherMods
           /\ steam' = steam /\ found' = found /\ original' = original /\ used' = used
           /\ jobs' = jobs /\ before' = before
  BY DEF Goto, jobVars, worldVars, historyVars, originVars

LEMMA Ended ==
    ASSUME NEW r, End(r)
    PROVE  /\ job' = "idle" /\ step' = "none" /\ target' = Anywhere /\ build' = NoFile
           /\ claims' = NoClaims /\ undo' = <<>> /\ before' = None /\ outcome' = r
  BY DEF End

\* The five places outside the game folders.
Fixed == {Runtime, AlphaRuntime, Mod, AlphaMod, Maintenance}
InGame(g) == {Lovely(g), AppId(g)}

LEMMA FixedPlaces ==
    /\ Fixed \subseteq Place /\ Fixed \cap GamePlace = {}
    /\ \A g \in Game : InGame(g) \subseteq GamePlace /\ InGame(g) \subseteq Place
    /\ \A g, h \in Game : g # h => InGame(g) \cap InGame(h) = {}
  BY Places, Distinct DEF Fixed, InGame

--------------------------------------------------------------------------------
(* Progress of an install. *)

\* A step of an install that changes one place, or none.
LEMMA ProgressStep ==
    ASSUME Typed, Progress, job = "install", NEW s, Goto(s), claims' = claims,
           manifest' = manifest, registered' \in BOOLEAN, registered => registered',
           step # "commit", step' # "commit",
           step \in PastRuntime \cup {"runtime"}, step' \in PastRuntime,
           step' \in PastRuntime => disk'[Runtime] = build,
           step' \in PastAlphaRuntime => disk'[AlphaRuntime] = NoFile,
           step' \in PastMod => disk'[Mod] = build,
           step' \in PastAlphaMod => disk'[AlphaMod] = NoFile,
           step' \in PastLovely => disk'[Lovely(target)] \in Injector,
           step' \in PastAppId => target \in steam \/ disk'[AppId(target)] = OurAppId,
           step' \in PastMaintenance => disk'[Maintenance] = build,
           step' \in PastSystem => registered'
    PROVE  Progress'
<1>1. outcome' = "none" /\ job' = "install"
  BY Went DEF Progress
<1>2. InstalledIsWhole'
  BY <1>1 DEF InstalledIsWhole
<1> QED BY <1>1, <1>2, Went DEF Progress, Present

LEMMA ProgressInstall ==
    ASSUME Typed, Progress, job = "install",
           \/ ReplaceRuntime \/ RemoveAlphaRuntime \/ MoveModAside \/ ActivateMod
           \/ QuarantineAlphaMod \/ KeepMaintenanceCopy \/ Register
    PROVE  Progress'
<1> USE DEF Installing, At, PastRuntime, PastAlphaRuntime, PastMod, PastAlphaMod, PastLovely,
            PastAppId, PastMaintenance, PastSystem
<1>1. Typed /\ Progress /\ registered \in BOOLEAN /\ target \in Game
  BY DEF Typed, TypeOK, Shape
<1>2. Lovely(target) \in Place /\ AppId(target) \in Place /\ Fixed \subseteq Place
      /\ Lovely(target) \notin Fixed /\ AppId(target) \notin Fixed
  BY <1>1, Places, Distinct DEF Fixed
<1>3. CASE ReplaceRuntime
  <2>1. disk'[Runtime] = build
    BY <1>1, <1>2, <1>3, Changed DEF ReplaceRuntime, Write, Fixed
  <2> QED BY <1>1, <1>3, <2>1, ProgressStep, Went DEF ReplaceRuntime
<1>4. CASE RemoveAlphaRuntime
  <2>1. disk'[AlphaRuntime] = NoFile /\ disk'[Runtime] = disk[Runtime]
    BY <1>1, <1>2, <1>4, Changed, Distinct DEF RemoveAlphaRuntime, RemoveAlphaFile, Write,
                                                  Fixed, Present
  <2>2. disk[Runtime] = build
    BY <1>1, <1>4 DEF Progress, RemoveAlphaRuntime
  <2> QED BY <1>1, <1>4, <2>1, <2>2, ProgressStep, Went DEF RemoveAlphaRuntime
<1>5. CASE MoveModAside
  <2>1. disk'[AlphaRuntime] = disk[AlphaRuntime] /\ disk'[Runtime] = disk[Runtime]
    BY <1>1, <1>2, <1>5, Changed, Distinct DEF MoveModAside, Write, Fixed
  <2>2. disk[Runtime] = build /\ disk[AlphaRuntime] = NoFile
    BY <1>1, <1>5 DEF Progress, MoveModAside, Present
  <2> QED BY <1>1, <1>5, <2>1, <2>2, ProgressStep, Went DEF MoveModAside
<1>6. CASE ActivateMod
  <2>1. disk'[AlphaRuntime] = disk[AlphaRuntime] /\ disk'[Runtime] = disk[Runtime]
        /\ disk'[Mod] = build
    BY <1>1, <1>2, <1>6, Changed, Distinct DEF ActivateMod, Put, Fixed
  <2>2. disk[Runtime] = build /\ disk[AlphaRuntime] = NoFile
    BY <1>1, <1>6 DEF Progress, ActivateMod, Present
  <2> QED BY <1>1, <1>6, <2>1, <2>2, ProgressStep, Went DEF ActivateMod
<1>7. CASE QuarantineAlphaMod
  <2>1. /\ disk'[AlphaRuntime] = disk[AlphaRuntime] /\ disk'[Runtime] = disk[Runtime]
        /\ disk'[Mod] = disk[Mod] /\ disk'[AlphaMod] = NoFile
    BY <1>1, <1>2, <1>7, Changed, Distinct DEF QuarantineAlphaMod, RemoveAlphaFile, Write,
                                                  Fixed, Present
  <2>2. disk[Runtime] = build /\ disk[AlphaRuntime] = NoFile /\ disk[Mod] = build
    BY <1>1, <1>7 DEF Progress, QuarantineAlphaMod, Present
  <2> QED BY <1>1, <1>7, <2>1, <2>2, ProgressStep, Went DEF QuarantineAlphaMod
<1>8. CASE KeepMaintenanceCopy
  <2>1. /\ disk'[AlphaRuntime] = disk[AlphaRuntime] /\ disk'[Runtime] = disk[Runtime]
        /\ disk'[Mod] = disk[Mod] /\ disk'[AlphaMod] = disk[AlphaMod]
        /\ disk'[Lovely(target)] = disk[Lovely(target)]
        /\ disk'[AppId(target)] = disk[AppId(target)] /\ disk'[Maintenance] = build
    BY <1>1, <1>2, <1>8, Changed, Distinct DEF KeepMaintenanceCopy, Write, Fixed
  <2>2. /\ disk[Runtime] = build /\ disk[AlphaRuntime] = NoFile /\ disk[Mod] = build
        /\ disk[AlphaMod] = NoFile /\ disk[Lovely(target)] \in Injector
        /\ target \in steam \/ disk[AppId(target)] = OurAppId
    BY <1>1, <1>8 DEF Progress, KeepMaintenanceCopy, Present
  <2> QED BY <1>1, <1>8, <2>1, <2>2, ProgressStep, Went DEF KeepMaintenanceCopy
<1>9. CASE Register
  <2>1. /\ disk[Runtime] = build /\ disk[AlphaRuntime] = NoFile /\ disk[Mod] = build
        /\ disk[AlphaMod] = NoFile /\ disk[Lovely(target)] \in Injector
        /\ target \in steam \/ disk[AppId(target)] = OurAppId
        /\ disk[Maintenance] = build
    BY <1>1, <1>9 DEF Progress, Register, Present
  <2> QED BY <1>1, <1>9, <2>1, ProgressStep, Went DEF Register, diskVars
<1> QED BY <1>3, <1>4, <1>5, <1>6, <1>7, <1>8, <1>9

LEMMA ProgressInstallGame ==
    ASSUME Typed, Progress, job = "install",
           \/ BackUpLovely \/ ReplaceLovely \/ BackUpAppId \/ ReplaceAppId
           \/ ReturnOldLovely \/ ReturnOldAppId \/ SaveManifest
    PROVE  Progress'
<1> USE DEF Installing, At, PastRuntime, PastAlphaRuntime, PastMod, PastAlphaMod, PastLovely,
            PastAppId, PastMaintenance, PastSystem
<1>1. Typed /\ Progress /\ registered \in BOOLEAN /\ target \in Game /\ build \in Build
      /\ (Leaving => manifest.game \in Game \ {target})
  BY DEF Typed, TypeOK, Shape, Leaving, Manifest
<1>2. /\ \A g \in Game : Lovely(g) \in Place \ Fixed /\ AppId(g) \in Place \ Fixed
      /\ Fixed \subseteq Place
  BY Places, Distinct DEF Fixed
<1>3. ASSUME NEW q \in Place \ Fixed, NEW v, disk' = [disk EXCEPT ![q] = v]
      PROVE  \A p \in Fixed : disk'[p] = disk[p]
  BY <1>1, <1>2, <1>3, Changed
<1>4. ASSUME step \in PastAlphaMod, \A p \in Fixed : disk'[p] = disk[p]
      PROVE  /\ disk'[Runtime] = build /\ disk'[AlphaRuntime] = NoFile /\ disk'[Mod] = build
             /\ disk'[AlphaMod] = NoFile
             /\ step \in PastMaintenance => disk'[Maintenance] = build
  BY <1>1, <1>4 DEF Progress, Present, Fixed
<1>6. CASE BackUpLovely
  <2>1. disk' = disk /\ step = "lovelyBackup" /\ Goto("lovely")
        /\ UNCHANGED <<manifest, registered>>
    BY <1>6 DEF BackUpLovely
  <2>2. outcome' = "none" /\ InstalledIsWhole'
    BY <1>1, <2>1, Went DEF Progress, InstalledIsWhole
  <2> QED BY <1>1, <1>4, <2>1, <2>2, Went DEF Progress, Present
<1>7. CASE ReplaceLovely
  <2>1. /\ step = "lovely" /\ Goto("appIdBackup") /\ UNCHANGED <<manifest, registered, claims>>
        /\ disk' = disk \/ disk' = [disk EXCEPT ![Lovely(target)] = build]
        /\ disk' = disk => disk[Lovely(target)] \in Injector
    BY <1>1, <1>2, <1>7, Changed, Contents DEF ReplaceLovely, Write, Preserve
  <2>2. disk'[Lovely(target)] \in Injector
    BY <1>1, <1>2, <2>1, Changed, Contents
  <2>3. \A p \in Fixed : disk'[p] = disk[p]
    BY <1>1, <1>2, <1>3, <2>1
  <2> QED BY <1>1, <1>4, <2>1, <2>2, <2>3, ProgressStep, Went
<1>8. CASE BackUpAppId
  <2>1. disk' = disk /\ step = "appIdBackup" /\ Goto("appId")
        /\ UNCHANGED <<manifest, registered>>
    BY <1>8 DEF BackUpAppId
  <2>2. outcome' = "none" /\ InstalledIsWhole'
    BY <1>1, <2>1, Went DEF Progress, InstalledIsWhole
  <2>3. disk[Lovely(target)] \in Injector
    BY <1>1, <2>1 DEF Progress
  <2> QED BY <1>1, <1>4, <2>1, <2>2, <2>3, Went DEF Progress, Present
<1>9. CASE ReplaceAppId
  <2>1. /\ step = "appId" /\ Goto("maintenance") /\ UNCHANGED <<manifest, registered>>
        /\ disk' = disk \/ \E v : disk' = [disk EXCEPT ![AppId(target)] = v]
        /\ target \in steam \/ disk' = [disk EXCEPT ![AppId(target)] = OurAppId]
           \/ (disk' = disk /\ disk[AppId(target)] = OurAppId)
    BY <1>9 DEF ReplaceAppId, Write, WritesAppId
  <2>2. target \in steam \/ disk'[AppId(target)] = OurAppId
    BY <1>1, <1>2, <2>1, Changed
  <2>3. /\ \A p \in Fixed : disk'[p] = disk[p]
        /\ disk'[Lovely(target)] = disk[Lovely(target)]
    BY <1>1, <1>2, <1>3, <2>1, Changed, Distinct
  <2>4. outcome' = "none" /\ InstalledIsWhole'
    BY <1>1, <2>1, Went DEF Progress, InstalledIsWhole
  <2>5. disk'[Lovely(target)] \in Injector
    BY <1>1, <2>1, <2>3 DEF Progress
  <2> QED BY <1>1, <1>4, <2>1, <2>2, <2>3, <2>4, <2>5, Went DEF Progress, Present
<1>10. CASE ReturnOldLovely \/ ReturnOldAppId
  <2>1. /\ step \in PastSystem /\ UNCHANGED <<manifest, registered, claims>>
        /\ (step = "oldLovely" /\ Goto("oldAppId")) \/ (step = "oldAppId" /\ Goto("save"))
        /\ \/ disk' = disk
           \/ /\ Leaving
              /\ \E p \in InGame(manifest.game) : \E v : disk' = [disk EXCEPT ![p] = v]
    BY <1>10 DEF ReturnOldLovely, ReturnOldAppId, Write, InGame
  <2>2. /\ disk'[Lovely(target)] = disk[Lovely(target)]
        /\ disk'[AppId(target)] = disk[AppId(target)]
        /\ \A p \in Fixed : disk'[p] = disk[p]
    <3>1. CASE disk' = disk
      BY <3>1
    <3>2. ASSUME Leaving, NEW p \in InGame(manifest.game), NEW v, disk' = [disk EXCEPT ![p] = v]
          PROVE  /\ disk'[Lovely(target)] = disk[Lovely(target)]
                 /\ disk'[AppId(target)] = disk[AppId(target)]
                 /\ \A q \in Fixed : disk'[q] = disk[q]
      <4>1. p \in Place \ Fixed /\ p \notin InGame(target)
        BY <1>1, <1>2, <3>2, FixedPlaces DEF InGame
      <4> QED BY <1>1, <1>2, <1>3, <3>2, <4>1, Changed DEF InGame
    <3> QED BY <2>1, <3>1, <3>2
  <2>3. /\ disk[Lovely(target)] \in Injector /\ registered
        /\ target \in steam \/ disk[AppId(target)] = OurAppId
    BY <1>1, <2>1 DEF Progress
  <2> QED BY <1>1, <1>4, <2>1, <2>2, <2>3, ProgressStep, Went
<1>11. CASE SaveManifest
  <2>1. /\ step = "save" /\ Goto("commit") /\ UNCHANGED <<disk, registered, claims>>
        /\ manifest' = [game |-> target, build |-> build, claims |-> claims]
    BY <1>11 DEF SaveManifest, diskVars
  <2>2. outcome' = "none" /\ InstalledIsWhole'
    BY <1>1, <2>1, Went DEF Progress, InstalledIsWhole
  <2> QED BY <1>1, <2>1, <2>2, Went DEF Progress, Present
<1> QED BY <1>6, <1>7, <1>8, <1>9, <1>10, <1>11

LEMMA ProgressUndo ==
    ASSUME Typed, Progress, Commit \/ Fail \/ CommitFails \/ DropGuard \/ Undone \/ Crash
    PROVE  Progress'
<1>1. CASE Commit
  <2>1. /\ job = "install" /\ step = "commit" /\ target \in Game
        /\ UNCHANGED <<disk, manifest, registered, steam>>
    BY <1>1 DEF Commit, Installing, At, worldVars, Typed, Shape
  <2>2. job' = "idle" /\ outcome' = "installed"
    BY <1>1, Ended DEF Commit
  <2>3. InstalledIsWhole'
    <3>1. manifest = [game |-> target, build |-> build, claims |-> claims] /\ manifest # None
      BY <2>1, NoneAssumption DEF Progress, Typed, TypeOK, Shape
    <3> QED BY <2>1, <2>2, <3>1 DEF Progress, InstalledIsWhole, Present, PastSystem,
                PastMaintenance, PastAppId, PastLovely, PastAlphaMod, PastMod,
                PastAlphaRuntime, PastRuntime
  <2> QED BY <2>2, <2>3 DEF Progress
<1>2. CASE Fail \/ CommitFails
  <2>1. job' = "undoing" /\ outcome' = outcome /\ job = "install"
    BY <1>2 DEF Fail, CommitFails, Installing
  <2> QED BY <2>1 DEF Progress, InstalledIsWhole
<1>3. CASE DropGuard
  <2>1. job' = "undoing" /\ outcome' = outcome /\ job = "undoing"
    BY <1>3 DEF DropGuard, jobVars
  <2> QED BY <2>1 DEF Progress, InstalledIsWhole
<1>4. CASE Undone
  <2>1. job' = "idle" /\ outcome' \in {"failed", "uncommitted"}
    BY <1>4, Ended DEF Undone, Typed, Shape
  <2> QED BY <2>1 DEF Progress, InstalledIsWhole
<1>5. CASE Crash
  <2>1. job' = "idle" /\ outcome' = "crashed"
    BY <1>5, Ended DEF Crash
  <2> QED BY <2>1 DEF Progress, InstalledIsWhole
<1> QED BY <1>1, <1>2, <1>3, <1>4, <1>5

LEMMA ProgressBegin ==
    ASSUME Typed, Progress, Install \/ Repair \/ Restore \/ Uninstall
    PROVE  Progress'
<1>1. ASSUME NEW g, NEW b, BeginInstall(g, b)
      PROVE  Progress'
  <2>1. job' = "install" /\ step' = "runtime" /\ outcome' = "none"
    BY <1>1 DEF BeginInstall
  <2> QED BY <2>1 DEF Progress, InstalledIsWhole, PastSystem, PastMaintenance, PastAppId,
             PastLovely, PastAlphaMod, PastMod, PastAlphaRuntime, PastRuntime
<1>2. ASSUME NEW kind \in {"restore", "uninstall"}, Begin(kind)
      PROVE  Progress'
  BY <1>2 DEF Begin, Progress, InstalledIsWhole
<1> QED BY <1>1, <1>2 DEF Install, Repair, Restore, Uninstall

LEMMA ProgressRemoval ==
    ASSUME Typed, Progress, RemovalStep
    PROVE  Progress'
<1>1. CASE RemoveMod \/ ReturnLovely \/ ReturnAppId
  <2>1. /\ job \in {"restore", "uninstall"} /\ step # "rest" /\ manifest' = manifest
        /\ \E s : Goto(s)
    BY <1>1 DEF RemoveMod, ReturnLovely, ReturnAppId, Removing, At
  <2> QED BY <2>1, Went DEF Progress, InstalledIsWhole
<1>2. CASE ForgetManifest
  <2>1. job = "uninstall" /\ Goto("rest")
    BY <1>2 DEF ForgetManifest
  <2> QED BY <2>1, Went DEF Progress, InstalledIsWhole
<1>3. CASE Restored \/ RemoveRest \/ Stop
  <2>1. job' = "idle" /\ outcome' \in {"restored", "uninstalled", "stopped"}
    BY <1>3, Ended DEF Restored, RemoveRest, Stop
  <2> QED BY <2>1 DEF Progress, InstalledIsWhole
<1> QED BY <1>1, <1>2, <1>3 DEF RemovalStep

LEMMA ProgressOutside ==
    ASSUME Typed, Progress, Outside
    PROVE  Progress'
<1>1. /\ job = "idle" /\ job' = "idle" /\ outcome' = outcome /\ steam \subseteq steam'
      /\ UNCHANGED <<disk, manifest, registered>>
  BY DEF Outside, Adopt, Vanish, Reappear, diskVars, jobVars
<1> QED BY <1>1 DEF Progress, InstalledIsWhole, Present

LEMMA ProgressNext == Typed /\ Progress /\ [Next]_vars => Progress'
<1> SUFFICES ASSUME Typed, Progress, [Next]_vars PROVE Progress'
  OBVIOUS
<1>1. CASE Install \/ Repair \/ Restore \/ Uninstall
  BY <1>1, ProgressBegin
<1>2. CASE InstallStep
  <2>1. \/ job = "install" \/ Commit \/ Fail \/ CommitFails \/ DropGuard \/ Undone
    BY <1>2 DEF InstallStep, ReplaceRuntime, RemoveAlphaRuntime, MoveModAside,
                ActivateMod, QuarantineAlphaMod, BackUpLovely, ReplaceLovely, BackUpAppId,
                ReplaceAppId, KeepMaintenanceCopy, Register, ReturnOldLovely,
                ReturnOldAppId, SaveManifest, Installing
  <2> QED BY <1>2, <2>1, ProgressInstall, ProgressInstallGame, ProgressUndo DEF InstallStep
<1>3. CASE RemovalStep
  BY <1>3, ProgressRemoval
<1>4. CASE Crash
  BY <1>4, ProgressUndo
<1>5. CASE Outside
  BY <1>5, ProgressOutside
<1>6. CASE UNCHANGED vars
  BY <1>6 DEF Progress, InstalledIsWhole, Present, vars
<1> QED BY <1>1, <1>2, <1>3, <1>4, <1>5, <1>6 DEF Next

LEMMA ProgressInit == Init => Progress
  BY DEF Init, Progress, InstalledIsWhole

--------------------------------------------------------------------------------
(* What lies at a place, and how the file operations change it. *)

LEMMA GuardSeq ==
    ASSUME Typed
    PROVE  /\ undo \in Seq(Guard) /\ Len(undo) \in Nat /\ DOMAIN undo = 1..Len(undo)
           /\ disk \in [Place -> Content]
  BY DEF Typed, TypeOK, Disk

LEMMA LyingWrite ==
    ASSUME Typed, NEW p \in Place, NEW v, Write(p, v)
    PROVE  /\ Lying(p)' \subseteq Lying(p) \cup {v}
           /\ \A q \in Place \ {p} : Lying(q)' \subseteq Lying(q)
<1>1. disk'[p] = v /\ \A q \in Place \ {p} : disk'[q] = disk[q]
  BY Changed DEF Write
<1>2. /\ DOMAIN undo' = 1..Len(undo) + 1
      /\ undo'[1].place = p /\ undo'[1].was = disk[p]
      /\ \A i \in 1..Len(undo) : undo'[i + 1] = undo[i]
  BY GuardSeq DEF Write
<1>3. \A i \in DOMAIN undo' : i = 1 \/ (i - 1 \in DOMAIN undo /\ undo'[i] = undo[i - 1])
  BY <1>2, GuardSeq
<1>4. ASSUME NEW q \in Place, NEW w \in Lying(q)'
      PROVE  w \in Lying(q) \/ (q = p /\ w = v)
  <2>1. CASE w = disk'[q]
    BY <1>1, <2>1 DEF Lying
  <2>2. CASE w # disk'[q]
    <3>1. PICK i \in DOMAIN undo' : undo'[i].place = q /\ undo'[i].was = w
      BY <1>4, <2>2 DEF Lying
    <3>2. CASE i = 1
      BY <1>2, <3>1, <3>2 DEF Lying
    <3>3. CASE i # 1
      BY <1>3, <3>1, <3>3 DEF Lying
    <3> QED BY <3>2, <3>3
  <2> QED BY <2>1, <2>2
<1> QED BY <1>4

LEMMA LyingPut ==
    ASSUME Typed, NEW p \in Place, NEW v, Put(p, v)
    PROVE  /\ Lying(p)' \subseteq Lying(p) \cup {v}
           /\ \A q \in Place \ {p} : Lying(q)' \subseteq Lying(q)
<1>1. disk'[p] = v /\ (\A q \in Place \ {p} : disk'[q] = disk[q]) /\ undo' = undo
  BY Changed DEF Put
<1> QED BY <1>1 DEF Lying

LEMMA LyingDrop ==
    ASSUME Typed, DropGuard
    PROVE  \A q \in Place : Lying(q)' \subseteq Lying(q)
<1>1. /\ Head(undo) = undo[1] /\ 1 \in DOMAIN undo
      /\ \A i \in DOMAIN undo' : i + 1 \in DOMAIN undo /\ undo'[i] = undo[i + 1]
      /\ Head(undo) \in Guard
  BY GuardSeq DEF DropGuard
<1>2. /\ disk'[Head(undo).place] = Head(undo).was
      /\ \A q \in Place \ {Head(undo).place} : disk'[q] = disk[q]
  BY <1>1, Changed DEF DropGuard, Guard
<1>3. ASSUME NEW q \in Place, NEW w \in Lying(q)'
      PROVE  w \in Lying(q)
  <2>1. CASE w = disk'[q]
    BY <1>1, <1>2, <2>1 DEF Lying
  <2>2. CASE w # disk'[q]
    <3>1. PICK i \in DOMAIN undo' : undo'[i].place = q /\ undo'[i].was = w
      BY <1>3, <2>2 DEF Lying
    <3> QED BY <1>1, <3>1 DEF Lying
  <2> QED BY <2>1, <2>2
<1> QED BY <1>3

LEMMA LyingStill ==
    ASSUME NEW q, disk'[q] = disk[q], undo' = undo \/ undo' = <<>>
    PROVE  Lying(q)' \subseteq Lying(q)
<1>1. CASE undo' = undo
  BY <1>1 DEF Lying
<1>2. CASE undo' = <<>>
  BY <1>2 DEF Lying
<1> QED BY <1>1, <1>2

--------------------------------------------------------------------------------
(* One step of what keeps the originals. *)

\* What no step changes or takes back.
Onward == original' = original /\ used \subseteq used' /\ (mishaps' = 0 => mishaps = 0)

\* What is exposed stays exposed.
LEMMA Hiding ==
    Typed /\ Onward /\ mishaps' \in Nat => (OneBuild' => OneBuild) /\ (Exposed => Exposed')
<1> SUFFICES ASSUME Typed, Onward, mishaps' \in Nat
             PROVE  (OneBuild' => OneBuild) /\ (Exposed => Exposed')
  OBVIOUS
<1>1. OneBuild' => OneBuild
  BY DEF Onward, OneBuild
<1>2. mishaps \in Nat /\ (mishaps > 0 => mishaps' > 0)
  BY JobAssumption DEF Onward, Typed, TypeOK
<1> QED BY <1>1, <1>2 DEF Exposed

LEMMA AppIdStep ==
    ASSUME Onward, NEW g \in Game, AppIdKept(g), NEW p, p = AppId(g),
           backup'[p] = backup[p] \/ (backup'[p] = original[p] /\ original[p] # NoFile),
           \A v \in Lying(p)' : \/ v \in Lying(p)
                                \/ /\ v \in {NoFile, OurAppId, original[p]}
                                   /\ original[p] \in {NoFile, v, backup'[p]},
           \A c \in ClaimsOn(g)' : \/ c \in ClaimsOn(g) \/ c = NoClaims
                                   \/ /\ c.appIdOwned => original[p] \in {NoFile, backup'[p]}
                                      /\ c.appIdBackup => backup'[p] # NoFile
    PROVE  AppIdKept(g)'
  BY DEF Onward, AppIdKept, Kept, NoClaims

LEMMA LovelyStep ==
    ASSUME Typed, Onward, mishaps' \in Nat, NEW g \in Game, LovelyKept(g),
           NEW p, p = Lovely(g),
           \/ backup'[p] = backup[p]
           \/ /\ backup'[p] # NoFile /\ backup'[p] \in {original[p]} \cup used
              /\ OneBuild => backup'[p] = original[p]
              /\ ~Exposed => original[p] \in {NoFile, backup'[p]},
           \A v \in Lying(p)' : \/ v \in Lying(p)
                                \/ /\ v \in {NoFile, original[p]} \cup used
                                   /\ ~Exposed => original[p] \in {NoFile, v, backup'[p]},
           \A c \in ClaimsOn(g)' : \/ c \in ClaimsOn(g) \/ c = NoClaims
                                   \/ /\ c.lovelyBackup => backup'[p] # NoFile
                                      /\ ~Exposed /\ c.lovelyOwned
                                            => original[p] \in {NoFile, backup'[p]}
    PROVE  LovelyKept(g)'
<1>1. (OneBuild' => OneBuild) /\ (Exposed => Exposed')
  BY Hiding
<1>2. original' = original /\ used \subseteq used'
  BY DEF Onward
<1>3. \A v \in Lying(p)' \cup {backup'[p]} : v \in {NoFile, original'[p]} \cup used'
  BY <1>2 DEF LovelyKept
<1>4. OneBuild' => backup'[p] \in {NoFile, original'[p]}
  BY <1>1, <1>2 DEF LovelyKept
<1>5. \A c \in ClaimsOn(g)' : c.lovelyBackup => backup'[p] # NoFile
  BY DEF LovelyKept, NoClaims
<1>6. ASSUME ~Exposed'
      PROVE  /\ original'[p] = NoFile \/ backup'[p] \in {NoFile, original'[p]}
             /\ \A v \in Lying(p)' : original'[p] \in {NoFile, v, backup'[p]}
             /\ \A c \in ClaimsOn(g)' : c.lovelyOwned => original'[p] \in {NoFile, backup'[p]}
  <2>1. ~Exposed
    BY <1>1, <1>6
  <2>2. original'[p] = NoFile \/ backup'[p] \in {NoFile, original'[p]}
    BY <1>2, <2>1 DEF LovelyKept
  <2>3. \A v \in Lying(p)' : original'[p] \in {NoFile, v, backup'[p]}
    BY <1>2, <2>1 DEF LovelyKept, Kept
  <2>4. \A c \in ClaimsOn(g)' : c.lovelyOwned => original'[p] \in {NoFile, backup'[p]}
    BY <1>2, <2>1 DEF LovelyKept, Kept, NoClaims
  <2> QED BY <2>2, <2>3, <2>4
<1> QED BY <1>3, <1>4, <1>5, <1>6 DEF LovelyKept, Kept

\* A step that leaves the game folders, their guards and the backups alone, and
\* makes no new claim.
LEMMA OriginalsQuiet ==
    ASSUME Typed, Originals, Onward, mishaps' \in Nat, backup' = backup,
           IsFiniteSet(used'),
           \A q \in GamePlace : Lying(q)' \subseteq Lying(q),
           \A g \in Game : \A c \in ClaimsOn(g)' : c \in ClaimsOn(g) \/ c = NoClaims,
           IF Busy' THEN build' \in used' ELSE claims' = NoClaims,
           job' = "install" => step' \notin {"lovely", "appId"}
    PROVE  Originals'
<1>1. ASSUME NEW g \in Game
      PROVE  AppIdKept(g)' /\ LovelyKept(g)'
  <2>1. AppIdKept(g) /\ LovelyKept(g) /\ Lovely(g) \in GamePlace /\ AppId(g) \in GamePlace
    BY Places DEF Originals
  <2>2. AppIdKept(g)'
    BY <2>1, AppIdStep
  <2>3. LovelyKept(g)'
    BY <2>1, LovelyStep
  <2> QED BY <2>2, <2>3
<1>2. original' = original
  BY DEF Onward
<1> QED BY <1>1, <1>2 DEF Originals, Installing, At

--------------------------------------------------------------------------------
(* The steps that leave the game folders alone. *)

LEMMA WentOnward ==
    ASSUME Typed, NEW s, Goto(s)
    PROVE  Onward /\ mishaps' \in Nat
  BY Went, JobAssumption DEF Onward, Typed, TypeOK

\* A write outside the game folders, or none.
LEMMA LyingAside ==
    ASSUME Typed,
           \/ UNCHANGED <<disk, undo>>
           \/ \E p \in Fixed : \E v : Write(p, v) \/ Put(p, v)
    PROVE  \A q \in GamePlace : Lying(q)' \subseteq Lying(q)
<1>1. CASE UNCHANGED <<disk, undo>>
  BY <1>1, LyingStill
<1>2. ASSUME NEW p \in Fixed, NEW v, Write(p, v) \/ Put(p, v)
      PROVE  \A q \in GamePlace : Lying(q)' \subseteq Lying(q)
  <2>1. p \in Place /\ GamePlace \subseteq Place \ {p}
    BY FixedPlaces, Places
  <2> QED BY <1>2, <2>1, LyingWrite, LyingPut
<1> QED BY <1>1, <1>2

LEMMA OriginalsGoto ==
    ASSUME Typed, Originals, NEW s, Goto(s), backup' = backup, claims' = claims,
           job = "install" => s \notin {"lovely", "appId"},
           \A q \in GamePlace : Lying(q)' \subseteq Lying(q),
           \/ manifest' \in {manifest, None}
           \/ manifest' = [game |-> target, build |-> build, claims |-> claims]
    PROVE  Originals'
<1>1. \A g \in Game : ClaimsOn(g)' \subseteq ClaimsOn(g)
  BY Went DEF ClaimsOn
<1>2. IF Busy' THEN build' \in used' ELSE claims' = NoClaims
  BY Went DEF Busy, Originals
<1> QED BY <1>1, <1>2, WentOnward, Went, OriginalsQuiet DEF Originals

LEMMA OriginalsInstall ==
    ASSUME Typed, Originals, job = "install",
           \/ ReplaceRuntime \/ RemoveAlphaRuntime \/ MoveModAside \/ ActivateMod
           \/ QuarantineAlphaMod \/ KeepMaintenanceCopy \/ Register \/ SaveManifest
    PROVE  Originals'
<1>1. \/ UNCHANGED <<disk, undo>>
      \/ \E p \in Fixed : \E v : Write(p, v) \/ Put(p, v)
  BY DEF ReplaceRuntime, RemoveAlphaRuntime, RemoveAlphaFile, MoveModAside, ActivateMod,
         QuarantineAlphaMod, KeepMaintenanceCopy, Register, SaveManifest, Fixed, diskVars
<1>2. \A q \in GamePlace : Lying(q)' \subseteq Lying(q)
  BY <1>1, LyingAside
<1>3. /\ \E s : Goto(s) /\ s \notin {"lovely", "appId"}
      /\ backup' = backup /\ claims' = claims
      /\ \/ manifest' = manifest
         \/ manifest' = [game |-> target, build |-> build, claims |-> claims]
  BY DEF ReplaceRuntime, RemoveAlphaRuntime, MoveModAside, ActivateMod,
         QuarantineAlphaMod, KeepMaintenanceCopy, Register, SaveManifest, diskVars
<1> QED BY <1>2, <1>3, OriginalsGoto

LEMMA OriginalsEnd ==
    ASSUME Typed, Originals, NEW r, End(r), originVars' = originVars, backup' = backup,
           mishaps' \in {mishaps, mishaps + 1}, manifest' = manifest,
           \A q \in GamePlace : disk'[q] = disk[q]
    PROVE  Originals'
<1>1. /\ job' = "idle" /\ undo' = <<>> /\ target' = Anywhere /\ claims' = NoClaims
  BY Ended
<1>2. Onward /\ mishaps' \in Nat
  BY JobAssumption DEF Onward, originVars, Typed, TypeOK
<1>3. \A q \in GamePlace : Lying(q)' \subseteq Lying(q)
  BY <1>1, LyingStill
<1>4. \A g \in Game : ClaimsOn(g)' \subseteq ClaimsOn(g)
  BY <1>1, GameAssumption DEF ClaimsOn
<1>5. ~Busy' /\ used' = used
  BY <1>1 DEF Busy, originVars
<1> QED BY <1>1, <1>2, <1>3, <1>4, <1>5, OriginalsQuiet DEF Originals

LEMMA OriginalsUndo ==
    ASSUME Typed, Originals, Commit \/ Fail \/ CommitFails \/ DropGuard \/ Undone \/ Crash
    PROVE  Originals'
<1>1. CASE Commit \/ Undone \/ Crash
  <2>1. /\ \E r : End(r)
        /\ originVars' = originVars /\ backup' = backup /\ manifest' = manifest
        /\ mishaps' \in {mishaps, mishaps + 1} /\ disk' = disk
    BY <1>1 DEF Commit, Undone, Crash, diskVars
  <2> QED BY <2>1, OriginalsEnd
<1>2. CASE Fail \/ CommitFails \/ DropGuard
  <2>1. /\ job \in {"install", "undoing"} /\ job' = "undoing"
        /\ UNCHANGED <<backup, manifest, target, build, claims, original, used>>
        /\ mishaps' \in {mishaps, mishaps + 1}
        /\ (disk' = disk /\ undo' = undo) \/ DropGuard
    BY <1>2 DEF Fail, CommitFails, DropGuard, Installing, diskVars, jobVars, historyVars, originVars
  <2>2. Onward /\ mishaps' \in Nat
    BY <2>1, JobAssumption DEF Onward, Typed, TypeOK
  <2>3. \A q \in GamePlace : Lying(q)' \subseteq Lying(q)
    BY <2>1, LyingStill, LyingDrop, Places
  <2>4. \A g \in Game : ClaimsOn(g)' \subseteq ClaimsOn(g)
    BY <2>1 DEF ClaimsOn
  <2>5. Busy' /\ build' \in used' /\ IsFiniteSet(used')
    BY <2>1 DEF Busy, Originals
  <2> QED BY <2>1, <2>2, <2>3, <2>4, <2>5, OriginalsQuiet
<1> QED BY <1>1, <1>2

LEMMA OriginalsBegin ==
    ASSUME Typed, Originals, Undoable, Install \/ Repair \/ Restore \/ Uninstall
    PROVE  Originals'
<1>1. ASSUME NEW g, NEW b, BeginInstall(g, b)
      PROVE  Originals'
  <2>1. /\ job' = "install" /\ step' = "runtime" /\ target' = g /\ build' = b
        /\ claims' = Previous(g) /\ used' = used \cup {b}
        /\ UNCHANGED <<disk, undo, backup, manifest, original, mishaps>>
    BY <1>1 DEF BeginInstall, diskVars
  <2>2. Onward /\ mishaps' \in Nat
    BY <2>1, JobAssumption DEF Onward, Typed, TypeOK
  <2>3. \A q \in GamePlace : Lying(q)' \subseteq Lying(q)
    BY <2>1, LyingStill
  <2>4. \A h \in Game : \A c \in ClaimsOn(h)' : c \in ClaimsOn(h) \/ c = NoClaims
    BY <2>1 DEF ClaimsOn, Previous
  <2>5. Busy' /\ build' \in used' /\ IsFiniteSet(used')
    <3>1. IsFiniteSet(used \cup {b})
      BY FS_AddElement DEF Originals
    <3> QED BY <2>1, <3>1 DEF Busy
  <2> QED BY <2>1, <2>2, <2>3, <2>4, <2>5, OriginalsQuiet
<1>2. ASSUME NEW kind \in {"restore", "uninstall"}, Begin(kind)
      PROVE  Originals'
  <2>1. /\ job = "idle" /\ job' = kind /\ step' = "mod"
        /\ UNCHANGED <<disk, undo, backup, manifest, original, mishaps, claims, used>>
    BY <1>2 DEF Begin, diskVars
  <2>2. Onward /\ mishaps' \in Nat
    BY <2>1, JobAssumption DEF Onward, Typed, TypeOK
  <2>3. \A q \in GamePlace : Lying(q)' \subseteq Lying(q)
    BY <2>1, LyingStill
  <2>4. claims = NoClaims /\ ~Busy'
    BY <2>1 DEF Busy, Originals
  <2>5. \A h \in Game : \A c \in ClaimsOn(h)' : c \in ClaimsOn(h) \/ c = NoClaims
    BY <2>1, <2>4 DEF ClaimsOn
  <2> QED BY <2>1, <2>2, <2>3, <2>4, <2>5, OriginalsQuiet DEF Originals
<1> QED BY <1>1, <1>2 DEF Install, Repair, Restore, Uninstall

LEMMA OriginalsOutside ==
    ASSUME Typed, Originals, Outside
    PROVE  Originals'
<1>1. /\ job = "idle" /\ job' = "idle" /\ mishaps' \in {mishaps, mishaps + 1}
      /\ UNCHANGED <<disk, undo, backup, manifest, original, claims, used, target>>
  BY DEF Outside, Adopt, Vanish, Reappear, diskVars, jobVars, historyVars, originVars
<1>2. Onward /\ mishaps' \in Nat
  BY <1>1, JobAssumption DEF Onward, Typed, TypeOK
<1>3. \A q \in GamePlace : Lying(q)' \subseteq Lying(q)
  BY <1>1, LyingStill
<1>4. claims' = NoClaims /\ ~Busy' /\ IsFiniteSet(used')
  BY <1>1 DEF Busy, Originals
<1>5. \A h \in Game : ClaimsOn(h)' \subseteq ClaimsOn(h)
  BY <1>1 DEF ClaimsOn
<1> QED BY <1>1, <1>2, <1>3, <1>4, <1>5, OriginalsQuiet

--------------------------------------------------------------------------------
(* The steps of an install in the game folders. *)

\* What the claims about a folder become when the manifest stays.
LEMMA ClaimsOnGoto ==
    ASSUME Typed, NEW s, Goto(s), manifest' = manifest
    PROVE  \A g \in Game : \A c \in ClaimsOn(g)' :
              c \in ClaimsOn(g) \/ (g = target /\ c = claims')
  BY Went DEF ClaimsOn

LEMMA OriginalsBackUpLovely ==
    ASSUME Typed, Originals, NEW t \in Game, t = target, NEW p, p = Lovely(t),
           mishaps = 0 => Truthful(target, disk, claims), BackUpLovely
    PROVE  Originals'
<1>1. /\ build \in used /\ claims \in ClaimsOn(t) /\ claims \in Claims
      /\ p \in GamePlace /\ p \in Place /\ disk[p] \in Lying(p)
      /\ AppIdKept(t) /\ LovelyKept(t)
  BY Places DEF BackUpLovely, Installing, Typed, TypeOK, Shape, Originals, Busy, ClaimsOn, Lying
<1>2. /\ Goto("lovely") /\ job = "install"
      /\ UNCHANGED <<disk, undo, manifest>>
  BY DEF BackUpLovely, Installing
<1>3. Onward /\ mishaps' \in Nat /\ job' = job /\ step' = "lovely" /\ target' = target
      /\ build' = build /\ used' = used /\ original' = original
  BY <1>2, Went, WentOnward
<1>4. \A q \in GamePlace : Lying(q)' \subseteq Lying(q)
  BY <1>2, LyingStill
<1>5. \A g \in Game : \A c \in ClaimsOn(g)' : c \in ClaimsOn(g) \/ (g = t /\ c = claims')
  BY <1>2, ClaimsOnGoto
<1>6. claims'.appIdOwned = claims.appIdOwned /\ claims'.appIdBackup = claims.appIdBackup
  BY <1>1 DEF BackUpLovely, Claims
<1>7. \A q \in GamePlace \ {p} : backup'[q] = backup[q]
  BY <1>1 DEF BackUpLovely, Typed, TypeOK, Backup
<1>8. \/ /\ NeedsBackup(target) /\ backup'[p] = disk[p]
         /\ claims' = [claims EXCEPT !.lovelyBackup = TRUE]
      \/ /\ ~Present(p) /\ ~claims.lovelyBackup /\ backup' = backup
         /\ claims' = [claims EXCEPT !.lovelyOwned = TRUE]
      \/ /\ ~NeedsBackup(target) /\ (Present(p) \/ claims.lovelyBackup)
         /\ backup' = backup /\ claims' = claims
  BY <1>1 DEF BackUpLovely, Typed, TypeOK, Backup
<1>9. ASSUME NeedsBackup(target)
      PROVE  /\ disk[p] # NoFile /\ disk[p] \in {original[p]} \cup used
             /\ OneBuild => disk[p] = original[p]
             /\ ~Exposed => original[p] \in {NoFile, disk[p]}
  <2>1. /\ disk[p] # NoFile /\ disk[p] # build /\ ~(claims.lovelyBackup /\ backup[p] # NoFile)
        /\ disk[p] \in {NoFile, original[p]} \cup used
    BY <1>1, <1>9 DEF NeedsBackup, Present, Recorded, LovelyKept
  <2>2. OneBuild => disk[p] = original[p]
    BY <1>1, <2>1 DEF OneBuild
  <2>3. ASSUME mishaps = 0
        PROVE  original[p] \in {NoFile, disk[p]}
    <3>1. ~claims.lovelyBackup
      BY <1>1, <2>1 DEF LovelyKept
    <3> QED BY <2>3, <3>1 DEF Truthful
  <2>4. ~Exposed => mishaps = 0 \/ OneBuild
    BY JobAssumption DEF Exposed, Typed, TypeOK
  <2> QED BY <2>1, <2>2, <2>3, <2>4
<1>10. \A g \in Game : AppIdKept(g)'
  <2> SUFFICES ASSUME NEW g \in Game PROVE AppIdKept(g)'
    OBVIOUS
  <2>1. /\ AppIdKept(g) /\ AppId(g) \in GamePlace \ {p}
    BY <1>1, Places, Distinct DEF Originals
  <2>2. backup'[AppId(g)] = backup[AppId(g)] /\ Lying(AppId(g))' \subseteq Lying(AppId(g))
    BY <1>4, <1>7, <2>1
  <2>3. \A c \in ClaimsOn(g)' :
           \/ c \in ClaimsOn(g)
           \/ /\ c.appIdOwned => original[AppId(g)] \in {NoFile, backup'[AppId(g)]}
              /\ c.appIdBackup => backup'[AppId(g)] # NoFile
    BY <1>1, <1>5, <1>6, <2>2 DEF AppIdKept
  <2> QED BY <1>3, <2>1, <2>2, <2>3, AppIdStep
<1>11. ASSUME NEW g \in Game, g # t
       PROVE  LovelyKept(g)'
  <2>1. /\ LovelyKept(g) /\ Lovely(g) \in GamePlace \ {p}
    BY <1>1, <1>11, Places, Distinct DEF Originals
  <2>2. backup'[Lovely(g)] = backup[Lovely(g)] /\ Lying(Lovely(g))' \subseteq Lying(Lovely(g))
    BY <1>4, <1>7, <2>1
  <2>3. \A c \in ClaimsOn(g)' : c \in ClaimsOn(g)
    BY <1>5, <1>11
  <2> QED BY <1>3, <2>1, <2>2, <2>3, LovelyStep
<1>12. /\ claims'.lovelyBackup => backup'[p] # NoFile
       /\ ~Exposed /\ claims'.lovelyOwned => original[p] \in {NoFile, backup'[p]}
  <2>1. CASE NeedsBackup(target) /\ backup'[p] = disk[p]
             /\ claims' = [claims EXCEPT !.lovelyBackup = TRUE]
    BY <1>9, <2>1
  <2>2. CASE ~Present(p) /\ ~claims.lovelyBackup /\ backup' = backup
             /\ claims' = [claims EXCEPT !.lovelyOwned = TRUE]
    BY <1>1, <2>2 DEF LovelyKept, Kept, Present, Claims
  <2>3. CASE backup' = backup /\ claims' = claims
    BY <1>1, <2>3 DEF LovelyKept
  <2> QED BY <1>8, <2>1, <2>2, <2>3
<1>13. LovelyKept(t)'
  <2>1. \A c \in ClaimsOn(t)' :
           \/ c \in ClaimsOn(t)
           \/ /\ c.lovelyBackup => backup'[p] # NoFile
              /\ ~Exposed /\ c.lovelyOwned => original[p] \in {NoFile, backup'[p]}
    BY <1>5, <1>12
  <2>2. \/ backup'[p] = backup[p]
        \/ /\ backup'[p] # NoFile /\ backup'[p] \in {original[p]} \cup used
           /\ OneBuild => backup'[p] = original[p]
           /\ ~Exposed => original[p] \in {NoFile, backup'[p]}
    BY <1>8, <1>9
  <2>3. \A v \in Lying(p)' : v \in Lying(p)
    BY <1>1, <1>4
  <2> QED BY <1>1, <1>3, <2>1, <2>2, <2>3, LovelyStep
<1>14. ~Exposed => original[p] \in {NoFile, backup'[p]}
  <2>1. CASE NeedsBackup(target) /\ backup'[p] = disk[p]
    BY <1>9, <2>1
  <2>2. CASE ~Present(p) /\ backup' = backup
    BY <1>1, <2>2 DEF LovelyKept, Kept, Present
  <2>3. CASE ~NeedsBackup(target) /\ Present(p) /\ backup' = backup
    <3>1. CASE disk[p] = build
      <4>1. original[p] # build
        BY <1>1 DEF Originals, Typed, TypeOK
      <4> QED BY <1>1, <2>3, <3>1, <4>1 DEF LovelyKept, Kept
    <3>2. CASE Recorded(claims.lovelyBackup, p)
      BY <1>1, <2>3, <3>2 DEF LovelyKept, Recorded
    <3> QED BY <2>3, <3>1, <3>2 DEF NeedsBackup
  <2> QED BY <1>8, <2>1, <2>2, <2>3
<1>15. (~Exposed)' => ~Exposed
  BY <1>3, Hiding
<1> QED BY <1>1, <1>2, <1>3, <1>10, <1>11, <1>13, <1>14, <1>15
        DEF Originals, Installing, At, Busy

LEMMA OriginalsReplaceLovely ==
    ASSUME Typed, Originals, NEW t \in Game, t = target, NEW p, p = Lovely(t), ReplaceLovely
    PROVE  Originals'
<1>1. /\ build \in used
      /\ p \in GamePlace /\ p \in Place
      /\ AppIdKept(t) /\ LovelyKept(t)
      /\ ~Exposed => original[p] \in {NoFile, backup[p]}
  BY Places DEF ReplaceLovely, Installing, Typed, TypeOK, Shape, Originals, Busy
<1>2. /\ Goto("appIdBackup") /\ job = "install"
      /\ UNCHANGED <<backup, manifest, claims>>
  BY DEF ReplaceLovely, Installing
<1>3. Onward /\ mishaps' \in Nat /\ job' = job /\ step' = "appIdBackup" /\ target' = target
      /\ build' = build /\ used' = used /\ original' = original
  BY <1>2, Went, WentOnward
<1>4. /\ Lying(p)' \subseteq Lying(p) \cup {build}
      /\ \A q \in GamePlace \ {p} : Lying(q)' \subseteq Lying(q)
  BY <1>1, LyingWrite, LyingStill, Places DEF ReplaceLovely
<1>5. \A g \in Game : \A c \in ClaimsOn(g)' : c \in ClaimsOn(g)
  BY <1>2, ClaimsOnGoto DEF ClaimsOn
<1>6. ASSUME NEW g \in Game
      PROVE  AppIdKept(g)'
  <2>1. /\ AppIdKept(g) /\ AppId(g) \in GamePlace \ {p}
    BY <1>1, Places, Distinct DEF Originals
  <2> QED BY <1>2, <1>3, <1>4, <1>5, <2>1, AppIdStep
<1>7. ASSUME NEW g \in Game, g # t
      PROVE  LovelyKept(g)'
  <2>1. /\ LovelyKept(g) /\ Lovely(g) \in GamePlace \ {p}
    BY <1>1, <1>7, Places, Distinct DEF Originals
  <2> QED BY <1>2, <1>3, <1>4, <1>5, <2>1, LovelyStep
<1>8. LovelyKept(t)'
  BY <1>1, <1>2, <1>3, <1>4, <1>5, LovelyStep
<1> QED BY <1>1, <1>2, <1>3, <1>6, <1>7, <1>8 DEF Originals, Installing, At, Busy

LEMMA OriginalsBackUpAppId ==
    ASSUME Typed, Originals, NEW t \in Game, t = target, NEW p, p = AppId(t), BackUpAppId
    PROVE  Originals'
<1>1. /\ claims \in ClaimsOn(t) /\ claims \in Claims
      /\ p \in GamePlace /\ p \in Place /\ disk[p] \in Lying(p)
      /\ AppIdKept(t) /\ LovelyKept(t)
  BY Places DEF BackUpAppId, Installing, Typed, TypeOK, Shape, Originals, ClaimsOn, Lying
<1>2. /\ Goto("appId") /\ job = "install"
      /\ UNCHANGED <<disk, undo, manifest>>
  BY DEF BackUpAppId, Installing
<1>3. Onward /\ mishaps' \in Nat /\ job' = job /\ step' = "appId" /\ target' = target
      /\ build' = build /\ used' = used /\ original' = original /\ steam' = steam
  BY <1>2, Went, WentOnward
<1>4. \A q \in GamePlace : Lying(q)' \subseteq Lying(q)
  BY <1>2, LyingStill
<1>5. \A g \in Game : \A c \in ClaimsOn(g)' : c \in ClaimsOn(g) \/ (g = t /\ c = claims')
  BY <1>2, ClaimsOnGoto
<1>6. /\ claims'.lovelyOwned = claims.lovelyOwned /\ claims'.lovelyBackup = claims.lovelyBackup
      /\ claims'.appIdOwned = claims.appIdOwned
  BY <1>1 DEF BackUpAppId, Claims
<1>7. \A q \in GamePlace \ {p} : backup'[q] = backup[q]
  BY <1>1 DEF BackUpAppId, Typed, TypeOK, Backup
<1>8. \/ backup' = backup /\ claims' = claims
      \/ backup'[p] = original[p] /\ original[p] # NoFile
  <2>1. CASE WritesAppId(target) /\ Present(p) /\ ~claims.appIdOwned
             /\ ~Recorded(claims.appIdBackup, p)
    <3>1. disk[p] \notin {NoFile, OurAppId}
      BY <2>1 DEF WritesAppId, Present
    <3>2. disk[p] = original[p]
      BY <1>1, <3>1 DEF AppIdKept
    <3>3. backup'[p] = disk[p]
      BY <1>1, <2>1 DEF BackUpAppId, Typed, TypeOK, Backup
    <3> QED BY <3>1, <3>2, <3>3
  <2>2. CASE ~(WritesAppId(target) /\ Present(p) /\ ~claims.appIdOwned
               /\ ~Recorded(claims.appIdBackup, p))
    BY <2>2 DEF BackUpAppId
  <2> QED BY <2>1, <2>2
<1>9. /\ claims'.appIdOwned => original[p] \in {NoFile, backup'[p]}
      /\ claims'.appIdBackup => backup'[p] # NoFile
  BY <1>1, <1>6, <1>8 DEF AppIdKept
<1>10. ASSUME NEW g \in Game
       PROVE  LovelyKept(g)'
  <2>1. LovelyKept(g) /\ Lovely(g) \in GamePlace \ {p}
    BY <1>1, Places, Distinct DEF Originals
  <2>2. backup'[Lovely(g)] = backup[Lovely(g)] /\ Lying(Lovely(g))' \subseteq Lying(Lovely(g))
    BY <1>4, <1>7, <2>1
  <2>3. \A c \in ClaimsOn(g)' :
           \/ c \in ClaimsOn(g)
           \/ /\ c.lovelyBackup => backup'[Lovely(g)] # NoFile
              /\ ~Exposed /\ c.lovelyOwned => original[Lovely(g)] \in {NoFile, backup'[Lovely(g)]}
    BY <1>1, <1>5, <1>6, <2>2 DEF LovelyKept
  <2> QED BY <1>3, <2>1, <2>2, <2>3, LovelyStep
<1>11. ASSUME NEW g \in Game, g # t
       PROVE  AppIdKept(g)'
  <2>1. AppIdKept(g) /\ AppId(g) \in GamePlace \ {p}
    BY <1>1, <1>11, Places, Distinct DEF Originals
  <2>2. backup'[AppId(g)] = backup[AppId(g)] /\ Lying(AppId(g))' \subseteq Lying(AppId(g))
    BY <1>4, <1>7, <2>1
  <2>3. \A c \in ClaimsOn(g)' : c \in ClaimsOn(g)
    BY <1>5, <1>11
  <2> QED BY <1>3, <2>1, <2>2, <2>3, AppIdStep
<1>12. AppIdKept(t)'
  <2>1. \A v \in Lying(p)' : v \in Lying(p)
    BY <1>1, <1>4
  <2>2. backup'[p] = backup[p] \/ (backup'[p] = original[p] /\ original[p] # NoFile)
    BY <1>8
  <2>3. \A c \in ClaimsOn(t)' :
           \/ c \in ClaimsOn(t)
           \/ /\ c.appIdOwned => original[p] \in {NoFile, backup'[p]}
              /\ c.appIdBackup => backup'[p] # NoFile
    BY <1>5, <1>9
  <2> QED BY <1>1, <1>3, <2>1, <2>2, <2>3, AppIdStep
<1>13. WritesAppId(target) => original[p] \in {NoFile, backup'[p]}
  <2>1. CASE ~Present(p)
    BY <1>1, <1>8, <2>1 DEF AppIdKept, Kept, Present
  <2>2. CASE claims.appIdOwned
    BY <1>6, <1>9, <2>2
  <2>3. CASE Recorded(claims.appIdBackup, p)
    BY <1>1, <1>8, <2>3 DEF AppIdKept, Recorded
  <2>4. CASE /\ WritesAppId(target) /\ Present(p) /\ ~claims.appIdOwned
             /\ ~Recorded(claims.appIdBackup, p)
    <3>1. claims' = [claims EXCEPT !.appIdBackup = TRUE]
      BY <2>4 DEF BackUpAppId
    <3>2. claims'.appIdBackup
      BY <1>1, <3>1 DEF Claims
    <3> QED BY <1>1, <1>8, <1>9, <3>2 DEF AppIdKept
  <2> QED BY <2>1, <2>2, <2>3, <2>4
<1>14. WritesAppId(target)' => WritesAppId(target)
  BY <1>2, <1>3 DEF WritesAppId
<1> QED BY <1>1, <1>2, <1>3, <1>10, <1>11, <1>12, <1>13, <1>14
        DEF Originals, Installing, At, Busy

\* What a folder gets back under a claim about its app id is its own or nothing.
LEMMA GivenBackKept ==
    ASSUME NEW g \in Game, AppIdKept(g), NEW p, p = AppId(g), NEW c \in ClaimsOn(g),
           NEW b, b = c.appIdBackup, c.appIdOwned \/ Recorded(b, p),
           NEW v, v = AppIdGivenBack(g, b)
    PROVE  v \in {NoFile, original[p]} /\ original[p] \in {NoFile, v, backup[p]}
<1>1. CASE Recorded(b, p)
  BY <1>1 DEF AppIdGivenBack, AppIdKept, Recorded
<1>2. CASE ~Recorded(b, p)
  BY <1>2 DEF AppIdGivenBack, AppIdKept, Recorded
<1> QED BY <1>1, <1>2

LEMMA OriginalsReplaceAppId ==
    ASSUME Typed, Originals, NEW t \in Game, t = target, NEW p, p = AppId(t), ReplaceAppId
    PROVE  Originals'
<1>1. /\ claims \in ClaimsOn(t) /\ claims \in Claims
      /\ p \in GamePlace /\ p \in Place
      /\ AppIdKept(t) /\ LovelyKept(t)
      /\ WritesAppId(target) => original[p] \in {NoFile, backup[p]}
  BY Places DEF ReplaceAppId, Installing, Typed, TypeOK, Shape, Originals, ClaimsOn
<1>2. /\ Goto("maintenance") /\ job = "install"
      /\ UNCHANGED <<backup, manifest>>
  BY DEF ReplaceAppId, Installing
<1>3. Onward /\ mishaps' \in Nat /\ job' = job /\ step' = "maintenance" /\ target' = target
      /\ build' = build /\ used' = used /\ original' = original
  BY <1>2, Went, WentOnward
<1>4. \A g \in Game : \A c \in ClaimsOn(g)' : c \in ClaimsOn(g) \/ (g = t /\ c = claims')
  BY <1>2, ClaimsOnGoto
<1>5. /\ claims'.lovelyOwned = claims.lovelyOwned /\ claims'.lovelyBackup = claims.lovelyBackup
      /\ claims'.appIdBackup => claims.appIdBackup
      /\ claims'.appIdOwned => claims.appIdOwned \/ WritesAppId(target)
  BY <1>1 DEF ReplaceAppId, Claims
<1>6. \/ \A q \in GamePlace : Lying(q)' \subseteq Lying(q)
      \/ \E v : /\ Write(p, v) /\ v \in {NoFile, OurAppId, original[p]}
                /\ original[p] \in {NoFile, v, backup[p]}
  <2>1. CASE target \in steam /\ claims.appIdOwned
             /\ Write(AppId(target), AppIdGivenBack(target, claims.appIdBackup))
    BY <1>1, <2>1, GivenBackKept
  <2>2. CASE WritesAppId(target) /\ Write(AppId(target), OurAppId)
    BY <1>1, <2>2
  <2>3. CASE UNCHANGED <<disk, undo>>
    BY <2>3, LyingStill
  <2> QED BY <2>1, <2>2, <2>3 DEF ReplaceAppId
<1>7. /\ \A q \in GamePlace \ {p} : Lying(q)' \subseteq Lying(q)
      /\ \A v \in Lying(p)' : \/ v \in Lying(p)
                              \/ /\ v \in {NoFile, OurAppId, original[p]}
                                 /\ original[p] \in {NoFile, v, backup'[p]}
  BY <1>1, <1>2, <1>6, LyingWrite, Places
<1>8. ASSUME NEW g \in Game
       PROVE  LovelyKept(g)'
  <2>1. LovelyKept(g) /\ Lovely(g) \in GamePlace \ {p}
    BY <1>1, Places, Distinct DEF Originals
  <2>2. Lying(Lovely(g))' \subseteq Lying(Lovely(g))
    BY <1>7, <2>1
  <2>3. \A c \in ClaimsOn(g)' :
           \/ c \in ClaimsOn(g)
           \/ /\ c.lovelyBackup => backup'[Lovely(g)] # NoFile
              /\ ~Exposed /\ c.lovelyOwned => original[Lovely(g)] \in {NoFile, backup'[Lovely(g)]}
    BY <1>1, <1>2, <1>4, <1>5 DEF LovelyKept
  <2> QED BY <1>2, <1>3, <2>1, <2>2, <2>3, LovelyStep
<1>9. ASSUME NEW g \in Game, g # t
       PROVE  AppIdKept(g)'
  <2>1. AppIdKept(g) /\ AppId(g) \in GamePlace \ {p}
    BY <1>1, <1>9, Places, Distinct DEF Originals
  <2>2. Lying(AppId(g))' \subseteq Lying(AppId(g))
    BY <1>7, <2>1
  <2>3. \A c \in ClaimsOn(g)' : c \in ClaimsOn(g)
    BY <1>4, <1>9
  <2> QED BY <1>2, <1>3, <2>1, <2>2, <2>3, AppIdStep
<1>10. AppIdKept(t)'
  <2>1. \A c \in ClaimsOn(t)' :
           \/ c \in ClaimsOn(t)
           \/ /\ c.appIdOwned => original[p] \in {NoFile, backup'[p]}
              /\ c.appIdBackup => backup'[p] # NoFile
    BY <1>1, <1>2, <1>4, <1>5 DEF AppIdKept
  <2> QED BY <1>1, <1>2, <1>3, <1>7, <2>1, AppIdStep
<1> QED BY <1>1, <1>2, <1>3, <1>8, <1>9, <1>10 DEF Originals, Installing, At, Busy

--------------------------------------------------------------------------------
(* Files given back. *)

\* A folder of the manifest's gets its version.dll back, or loses the program's.
LEMMA OriginalsReturnLovely ==
    ASSUME Typed, Originals, NEW h \in Game, manifest # None, manifest.game = h,
           NEW p, p = Lovely(h), NEW v,
           \/ v = backup[p] /\ backup[p] # NoFile
           \/ v = NoFile /\ manifest.claims.lovelyOwned,
           Write(p, v) \/ Put(p, v),
           NEW s, Goto(s), UNCHANGED <<backup, manifest, claims>>,
           job = "install" => s \notin {"lovely", "appId"}
    PROVE  Originals'
<1>1. p \in GamePlace /\ p \in Place /\ LovelyKept(h) /\ manifest.claims \in ClaimsOn(h)
  BY Places DEF Originals, ClaimsOn
<1>2. /\ v \in {NoFile, original[p]} \cup used
      /\ ~Exposed => original[p] \in {NoFile, v, backup[p]}
  BY <1>1 DEF LovelyKept
<1>3. /\ Lying(p)' \subseteq Lying(p) \cup {v}
      /\ \A q \in GamePlace \ {p} : Lying(q)' \subseteq Lying(q)
  BY <1>1, LyingWrite, LyingPut, Places
<1>4. Onward /\ mishaps' \in Nat /\ job' = job /\ step' = s /\ target' = target
      /\ build' = build /\ used' = used /\ original' = original
  BY Went, WentOnward
<1>5. \A g \in Game : \A c \in ClaimsOn(g)' : c \in ClaimsOn(g)
  BY ClaimsOnGoto DEF ClaimsOn
<1>6. ASSUME NEW g \in Game
      PROVE  AppIdKept(g)'
  <2>1. AppIdKept(g) /\ AppId(g) \in GamePlace \ {p}
    BY <1>1, Places, Distinct DEF Originals
  <2> QED BY <1>3, <1>4, <1>5, <2>1, AppIdStep
<1>7. ASSUME NEW g \in Game, g # h
      PROVE  LovelyKept(g)'
  <2>1. LovelyKept(g) /\ Lovely(g) \in GamePlace \ {p}
    BY <1>1, <1>7, Places, Distinct DEF Originals
  <2> QED BY <1>3, <1>4, <1>5, <2>1, LovelyStep
<1>8. LovelyKept(h)'
  BY <1>1, <1>2, <1>3, <1>4, <1>5, LovelyStep
<1> QED BY <1>4, <1>6, <1>7, <1>8 DEF Originals, Installing, At, Busy

\* And its app id.
LEMMA OriginalsReturnAppId ==
    ASSUME Typed, Originals, NEW h \in Game, manifest # None, manifest.game = h,
           NEW p, p = AppId(h), NEW b, b = manifest.claims.appIdBackup,
           manifest.claims.appIdOwned \/ Recorded(b, p),
           NEW v, v = AppIdGivenBack(h, b),
           Write(p, v) \/ Put(p, v),
           NEW s, Goto(s), UNCHANGED <<backup, manifest, claims>>,
           job = "install" => s \notin {"lovely", "appId"}
    PROVE  Originals'
<1>1. p \in GamePlace /\ p \in Place /\ AppIdKept(h) /\ manifest.claims \in ClaimsOn(h)
  BY Places DEF Originals, ClaimsOn
<1>2. v \in {NoFile, original[p]} /\ original[p] \in {NoFile, v, backup[p]}
  BY <1>1, GivenBackKept
<1>3. /\ Lying(p)' \subseteq Lying(p) \cup {v}
      /\ \A q \in GamePlace \ {p} : Lying(q)' \subseteq Lying(q)
  BY <1>1, LyingWrite, LyingPut, Places
<1>4. Onward /\ mishaps' \in Nat /\ job' = job /\ step' = s /\ target' = target
      /\ build' = build /\ used' = used /\ original' = original
  BY Went, WentOnward
<1>5. \A g \in Game : \A c \in ClaimsOn(g)' : c \in ClaimsOn(g)
  BY ClaimsOnGoto DEF ClaimsOn
<1>6. ASSUME NEW g \in Game
      PROVE  LovelyKept(g)'
  <2>1. LovelyKept(g) /\ Lovely(g) \in GamePlace \ {p}
    BY <1>1, Places, Distinct DEF Originals
  <2> QED BY <1>3, <1>4, <1>5, <2>1, LovelyStep
<1>7. ASSUME NEW g \in Game, g # h
      PROVE  AppIdKept(g)'
  <2>1. AppIdKept(g) /\ AppId(g) \in GamePlace \ {p}
    BY <1>1, <1>7, Places, Distinct DEF Originals
  <2> QED BY <1>3, <1>4, <1>5, <2>1, AppIdStep
<1>8. AppIdKept(h)'
  BY <1>1, <1>2, <1>3, <1>4, <1>5, AppIdStep
<1> QED BY <1>4, <1>6, <1>7, <1>8 DEF Originals, Installing, At, Busy

LEMMA OriginalsReturnOld ==
    ASSUME Typed, Originals, ReturnOldLovely \/ ReturnOldAppId
    PROVE  Originals'
<1>1. CASE UNCHANGED <<disk, undo>>
  <2>1. /\ \E s : Goto(s) /\ s \notin {"lovely", "appId"}
        /\ UNCHANGED <<backup, manifest, claims>>
    BY DEF ReturnOldLovely, ReturnOldAppId
  <2> QED BY <1>1, <2>1, LyingStill, OriginalsGoto
<1>2. CASE ReturnOldLovely /\ ~UNCHANGED <<disk, undo>>
  <2>1. /\ Leaving /\ Goto("oldAppId") /\ UNCHANGED <<backup, manifest, claims>>
        /\ \/ /\ backup[Lovely(manifest.game)] # NoFile
              /\ Write(Lovely(manifest.game), backup[Lovely(manifest.game)])
           \/ manifest.claims.lovelyOwned /\ Write(Lovely(manifest.game), NoFile)
    BY <1>2 DEF ReturnOldLovely, Recorded
  <2>2. PICK h \in Game : h = manifest.game
    BY <2>1 DEF Leaving, Typed, TypeOK, Manifest
  <2> QED BY <2>1, <2>2, OriginalsReturnLovely DEF Leaving
<1>3. CASE ReturnOldAppId /\ ~UNCHANGED <<disk, undo>>
  <2>1. /\ Leaving /\ Goto("save") /\ UNCHANGED <<backup, manifest, claims>>
        /\ manifest.claims.appIdOwned
        /\ Write(AppId(manifest.game), AppIdGivenBack(manifest.game, manifest.claims.appIdBackup))
    BY <1>3 DEF ReturnOldAppId
  <2>2. PICK h \in Game : h = manifest.game
    BY <2>1 DEF Leaving, Typed, TypeOK, Manifest
  <2> QED BY <2>1, <2>2, OriginalsReturnAppId DEF Leaving
<1> QED BY <1>1, <1>2, <1>3

LEMMA OriginalsRemoval ==
    ASSUME Typed, Progress, Originals, RemovalStep
    PROVE  Originals'
<1>1. CASE RemoveMod \/ ForgetManifest
  <2>1. /\ \E s : Goto(s) /\ backup' = backup /\ claims' = claims
        /\ job # "install" /\ manifest' \in {manifest, None}
        /\ UNCHANGED <<disk, undo>> \/ \E v : Put(Mod, v)
    BY <1>1 DEF RemoveMod, ForgetManifest, Removing, diskVars
  <2>2. \A q \in GamePlace : Lying(q)' \subseteq Lying(q)
    BY <2>1, LyingAside DEF Fixed
  <2> QED BY <2>1, <2>2, OriginalsGoto
<1>2. CASE ReturnLovely \/ ReturnAppId
  <2>1. /\ job # "install" /\ UNCHANGED <<backup, manifest, claims>> /\ manifest # None
        /\ manifest.game = target /\ target \in Game
    BY <1>2 DEF ReturnLovely, ReturnAppId, Removing, At, Typed, Shape, Progress
  <2>2. CASE UNCHANGED <<disk, undo>>
    <3>1. \E s : Goto(s)
      BY <1>2 DEF ReturnLovely, ReturnAppId
    <3> QED BY <2>1, <2>2, <3>1, LyingStill, OriginalsGoto
  <2>3. CASE ReturnLovely /\ ~UNCHANGED <<disk, undo>>
    <3>1. /\ Goto("appId")
          /\ \/ /\ backup[Lovely(target)] # NoFile
                /\ Put(Lovely(target), backup[Lovely(target)])
             \/ manifest.claims.lovelyOwned /\ Put(Lovely(target), NoFile)
      BY <2>3 DEF ReturnLovely, Recorded
    <3>2. PICK h \in Game : h = target
      BY <2>1
    <3> QED BY <2>1, <3>1, <3>2, OriginalsReturnLovely
  <2>4. CASE ReturnAppId /\ ~UNCHANGED <<disk, undo>>
    <3>1. /\ Goto("manifest")
          /\ manifest.claims.appIdOwned \/ Recorded(manifest.claims.appIdBackup, AppId(target))
          /\ Put(AppId(target), AppIdGivenBack(target, manifest.claims.appIdBackup))
      BY <2>4 DEF ReturnAppId
    <3>2. PICK h \in Game : h = target
      BY <2>1
    <3> QED BY <2>1, <3>1, <3>2, OriginalsReturnAppId
  <2> QED BY <1>2, <2>2, <2>3, <2>4
<1>3. CASE Restored \/ RemoveRest \/ Stop
  <2>1. /\ \E r : End(r)
        /\ originVars' = originVars /\ backup' = backup /\ manifest' = manifest
        /\ mishaps' = mishaps
    BY <1>3 DEF Restored, RemoveRest, Stop, diskVars
  <2>2. \A q \in GamePlace : disk'[q] = disk[q]
    BY <1>3, Places, Distinct DEF Restored, RemoveRest, Stop, diskVars
  <2> QED BY <2>1, <2>2, OriginalsEnd
<1> QED BY <1>1, <1>2, <1>3 DEF RemovalStep

LEMMA OriginalsNext ==
    Typed /\ Undoable /\ Progress /\ Originals /\ Truth /\ [Next]_vars => Originals'
<1> SUFFICES ASSUME Typed, Undoable, Progress, Originals, Truth, [Next]_vars PROVE Originals'
  OBVIOUS
<1>1. CASE Install \/ Repair \/ Restore \/ Uninstall
  BY <1>1, OriginalsBegin
<1>2. CASE InstallStep
  <2>1. CASE \/ ReplaceRuntime \/ RemoveAlphaRuntime \/ MoveModAside \/ ActivateMod
             \/ QuarantineAlphaMod \/ KeepMaintenanceCopy \/ Register \/ SaveManifest
    <3>1. job = "install"
      BY <2>1 DEF ReplaceRuntime, RemoveAlphaRuntime, MoveModAside, ActivateMod,
           QuarantineAlphaMod, KeepMaintenanceCopy, Register, SaveManifest, Installing
    <3> QED BY <2>1, <3>1, OriginalsInstall
  <2>2. CASE BackUpLovely \/ ReplaceLovely \/ BackUpAppId \/ ReplaceAppId
    <3>1. job = "install" /\ target \in Game
      BY <2>2 DEF BackUpLovely, ReplaceLovely, BackUpAppId, ReplaceAppId, Installing, Typed, Shape
    <3>2. mishaps = 0 => Truthful(target, disk, claims)
      BY <3>1 DEF Truth, InstallTrue
    <3>3. PICK t \in Game : t = target
      BY <3>1
    <3> QED BY <2>2, <3>2, <3>3, OriginalsBackUpLovely, OriginalsReplaceLovely,
               OriginalsBackUpAppId, OriginalsReplaceAppId
  <2>3. CASE ReturnOldLovely \/ ReturnOldAppId
    BY <2>3, OriginalsReturnOld
  <2>4. CASE Commit \/ Fail \/ CommitFails \/ DropGuard \/ Undone
    BY <2>4, OriginalsUndo
  <2> QED BY <1>2, <2>1, <2>2, <2>3, <2>4 DEF InstallStep
<1>3. CASE RemovalStep
  BY <1>3, OriginalsRemoval
<1>4. CASE Crash
  BY <1>4, OriginalsUndo
<1>5. CASE Outside
  BY <1>5, OriginalsOutside
<1>6. CASE UNCHANGED vars
  BY <1>6 DEF Originals, AppIdKept, LovelyKept, Lying, ClaimsOn, Kept, OneBuild, Exposed,
              Busy, Installing, At, WritesAppId, vars
<1> QED BY <1>1, <1>2, <1>3, <1>4, <1>5, <1>6 DEF Next

LEMMA OriginalsInit == Init => Originals
<1> SUFFICES ASSUME Init PROVE Originals
  OBVIOUS
<1>1. /\ original \in InitFiles /\ used = {} /\ undo = <<>> /\ claims = NoClaims
      /\ manifest = None /\ job = "idle"
      /\ \A p \in GamePlace : disk[p] = original[p] /\ backup[p] = NoFile
  BY Places DEF Init
<1>2. \A p : Lying(p) = {disk[p]}
  BY <1>1 DEF Lying
<1>3. \A g \in Game : \A c \in ClaimsOn(g) : c = NoClaims
  BY <1>1 DEF ClaimsOn
<1>4. \A g \in Game : AppIdKept(g) /\ LovelyKept(g)
  BY <1>1, <1>2, <1>3, Places DEF AppIdKept, LovelyKept, Kept, NoClaims
<1>5. \A p \in GamePlace : original[p] \notin Build
  BY <1>1, InitAssumption
<1>6. IsFiniteSet(used)
  BY <1>1, FS_EmptySet
<1> QED BY <1>1, <1>4, <1>5, <1>6 DEF Originals, Busy, Installing

--------------------------------------------------------------------------------
(* The claims stay true: frame lemmas. *)

LEMMA TrueBefore ==
    ASSUME original' = original, before' = before, Alone' => Alone,
           Tidy(before.disk, before.manifest)
    PROVE  Tidy(before.disk, before.manifest)'
  BY DEF Tidy, Truthful, AppIdBack, LovelyBack

\* Within an install nothing changes who is alone.
LEMMA AloneGoto ==
    ASSUME NEW s, Goto(s), job \in {"install", "undoing"} \/ quarantined' = quarantined
    PROVE  Alone' = Alone
  BY Went DEF Alone, OneBuild, Busy

\* A step of an install, given the truth of its own claims after it.
LEMMA TruthGoto ==
    ASSUME Sound, job = "install", NEW s, Goto(s),
           mishaps = 0 => InstallTrue',
           mishaps = 0 /\ InLog(AlphaMod)' => InLog(AlphaMod) \/ before.manifest = None
    PROVE  Truth'
<1>1. /\ outcome' = outcome /\ job' = job /\ mishaps' = mishaps /\ found' = found
      /\ before' = before /\ original' = original
  BY Went
<1>2. Alone' = Alone
  BY AloneGoto
<1>3. Busy /\ Busy' /\ Truth
  BY <1>1 DEF Busy, Sound
<1>4. ASSUME mishaps = 0
      PROVE  Tidy(before.disk, before.manifest)'
  BY <1>1, <1>2, <1>3, <1>4, TrueBefore DEF Truth
<1> QED BY <1>1, <1>3, <1>4 DEF Truth

\* The claims of an install stay true when the game folders are left alone.
LEMMA InstallTrueQuiet ==
    ASSUME Typed, InstallTrue, job = "install", NEW s, Goto(s), step # "commit",
           s \notin {"lovely", "appId", "oldAppId", "save", "commit"},
           manifest' = manifest, claims' = claims,
           \A q \in GamePlace : disk'[q] = disk[q]
    PROVE  InstallTrue'
<1>1. step' = s /\ target' = target /\ original' = original /\ target \in Game
  BY Went DEF Typed, Shape
<1>2. Alone' = Alone
  BY AloneGoto
<1>3. \A g \in Game : disk'[Lovely(g)] = disk[Lovely(g)] /\ disk'[AppId(g)] = disk[AppId(g)]
  BY Places
<1>4. Truthful(target, disk, claims)'
  BY <1>1, <1>2, <1>3 DEF InstallTrue, Truthful, AppIdBack
<1>5. \A g \in Game \ {target} : Truthful(g, disk, ClaimsOf(manifest, g))'
  BY <1>1, <1>2, <1>3 DEF InstallTrue, Truthful, AppIdBack, ClaimsOf
<1> QED BY <1>1, <1>4, <1>5 DEF InstallTrue

\* Writes outside Mods' retired folder leave its guard alone.
LEMMA LogAside ==
    ASSUME Typed, \/ undo' = undo
                  \/ \E p \in Place \ {AlphaMod} : \E v : Write(p, v)
    PROVE  InLog(AlphaMod)' <=> InLog(AlphaMod)
<1>1. CASE undo' = undo
  BY <1>1 DEF InLog
<1>2. ASSUME NEW p \in Place \ {AlphaMod}, NEW v, Write(p, v)
      PROVE  InLog(AlphaMod)' <=> InLog(AlphaMod)
  BY <1>2, Logged
<1> QED BY <1>1, <1>2

LEMMA FixedAside ==
    ASSUME Typed,
           \/ disk' = disk
           \/ \E p \in Fixed : \E v : disk' = [disk EXCEPT ![p] = v]
    PROVE  \A q \in GamePlace : disk'[q] = disk[q]
<1>1. ASSUME NEW p \in Fixed, NEW v, disk' = [disk EXCEPT ![p] = v]
      PROVE  \A q \in GamePlace : disk'[q] = disk[q]
  <2>1. p \in Place /\ GamePlace \subseteq Place \ {p}
    BY FixedPlaces, Places
  <2> QED BY <1>1, <2>1, Changed
<1> QED BY <1>1

LEMMA TruthInstall ==
    ASSUME Sound, job = "install",
           \/ ReplaceRuntime \/ RemoveAlphaRuntime \/ MoveModAside \/ ActivateMod
           \/ QuarantineAlphaMod \/ KeepMaintenanceCopy \/ Register
    PROVE  Truth'
<1>1. Typed /\ Undoable /\ Truth
  BY DEF Sound
<1>2. \/ disk' = disk
      \/ \E p \in Fixed : \E v : disk' = [disk EXCEPT ![p] = v]
  BY DEF ReplaceRuntime, RemoveAlphaRuntime, RemoveAlphaFile, MoveModAside, ActivateMod,
         QuarantineAlphaMod, KeepMaintenanceCopy, Register, Fixed, diskVars, Write, Put
<1>3. \A q \in GamePlace : disk'[q] = disk[q]
  BY <1>1, <1>2, FixedAside
<1>4. \E s : /\ Goto(s) /\ step # "commit"
             /\ s \notin {"lovely", "appId", "oldAppId", "save", "commit"}
             /\ manifest' = manifest /\ claims' = claims
  BY DEF ReplaceRuntime, RemoveAlphaRuntime, MoveModAside, ActivateMod,
         QuarantineAlphaMod, KeepMaintenanceCopy, Register, Installing, At, diskVars
<1>5. mishaps = 0 => InstallTrue'
  BY <1>1, <1>3, <1>4, InstallTrueQuiet DEF Truth
<1>6. ASSUME mishaps = 0, InLog(AlphaMod)'
      PROVE  InLog(AlphaMod) \/ before.manifest = None
  <2>1. CASE QuarantineAlphaMod
    <3>1. CASE ~Present(AlphaMod)
      BY <1>1, <1>6, <2>1, <3>1, LogAside DEF QuarantineAlphaMod
    <3>2. CASE Present(AlphaMod) /\ ~InLog(AlphaMod)
      <4>1. before.disk[AlphaMod] # NoFile
        BY <1>1, <3>2, Places DEF Undoable, Owes, InLog, Present
      <4> QED BY <1>1, <1>6, <4>1 DEF Truth, Tidy, Busy
    <3> QED BY <3>1, <3>2
  <2>2. CASE ~QuarantineAlphaMod
    <3>1. \/ undo' = undo
          \/ \E p \in Place \ {AlphaMod} : \E v : Write(p, v)
      BY <2>2, Places DEF ReplaceRuntime, RemoveAlphaRuntime, RemoveAlphaFile, MoveModAside,
                         ActivateMod, KeepMaintenanceCopy, Register, Put
    <3> QED BY <1>1, <1>6, <3>1, LogAside
  <2> QED BY <2>1, <2>2
<1> QED BY <1>4, <1>5, <1>6, TruthGoto

\* The steps in a game folder leave the guard of the retired mod alone.
LEMMA LogGame ==
    ASSUME Typed, job = "install",
           \/ BackUpLovely \/ ReplaceLovely \/ BackUpAppId \/ ReplaceAppId
           \/ ReturnOldLovely \/ ReturnOldAppId \/ SaveManifest
    PROVE  InLog(AlphaMod)' <=> InLog(AlphaMod)
<1>1. target \in Game /\ (Leaving => manifest.game \in Game)
  BY DEF Typed, TypeOK, Shape, Leaving, Manifest
<1>2. \A g \in Game : Lovely(g) \in Place \ {AlphaMod} /\ AppId(g) \in Place \ {AlphaMod}
  BY Places
<1>3. \/ undo' = undo
      \/ \E v : Write(Lovely(target), v) \/ Write(AppId(target), v)
      \/ /\ Leaving
         /\ \E v : Write(Lovely(manifest.game), v) \/ Write(AppId(manifest.game), v)
  BY DEF BackUpLovely, ReplaceLovely, BackUpAppId, ReplaceAppId, ReturnOldLovely,
         ReturnOldAppId, SaveManifest
<1>4. \/ undo' = undo
      \/ \E p \in Place \ {AlphaMod} : \E v : Write(p, v)
  BY <1>1, <1>2, <1>3
<1> QED BY <1>4, LogAside

--------------------------------------------------------------------------------
(* The claims of an install while it works in the game folders. *)

\* The facts these steps start from.
LEMMA InstallFacts ==
    ASSUME Sound, job = "install", mishaps = 0
    PROVE  /\ Typed /\ Undoable /\ Progress /\ InstallTrue /\ found = Game
           /\ target \in Game /\ claims \in Claims /\ build \in Build /\ build \in used
           /\ step # "commit" => manifest = before.manifest
           /\ before.manifest # None => ~InLog(AlphaMod)
           /\ ~Exposed
           /\ \A g \in Game : AppIdKept(g) /\ LovelyKept(g)
           /\ \A g \in Game : original[Lovely(g)] # build
           /\ \A g \in Game : /\ Lovely(g) \in Place /\ AppId(g) \in Place
                              /\ Lovely(g) \in GamePlace /\ AppId(g) \in GamePlace
  BY Places DEF Sound, Typed, TypeOK, Shape, Undoable, Truth, Originals, Busy, Exposed

LEMMA TrueBackUpLovely ==
    ASSUME Sound, job = "install", mishaps = 0, BackUpLovely
    PROVE  InstallTrue'
<1>1. /\ step = "lovelyBackup" /\ step' = "lovely" /\ Goto("lovely")
      /\ UNCHANGED <<disk, manifest, target, original, job, build>>
  BY Went DEF BackUpLovely, Installing, At
<1>2. Alone' = Alone
  BY <1>1, AloneGoto
<1>3. PICK t \in Game : t = target
  BY InstallFacts
<1> DEFINE p == Lovely(t)
<1>4. /\ InstallTrue /\ claims \in Claims
      /\ original[p] # build /\ LovelyKept(t)
  BY <1>3, InstallFacts
<1>5. /\ ~claims.lovelyBackup => original[p] \in {NoFile, disk[p]}
      /\ claims.lovelyOwned => original[p] = NoFile
      /\ Alone /\ ~claims.lovelyOwned /\ ~claims.lovelyBackup => disk[p] = original[p]
      /\ ~claims.appIdOwned => disk[AppId(t)] = original[AppId(t)]
      /\ claims.appIdOwned /\ ~claims.appIdBackup => original[AppId(t)] = NoFile
  BY <1>3, <1>4 DEF InstallTrue, Truthful, AppIdBack
<1>6. claims'.appIdOwned = claims.appIdOwned /\ claims'.appIdBackup = claims.appIdBackup
  BY <1>4 DEF BackUpLovely, Claims
<1>7. \/ claims'.lovelyBackup /\ claims'.lovelyOwned = claims.lovelyOwned
      \/ /\ disk[p] = NoFile /\ ~claims.lovelyBackup
         /\ ~claims'.lovelyBackup /\ claims'.lovelyOwned
      \/ disk[p] = build /\ ~claims.lovelyBackup /\ claims' = claims
  <2>1. CASE NeedsBackup(target) /\ claims' = [claims EXCEPT !.lovelyBackup = TRUE]
    BY <1>4, <2>1 DEF Claims
  <2>2. CASE ~Present(Lovely(target)) /\ ~claims.lovelyBackup
             /\ claims' = [claims EXCEPT !.lovelyOwned = TRUE]
    BY <1>3, <1>4, <2>2 DEF Claims, Present
  <2>3. CASE ~NeedsBackup(target) /\ (Present(Lovely(target)) \/ claims.lovelyBackup)
             /\ claims' = claims
    BY <1>3, <1>4, <2>3 DEF NeedsBackup, Recorded, LovelyKept, Claims
  <2> QED BY <2>1, <2>2, <2>3 DEF BackUpLovely
<1>8. Truthful(target, disk, claims)'
  BY <1>1, <1>2, <1>3, <1>5, <1>6, <1>7 DEF Truthful, AppIdBack
<1>9. \A g \in Game \ {target} : Truthful(g, disk, ClaimsOf(manifest, g))'
  BY <1>1, <1>2, <1>4 DEF InstallTrue, Truthful, AppIdBack, ClaimsOf
<1>10. original[p] = NoFile \/ claims'.lovelyBackup
  BY <1>4, <1>5, <1>7
<1>11. Alone => claims'.lovelyOwned \/ claims'.lovelyBackup
  BY <1>4, <1>5, <1>7
<1> QED BY <1>1, <1>2, <1>3, <1>8, <1>9, <1>10, <1>11 DEF InstallTrue

LEMMA TrueReplaceLovely ==
    ASSUME Sound, job = "install", mishaps = 0, ReplaceLovely
    PROVE  InstallTrue'
<1>1. /\ step = "lovely" /\ step' = "appIdBackup" /\ Goto("appIdBackup")
      /\ UNCHANGED <<claims, manifest, target, original, job, build>>
  BY Went DEF ReplaceLovely, Installing, At
<1>2. Alone' = Alone
  BY <1>1, AloneGoto
<1>3. PICK t \in Game : t = target
  BY InstallFacts
<1> DEFINE p == Lovely(t)
<1>4. /\ InstallTrue /\ claims \in Claims /\ Typed /\ p \in Place
  BY <1>3, InstallFacts
<1>5. /\ original[p] = NoFile \/ claims.lovelyBackup
      /\ Alone => claims.lovelyOwned \/ claims.lovelyBackup
      /\ claims.lovelyOwned => original[p] = NoFile
      /\ ~claims.appIdOwned => disk[AppId(t)] = original[AppId(t)]
      /\ claims.appIdOwned /\ ~claims.appIdBackup => original[AppId(t)] = NoFile
  BY <1>1, <1>3, <1>4 DEF InstallTrue, Truthful, AppIdBack
<1>6. \A q \in Place \ {p} : disk'[q] = disk[q]
  BY <1>3, <1>4, Changed DEF ReplaceLovely, Write
<1>7. \A g \in Game : disk'[AppId(g)] = disk[AppId(g)]
  BY <1>6, Places, Distinct
<1>8. \A g \in Game \ {target} : disk'[Lovely(g)] = disk[Lovely(g)]
  BY <1>3, <1>6, Places, Distinct
<1>9. Truthful(target, disk, claims)'
  BY <1>1, <1>2, <1>3, <1>5, <1>7 DEF Truthful, AppIdBack
<1>10. \A g \in Game \ {target} : Truthful(g, disk, ClaimsOf(manifest, g))'
  BY <1>1, <1>2, <1>4, <1>7, <1>8 DEF InstallTrue, Truthful, AppIdBack, ClaimsOf
<1> QED BY <1>1, <1>9, <1>10 DEF InstallTrue

LEMMA TrueBackUpAppId ==
    ASSUME Sound, job = "install", mishaps = 0, BackUpAppId
    PROVE  InstallTrue'
<1>1. /\ step = "appIdBackup" /\ step' = "appId" /\ Goto("appId")
      /\ UNCHANGED <<disk, manifest, target, original, job, build, steam>>
  BY Went DEF BackUpAppId, Installing, At
<1>2. Alone' = Alone
  BY <1>1, AloneGoto
<1>3. target \in Game /\ InstallTrue /\ claims \in Claims
  BY InstallFacts
<1>4. /\ claims'.lovelyOwned = claims.lovelyOwned /\ claims'.lovelyBackup = claims.lovelyBackup
      /\ claims'.appIdOwned = claims.appIdOwned
      /\ claims.appIdBackup => claims'.appIdBackup
      /\ WritesAppId(target) /\ Present(AppId(target)) /\ ~claims.appIdOwned
            => claims'.appIdBackup
  BY <1>3 DEF BackUpAppId, Claims, Recorded
<1>5. Truthful(target, disk, claims)'
  BY <1>1, <1>2, <1>3, <1>4 DEF InstallTrue, Truthful, AppIdBack
<1>6. \A g \in Game \ {target} : Truthful(g, disk, ClaimsOf(manifest, g))'
  BY <1>1, <1>2, <1>3 DEF InstallTrue, Truthful, AppIdBack, ClaimsOf
<1>7. (WritesAppId(target) /\ Present(AppId(target)))'
         => WritesAppId(target) /\ Present(AppId(target))
  BY <1>1 DEF WritesAppId, Present
<1> QED BY <1>1, <1>4, <1>5, <1>6, <1>7 DEF InstallTrue

\* A folder that gets its app id back under a true claim has its own again.
LEMMA GivenBackTrue ==
    ASSUME NEW g \in Game, AppIdKept(g), NEW p, p = AppId(g), NEW c \in ClaimsOn(g),
           NEW b, b = c.appIdBackup,
           Recorded(b, p) \/ (c.appIdOwned /\ (~b => original[p] = NoFile)),
           NEW v, v = AppIdGivenBack(g, b)
    PROVE  v = original[p]
<1>1. CASE Recorded(b, p)
  BY <1>1 DEF AppIdGivenBack, AppIdKept, Recorded
<1>2. CASE ~Recorded(b, p)
  BY <1>2 DEF AppIdGivenBack, AppIdKept, Recorded
<1> QED BY <1>1, <1>2

LEMMA TrueReplaceAppId ==
    ASSUME Sound, job = "install", mishaps = 0, ReplaceAppId
    PROVE  InstallTrue'
<1>1. /\ step = "appId" /\ step' = "maintenance" /\ Goto("maintenance")
      /\ UNCHANGED <<manifest, target, original, job, build>>
  BY Went DEF ReplaceAppId, Installing, At
<1>2. Alone' = Alone
  BY <1>1, AloneGoto
<1>3. PICK t \in Game : t = target
  BY InstallFacts
<1> DEFINE p == AppId(t)
<1>4. /\ InstallTrue /\ claims \in Claims /\ Typed /\ p \in Place /\ AppIdKept(t)
      /\ claims \in ClaimsOn(t)
  BY <1>3, InstallFacts DEF ClaimsOn
<1>5. /\ WritesAppId(target) /\ ~claims.appIdOwned /\ disk[p] # NoFile => claims.appIdBackup
      /\ ~claims.lovelyBackup => original[Lovely(t)] \in {NoFile, disk[Lovely(t)]}
      /\ claims.lovelyOwned => original[Lovely(t)] = NoFile
      /\ Alone /\ ~claims.lovelyOwned /\ ~claims.lovelyBackup
            => disk[Lovely(t)] = original[Lovely(t)]
      /\ ~claims.appIdOwned => disk[p] = original[p]
      /\ claims.appIdOwned /\ ~claims.appIdBackup => original[p] = NoFile
  BY <1>1, <1>3, <1>4 DEF InstallTrue, Truthful, AppIdBack, Present
<1>6. /\ \A q \in Place \ {p} : disk'[q] = disk[q]
      /\ \A v : Write(p, v) => disk'[p] = v
  BY <1>3, <1>4, Changed DEF ReplaceAppId, Write
<1>7. /\ \A g \in Game : disk'[Lovely(g)] = disk[Lovely(g)]
      /\ \A g \in Game \ {t} : disk'[AppId(g)] = disk[AppId(g)]
  BY <1>6, Places, Distinct
<1>8. claims'.lovelyOwned = claims.lovelyOwned /\ claims'.lovelyBackup = claims.lovelyBackup
  BY <1>4 DEF ReplaceAppId, Claims
<1>9. /\ ~claims'.appIdOwned => disk'[p] = original[p]
      /\ claims'.appIdOwned /\ ~claims'.appIdBackup => original[p] = NoFile
  <2>1. CASE target \in steam /\ claims.appIdOwned
             /\ Write(AppId(target), AppIdGivenBack(target, claims.appIdBackup))
    <3>1. AppIdGivenBack(target, claims.appIdBackup) = original[p]
      BY <1>3, <1>4, <1>5, <2>1, GivenBackTrue
    <3>2. ~claims'.appIdOwned
      BY <1>4, <2>1 DEF ReplaceAppId, Claims
    <3> QED BY <1>3, <1>6, <2>1, <3>1, <3>2
  <2>2. CASE WritesAppId(target) /\ Write(AppId(target), OurAppId)
    <3>1. claims'.appIdOwned /\ claims'.appIdBackup = claims.appIdBackup
      BY <1>4, <2>2 DEF ReplaceAppId, Claims, WritesAppId
    <3> QED BY <1>5, <2>2, <3>1
  <2>3. CASE ~(target \in steam /\ claims.appIdOwned) /\ ~WritesAppId(target)
             /\ UNCHANGED <<disk, undo>>
    <3>1. CASE target \in steam
      <4>1. ~claims'.appIdOwned
        BY <1>4, <3>1 DEF ReplaceAppId, Claims
      <4> QED BY <1>5, <2>3, <3>1, <4>1
    <3>2. CASE target \notin steam
      <4>1. claims'.appIdOwned = claims.appIdOwned /\ claims'.appIdBackup = claims.appIdBackup
        BY <1>4, <2>3, <3>2 DEF ReplaceAppId, Claims
      <4> QED BY <1>5, <2>3, <4>1
    <3> QED BY <3>1, <3>2
  <2> QED BY <2>1, <2>2, <2>3 DEF ReplaceAppId
<1>10. Truthful(target, disk, claims)'
  BY <1>1, <1>2, <1>3, <1>5, <1>7, <1>8, <1>9 DEF Truthful, AppIdBack
<1>11. \A g \in Game \ {target} : Truthful(g, disk, ClaimsOf(manifest, g))'
  BY <1>1, <1>2, <1>3, <1>4, <1>7 DEF InstallTrue, Truthful, AppIdBack, ClaimsOf
<1> QED BY <1>1, <1>10, <1>11 DEF InstallTrue

\* With nothing undone yet no other mod stands in the way of an install that is alone.
LEMMA NoOtherMods ==
    ASSUME Sound, job = "install", mishaps = 0, step \in {"oldLovely", "oldAppId"},
           manifest # None, Alone
    PROVE  ~OtherLovelyMods
<1>1. ~InLog(AlphaMod) /\ Undoable /\ Progress
  BY InstallFacts
<1>2. ~before.quarantined /\ ~otherMods
  BY DEF Alone, Busy
<1>3. ~quarantined
  BY <1>1, <1>2 DEF Undoable
<1>4. ~Present(AlphaMod)
  BY <1>1 DEF Progress, PastAlphaMod, PastLovely, PastAppId, PastMaintenance, PastSystem
<1> QED BY <1>2, <1>3, <1>4 DEF OtherLovelyMods

\* A folder that the manifest says nothing about is as it was.
LEMMA Unclaimed ==
    ASSUME NEW g \in Game, Truthful(g, disk, ClaimsOf(manifest, g)),
           manifest # None => manifest.game # g
    PROVE  LovelyBack(g, disk) /\ AppIdBack(g, disk)
  BY DEF Truthful, ClaimsOf, NoClaims, LovelyBack

\* What a folder the manifest names gets back is its own version.dll.
LEMMA LovelyBackUp ==
    ASSUME ~Exposed, NEW g \in Game, LovelyKept(g), NEW p, p = Lovely(g), backup[p] # NoFile
    PROVE  original[p] \in {NoFile, backup[p]} /\ (Alone => backup[p] = original[p])
  BY DEF LovelyKept, Alone

LEMMA TrueReturnOldLovely ==
    ASSUME Sound, job = "install", mishaps = 0, ReturnOldLovely
    PROVE  InstallTrue'
<1>1. /\ step = "oldLovely" /\ step' = "oldAppId" /\ Goto("oldAppId")
      /\ UNCHANGED <<manifest, target, original, job, claims>>
  BY Went DEF ReturnOldLovely, Installing, At
<1>2. Alone' = Alone
  BY <1>1, AloneGoto
<1>3. /\ InstallTrue /\ Typed /\ target \in Game /\ found = Game /\ ~Exposed
  BY InstallFacts
<1>4. CASE manifest = None \/ manifest.game = target
  <2>1. disk' = disk
    BY <1>4 DEF ReturnOldLovely, Leaving
  <2>2. Truthful(target, disk, claims)'
    BY <1>1, <1>2, <1>3, <2>1 DEF InstallTrue, Truthful, AppIdBack
  <2>3. ASSUME NEW g \in Game \ {target}
        PROVE  Truthful(g, disk, ClaimsOf(manifest, g))' /\ LovelyBack(g, disk)'
    <3>1. Truthful(g, disk, ClaimsOf(manifest, g)) /\ (manifest # None => manifest.game # g)
      BY <1>1, <1>3, <1>4, <2>3 DEF InstallTrue
    <3>2. LovelyBack(g, disk)
      BY <3>1, Unclaimed
    <3> QED BY <1>1, <1>2, <2>1, <3>1, <3>2 DEF Truthful, AppIdBack, LovelyBack, ClaimsOf
  <2> QED BY <1>1, <2>2, <2>3 DEF InstallTrue
<1>5. CASE manifest # None /\ manifest.game # target
  <2>1. PICK h \in Game : h = manifest.game
    BY <1>3, <1>5 DEF Typed, TypeOK, Manifest
  <2> DEFINE p == Lovely(h)
  <2>2. Leaving /\ h # target
    BY <1>3, <1>5, <2>1 DEF Leaving
  <2>3. /\ LovelyKept(h) /\ p \in Place /\ manifest.claims \in ClaimsOn(h)
    BY <1>5, <2>1, InstallFacts DEF ClaimsOn
  <2>4. /\ \A q \in Place \ {p} : disk'[q] = disk[q]
        /\ \A v : Write(p, v) => disk'[p] = v
    BY <1>3, <2>1, <2>3, Changed DEF ReturnOldLovely, Write
  <2>5. /\ \A g \in Game : disk'[AppId(g)] = disk[AppId(g)]
        /\ \A g \in Game \ {h} : disk'[Lovely(g)] = disk[Lovely(g)]
    BY <2>4, Places, Distinct
  <2>6. Truthful(h, disk, ClaimsOf(manifest, h))
    BY <1>1, <1>3, <2>2 DEF InstallTrue
  <2>7. /\ ~manifest.claims.lovelyBackup => original[p] \in {NoFile, disk[p]}
        /\ manifest.claims.lovelyOwned => original[p] = NoFile
        /\ Alone /\ ~manifest.claims.lovelyOwned /\ ~manifest.claims.lovelyBackup
              => disk[p] = original[p]
    BY <1>5, <2>1, <2>6 DEF Truthful, ClaimsOf
  <2>8. /\ original[p] \in {NoFile, disk'[p]}
        /\ Alone => disk'[p] = original[p]
    <3>1. CASE Recorded(manifest.claims.lovelyBackup, p) /\ Write(p, backup[p])
      BY <1>3, <2>3, <2>4, <3>1, LovelyBackUp DEF Recorded
    <3>2. CASE manifest.claims.lovelyOwned /\ Write(p, NoFile)
      BY <2>4, <2>7, <3>2
    <3>3. CASE /\ ~Recorded(manifest.claims.lovelyBackup, p) /\ disk' = disk
               /\ ~manifest.claims.lovelyOwned \/ ~Present(p) \/ OtherLovelyMods
      <4>1. ~manifest.claims.lovelyBackup
        BY <2>3, <3>3 DEF LovelyKept, Recorded
      <4>2. Alone => ~OtherLovelyMods
        BY <1>1, <1>5, NoOtherMods
      <4> QED BY <2>7, <3>3, <4>1, <4>2 DEF Present
    <3> QED BY <2>1, <2>2, <3>1, <3>2, <3>3 DEF ReturnOldLovely
  <2>9. Truthful(target, disk, claims)'
    BY <1>1, <1>2, <1>3, <2>2, <2>5 DEF InstallTrue, Truthful, AppIdBack
  <2>10. ASSUME NEW g \in Game \ {target}, g # h
         PROVE  Truthful(g, disk, ClaimsOf(manifest, g))' /\ LovelyBack(g, disk)'
    <3>1. Truthful(g, disk, ClaimsOf(manifest, g)) /\ manifest.game # g
      BY <1>1, <1>3, <2>1, <2>10 DEF InstallTrue
    <3>2. LovelyBack(g, disk)
      BY <3>1, Unclaimed
    <3> QED BY <1>1, <1>2, <2>5, <2>10, <3>1, <3>2 DEF Truthful, AppIdBack, LovelyBack, ClaimsOf
  <2>11. LovelyBack(h, disk)'
    BY <1>1, <1>2, <2>8 DEF LovelyBack
  <2>12. Truthful(h, disk, ClaimsOf(manifest, h))'
    BY <1>1, <1>2, <2>5, <2>6, <2>8 DEF Truthful, AppIdBack, ClaimsOf
  <2> QED BY <1>1, <2>9, <2>10, <2>11, <2>12 DEF InstallTrue
<1> QED BY <1>4, <1>5

LEMMA TrueReturnOldAppId ==
    ASSUME Sound, job = "install", mishaps = 0, ReturnOldAppId
    PROVE  InstallTrue'
<1>1. /\ step = "oldAppId" /\ step' = "save" /\ Goto("save")
      /\ UNCHANGED <<manifest, target, original, job, claims>>
  BY Went DEF ReturnOldAppId, Installing, At
<1>2. Alone' = Alone
  BY <1>1, AloneGoto
<1>3. /\ InstallTrue /\ Typed /\ target \in Game /\ found = Game
  BY InstallFacts
<1>4. CASE manifest = None \/ manifest.game = target
  <2>1. disk' = disk
    BY <1>4 DEF ReturnOldAppId, Leaving
  <2>2. Truthful(target, disk, claims)'
    BY <1>1, <1>2, <1>3, <2>1 DEF InstallTrue, Truthful, AppIdBack
  <2>3. ASSUME NEW g \in Game \ {target}
        PROVE  /\ Truthful(g, disk, ClaimsOf(manifest, g))'
               /\ LovelyBack(g, disk)' /\ AppIdBack(g, disk)'
    <3>1. Truthful(g, disk, ClaimsOf(manifest, g)) /\ (manifest # None => manifest.game # g)
      BY <1>1, <1>3, <1>4, <2>3 DEF InstallTrue
    <3>2. LovelyBack(g, disk) /\ AppIdBack(g, disk)
      BY <3>1, Unclaimed
    <3> QED BY <1>1, <1>2, <2>1, <3>1, <3>2 DEF Truthful, AppIdBack, LovelyBack, ClaimsOf
  <2> QED BY <1>1, <2>2, <2>3 DEF InstallTrue
<1>5. CASE manifest # None /\ manifest.game # target
  <2>1. PICK h \in Game : h = manifest.game
    BY <1>3, <1>5 DEF Typed, TypeOK, Manifest
  <2> DEFINE p == AppId(h)
  <2>2. Leaving /\ h # target
    BY <1>3, <1>5, <2>1 DEF Leaving
  <2>3. /\ AppIdKept(h) /\ p \in Place /\ manifest.claims \in ClaimsOn(h)
    BY <1>5, <2>1, InstallFacts DEF ClaimsOn
  <2>4. /\ \A q \in Place \ {p} : disk'[q] = disk[q]
        /\ \A v : Write(p, v) => disk'[p] = v
    BY <1>3, <2>1, <2>3, Changed DEF ReturnOldAppId, Write
  <2>5. /\ \A g \in Game : disk'[Lovely(g)] = disk[Lovely(g)]
        /\ \A g \in Game \ {h} : disk'[AppId(g)] = disk[AppId(g)]
    BY <2>4, Places, Distinct
  <2>6. Truthful(h, disk, ClaimsOf(manifest, h)) /\ LovelyBack(h, disk)
    BY <1>1, <1>3, <2>2 DEF InstallTrue
  <2>7. /\ ~manifest.claims.appIdOwned => disk[p] = original[p]
        /\ manifest.claims.appIdOwned /\ ~manifest.claims.appIdBackup => original[p] = NoFile
    BY <1>5, <2>1, <2>6 DEF Truthful, ClaimsOf, AppIdBack
  <2>8. disk'[p] = original[p]
    <3>1. CASE manifest.claims.appIdOwned
      <4>1. AppIdGivenBack(h, manifest.claims.appIdBackup) = original[p]
        BY <2>3, <2>7, <3>1, GivenBackTrue
      <4>2. Write(p, AppIdGivenBack(h, manifest.claims.appIdBackup))
        BY <2>1, <2>2, <3>1 DEF ReturnOldAppId
      <4> QED BY <2>4, <4>1, <4>2
    <3>2. CASE ~manifest.claims.appIdOwned
      BY <2>7, <3>2 DEF ReturnOldAppId
    <3> QED BY <3>1, <3>2
  <2>9. Truthful(target, disk, claims)'
    BY <1>1, <1>2, <1>3, <2>2, <2>5 DEF InstallTrue, Truthful, AppIdBack
  <2>10. ASSUME NEW g \in Game \ {target}, g # h
         PROVE  /\ Truthful(g, disk, ClaimsOf(manifest, g))'
                /\ LovelyBack(g, disk)' /\ AppIdBack(g, disk)'
    <3>1. Truthful(g, disk, ClaimsOf(manifest, g)) /\ manifest.game # g
      BY <1>1, <1>3, <2>1, <2>10 DEF InstallTrue
    <3>2. LovelyBack(g, disk) /\ AppIdBack(g, disk)
      BY <3>1, Unclaimed
    <3> QED BY <1>1, <1>2, <2>5, <2>10, <3>1, <3>2 DEF Truthful, AppIdBack, LovelyBack, ClaimsOf
  <2>11. LovelyBack(h, disk)' /\ AppIdBack(h, disk)'
    BY <1>1, <1>2, <2>5, <2>6, <2>8 DEF LovelyBack, AppIdBack
  <2>12. Truthful(h, disk, ClaimsOf(manifest, h))'
    BY <1>1, <1>2, <2>5, <2>6, <2>8 DEF Truthful, AppIdBack, ClaimsOf
  <2> QED BY <1>1, <2>9, <2>10, <2>11, <2>12 DEF InstallTrue
<1> QED BY <1>4, <1>5

LEMMA TrueSaveManifest ==
    ASSUME Sound, job = "install", mishaps = 0, SaveManifest
    PROVE  InstallTrue'
<1>1. /\ step = "save" /\ step' = "commit" /\ Goto("commit")
      /\ UNCHANGED <<disk, target, original, job, claims>>
  BY Went DEF SaveManifest, Installing, At, diskVars
<1>2. Alone' = Alone
  BY <1>1, AloneGoto
<1>3. InstallTrue
  BY InstallFacts
<1>4. Truthful(target, disk, claims)'
  BY <1>1, <1>2, <1>3 DEF InstallTrue, Truthful, AppIdBack
<1>5. \A g \in Game \ {target} : LovelyBack(g, disk)' /\ AppIdBack(g, disk)'
  BY <1>1, <1>2, <1>3 DEF InstallTrue, LovelyBack, AppIdBack
<1> QED BY <1>1, <1>4, <1>5 DEF InstallTrue

LEMMA TruthInstallGame ==
    ASSUME Sound, job = "install",
           \/ BackUpLovely \/ ReplaceLovely \/ BackUpAppId \/ ReplaceAppId
           \/ ReturnOldLovely \/ ReturnOldAppId \/ SaveManifest
    PROVE  Truth'
<1>1. \E s : Goto(s)
  BY DEF BackUpLovely, ReplaceLovely, BackUpAppId, ReplaceAppId, ReturnOldLovely,
         ReturnOldAppId, SaveManifest
<1>2. mishaps = 0 => InstallTrue'
  BY TrueBackUpLovely, TrueReplaceLovely, TrueBackUpAppId, TrueReplaceAppId,
     TrueReturnOldLovely, TrueReturnOldAppId, TrueSaveManifest
<1>3. InLog(AlphaMod)' <=> InLog(AlphaMod)
  BY LogGame DEF Sound
<1> QED BY <1>1, <1>2, <1>3, TruthGoto

--------------------------------------------------------------------------------
(* The end of an install, restore and uninstall. *)

\* An operation that ends with the folders as the manifest says.
LEMMA TruthEnd ==
    ASSUME NEW r, End(r), r = "uninstalled" => manifest' = None,
           mishaps' = 0 => found' = Game /\ Tidy(disk, manifest)'
    PROVE  Truth'
<1>1. job' = "idle" /\ outcome' = r /\ ~Busy'
  BY Ended DEF Busy
<1> QED BY <1>1 DEF Truth

\* Tidiness depends on the files in the game folders and the retired mod's only.
LEMMA TidyStays ==
    ASSUME Tidy(disk, manifest), original' = original, manifest' = manifest,
           Alone' => Alone, \A q \in GamePlace : disk'[q] = disk[q],
           manifest # None => disk'[AlphaMod] = disk[AlphaMod]
    PROVE  Tidy(disk, manifest)'
<1>1. \A g \in Game : disk'[Lovely(g)] = disk[Lovely(g)] /\ disk'[AppId(g)] = disk[AppId(g)]
  BY Places
<1> QED BY <1>1 DEF Tidy, Truthful, AppIdBack, ClaimsOf

LEMMA TruthCommit ==
    ASSUME Sound, Commit
    PROVE  Truth'
<1>1. /\ job = "install" /\ step = "commit" /\ End("installed")
      /\ UNCHANGED <<disk, manifest, mishaps, found, original, used, otherMods>>
  BY DEF Commit, Installing, At, worldVars, originVars
<1>2. ASSUME mishaps' = 0
      PROVE  found' = Game /\ Tidy(disk, manifest)'
  <2>1. /\ mishaps = 0 /\ InstallTrue /\ Undoable /\ Progress /\ found = Game
        /\ target \in Game
    BY <1>1, <1>2, InstallFacts
  <2>2. /\ manifest = [game |-> target, build |-> build, claims |-> claims]
        /\ disk[AlphaMod] = NoFile
    BY <1>1, <2>1 DEF Progress, Present, PastAlphaMod, PastLovely, PastAppId,
                      PastMaintenance, PastSystem
  <2>3. Alone' => Alone
    <3>1. ~quarantined' => ~before.quarantined
      <4>1. CASE InLog(AlphaMod)
        BY <1>1, <2>1, <4>1 DEF Undoable
      <4>2. CASE ~InLog(AlphaMod)
        <5>1. quarantined' = quarantined
          BY <4>2 DEF Commit, InLog
        <5> QED BY <1>1, <2>1, <4>2, <5>1 DEF Undoable
      <4> QED BY <4>1, <4>2
    <3>2. ~Busy'
      BY <1>1, Ended DEF Busy
    <3> QED BY <1>1, <3>1, <3>2 DEF Alone, OneBuild, Busy
  <2>4. ASSUME NEW g \in Game, g # target
        PROVE  Truthful(g, disk, ClaimsOf(manifest, g))'
    <3>1. LovelyBack(g, disk) /\ AppIdBack(g, disk)
      BY <1>1, <2>1, <2>4 DEF InstallTrue
    <3>2. ClaimsOf(manifest, g)' = NoClaims
      BY <1>1, <2>2, <2>4 DEF ClaimsOf
    <3> QED BY <1>1, <2>3, <3>1, <3>2 DEF Truthful, LovelyBack, AppIdBack, NoClaims
  <2>5. ASSUME NEW g \in Game, g = target
        PROVE  Truthful(g, disk, ClaimsOf(manifest, g))'
    <3>1. Truthful(target, disk, claims)
      BY <2>1 DEF InstallTrue
    <3>2. manifest # None
      BY <1>1, <2>1, <2>2, NoneAssumption, InstallFacts
    <3>3. ClaimsOf(manifest, g)' = claims
      BY <1>1, <2>2, <2>5, <3>2 DEF ClaimsOf
    <3> QED BY <1>1, <2>3, <2>5, <3>1, <3>3 DEF Truthful, AppIdBack
  <2> QED BY <1>1, <2>1, <2>2, <2>4, <2>5 DEF Tidy
<1> QED BY <1>1, <1>2, TruthEnd

LEMMA TruthUndo ==
    ASSUME Sound, Fail \/ CommitFails \/ DropGuard \/ Undone \/ Crash
    PROVE  Truth'
<1>1. Typed /\ Undoable /\ Truth /\ mishaps \in Nat
  BY JobAssumption DEF Sound, Typed, TypeOK
<1>2. CASE CommitFails \/ Crash
  <2>1. /\ mishaps' # 0 /\ job' \in {"idle", "undoing"}
        /\ outcome' \in {outcome, "crashed"} /\ job # "idle"
    BY <1>1, <1>2, Ended DEF CommitFails, Crash, Installing
  <2> QED BY <1>1, <2>1 DEF Truth
<1>3. CASE Fail \/ DropGuard
  <2>1. /\ job \in {"install", "undoing"} /\ job' = "undoing"
        /\ UNCHANGED <<found, before, original, used, otherMods, mishaps, outcome, manifest>>
        /\ step' = "failed" \/ (job = "undoing" /\ step' = step)
    BY <1>3 DEF Fail, DropGuard, jobVars, worldVars, historyVars, originVars
  <2>2. Alone' = Alone /\ Busy /\ Busy'
    BY <2>1 DEF Alone, OneBuild, Busy
  <2>3. ASSUME mishaps = 0, before.manifest # None
        PROVE  ~InLog(AlphaMod)'
    <3>1. ~InLog(AlphaMod)
      BY <1>1, <2>2, <2>3 DEF Truth
    <3>2. CASE Fail
      BY <3>1, <3>2 DEF Fail, InLog
    <3>3. CASE DropGuard
      BY <1>1, <3>1, <3>3, Dropped
    <3> QED BY <1>3, <3>2, <3>3
  <2>4. mishaps = 0 => Tidy(before.disk, before.manifest)'
    BY <1>1, <2>1, <2>2, TrueBefore DEF Truth
  <2> QED BY <1>1, <2>1, <2>2, <2>3, <2>4 DEF Truth
<1>4. CASE Undone
  <2>1. /\ job = "undoing" /\ undo = <<>> /\ End(step) /\ step \in {"failed", "uncommitted"}
        /\ UNCHANGED <<disk, quarantined, manifest, mishaps, found, original, used, otherMods>>
    BY <1>1, <1>4 DEF Undone, diskVars, worldVars, originVars, Typed, Shape
  <2>2. ASSUME mishaps' = 0
        PROVE  found' = Game /\ Tidy(disk, manifest)'
    <3>1. /\ mishaps = 0 /\ step = "failed" /\ found = Game
          /\ Tidy(before.disk, before.manifest)
      BY <1>1, <2>1, <2>2 DEF Truth, Busy
    <3>2. \A p : ~InLog(p)
      BY <2>1 DEF InLog
    <3>3. before \in Snapshots /\ \A p \in Place : disk[p] = before.disk[p]
      BY <1>1, <2>1, <3>2 DEF Undoable, Owes
    <3>4. disk = before.disk
      BY <1>1, <3>3 DEF Snapshots, Typed, TypeOK, Disk
    <3>5. manifest = before.manifest /\ quarantined = before.quarantined
      BY <1>1, <2>1, <3>1, <3>2 DEF Undoable
    <3>6. Alone' = Alone
      <4>1. ~Busy'
        BY <2>1, Ended DEF Busy
      <4> QED BY <2>1, <3>5, <4>1 DEF Alone, OneBuild, Busy
    <3>7. Tidy(disk, manifest)
      BY <3>1, <3>4, <3>5
    <3> QED BY <2>1, <3>1, <3>6, <3>7, TidyStays
  <2> QED BY <2>1, <2>2, TruthEnd
<1> QED BY <1>2, <1>3, <1>4

LEMMA TruthBegin ==
    ASSUME Sound, Install \/ Repair \/ Restore \/ Uninstall
    PROVE  Truth'
<1>1. Typed /\ Undoable /\ Truth
  BY DEF Sound
<1>2. ASSUME NEW g \in Game, NEW b, BeginInstall(g, b)
      PROVE  Truth'
  <2>1. /\ job = "idle" /\ job' = "install" /\ step' = "runtime" /\ target' = g
        /\ claims' = Previous(g) /\ before' = Snapshot /\ outcome' = "none"
        /\ used' = used \cup {b}
        /\ UNCHANGED <<disk, quarantined, manifest, otherMods, found, undo, original, mishaps>>
    BY <1>2 DEF BeginInstall, diskVars, worldVars
  <2>2. ~Busy /\ Busy' /\ before'.disk = disk /\ before'.manifest = manifest
        /\ before'.quarantined = quarantined
    BY <2>1 DEF Busy, Snapshot
  <2>3. Alone' => Alone
    BY <2>1, <2>2 DEF Alone, OneBuild
  <2>4. ~InLog(AlphaMod)'
    BY <1>1, <2>1 DEF Undoable, InLog
  <2>5. ASSUME mishaps = 0
        PROVE  /\ found' = Game /\ Tidy(before.disk, before.manifest)' /\ InstallTrue'
    <3>1. Tidy(disk, manifest) /\ found = Game
      BY <1>1, <2>2, <2>5 DEF Truth
    <3>2. Tidy(before.disk, before.manifest)'
      BY <2>1, <2>2, <2>3, <3>1 DEF Tidy, Truthful, AppIdBack
    <3>3. \A h \in Game : Truthful(h, disk, ClaimsOf(manifest, h))'
      BY <2>1, <2>3, <3>1 DEF Tidy, Truthful, AppIdBack, ClaimsOf
    <3>4. claims' = ClaimsOf(manifest, g)
      BY <2>1 DEF Previous, ClaimsOf
    <3>5. Truthful(target, disk, claims)'
      BY <2>1, <2>3, <3>1, <3>4 DEF Tidy, Truthful, AppIdBack
    <3> QED BY <2>1, <3>1, <3>2, <3>3, <3>5 DEF InstallTrue
  <2> QED BY <2>1, <2>2, <2>4, <2>5 DEF Truth
<1>3. ASSUME NEW kind \in {"restore", "uninstall"}, Begin(kind)
      PROVE  Truth'
  <2>1. /\ job = "idle" /\ job' = kind /\ step' = "mod" /\ outcome' = "none"
        /\ UNCHANGED <<disk, quarantined, manifest, otherMods, found, original, used, mishaps>>
    BY <1>3 DEF Begin, diskVars, worldVars
  <2>2. ~Busy /\ ~Busy'
    BY <2>1 DEF Busy
  <2>3. Alone' = Alone
    BY <2>1, <2>2 DEF Alone, OneBuild
  <2>4. mishaps = 0 => Tidy(disk, manifest)'
    BY <1>1, <2>1, <2>2, <2>3, TidyStays DEF Truth
  <2> QED BY <1>1, <2>1, <2>2, <2>4 DEF Truth, RemovalTrue
<1>4. Repair => \E g \in Game, b \in Build : BeginInstall(g, b)
  BY <1>1 DEF Repair, Typed, TypeOK, Manifest
<1> QED BY <1>2, <1>3, <1>4 DEF Install, Restore, Uninstall

\* A step of a removal, given the truth of its claims after it.
LEMMA TruthRemovalStep ==
    ASSUME Sound, job \in {"restore", "uninstall"}, NEW s, Goto(s),
           s = "rest" => manifest' = None,
           mishaps = 0 => Tidy(disk, manifest)' /\ (job = "uninstall" => RemovalTrue')
    PROVE  Truth'
<1>1. Truth /\ ~Busy /\ ~Busy'
  BY Went DEF Sound, Busy
<1> QED BY <1>1, Went DEF Truth

\* The facts a removal starts from.
LEMMA RemovalFacts ==
    ASSUME Sound, job \in {"restore", "uninstall"}, step # "rest", mishaps = 0
    PROVE  /\ Typed /\ found = Game /\ target \in Game /\ ~Exposed
           /\ Tidy(disk, manifest) /\ (job = "uninstall" => RemovalTrue)
           /\ manifest # None /\ manifest.game = target
           /\ \A g \in Game : AppIdKept(g) /\ LovelyKept(g)
           /\ disk[AlphaMod] = NoFile /\ ~Busy
  BY DEF Sound, Typed, Shape, Truth, Progress, Originals, Exposed, Busy, Tidy

LEMMA TruthRemoveMod ==
    ASSUME Sound, RemoveMod
    PROVE  Truth'
<1>1. /\ job \in {"restore", "uninstall"} /\ step = "mod" /\ step' = "lovely" /\ Goto("lovely")
      /\ UNCHANGED <<manifest, original, quarantined, target>> /\ Typed
  BY Went DEF RemoveMod, Removing, At, Sound
<1>2. \A q \in Place \ {Mod} : disk'[q] = disk[q]
  BY <1>1, Places, Changed DEF RemoveMod, Put
<1>3. (\A q \in GamePlace : disk'[q] = disk[q]) /\ disk'[AlphaMod] = disk[AlphaMod]
  BY <1>2, Places, Distinct
<1>4. Alone' = Alone
  BY <1>1, AloneGoto
<1>5. mishaps = 0 => Tidy(disk, manifest)'
  BY <1>1, <1>3, <1>4, RemovalFacts, TidyStays
<1>6. RemovalTrue'
  BY <1>1 DEF RemovalTrue
<1> QED BY <1>1, <1>5, <1>6, TruthRemovalStep

LEMMA TruthReturnLovely ==
    ASSUME Sound, ReturnLovely
    PROVE  Truth'
<1>1. /\ job \in {"restore", "uninstall"} /\ step = "lovely" /\ step' = "appId" /\ Goto("appId")
      /\ UNCHANGED <<manifest, original, quarantined, target, job>> /\ Typed
  BY Went DEF ReturnLovely, Removing, At, Sound
<1>2. Alone' = Alone
  BY <1>1, AloneGoto
<1>3. ASSUME mishaps = 0
      PROVE  Tidy(disk, manifest)' /\ (job = "uninstall" => RemovalTrue')
  <2>1. /\ found = Game /\ target \in Game /\ ~Exposed /\ Tidy(disk, manifest)
        /\ manifest # None /\ manifest.game = target
        /\ disk[AlphaMod] = NoFile /\ ~Busy
    BY <1>1, <1>3, RemovalFacts
  <2>2. PICK h \in Game : h = target
    BY <2>1
  <2> DEFINE p == Lovely(h)
  <2> DEFINE c == manifest.claims
  <2>3. LovelyKept(h) /\ p \in Place /\ manifest.claims \in ClaimsOn(h)
    BY <1>1, <1>3, <2>1, <2>2, RemovalFacts, Places DEF ClaimsOn
  <2>4. /\ \A q \in Place \ {p} : disk'[q] = disk[q]
        /\ \A v : Put(p, v) => disk'[p] = v
    BY <1>1, <2>2, <2>3, Changed DEF ReturnLovely, Put
  <2>5. /\ \A g \in Game : disk'[AppId(g)] = disk[AppId(g)]
        /\ \A g \in Game \ {h} : disk'[Lovely(g)] = disk[Lovely(g)]
        /\ disk'[AlphaMod] = disk[AlphaMod]
    BY <2>4, Places, Distinct
  <2>6. Truthful(h, disk, ClaimsOf(manifest, h))
    BY <2>1 DEF Tidy
  <2>7. /\ ~c.lovelyBackup => original[p] \in {NoFile, disk[p]}
        /\ c.lovelyOwned => original[p] = NoFile
        /\ Alone /\ ~c.lovelyOwned /\ ~c.lovelyBackup => disk[p] = original[p]
    BY <2>1, <2>2, <2>6 DEF Truthful, ClaimsOf
  <2>8. Alone => ~OtherLovelyMods
    BY <2>1 DEF Alone, OtherLovelyMods, Present
  <2>9. Reachable
    BY <2>1 DEF Reachable
  <2>10. \/ disk'[p] = disk[p] /\ job # "uninstall"
         \/ original[p] \in {NoFile, disk'[p]} /\ (Alone => disk'[p] = original[p])
    <3>1. CASE Recorded(c.lovelyBackup, p) /\ Put(p, backup[p])
      BY <2>1, <2>3, <2>4, <3>1, LovelyBackUp DEF Recorded
    <3>2. CASE c.lovelyOwned /\ Put(p, NoFile)
      BY <2>4, <2>7, <3>2
    <3>3. CASE /\ disk' = disk
               /\ \/ c.lovelyBackup /\ ~Recorded(TRUE, p)
                  \/ /\ ~c.lovelyBackup
                     /\ \/ ~c.lovelyOwned \/ ~Present(p)
                        \/ job = "uninstall" /\ OtherLovelyMods
      <4>1. ~c.lovelyBackup
        BY <2>3, <3>3 DEF LovelyKept, Recorded
      <4> QED BY <2>7, <2>8, <3>3, <4>1 DEF Present
    <3> QED BY <2>2, <2>9, <3>1, <3>2, <3>3 DEF ReturnLovely
  <2>11. Truthful(h, disk, ClaimsOf(manifest, h))'
    BY <1>1, <1>2, <2>1, <2>2, <2>5, <2>6, <2>10 DEF Truthful, AppIdBack, ClaimsOf
  <2>12. ASSUME NEW g \in Game \ {h}
         PROVE  Truthful(g, disk, ClaimsOf(manifest, g))'
    BY <1>1, <1>2, <2>1, <2>5 DEF Tidy, Truthful, AppIdBack, ClaimsOf
  <2>13. Tidy(disk, manifest)'
    BY <2>1, <2>5, <2>11, <2>12 DEF Tidy
  <2>14. job = "uninstall" => LovelyBack(target, disk)'
    <3> SUFFICES ASSUME job = "uninstall" PROVE LovelyBack(target, disk)'
      OBVIOUS
    <3> QED BY <1>1, <1>2, <2>2, <2>10 DEF LovelyBack
  <2> QED BY <1>1, <2>13, <2>14 DEF RemovalTrue
<1> QED BY <1>1, <1>3, TruthRemovalStep

LEMMA TruthReturnAppId ==
    ASSUME Sound, ReturnAppId
    PROVE  Truth'
<1>1. /\ job \in {"restore", "uninstall"} /\ step = "appId" /\ step' = "manifest"
      /\ Goto("manifest")
      /\ UNCHANGED <<manifest, original, quarantined, target, job>> /\ Typed
  BY Went DEF ReturnAppId, Removing, At, Sound
<1>2. Alone' = Alone
  BY <1>1, AloneGoto
<1>3. ASSUME mishaps = 0
      PROVE  Tidy(disk, manifest)' /\ (job = "uninstall" => RemovalTrue')
  <2>1. /\ found = Game /\ target \in Game /\ Tidy(disk, manifest)
        /\ manifest # None /\ manifest.game = target /\ disk[AlphaMod] = NoFile
        /\ job = "uninstall" => RemovalTrue
    BY <1>1, <1>3, RemovalFacts
  <2>2. PICK h \in Game : h = target
    BY <2>1
  <2> DEFINE p == AppId(h)
  <2> DEFINE c == manifest.claims
  <2>3. AppIdKept(h) /\ p \in Place /\ manifest.claims \in ClaimsOn(h)
    BY <1>1, <1>3, <2>1, <2>2, RemovalFacts, Places DEF ClaimsOn
  <2>4. /\ \A q \in Place \ {p} : disk'[q] = disk[q]
        /\ \A v : Put(p, v) => disk'[p] = v
    BY <1>1, <2>2, <2>3, Changed DEF ReturnAppId, Put
  <2>5. /\ \A g \in Game : disk'[Lovely(g)] = disk[Lovely(g)]
        /\ \A g \in Game \ {h} : disk'[AppId(g)] = disk[AppId(g)]
        /\ disk'[AlphaMod] = disk[AlphaMod]
    BY <2>4, Places, Distinct
  <2>6. Truthful(h, disk, ClaimsOf(manifest, h))
    BY <2>1 DEF Tidy
  <2>7. /\ ~c.appIdOwned => disk[p] = original[p]
        /\ c.appIdOwned /\ ~c.appIdBackup => original[p] = NoFile
    BY <2>1, <2>2, <2>6 DEF Truthful, ClaimsOf, AppIdBack
  <2>8. Reachable
    BY <2>1 DEF Reachable
  <2>9. disk'[p] = original[p]
    <3>1. CASE Recorded(c.appIdBackup, p) \/ (~c.appIdBackup /\ c.appIdOwned)
      <4>1. AppIdGivenBack(h, c.appIdBackup) = original[p]
        BY <2>3, <2>7, <3>1, GivenBackTrue
      <4>2. Put(p, AppIdGivenBack(h, c.appIdBackup))
        BY <2>2, <2>8, <3>1 DEF ReturnAppId
      <4> QED BY <2>4, <4>1, <4>2
    <3>2. CASE ~(Recorded(c.appIdBackup, p) \/ (~c.appIdBackup /\ c.appIdOwned))
      <4>1. ~c.appIdOwned
        BY <2>3, <3>2 DEF AppIdKept, Recorded
      <4>2. disk' = disk
        BY <2>2, <3>2 DEF ReturnAppId
      <4> QED BY <2>7, <4>1, <4>2
    <3> QED BY <3>1, <3>2
  <2>10. Truthful(h, disk, ClaimsOf(manifest, h))'
    BY <1>1, <1>2, <2>1, <2>2, <2>5, <2>6, <2>9 DEF Truthful, AppIdBack, ClaimsOf
  <2>11. ASSUME NEW g \in Game \ {h}
         PROVE  Truthful(g, disk, ClaimsOf(manifest, g))'
    BY <1>1, <1>2, <2>1, <2>5 DEF Tidy, Truthful, AppIdBack, ClaimsOf
  <2>12. Tidy(disk, manifest)'
    BY <2>1, <2>5, <2>10, <2>11 DEF Tidy
  <2>13. job = "uninstall" => LovelyBack(target, disk)' /\ AppIdBack(target, disk)'
    <3> SUFFICES ASSUME job = "uninstall"
                 PROVE  LovelyBack(target, disk)' /\ AppIdBack(target, disk)'
      OBVIOUS
    <3>1. LovelyBack(target, disk)
      BY <1>1, <2>1 DEF RemovalTrue
    <3> QED BY <1>1, <1>2, <2>2, <2>5, <2>9, <3>1 DEF LovelyBack, AppIdBack
  <2> QED BY <1>1, <2>12, <2>13 DEF RemovalTrue
<1> QED BY <1>1, <1>3, TruthRemovalStep

\* Once both files of its folder are back nothing is left to claim.
LEMMA TruthForget ==
    ASSUME Sound, ForgetManifest
    PROVE  Truth'
<1>1. /\ job = "uninstall" /\ step = "manifest" /\ step' = "rest" /\ Goto("rest")
      /\ UNCHANGED <<disk, original, quarantined, target, job>> /\ manifest' = None
  BY Went DEF ForgetManifest, At, diskVars
<1>2. Alone' = Alone
  BY <1>1, AloneGoto
<1>3. ASSUME mishaps = 0
      PROVE  Tidy(disk, manifest)' /\ RemovalTrue'
  <2>1. /\ target \in Game /\ Tidy(disk, manifest) /\ RemovalTrue
        /\ manifest # None /\ manifest.game = target
    BY <1>1, <1>3, RemovalFacts
  <2>2. LovelyBack(target, disk) /\ AppIdBack(target, disk)
    BY <1>1, <2>1 DEF RemovalTrue
  <2>3. ASSUME NEW g \in Game
        PROVE  LovelyBack(g, disk) /\ AppIdBack(g, disk)
    BY <2>1, <2>2, Unclaimed DEF Tidy
  <2>4. Tidy(disk, manifest)'
    BY <1>1, <1>2, <2>3 DEF Tidy, Truthful, ClaimsOf, NoClaims, LovelyBack, AppIdBack
  <2>5. RemovalTrue'
    BY <1>1, <1>2, <2>2 DEF RemovalTrue, LovelyBack, AppIdBack
  <2> QED BY <2>4, <2>5
<1> QED BY <1>1, <1>3, TruthRemovalStep

LEMMA TruthRemovalEnd ==
    ASSUME Sound, Restored \/ RemoveRest \/ Stop
    PROVE  Truth'
<1>1. Typed /\ Truth
  BY DEF Sound
<1>2. /\ job \in {"restore", "uninstall"} /\ ~Busy
      /\ UNCHANGED <<manifest, quarantined, mishaps, found, original, used, otherMods>>
      /\ RemoveRest => manifest = None
  BY <1>1 DEF Restored, RemoveRest, Stop, At, Busy, Truth, diskVars, worldVars, originVars
<1>3. PICK r : End(r) /\ (r = "uninstalled" => RemoveRest)
  <2>1. CASE Restored
    BY <2>1 DEF Restored
  <2>2. CASE RemoveRest
    BY <2>2 DEF RemoveRest
  <2>3. CASE Stop
    BY <2>3 DEF Stop
  <2> QED BY <2>1, <2>2, <2>3
<1>4. Alone' = Alone
  <2>1. ~Busy'
    BY <1>3, Ended DEF Busy
  <2> QED BY <1>2, <2>1 DEF Alone, OneBuild
<1>5. /\ \A q \in GamePlace : disk'[q] = disk[q]
      /\ manifest # None => disk'[AlphaMod] = disk[AlphaMod]
  BY <1>2, Places, Distinct DEF Restored, RemoveRest, Stop, diskVars
<1>6. mishaps' = 0 => found' = Game /\ Tidy(disk, manifest)'
  BY <1>1, <1>2, <1>4, <1>5, TidyStays DEF Truth
<1> QED BY <1>2, <1>3, <1>6, TruthEnd

LEMMA TruthOutside ==
    ASSUME Sound, Outside
    PROVE  Truth'
<1>1. /\ job = "idle" /\ job' = "idle" /\ outcome' = outcome
      /\ UNCHANGED <<disk, manifest, quarantined, original, used, otherMods>>
      /\ Truth /\ mishaps \in Nat /\ ~Busy /\ ~Busy'
      /\ mishaps' = mishaps => found \subseteq found' /\ found' \subseteq Game \cup found
      /\ mishaps' \in {mishaps, mishaps + 1}
  <2>1. PICK g \in Game : Adopt(g) \/ Vanish(g) \/ Reappear(g)
    BY DEF Outside
  <2>2. mishaps \in Nat
    BY JobAssumption DEF Sound, Typed, TypeOK
  <2> QED BY <2>1, <2>2 DEF Adopt, Vanish, Reappear, diskVars, jobVars, historyVars, originVars,
             Sound, Busy
<1>2. Alone' = Alone
  BY <1>1 DEF Alone, OneBuild
<1>3. mishaps' = 0 => found' = Game /\ Tidy(disk, manifest)'
  BY <1>1, <1>2, TidyStays DEF Truth
<1> QED BY <1>1, <1>3 DEF Truth

LEMMA TruthNext == Sound /\ [Next]_vars => Truth'
<1> SUFFICES ASSUME Sound, [Next]_vars PROVE Truth'
  OBVIOUS
<1>1. CASE Install \/ Repair \/ Restore \/ Uninstall
  BY <1>1, TruthBegin
<1>2. CASE InstallStep
  <2>1. \/ job = "install" \/ Commit \/ Fail \/ CommitFails \/ DropGuard \/ Undone
    BY <1>2 DEF InstallStep, ReplaceRuntime, RemoveAlphaRuntime, MoveModAside,
                ActivateMod, QuarantineAlphaMod, BackUpLovely, ReplaceLovely, BackUpAppId,
                ReplaceAppId, KeepMaintenanceCopy, Register, ReturnOldLovely,
                ReturnOldAppId, SaveManifest, Installing
  <2> QED BY <1>2, <2>1, TruthInstall, TruthInstallGame, TruthCommit, TruthUndo DEF InstallStep
<1>3. CASE RemovalStep
  BY <1>3, TruthRemoveMod, TruthReturnLovely, TruthReturnAppId, TruthForget, TruthRemovalEnd
     DEF RemovalStep
<1>4. CASE Crash
  BY <1>4, TruthUndo
<1>5. CASE Outside
  BY <1>5, TruthOutside
<1>6. CASE UNCHANGED vars
  BY <1>6 DEF Sound, Truth, Tidy, Truthful, ClaimsOf, LovelyBack, AppIdBack, Alone, OneBuild, Busy,
              InstallTrue, RemovalTrue, InLog, WritesAppId, Present, vars
<1> QED BY <1>1, <1>2, <1>3, <1>4, <1>5, <1>6 DEF Next

LEMMA TruthInit == Init => Truth
<1> SUFFICES ASSUME Init PROVE Truth
  OBVIOUS
<1>1. /\ job = "idle" /\ manifest = None /\ found = Game /\ outcome = "none"
      /\ \A p \in GamePlace : disk[p] = original[p]
  BY Places DEF Init
<1>2. Tidy(disk, manifest)
  BY <1>1, Places DEF Tidy, Truthful, ClaimsOf, NoClaims, AppIdBack
<1> QED BY <1>1, <1>2 DEF Truth, Busy

--------------------------------------------------------------------------------
(* What follows for the users' files. *)

\* All of a set of one element, or none, are one.
LEMMA FewBuilds ==
    ASSUME IsFiniteSet(used), ~(Cardinality(used) > 1)
    PROVE  OneBuild
<1>1. Cardinality(used) \in Nat
  BY FS_CardinalityType
<1>2. CASE Cardinality(used) = 0
  BY <1>2, FS_EmptySet DEF OneBuild
<1>3. CASE Cardinality(used) = 1
  <2>1. \E b : used = {b}
    BY <1>3, FS_Singleton
  <2> QED BY <2>1 DEF OneBuild
<1> QED BY <1>1, <1>2, <1>3

\* What an install, a restore and an uninstall promise of the files: an install
\* that reports success is whole; what a game folder came with is never lost,
\* whatever fails or is cut short; and an uninstall gives it back (:960-1154,
\* :1601-1627). The run's bounds on jobs and mishaps, and its two games and two
\* builds, are any here.
THEOREM FilesAreSafe == Spec => []FilesSafe
<1>1. Init => Sound
  BY TypedInit, UndoableInit, ProgressInit, OriginalsInit, TruthInit DEF Sound
<1>2. Sound /\ [Next]_vars => Sound'
  BY TypedNext, UndoableNext, ProgressNext, OriginalsNext, TruthNext DEF Sound
<1>3. Sound => FilesSafe
  <2> SUFFICES ASSUME Sound PROVE FilesSafe
    OBVIOUS
  <2>1. /\ Progress /\ Originals /\ Truth /\ mishaps \in Nat
        /\ used \subseteq Build
    BY JobAssumption DEF Sound, Typed, TypeOK
  <2>2. InstalledIsWhole
    BY <2>1 DEF Progress
  <2>3. OriginalKept
    <3>1. ASSUME NEW g \in Game
          PROVE  original[AppId(g)] \in {NoFile, disk[AppId(g)], backup[AppId(g)]}
      BY <2>1 DEF Originals, AppIdKept, Kept, Lying
    <3>2. ASSUME NEW g \in Game
          PROVE  \/ original[Lovely(g)] \in {NoFile, disk[Lovely(g)], backup[Lovely(g)]}
                 \/ mishaps > 0 /\ Cardinality(used) > 1
      <4>1. CASE ~Exposed
        BY <2>1, <4>1 DEF Originals, LovelyKept, Kept, Lying
      <4>2. CASE Exposed
        BY <2>1, <4>2, FewBuilds DEF Exposed, Originals
      <4> QED BY <4>1, <4>2
    <3>3. \A g \in Game : Lovely(g)[1] = "lovely"
      BY DEF Lovely
    <3>4. \A p \in GamePlace : \/ original[p] \in {NoFile, disk[p], backup[p]}
                               \/ p[1] = "lovely" /\ mishaps > 0 /\ Cardinality(used) > 1
      BY <3>1, <3>2, <3>3, GamePlaces
    <3> QED BY <3>4 DEF OriginalKept
  <2>4. GameRestored
    <3> SUFFICES ASSUME outcome = "uninstalled", mishaps = 0, NEW g \in Game
                 PROVE  /\ disk[AppId(g)] = original[AppId(g)]
                        /\ Cardinality(used) = 1 /\ ~OtherLovelyMods =>
                              disk[Lovely(g)] = original[Lovely(g)]
      BY DEF GameRestored
    <3>1. ~Busy /\ manifest = None /\ Tidy(disk, None)
      BY <2>1 DEF Truth, Busy
    <3>2. LovelyBack(g, disk) /\ AppIdBack(g, disk)
      BY <3>1, Unclaimed DEF Tidy
    <3>3. Cardinality(used) = 1 /\ ~OtherLovelyMods => Alone
      <4>1. Cardinality(used) = 1 => OneBuild
        BY <2>1, FewBuilds DEF Originals
      <4> QED BY <3>1, <4>1 DEF Alone, OtherLovelyMods
    <3> QED BY <3>2, <3>3 DEF LovelyBack, AppIdBack
  <2> QED BY <2>2, <2>3, <2>4 DEF FilesSafe
<1> QED BY <1>1, <1>2, <1>3, PTL DEF Spec
================================================================================
