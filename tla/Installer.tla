------------------------------- MODULE Installer -------------------------------
(***************************************************************************)
(* The file transaction of the installer (companion/src/installer.rs):     *)
(* install, repair and move, restore of the game files, and uninstall.     *)
(* Each file operation is a step of its own. A step may fail, and then     *)
(* install undoes its rollback guards in reverse order while restore and   *)
(* uninstall just stop; or the process may die between two steps, and then *)
(* the guards die with it.                                                 *)
(*                                                                         *)
(* One program runs at a time and one game folder is managed at a time.    *)
(* A file is its contents: the name of the build whose payload it is, or   *)
(* one of the users' own files.                                            *)
(***************************************************************************)
EXTENDS Naturals, Sequences, FiniteSets

CONSTANTS
    Game,           \* folders with a copy of the game
    Anywhere,       \* the owner of what is installed once for all games
    Build,          \* installer builds, each with payloads of its own
    NoFile,
    UserDll,        \* a version.dll of the user's that is not Lovely
    UserLovely,     \* a Lovely injector of the user's
    UserAppId,      \* a steam_appid.txt of the user's
    OurAppId,       \* the contents the installer writes there
    Alpha,          \* what a retired alpha release left behind
    None,           \* no manifest, or no snapshot
    InitFiles,      \* what the games may come with, for each place in their folders
    MaxJobs,        \* bound on the operations started
    MaxMishaps      \* bound on crashes, failed commits and vanished folders

Runtime == <<"runtime", Anywhere>>
AlphaRuntime == <<"alphaRuntime", Anywhere>>
Mod == <<"mod", Anywhere>>
AlphaMod == <<"alphaMod", Anywhere>>
Maintenance == <<"maintenance", Anywhere>>
Lovely(g) == <<"lovely", g>>
AppId(g) == <<"appId", g>>

GamePlace == {"lovely", "appId"} \X Game
Place == {Runtime, AlphaRuntime, Mod, AlphaMod, Maintenance} \cup GamePlace
Content == Build \cup {NoFile, UserDll, UserLovely, UserAppId, OurAppId, Alpha}
Injector == Build \cup {UserLovely}

\* What may be found at a place.
Fits(p) ==
    {NoFile} \cup (IF p[1] \in {"runtime", "mod", "maintenance"} THEN Build
                   ELSE IF p[1] \in {"alphaRuntime", "alphaMod"} THEN {Alpha}
                   ELSE IF p[1] = "lovely" THEN Injector \cup {UserDll}
                   ELSE {UserAppId, OurAppId})

ASSUME GameAssumption == Anywhere \notin Game /\ IsFiniteSet(Game)
ASSUME FileAssumption ==
    /\ Build \cap {NoFile, UserDll, UserLovely, UserAppId, OurAppId, Alpha} = {}
    /\ NoFile \notin {UserDll, UserLovely, UserAppId, OurAppId, Alpha}
    /\ UserAppId # OurAppId
ASSUME InitAssumption ==
    \A files \in InitFiles :
        files \in [GamePlace -> Content] /\ \A p \in GamePlace : files[p] \in Fits(p) \ Build
ASSUME JobAssumption == MaxJobs \in Nat /\ MaxMishaps \in Nat

\* What a manifest says of the two files in the game folder.
Claims == [lovelyOwned : BOOLEAN, lovelyBackup : BOOLEAN,
           appIdOwned : BOOLEAN, appIdBackup : BOOLEAN]
NoClaims == [lovelyOwned |-> FALSE, lovelyBackup |-> FALSE,
             appIdOwned |-> FALSE, appIdBackup |-> FALSE]
Manifest == [game : Game, build : Build, claims : Claims] \cup {None}
ASSUME NoneAssumption == None \notin [game : Game, build : Build, claims : Claims]

VARIABLES
    disk,           \* the contents of every place
    backup,         \* data_dir/backups, a name for each place in a game folder
    manifest,       \* install-manifest.json
    registered,     \* the firewall rule and the uninstall entry exist
    quarantined,    \* a .BeatblockTogether.rollback- folder lies in Mods
    litter,         \* a .BeatblockOnline.stage- folder nobody works on lies in Mods
    otherMods,      \* another Lovely mod is installed
    steam,          \* the folders Steam lists as its own
    found           \* the folders that validate as a game
VARIABLES
    job,            \* "idle", or what the program is doing
    step,           \* its next step
    target,         \* the game folder it works on, Anywhere when idle
    build,          \* the build that runs, NoFile when idle
    claims,         \* the claims of the manifest it will write
    undo            \* its rollback guards, latest first
VARIABLES           \* histories, read by the properties and the bounds only
    original,       \* what the game folders came with
    before,         \* disk, manifest and folders in Mods when the install began
    outcome,        \* how the last operation ended
    used,           \* the builds that have installed
    jobs, mishaps

diskVars == <<disk, backup, quarantined>>
worldVars == <<litter, otherMods, steam, found>>
jobVars == <<job, target, build>>
originVars == <<original, used, jobs>>
historyVars == <<originVars, before>>
vars == <<disk, backup, quarantined, manifest, registered, litter, otherMods, steam, found,
          job, step, target, build, claims, undo,
          original, before, outcome, used, jobs, mishaps>>

Jobs == {"idle", "install", "undoing", "restore", "uninstall"}
Outcome == {"none", "installed", "failed", "uncommitted", "restored",
            "uninstalled", "stopped", "crashed"}

Present(p) == disk[p] # NoFile
Snapshot == [disk |-> disk, manifest |-> manifest, quarantined |-> quarantined,
             litter |-> litter]

Init ==
    /\ original \in InitFiles
    /\ \E alpha \in {NoFile, Alpha} :
          disk = [p \in Place |-> IF p \in GamePlace THEN original[p]
                                  ELSE IF p \in {AlphaRuntime, AlphaMod} THEN alpha
                                  ELSE NoFile]
    /\ backup = [p \in GamePlace |-> NoFile]
    /\ manifest = None /\ registered = FALSE
    /\ quarantined = FALSE /\ litter = FALSE /\ otherMods \in BOOLEAN
    /\ steam = {} /\ found = Game
    /\ job = "idle" /\ step = "none"
    /\ target = Anywhere /\ build = NoFile
    /\ claims = NoClaims /\ undo = <<>>
    /\ before = None /\ outcome = "none"
    /\ used = {} /\ jobs = 0 /\ mishaps = 0

--------------------------------------------------------------------------------
(* Files. *)

\* FileRollback::replace and ::remove: the file changes and a guard remembers it.
Write(p, content) ==
    /\ disk' = [disk EXCEPT ![p] = content]
    /\ undo' = <<[place |-> p, was |-> disk[p]]>> \o undo

\* A step of restore or uninstall, which keeps no guards.
Put(p, content) ==
    /\ disk' = [disk EXCEPT ![p] = content]
    /\ UNCHANGED undo

\* Does Mods hold a Lovely package that is not the program's own? The folder a
\* quarantined alpha package lies in is not among the names left out.
OtherLovelyMods == otherMods \/ quarantined \/ Present(AlphaMod)

\* The backup a manifest names, when its file is there.
Recorded(claim, p) == claim /\ backup[p] # NoFile

At(s) == step = s
Goto(s) == step' = s /\ UNCHANGED <<jobVars, outcome, mishaps, worldVars, historyVars>>

\* The operation is over. What remains is on disk.
End(result) ==
    /\ job' = "idle" /\ step' = "none"
    /\ target' = Anywhere /\ build' = NoFile
    /\ claims' = NoClaims /\ undo' = <<>> /\ before' = None
    /\ outcome' = result

--------------------------------------------------------------------------------
(* Install, update, repair and move. *)

\* Mutant of Previous: the manifest's claims whatever its game folder.
PreviousOfAnyGame(g) == IF manifest = None THEN NoClaims ELSE manifest.claims

\* The claims an install starts from: those of the manifest, if it is for this
\* game folder.
Previous(g) ==
    IF manifest # None /\ manifest.game = g THEN manifest.claims ELSE NoClaims

BeginInstall(g, b) ==
    /\ job = "idle" /\ jobs < MaxJobs /\ g \in found
    /\ job' = "install" /\ step' = "runtime" /\ target' = g /\ build' = b
    /\ claims' = Previous(g)
    /\ before' = Snapshot /\ outcome' = "none"
    /\ used' = used \cup {b} /\ jobs' = jobs + 1
    /\ UNCHANGED <<diskVars, manifest, registered, worldVars, undo, original, mishaps>>

Install == \E g \in Game, b \in Build : BeginInstall(g, b)
Repair == manifest # None /\ \E b \in Build : BeginInstall(manifest.game, b)

Installing(s) == job = "install" /\ At(s)

ReplaceRuntime ==
    /\ Installing("runtime") /\ Goto("alphaRuntime")
    /\ Write(Runtime, build)
    /\ UNCHANGED <<backup, quarantined, manifest, registered, claims>>

\* Mutant of RemoveAlphaFile: no guard remembers the file.
RemoveUnguarded(p) == disk' = [disk EXCEPT ![p] = NoFile] /\ UNCHANGED undo

\* What a retired release left is removed under a guard.
RemoveAlphaFile(p) == Write(p, NoFile)

RemoveAlphaRuntime ==
    /\ Installing("alphaRuntime") /\ Goto("modAside")
    /\ IF Present(AlphaRuntime) THEN RemoveAlphaFile(AlphaRuntime)
                                ELSE UNCHANGED <<disk, undo>>
    /\ UNCHANGED <<backup, quarantined, manifest, registered, claims>>

\* DirectoryRollback::activate is two renames.
MoveModAside ==
    /\ Installing("modAside") /\ Goto("modIn")
    /\ Write(Mod, NoFile)
    /\ UNCHANGED <<backup, quarantined, manifest, registered, claims>>

ActivateMod ==
    /\ Installing("modIn") /\ Goto("alphaMod")
    /\ Put(Mod, build)
    /\ UNCHANGED <<backup, quarantined, manifest, registered, claims>>

QuarantineAlphaMod ==
    /\ Installing("alphaMod") /\ Goto("lovelyBackup")
    /\ IF Present(AlphaMod)
       THEN RemoveAlphaFile(AlphaMod) /\ quarantined' = TRUE
       ELSE UNCHANGED <<disk, undo, quarantined>>
    /\ UNCHANGED <<backup, manifest, registered, claims>>

\* Mutant of NeedsBackup: a backup that exists is made again.
NeedsBackupAlways(g) == Present(Lovely(g)) /\ disk[Lovely(g)] # build

NeedsBackup(g) ==
    /\ Present(Lovely(g))
    /\ disk[Lovely(g)] # build
    /\ ~Recorded(claims.lovelyBackup, Lovely(g))

BackUpLovely ==
    /\ Installing("lovelyBackup") /\ Goto("lovely")
    /\ \/ /\ NeedsBackup(target)
          /\ backup' = [backup EXCEPT ![Lovely(target)] = disk[Lovely(target)]]
          /\ claims' = [claims EXCEPT !.lovelyBackup = TRUE]
       \/ /\ ~Present(Lovely(target)) /\ ~claims.lovelyBackup
          /\ claims' = [claims EXCEPT !.lovelyOwned = TRUE]
          /\ UNCHANGED backup
       \/ /\ ~NeedsBackup(target)
          /\ Present(Lovely(target)) \/ claims.lovelyBackup
          /\ UNCHANGED <<backup, claims>>
    /\ UNCHANGED <<disk, quarantined, manifest, registered, undo>>

\* A compatible injector that is not the program's own is left in place.
Preserve(g) ==
    /\ disk[Lovely(g)] \in Injector
    /\ disk[Lovely(g)] # build
    /\ ~claims.lovelyOwned

ReplaceLovely ==
    /\ Installing("lovely") /\ Goto("appIdBackup")
    /\ IF Preserve(target) THEN UNCHANGED <<disk, undo>>
                           ELSE Write(Lovely(target), build)
    /\ UNCHANGED <<backup, quarantined, manifest, registered, claims>>

WritesAppId(g) == g \notin steam /\ disk[AppId(g)] # OurAppId

BackUpAppId ==
    /\ Installing("appIdBackup") /\ Goto("appId")
    /\ IF /\ WritesAppId(target) /\ Present(AppId(target)) /\ ~claims.appIdOwned
          /\ ~Recorded(claims.appIdBackup, AppId(target))
       THEN /\ backup' = [backup EXCEPT ![AppId(target)] = disk[AppId(target)]]
            /\ claims' = [claims EXCEPT !.appIdBackup = TRUE]
       ELSE UNCHANGED <<backup, claims>>
    /\ UNCHANGED <<disk, quarantined, manifest, registered, undo>>

\* Mutant of AppIdGivenBack: the other file's backup.
AppIdMixedUp(g, claim) ==
    IF Recorded(claim, AppId(g)) THEN backup[Lovely(g)] ELSE NoFile

\* What the folder gets back: the recorded backup, or nothing.
AppIdGivenBack(g, claim) ==
    IF Recorded(claim, AppId(g)) THEN backup[AppId(g)] ELSE NoFile

ReplaceAppId ==
    /\ Installing("appId") /\ Goto("maintenance")
    /\ \/ /\ target \in steam /\ claims.appIdOwned
          /\ Write(AppId(target), AppIdGivenBack(target, claims.appIdBackup))
       \/ /\ WritesAppId(target)
          /\ Write(AppId(target), OurAppId)
       \/ /\ ~(target \in steam /\ claims.appIdOwned) /\ ~WritesAppId(target)
          /\ UNCHANGED <<disk, undo>>
    /\ claims' = IF target \in steam
                 THEN [claims EXCEPT !.appIdOwned = FALSE, !.appIdBackup = FALSE]
                 ELSE [claims EXCEPT !.appIdOwned = @ \/ WritesAppId(target)]
    /\ UNCHANGED <<backup, quarantined, manifest, registered>>

KeepMaintenanceCopy ==
    /\ Installing("maintenance") /\ Goto("system")
    /\ Write(Maintenance, build)
    /\ UNCHANGED <<backup, quarantined, manifest, registered, claims>>

\* Firewall rule and uninstall entry; no guard takes them back.
Register ==
    /\ Installing("system") /\ Goto("oldLovely")
    /\ registered' = TRUE
    /\ UNCHANGED <<diskVars, manifest, claims, undo>>

\* Mutant of Leaving: a repair takes its own folder for the former one.
LeavingAnyhow == manifest # None /\ manifest.game \in found

\* A move gives the former game folder its files back before the new manifest.
Leaving == manifest # None /\ manifest.game # target /\ manifest.game \in found

ReturnOldLovely ==
    /\ Installing("oldLovely") /\ Goto("oldAppId")
    /\ LET old == Lovely(manifest.game)
       IN \/ /\ Leaving /\ Recorded(manifest.claims.lovelyBackup, old)
             /\ Write(old, backup[old])
          \/ /\ Leaving /\ ~Recorded(manifest.claims.lovelyBackup, old)
             /\ manifest.claims.lovelyOwned /\ Present(old) /\ ~OtherLovelyMods
             /\ Write(old, NoFile)
          \/ /\ Leaving => /\ ~Recorded(manifest.claims.lovelyBackup, old)
                           /\ \/ ~manifest.claims.lovelyOwned
                              \/ ~Present(old) \/ OtherLovelyMods
             /\ UNCHANGED <<disk, undo>>
    /\ UNCHANGED <<backup, quarantined, manifest, registered, claims>>

ReturnOldAppId ==
    /\ Installing("oldAppId") /\ Goto("save")
    /\ IF Leaving /\ manifest.claims.appIdOwned
       THEN Write(AppId(manifest.game),
                  AppIdGivenBack(manifest.game, manifest.claims.appIdBackup))
       ELSE UNCHANGED <<disk, undo>>
    /\ UNCHANGED <<backup, quarantined, manifest, registered, claims>>

SaveManifest ==
    /\ Installing("save") /\ Goto("commit")
    /\ manifest' = [game |-> target, build |-> build, claims |-> claims]
    /\ UNCHANGED <<diskVars, registered, claims, undo>>

\* DirectoryRollback::commit deletes the previous mod, and that can fail; the
\* other guards cannot. Deleting the quarantine may fail without anybody noticing.
Commit ==
    /\ Installing("commit")
    /\ quarantined' \in IF \E i \in DOMAIN undo : undo[i].place = AlphaMod
                       THEN BOOLEAN ELSE {quarantined}
    /\ End("installed")
    /\ UNCHANGED <<disk, backup, manifest, registered, worldVars, originVars, mishaps>>

\* The folder the package is staged in is made before the runtime is replaced and
\* has no guard: it stays in Mods when its install goes no further than here.
Staging == {"runtime", "alphaRuntime", "modAside", "modIn"}
LeavesStage == litter' = (litter \/ (job = "install" /\ step \in Staging))

\* A step that fails returns from install, and its guards are dropped.
Fail ==
    /\ job = "install" /\ step # "commit"
    /\ job' = "undoing" /\ step' = "failed" /\ LeavesStage
    /\ UNCHANGED <<diskVars, manifest, registered, otherMods, steam, found, target,
                   build, claims, undo, outcome, historyVars, mishaps>>

CommitFails ==
    /\ Installing("commit") /\ mishaps < MaxMishaps
    /\ job' = "undoing" /\ step' = "uncommitted" /\ mishaps' = mishaps + 1
    /\ UNCHANGED <<diskVars, manifest, registered, worldVars, target, build,
                   claims, undo, outcome, historyVars>>

\* The drop of one guard, the latest first.
DropGuard ==
    /\ job = "undoing" /\ undo # <<>>
    /\ LET guard == Head(undo)
       IN /\ disk' = [disk EXCEPT ![guard.place] = guard.was]
          /\ quarantined' = (quarantined /\ guard.place # AlphaMod)
    /\ undo' = Tail(undo)
    /\ UNCHANGED <<backup, manifest, registered, worldVars, jobVars, step, claims,
                   outcome, historyVars, mishaps>>

Undone ==
    /\ job = "undoing" /\ undo = <<>>
    /\ End(step)
    /\ UNCHANGED <<diskVars, manifest, registered, worldVars, originVars, mishaps>>

--------------------------------------------------------------------------------
(* Restore and uninstall. *)

Begin(kind) ==
    /\ job = "idle" /\ jobs < MaxJobs /\ manifest # None
    /\ job' = kind /\ step' = "mod" /\ target' = manifest.game
    /\ outcome' = "none" /\ jobs' = jobs + 1
    /\ UNCHANGED <<diskVars, manifest, registered, worldVars, build, claims, undo,
                   original, before, used, mishaps>>

Restore == manifest # None /\ manifest.game \in found /\ Begin("restore")
Uninstall == Begin("uninstall")

Removing(s) == job \in {"restore", "uninstall"} /\ At(s)

RemoveMod ==
    /\ Removing("mod") /\ Goto("lovely")
    /\ Put(Mod, NoFile)
    /\ UNCHANGED <<backup, quarantined, manifest, registered, claims>>

\* Uninstall leaves the files of a folder alone that is no game any more.
Reachable == job = "restore" \/ target \in found

\* An injector of the program's own stays when another Lovely mod needs it;
\* restore does not ask.
ReturnLovely ==
    /\ Removing("lovely") /\ Goto("appId")
    /\ LET p == Lovely(target)
           claim == manifest.claims
       IN \/ /\ Reachable /\ Recorded(claim.lovelyBackup, p)
             /\ Put(p, backup[p])
          \/ /\ Reachable /\ ~claim.lovelyBackup /\ claim.lovelyOwned /\ Present(p)
             /\ job = "restore" \/ ~OtherLovelyMods
             /\ Put(p, NoFile)
          \/ /\ \/ ~Reachable
                \/ claim.lovelyBackup /\ ~Recorded(TRUE, p)
                \/ /\ ~claim.lovelyBackup
                   /\ \/ ~claim.lovelyOwned \/ ~Present(p)
                      \/ job = "uninstall" /\ OtherLovelyMods
             /\ UNCHANGED <<disk, undo>>
    /\ UNCHANGED <<backup, quarantined, manifest, registered, claims>>

ReturnAppId ==
    /\ Removing("appId") /\ Goto("manifest")
    /\ LET p == AppId(target)
           claim == manifest.claims
       IN IF /\ Reachable
             /\ Recorded(claim.appIdBackup, p) \/ (~claim.appIdBackup /\ claim.appIdOwned)
          THEN Put(p, AppIdGivenBack(target, claim.appIdBackup))
          ELSE UNCHANGED <<disk, undo>>
    /\ UNCHANGED <<backup, quarantined, manifest, registered, claims>>

Restored ==
    /\ job = "restore" /\ At("manifest")
    /\ End("restored")
    /\ UNCHANGED <<diskVars, manifest, registered, worldVars, originVars, mishaps>>

ForgetManifest ==
    /\ job = "uninstall" /\ At("manifest") /\ Goto("rest")
    /\ manifest' = None
    /\ UNCHANGED <<diskVars, registered, claims, undo>>

\* Whether any of these is really gone nobody looks, and the copy of the installer
\* stays when it is the program that runs.
RemoveRest ==
    /\ job = "uninstall" /\ At("rest")
    /\ \E gone \in SUBSET {Runtime, AlphaRuntime, Maintenance} :
          disk' = [p \in Place |-> IF p \in gone THEN NoFile ELSE disk[p]]
    /\ registered' \in {FALSE, registered}
    /\ End("uninstalled")
    /\ UNCHANGED <<backup, quarantined, manifest, worldVars, originVars, mishaps>>

\* A failing step ends restore or uninstall where it is. The last one never fails.
Stop ==
    /\ job \in {"restore", "uninstall"} /\ step # "rest"
    /\ End("stopped")
    /\ UNCHANGED <<diskVars, manifest, registered, worldVars, originVars, mishaps>>

--------------------------------------------------------------------------------
(* The world around it. *)

Crash ==
    /\ job # "idle" /\ mishaps < MaxMishaps
    /\ End("crashed") /\ mishaps' = mishaps + 1 /\ LeavesStage
    /\ UNCHANGED <<diskVars, manifest, registered, otherMods, steam, found, originVars>>

\* Steam is told about a game folder.
Adopt(g) ==
    /\ job = "idle" /\ g \notin steam
    /\ steam' = steam \cup {g}
    /\ UNCHANGED <<diskVars, manifest, registered, litter, otherMods, found, jobVars, step,
                   claims, undo, outcome, historyVars, mishaps>>

\* A game folder vanishes, as with a drive, and comes back as it was.
Vanish(g) ==
    /\ job = "idle" /\ g \in found /\ mishaps < MaxMishaps
    /\ found' = found \ {g} /\ mishaps' = mishaps + 1
    /\ UNCHANGED <<diskVars, manifest, registered, litter, otherMods, steam, jobVars, step,
                   claims, undo, outcome, historyVars>>

Reappear(g) ==
    /\ job = "idle" /\ g \notin found
    /\ found' = found \cup {g}
    /\ UNCHANGED <<diskVars, manifest, registered, litter, otherMods, steam, jobVars, step,
                   claims, undo, outcome, historyVars, mishaps>>

Outside == \E g \in Game : Adopt(g) \/ Vanish(g) \/ Reappear(g)

InstallStep ==
    \/ ReplaceRuntime \/ RemoveAlphaRuntime \/ MoveModAside \/ ActivateMod
    \/ QuarantineAlphaMod \/ BackUpLovely \/ ReplaceLovely
    \/ BackUpAppId \/ ReplaceAppId \/ KeepMaintenanceCopy \/ Register
    \/ ReturnOldLovely \/ ReturnOldAppId \/ SaveManifest \/ Commit
    \/ Fail \/ CommitFails \/ DropGuard \/ Undone

RemovalStep ==
    RemoveMod \/ ReturnLovely \/ ReturnAppId \/ Restored \/ ForgetManifest
    \/ RemoveRest \/ Stop

Next == Install \/ Repair \/ Restore \/ Uninstall \/ InstallStep \/ RemovalStep
        \/ Crash \/ Outside

Spec == Init /\ [][Next]_vars

--------------------------------------------------------------------------------
(* Properties. *)

Disk == {d \in [Place -> Content] : \A p \in Place : d[p] \in Fits(p)}
Backup == {d \in [GamePlace -> Content] : \A p \in GamePlace : d[p] \in Fits(p)}
Guard == {guard \in [place : Place, was : Content] : guard.was \in Fits(guard.place)}
Step == {"none", "runtime", "alphaRuntime", "modAside", "modIn", "alphaMod",
         "lovelyBackup", "lovely", "appIdBackup", "appId", "maintenance", "system",
         "oldLovely", "oldAppId", "save", "commit", "failed", "uncommitted",
         "mod", "manifest", "rest"}
Snapshots == [disk : Disk, manifest : Manifest, quarantined : BOOLEAN, litter : BOOLEAN]

TypeOK ==
    /\ disk \in Disk /\ backup \in Backup /\ undo \in Seq(Guard)
    /\ manifest \in Manifest /\ claims \in Claims
    /\ registered \in BOOLEAN /\ quarantined \in BOOLEAN
    /\ litter \in BOOLEAN /\ otherMods \in BOOLEAN
    /\ steam \subseteq Game /\ found \subseteq Game
    /\ job \in Jobs /\ step \in Step
    /\ target \in Game \cup {Anywhere} /\ build \in Build \cup {NoFile}
    /\ original \in Backup /\ outcome \in Outcome /\ used \subseteq Build
    /\ before \in Snapshots \cup {None}
    /\ jobs \in 0..MaxJobs /\ mishaps \in 0..MaxMishaps

\* An install that fails before its manifest is written leaves every place, the
\* manifest and the retired mod as they were, whichever of its steps failed,
\* also when it was moving the installation to another game folder and when an
\* earlier crash had left a half-finished one (rollback guards, :2200-2330). All
\* it may add is the folder its package was staged in (:810-822).
FailedInstallChangesNothing ==
    job = "undoing" /\ step = "failed" /\ undo = <<>> =>
        Snapshot \in {before, [before EXCEPT !.litter = TRUE]}

\* When install reports success the whole of that build is in place and nothing
\* of a retired release that Lovely or the game could start, whatever earlier
\* operations were cut short (:1110-1116, :1149-1154).
InstalledIsWhole ==
    outcome = "installed" =>
        /\ manifest # None /\ registered
        /\ \A p \in {Runtime, Mod, Maintenance} : disk[p] = manifest.build
        /\ ~Present(AlphaRuntime) /\ ~Present(AlphaMod)
        /\ disk[Lovely(manifest.game)] \in Injector
        /\ manifest.game \notin steam => disk[AppId(manifest.game)] = OurAppId

\* Whatever fails or is cut short, no file that a game folder came with is lost:
\* it is still there or in the backups. Of version.dll this needs that no second
\* build installs after a mishap, see BackupsKept (:960-976, :1021-1037).
OriginalKept ==
    \A p \in GamePlace :
        \/ original[p] \in {NoFile, disk[p], backup[p]}
        \/ p[1] = "lovely" /\ mishaps > 0 /\ Cardinality(used) > 1

\* An uninstall after any operations that were never cut short gives every game
\* folder, former ones included, back as it was: app ids always, and version.dll
\* when all operations were of one build and no other Lovely mod is about
\* (:1601-1627, :1119-1148).
GameRestored ==
    outcome = "uninstalled" /\ mishaps = 0 =>
        \A g \in Game :
            /\ disk[AppId(g)] = original[AppId(g)]
            /\ Cardinality(used) = 1 /\ ~OtherLovelyMods =>
                  disk[Lovely(g)] = original[Lovely(g)]

\* An install is whole, and what the game folders came with survives and comes back.
FilesSafe == InstalledIsWhole /\ OriginalKept /\ GameRestored

\* A statement the code does not keep. docs/injection.md:36, "Existing injector
\* backups are never replaced during update or repair": the copy of an injector
\* the user had is not overwritten.
BackupsKept ==
    [][\A g \in Game : backup[Lovely(g)] \in {UserDll, UserLovely}
            => backup'[Lovely(g)] = backup[Lovely(g)]]_vars
================================================================================
