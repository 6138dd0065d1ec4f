------------------------------- MODULE Update -------------------------------
(***************************************************************************)
(* The installer's self-update (update.rs).  A window downloads and stages *)
(* a newer installer, starts it as the finalizer and quits.  The finalizer *)
(* waits for that process, puts the staged copy in the place of the        *)
(* app-managed installer, keeping the previous one as a backup, starts it  *)
(* and waits until its window has acknowledged; otherwise it restores the  *)
(* backup.  The new window then removes what the update left behind.       *)
(*                                                                         *)
(* Nothing keeps two windows apart: both can update at once.  A version is *)
(* a number, a file holds the version of its contents; 0 is a missing      *)
(* file, Torn one whose writing stopped half-way.  Downloads, hashes and   *)
(* the version probe succeed or fail as one outcome.  That a file of a     *)
(* running program can be renamed but neither removed nor replaced is the  *)
(* operating system's rule.  Bounds: MaxFaults failures of the world.      *)
(***************************************************************************)
EXTENDS Integers, FiniteSets

CONSTANTS
    Launcher,      \* windows opened from a downloaded installer
    UpdateId,      \* ids of updates, and of the windows they start
    LauncherAt,    \* the version of each launcher
    Preview,       \* the versions that are previews
    Complete,      \* the releases with installer and checksums
    MaxVersion,    \* bound on versions
    MaxFaults      \* bound on failures and kills

Version == 1 .. MaxVersion

ASSUME UpdateAssumption ==
    /\ Launcher \cap UpdateId = {} /\ "managed" \notin UpdateId
    /\ LauncherAt \in [Launcher -> Version]
    /\ Preview \subseteq Version /\ Complete \subseteq Version
    /\ MaxVersion \in Nat \ {0} /\ MaxFaults \in Nat

Window == Launcher \cup UpdateId
Missing == 0
Torn == -1
Content == Version \cup {Missing, Torn}

VARIABLES
    published,  \* the releases on GitHub
    managed,    \* the app-managed installer, installer/BeatblockOnlineInstaller.exe
    staged, receipt, ready,   \* per update, under updates/
    temp, backup,             \* per update, beside the managed installer
    window,     \* installer windows: their life
    runs,       \* the version a window runs
    image,      \* where the executable of a window started by an update is
    pc,         \* updates: the step of its staging, then of its finalizer
    parent, target, had,      \* the receipt, and had_previous
    cleaner,    \* the cleanup thread of a window an update started
    before, acked, overlapped, unrestored,   \* history
    faults

fileVars == <<managed, staged, receipt, ready, temp, backup>>
windowVars == <<window, runs, image>>
updateVars == <<parent, target, had>>
history == <<before, acked, overlapped, unrestored>>
vars == <<published, fileVars, windowVars, pc, updateVars, cleaner, history, faults>>

StagingPc == {"download", "receipt", "spawn"}
FinalPc == {"wait", "copy", "verify", "backup", "promote", "launch", "await", "remove", "restore"}
Pc == {"free", "done", "failed", "lost"} \cup StagingPc \cup FinalPc
WindowState == {"unopened", "starting", "acking", "open", "busy", "closing", "closed"}
Leftover == <<"staged", "receipt", "ready", "temp", "backup">>
Leftovers == {Leftover[i] : i \in 1 .. 5}
CleanerState == {"none", "wait", "done"} \cup Leftovers
Alive(w) == window[w] \notin {"unopened", "closed"}

Spend == faults < MaxFaults /\ faults' = faults + 1
Step(u, next) == pc' = [pc EXCEPT ![u] = next]

Init ==
    /\ published = {1} /\ managed \in {Missing, 1}
    /\ staged = [u \in UpdateId |-> Missing] /\ receipt = [u \in UpdateId |-> FALSE]
    /\ ready = [u \in UpdateId |-> "none"]
    /\ temp = [u \in UpdateId |-> Missing] /\ backup = [u \in UpdateId |-> Missing]
    /\ window = [w \in Window |-> "unopened"]
    /\ runs = [w \in Window |-> IF w \in Launcher THEN LauncherAt[w] ELSE Missing]
    /\ image = [u \in UpdateId |-> "managed"]
    /\ pc = [u \in UpdateId |-> "free"]
    /\ parent = [u \in UpdateId |-> u] /\ target = [u \in UpdateId |-> Missing]
    /\ had = [u \in UpdateId |-> FALSE]
    /\ cleaner = [u \in UpdateId |-> "none"]
    /\ before = [u \in UpdateId |-> Missing] /\ acked = [u \in UpdateId |-> FALSE]
    /\ overlapped = FALSE /\ unrestored = {} /\ faults = 0

-----------------------------------------------------------------------------
(* Choosing a release.  evaluate_releases looks at previews only from a    *)
(* preview, and takes the latest; an incomplete latest one is no update.   *)

Offered(current) == {v \in published : v \in Preview => current \in Preview}
Latest(current) == {v \in Offered(current) : \A w \in Offered(current) : w <= v}
InstallableUpdate(current) == {v \in Latest(current) \cap Complete : v > current}

PublishRelease(v) ==
    /\ v \notin published /\ published' = published \cup {v}
    /\ UNCHANGED <<fileVars, windowVars, pc, updateVars, cleaner, history, faults>>

-----------------------------------------------------------------------------
(* The window that updates: prepare_update, then launch_finalizer.         *)

OpenLauncher(l) ==
    /\ window[l] = "unopened" /\ window' = [window EXCEPT ![l] = "open"]
    /\ UNCHANGED <<published, fileVars, runs, image, pc, updateVars, cleaner, history, faults>>

BeginUpdate(w, u) ==
    /\ window[w] = "open" /\ pc[u] = "free" /\ w # u
    /\ \E v \in InstallableUpdate(runs[w]) : target' = [target EXCEPT ![u] = v]
    /\ window' = [window EXCEPT ![w] = "busy"]
    /\ parent' = [parent EXCEPT ![u] = w] /\ Step(u, "download")
    /\ UNCHANGED <<published, fileVars, runs, image, had, cleaner, history, faults>>

Stage(u) ==
    /\ pc[u] = "download" /\ Step(u, "receipt")
    /\ staged' = [staged EXCEPT ![u] = target[u]]
    /\ UNCHANGED <<published, managed, receipt, ready, temp, backup, windowVars, updateVars,
                   cleaner, history, faults>>

WriteReceipt(u) ==
    /\ pc[u] = "receipt" /\ Step(u, "spawn")
    /\ receipt' = [receipt EXCEPT ![u] = TRUE]
    /\ UNCHANGED <<published, managed, staged, ready, temp, backup, windowVars, updateVars,
                   cleaner, history, faults>>

SpawnFinalizer(u) ==
    /\ pc[u] = "spawn" /\ Step(u, "wait")
    /\ window' = [window EXCEPT ![parent[u]] = "closing"]
    /\ UNCHANGED <<published, fileVars, runs, image, updateVars, cleaner, history, faults>>

(* A failure of staging or of the start removes what was staged; one of    *)
(* the checks launch_finalizer makes before it starts anything does not.   *)
StagingFails(u) ==
    /\ pc[u] \in StagingPc /\ Step(u, "failed") /\ Spend
    /\ \/ /\ staged' = [staged EXCEPT ![u] = Missing]
          /\ receipt' = [receipt EXCEPT ![u] = FALSE]
       \/ pc[u] = "spawn" /\ UNCHANGED <<staged, receipt>>
    /\ window' = [window EXCEPT ![parent[u]] = "open"]
    /\ UNCHANGED <<published, managed, ready, temp, backup, runs, image, updateVars, cleaner,
                   history>>

-----------------------------------------------------------------------------
(* Windows end: the loop is left after the spawn, the user closes a window *)
(* that is not busy, or the process dies, and its threads with it.         *)

End(w) ==
    /\ window' = [window EXCEPT ![w] = "closed"]
    /\ cleaner' = [u \in UpdateId |->
           IF u = w /\ cleaner[u] # "done" THEN "none" ELSE cleaner[u]]

(* The steps of the updates once window w is gone: what it staged is lost. *)
Abandoned(w) ==
    [u \in UpdateId |-> IF pc[u] \in StagingPc /\ parent[u] = w THEN "lost" ELSE pc[u]]

WindowQuits(w) ==
    /\ window[w] = "closing" /\ End(w)
    /\ UNCHANGED <<published, fileVars, runs, image, pc, updateVars, history, faults>>

(* Mutant of UserCloses: a busy window can be closed.                      *)
UserClosesBusy(w) ==
    /\ window[w] \in {"open", "busy"} /\ End(w)
    /\ UNCHANGED <<published, fileVars, runs, image, pc, updateVars, history, faults>>

UserCloses(w) ==
    /\ window[w] = "open" /\ End(w)
    /\ UNCHANGED <<published, fileVars, runs, image, pc, updateVars, history, faults>>

WindowDies(w) ==
    /\ Alive(w) /\ End(w) /\ Spend /\ pc' = Abandoned(w)
    /\ UNCHANGED <<published, fileVars, runs, image, updateVars, history>>

-----------------------------------------------------------------------------
(* The finalizer: finalize_update and promote_and_launch.                  *)

Locked == \E c \in UpdateId : Alive(c) /\ image[c] = "managed"
Finalizing(u) == pc[u] \in FinalPc \ {"wait"}

(* wait_for_process_exit.                                                  *)
Exited(w) == ~Alive(w)

StartFinalizing(u) ==
    /\ pc[u] = "wait" /\ Exited(parent[u]) /\ Step(u, "copy")
    /\ before' = [before EXCEPT ![u] = managed]
    /\ overlapped' = (overlapped \/ \E v \in UpdateId : Finalizing(v))
    /\ UNCHANGED <<published, fileVars, windowVars, updateVars, cleaner, acked, unrestored,
                   faults>>

WaitTimesOut(u) ==
    /\ pc[u] = "wait" /\ ~Exited(parent[u]) /\ Step(u, "failed")
    /\ UNCHANGED <<published, fileVars, windowVars, updateVars, cleaner, history, faults>>

Copy(u) ==
    /\ pc[u] = "copy" /\ Step(u, "verify")
    /\ temp' = [temp EXCEPT ![u] = Torn]
    /\ UNCHANGED <<published, managed, staged, receipt, ready, backup, windowVars, updateVars,
                   cleaner, history, faults>>

(* Mutant of VerifyCopy: what the copy wrote is not read back.             *)
VerifyCopyUnread(u) ==
    /\ pc[u] = "verify" /\ Step(u, "backup")
    /\ temp' = [temp EXCEPT ![u] = staged[u]] \/ temp' = temp
    /\ UNCHANGED <<published, managed, staged, receipt, ready, backup, windowVars, updateVars,
                   cleaner, history, faults>>

VerifyCopy(u) ==
    /\ pc[u] = "verify" /\ Step(u, "backup")
    /\ temp' = [temp EXCEPT ![u] = staged[u]]
    /\ UNCHANGED <<published, managed, staged, receipt, ready, backup, windowVars, updateVars,
                   cleaner, history, faults>>

(* A full disk leaves a torn copy behind, a wrong hash removes it; a       *)
(* backup that cannot be made leaves the whole one.                        *)
PreparationFails(u) ==
    /\ pc[u] \in {"copy", "verify", "backup"} /\ Step(u, "failed") /\ Spend
    /\ \/ UNCHANGED temp
       \/ pc[u] = "verify" /\ temp' = [temp EXCEPT ![u] = Missing]
    /\ UNCHANGED <<published, managed, staged, receipt, ready, backup, windowVars, updateVars,
                   cleaner, history>>

Images(from, to) == [c \in UpdateId |-> IF Alive(c) /\ image[c] = from THEN to ELSE image[c]]

BackUp(u) ==
    /\ pc[u] = "backup" /\ Step(u, "promote")
    /\ had' = [had EXCEPT ![u] = managed # Missing]
    /\ IF managed = Missing THEN UNCHANGED <<managed, backup, image>>
       ELSE /\ backup' = [backup EXCEPT ![u] = managed] /\ managed' = Missing
            /\ image' = Images("managed", u)
    /\ UNCHANGED <<published, staged, receipt, ready, temp, window, runs, parent, target,
                   cleaner, history, faults>>

Promote(u) ==
    /\ pc[u] = "promote" /\ ~Locked /\ Step(u, "launch")
    /\ managed' = temp[u] /\ temp' = [temp EXCEPT ![u] = Missing]
    /\ UNCHANGED <<published, staged, receipt, ready, backup, windowVars, updateVars, cleaner,
                   history, faults>>

(* The promoted file cannot be put in place: the backup goes back at once. *)
PromoteFails(u) ==
    /\ pc[u] = "promote" /\ IF Locked THEN UNCHANGED faults ELSE Spend
    /\ IF had[u] THEN Step(u, "restore") ELSE Step(u, "failed")
    /\ UNCHANGED <<published, fileVars, windowVars, updateVars, cleaner, history>>

Launch(u) ==
    /\ pc[u] = "launch" /\ managed # Missing /\ Step(u, "await")
    /\ window' = [window EXCEPT ![u] = "starting"] /\ runs' = [runs EXCEPT ![u] = managed]
    /\ image' = [image EXCEPT ![u] = "managed"]
    /\ UNCHANGED <<published, fileVars, updateVars, cleaner, history, faults>>

LaunchFails(u) ==
    /\ pc[u] = "launch" /\ Step(u, "remove")
    /\ IF managed = Missing THEN UNCHANGED faults ELSE Spend
    /\ UNCHANGED <<published, fileVars, windowVars, updateVars, cleaner, history>>

(* wait_for_ready_ack: an exit is looked for first, then the marker, then  *)
(* the deadline.  A window that is not ready in time is killed, whatever   *)
(* it has become since the marker was last looked for.                     *)
AwaitReady(u) ==
    /\ pc[u] = "await" /\ Alive(u) /\ ready[u] = "set" /\ Step(u, "done")
    /\ UNCHANGED <<published, fileVars, windowVars, updateVars, cleaner, history, faults>>

AwaitExited(u) ==
    /\ pc[u] = "await" /\ ~Alive(u) /\ Step(u, "remove")
    /\ UNCHANGED <<published, fileVars, windowVars, updateVars, cleaner, history, faults>>

(* Mutant of ReadyTimesOut: without the deadline.                          *)
ReadyNeverTimesOut(u) ==
    /\ pc[u] = "await" /\ ready[u] = "set" /\ Alive(u) /\ End(u)
    /\ pc' = [Abandoned(u) EXCEPT ![u] = "remove"]
    /\ UNCHANGED <<published, fileVars, runs, image, updateVars, history, faults>>

ReadyTimesOut(u) ==
    /\ pc[u] = "await" /\ Alive(u) /\ End(u)
    /\ pc' = [Abandoned(u) EXCEPT ![u] = "remove"]
    /\ UNCHANGED <<published, fileVars, runs, image, updateVars, history, faults>>

(* Mutant of Remove: a failed launch restores nothing.                     *)
RemoveOnly(u) ==
    /\ pc[u] = "remove" /\ Step(u, "failed")
    /\ managed' = IF Locked THEN managed ELSE Missing
    /\ UNCHANGED <<published, staged, receipt, ready, temp, backup, windowVars, updateVars,
                   cleaner, history, faults>>

(* A failed launch: the promoted file is removed, whether or not that      *)
(* works, and the backup renamed over it.                                  *)
Remove(u) ==
    /\ pc[u] = "remove"
    /\ IF had[u] THEN Step(u, "restore") ELSE Step(u, "failed")
    /\ managed' = IF Locked THEN managed ELSE Missing
    /\ UNCHANGED <<published, staged, receipt, ready, temp, backup, windowVars, updateVars,
                   cleaner, history, faults>>

Restore(u) ==
    /\ pc[u] = "restore" /\ ~Locked /\ backup[u] # Missing /\ Step(u, "failed")
    /\ managed' = backup[u] /\ backup' = [backup EXCEPT ![u] = Missing]
    /\ image' = Images(u, "managed")
    /\ UNCHANGED <<published, staged, receipt, ready, temp, window, runs, updateVars, cleaner,
                   history, faults>>

RestoreFails(u) ==
    /\ pc[u] = "restore" /\ Step(u, "failed")
    /\ IF Locked \/ backup[u] = Missing THEN UNCHANGED <<faults, unrestored>>
       ELSE Spend /\ unrestored' = unrestored \cup {u}
    /\ UNCHANGED <<published, fileVars, windowVars, updateVars, cleaner, before, acked,
                   overlapped>>

FinalizerDies(u) ==
    /\ pc[u] \in FinalPc /\ Step(u, "lost") /\ Spend
    /\ UNCHANGED <<published, fileVars, windowVars, updateVars, cleaner, history>>

-----------------------------------------------------------------------------
(* The window an update started: acknowledge_update_ready once it is       *)
(* shown, and cleanup_completed_update on a thread of its own.             *)

Acknowledge(u) ==
    /\ window[u] = "starting" /\ receipt[u] /\ managed = target[u]
    /\ window' = [window EXCEPT ![u] = "acking"]
    /\ ready' = [ready EXCEPT ![u] = "tmp"]
    /\ UNCHANGED <<published, managed, staged, receipt, temp, backup, runs, image, pc,
                   updateVars, cleaner, history, faults>>

RefuseToAcknowledge(u) ==
    /\ window[u] = "starting" /\ managed # target[u] /\ End(u)
    /\ UNCHANGED <<published, fileVars, runs, image, pc, updateVars, history, faults>>

PublishReady(u) ==
    /\ window[u] = "acking" /\ window' = [window EXCEPT ![u] = "open"]
    /\ ready' = [ready EXCEPT ![u] = "set"] /\ acked' = [acked EXCEPT ![u] = TRUE]
    /\ cleaner' = [cleaner EXCEPT ![u] = "wait"]
    /\ UNCHANGED <<published, managed, staged, receipt, temp, backup, runs, image, pc,
                   updateVars, before, overlapped, unrestored, faults>>

(* Mutant of FinalizerExited: the wait that does not wait, as the build    *)
(* for other systems has it.                                               *)
FinalizerAssumedExited(u) == TRUE

(* cleanup_completed_update's wait_for_process_exit.                       *)
FinalizerExited(u) == pc[u] \notin FinalPc

After(item) ==
    CHOOSE next \in {"done"} \cup {Leftover[i] : i \in 2 .. 5} :
        \/ item = "backup" /\ next = "done"
        \/ \E i \in 1 .. 4 : item = Leftover[i] /\ next = Leftover[i + 1]

CleanupStarts(u) ==
    /\ cleaner[u] = "wait" /\ FinalizerExited(u)
    /\ cleaner' = [cleaner EXCEPT ![u] = Leftover[1]]
    /\ UNCHANGED <<published, fileVars, windowVars, pc, updateVars, history, faults>>

CleanUp(u) ==
    /\ cleaner[u] \in Leftovers
    /\ \A c \in UpdateId : Alive(c) /\ image[c] = u => cleaner[u] # "backup"
    /\ cleaner' = [cleaner EXCEPT ![u] = After(cleaner[u])]
    /\ staged' = IF cleaner[u] = "staged" THEN [staged EXCEPT ![u] = Missing] ELSE staged
    /\ receipt' = IF cleaner[u] = "receipt" THEN [receipt EXCEPT ![u] = FALSE] ELSE receipt
    /\ ready' = IF cleaner[u] = "ready" THEN [ready EXCEPT ![u] = "none"] ELSE ready
    /\ temp' = IF cleaner[u] = "temp" THEN [temp EXCEPT ![u] = Missing] ELSE temp
    /\ backup' = IF cleaner[u] = "backup" THEN [backup EXCEPT ![u] = Missing] ELSE backup
    /\ UNCHANGED <<published, managed, windowVars, pc, updateVars, history, faults>>

(* A file that is in use, or the finalizer outliving the wait, ends it.    *)
CleanupFails(u) ==
    /\ cleaner[u] \notin {"none", "done"} /\ Spend
    /\ cleaner' = [cleaner EXCEPT ![u] = "none"]
    /\ UNCHANGED <<published, fileVars, windowVars, pc, updateVars, history>>

-----------------------------------------------------------------------------
Staging(u) ==
    (\E w \in Window : BeginUpdate(w, u)) \/ Stage(u) \/ WriteReceipt(u) \/ SpawnFinalizer(u)
        \/ StagingFails(u)
Finalizer(u) ==
    \/ StartFinalizing(u) \/ WaitTimesOut(u) \/ Copy(u) \/ VerifyCopy(u) \/ PreparationFails(u)
    \/ BackUp(u) \/ Promote(u) \/ PromoteFails(u) \/ Launch(u) \/ LaunchFails(u)
    \/ AwaitReady(u) \/ AwaitExited(u) \/ ReadyTimesOut(u)
    \/ Remove(u) \/ Restore(u) \/ RestoreFails(u)
NewWindow(u) ==
    \/ Acknowledge(u) \/ RefuseToAcknowledge(u) \/ PublishReady(u)
    \/ CleanupStarts(u) \/ CleanUp(u) \/ CleanupFails(u)
Windows ==
    \E w \in Window : WindowQuits(w) \/ UserCloses(w) \/ WindowDies(w)

Next ==
    \/ \E v \in Version : PublishRelease(v)
    \/ \E l \in Launcher : OpenLauncher(l)
    \/ \E u \in UpdateId : Staging(u) \/ Finalizer(u) \/ NewWindow(u) \/ FinalizerDies(u)
    \/ Windows

Spec == Init /\ [][Next]_vars

(* A finalizer that runs goes on; nothing is asked of windows or users.    *)
FairSpec == Spec /\ \A u \in UpdateId : WF_vars(Finalizer(u))

-----------------------------------------------------------------------------
(* Types, and that an update being staged keeps its window busy.           *)
TypeOK ==
    /\ \A u \in UpdateId : pc[u] \in StagingPc => window[parent[u]] = "busy"
    /\ published \subseteq Version
    /\ managed \in Content /\ staged \in [UpdateId -> Content]
    /\ receipt \in [UpdateId -> BOOLEAN] /\ ready \in [UpdateId -> {"none", "tmp", "set"}]
    /\ temp \in [UpdateId -> Content] /\ backup \in [UpdateId -> Content]
    /\ window \in [Window -> WindowState] /\ runs \in [Window -> Content]
    /\ image \in [UpdateId -> UpdateId \cup {"managed"}]
    /\ pc \in [UpdateId -> Pc] /\ parent \in [UpdateId -> Window]
    /\ target \in [UpdateId -> Version \cup {Missing}] /\ had \in [UpdateId -> BOOLEAN]
    /\ cleaner \in [UpdateId -> CleanerState]
    /\ before \in [UpdateId -> Content] /\ acked \in [UpdateId -> BOOLEAN]
    /\ overlapped \in BOOLEAN /\ unrestored \subseteq UpdateId /\ faults \in 0 .. MaxFaults

(* The managed installer is never a file whose writing stopped half-way,   *)
(* whatever fails or dies, and however many updates run.                   *)
ManagedIsWhole == managed # Torn /\ \A u \in UpdateId : backup[u] # Torn

(* "Any previous managed copy is restored" (docs/changelogs/               *)
(* v0.3.0-beta.5.md:87): while updates do not overlap, a finalizer that    *)
(* gives up leaves the managed installer it found, unless the restoring    *)
(* rename itself failed, and then the backup is still there.               *)
FailureRestores ==
    [][\A u \in UpdateId :
          (Finalizing(u) /\ pc'[u] = "failed" /\ ~overlapped) =>
              IF u \in unrestored' THEN backup'[u] = before[u] ELSE managed' = before[u]]_vars

(* The previous installer outlives the wait: while updates do not overlap  *)
(* it is in its place or in its backup until its finalizer has ended, and, *)
(* if the finalizer died, until the new window has acknowledged.           *)
PriorSurvives ==
    ~overlapped => \A u \in UpdateId :
        /\ Finalizing(u) => before[u] \in {managed, backup[u]}
        /\ pc[u] = "lost" /\ had[u] /\ ~acked[u] => backup[u] = before[u]

(* There is a whole installer at every moment: managed, or to go back to.  *)
InstallerKept == ManagedIsWhole /\ PriorSurvives

(* Every update handed to a finalizer ends, also when the old window stays *)
(* or the new one hangs.                                                   *)
UpdateEnds == \A u \in UpdateId : pc[u] \in FinalPc ~> pc[u] \notin FinalPc
===============================================================================
