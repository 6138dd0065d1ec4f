----------------------------- MODULE UpdateProofs -----------------------------
(***************************************************************************)
(* Proofs about Update, for any launchers, updates, versions and failures. *)
(***************************************************************************)
EXTENDS Update, TLAPS

--------------------------------------------------------------------------------
(* The inductive invariant. *)

Ended == {"done", "failed", "lost"}

\* A window that stages an update stages that one only, and a window that an
\* update starts is opened by the launch of its finalizer.
OneStaging ==
    \A u, v \in UpdateId :
        pc[u] \in StagingPc /\ pc[v] \in StagingPc /\ parent[u] = parent[v] => u = v
OpenedByLaunch ==
    \A u \in UpdateId :
        window[u] # "unopened" => pc[u] \in {"await", "remove", "restore"} \cup Ended

Typed == TypeOK /\ OneStaging /\ OpenedByLaunch

\* What is promoted was read back whole, and so was everything replaced.
Whole ==
    /\ ManagedIsWhole
    /\ \A u \in UpdateId : staged[u] # Torn
    /\ \A u \in UpdateId : pc[u] \in {"backup", "promote"} => temp[u] # Torn

\* The file a window runs from is there.
ImageKept == \A c \in UpdateId : Alive(c) /\ image[c] = "managed" => managed # Missing

\* The cleanup deletes only after the acknowledgement and the finalizer's end.
CleanerLate ==
    \A u \in UpdateId :
        /\ cleaner[u] # "none" => acked[u] /\ window[u] # "unopened"
        /\ cleaner[u] \in Leftovers => pc[u] \in Ended

\* Before the backup there is no backup.
NoBackupYet ==
    \A u \in UpdateId :
        pc[u] \in {"free", "wait", "copy", "verify", "backup"} \cup StagingPc =>
            ~had[u] /\ backup[u] = Missing

UnrestoredFailed == \A u \in unrestored : pc[u] = "failed"

\* While updates do not overlap one finalizer works, and the managed installer
\* it found is where that step left it; nothing keeps the place in use then.
OneFinalizer == \A u, v \in UpdateId : Finalizing(u) /\ Finalizing(v) => u = v
Place(u) ==
    /\ pc[u] \in {"copy", "verify", "backup"} => managed = before[u]
    /\ pc[u] = "promote" => managed = Missing
    /\ pc[u] \in {"promote", "launch", "await", "remove", "restore"} =>
          IF had[u] THEN backup[u] = before[u] /\ before[u] # Missing
          ELSE backup[u] = Missing /\ before[u] = Missing
    /\ pc[u] = "restore" => had[u]
    /\ pc[u] = "lost" /\ had[u] /\ ~acked[u] => backup[u] = before[u]
Unused(u) ==
    \A c \in UpdateId : Alive(c) /\ image[c] = "managed" =>
        /\ pc[u] \notin {"promote", "launch", "remove", "restore"}
        /\ pc[u] = "await" => c = u
Alone == ~overlapped => OneFinalizer /\ \A u \in UpdateId : Place(u) /\ Unused(u)

Kept == Whole /\ ImageKept /\ CleanerLate /\ NoBackupYet /\ UnrestoredFailed /\ Alone

IInv == Typed /\ Kept

--------------------------------------------------------------------------------
(* Types. *)

LEMMA Contents == /\ Missing \notin Version /\ Torn \notin Version /\ Torn # Missing
                  /\ Version \subseteq Content /\ {Missing, Torn} \subseteq Content
                  /\ UpdateId \subseteq Window /\ Launcher \subseteq Window
  BY UpdateAssumption DEF Missing, Torn, Version, Content, Window

\* The cleanup goes on to the next item, or is done.
LEMMA AfterTyped ==
    ASSUME NEW item \in Leftovers
    PROVE  After(item) \in {"done"} \cup Leftovers
<1> DEFINE Is(next) == \/ item = "backup" /\ next = "done"
                      \/ \E i \in 1 .. 4 : item = Leftover[i] /\ next = Leftover[i + 1]
<1>1. \E next \in {"done"} \cup {Leftover[i] : i \in 2 .. 5} : Is(next)
  <2>1. PICK i \in 1 .. 5 : item = Leftover[i]
    BY DEF Leftovers
  <2>2. CASE i = 5
    BY <2>1, <2>2 DEF Leftover
  <2>3. CASE i \in 1 .. 4
    <3>1. Leftover[i + 1] \in {Leftover[j] : j \in 2 .. 5}
      BY <2>3
    <3> QED BY <2>1, <2>3, <3>1
  <2> QED BY <2>1, <2>2, <2>3
<1>2. After(item) \in {"done"} \cup {Leftover[i] : i \in 2 .. 5}
  BY <1>1 DEF After
<1> QED
  BY <1>2 DEF Leftovers

\* The items of the cleanup, and the states of its thread.
LEMMA Items ==
    /\ Leftovers = {"staged", "receipt", "ready", "temp", "backup"}
    /\ CleanerState = {"none", "wait", "done", "staged", "receipt", "ready", "temp", "backup"}
    /\ {"none", "wait", "done"} \cap Leftovers = {}
<1>1. Leftovers = {"staged", "receipt", "ready", "temp", "backup"}
  <2>1. /\ Leftover[1] = "staged" /\ Leftover[2] = "receipt" /\ Leftover[3] = "ready"
        /\ Leftover[4] = "temp" /\ Leftover[5] = "backup"
    BY DEF Leftover
  <2>2. \A i \in 1 .. 5 : i = 1 \/ i = 2 \/ i = 3 \/ i = 4 \/ i = 5
    OBVIOUS
  <2>3. 1 \in 1 .. 5 /\ 2 \in 1 .. 5 /\ 3 \in 1 .. 5 /\ 4 \in 1 .. 5 /\ 5 \in 1 .. 5
    OBVIOUS
  <2> QED BY <2>1, <2>2, <2>3 DEF Leftovers
<1> QED BY <1>1 DEF CleanerState

LEMMA TypedInit == Init => Typed
<1> SUFFICES ASSUME Init PROVE Typed
  OBVIOUS
<1>1. published \subseteq Version
  BY UpdateAssumption DEF Init, Version
<1>2. runs \in [Window -> Content]
  BY UpdateAssumption, Contents DEF Init
<1>3. managed \in Content /\ faults \in 0 .. MaxFaults
  BY UpdateAssumption, Contents DEF Init, Version
<1> QED
  BY <1>1, <1>2, <1>3, Contents, Items
  DEF Init, Typed, TypeOK, OneStaging, OpenedByLaunch, StagingPc, Pc, WindowState

\* A window that ends keeps the types.
LEMMA EndTyped ==
    ASSUME Typed, NEW w \in Window, Alive(w), End(w)
    PROVE  /\ window' \in [Window -> WindowState]
           /\ \A q \in Window : q # w => window'[q] = window[q]
           /\ window'[w] = "closed" /\ window[w] # "unopened"
           /\ cleaner' \in [UpdateId -> CleanerState]
  BY Items DEF Typed, TypeOK, End, Alive, WindowState

\* The updates of a window that is gone stage no more.
LEMMA AbandonedTyped ==
    ASSUME Typed, NEW w \in Window
    PROVE  /\ Abandoned(w) \in [UpdateId -> Pc]
           /\ \A u \in UpdateId : Abandoned(w)[u] \in StagingPc =>
                  Abandoned(w)[u] = pc[u] /\ parent[u] # w
           /\ \A u \in UpdateId : Abandoned(w)[u] \in {pc[u], "lost"}
           /\ \A u \in UpdateId : pc[u] \notin StagingPc => Abandoned(w)[u] = pc[u]
  BY DEF Typed, TypeOK, Abandoned, Pc, StagingPc

LEMMA TypedNext == Typed /\ [Next]_vars => Typed'
<1> SUFFICES ASSUME Typed, [Next]_vars PROVE Typed'
  OBVIOUS
<1> USE UpdateAssumption, Contents
    DEF Typed, TypeOK, OneStaging, OpenedByLaunch, Step, Spend, StagingPc, FinalPc,
        Pc, WindowState, Ended, fileVars, windowVars, updateVars, history
<1>1. ASSUME NEW v \in Version, PublishRelease(v) PROVE Typed'
  BY <1>1 DEF PublishRelease
<1>2. ASSUME NEW l \in Launcher, OpenLauncher(l) PROVE Typed'
  BY <1>2 DEF OpenLauncher
<1>3. ASSUME NEW u \in UpdateId, Stage(u) PROVE Typed'
  BY <1>3 DEF Stage
<1>4. ASSUME NEW u \in UpdateId, WriteReceipt(u) PROVE Typed'
  BY <1>4 DEF WriteReceipt
<1>5. ASSUME NEW u \in UpdateId, SpawnFinalizer(u) PROVE Typed'
  BY <1>5 DEF SpawnFinalizer
<1>6. ASSUME NEW u \in UpdateId, StagingFails(u) PROVE Typed'
  <2>0. Missing \in Content
    BY DEF Content
  <2>1. staged' \in [UpdateId -> Content] /\ receipt' \in [UpdateId -> BOOLEAN]
    <3>1. CASE pc[u] = "spawn" /\ UNCHANGED <<staged, receipt>>
      BY <3>1
    <3>2. CASE /\ staged' = [staged EXCEPT ![u] = Missing]
               /\ receipt' = [receipt EXCEPT ![u] = FALSE]
      BY <2>0, <3>2
    <3> QED BY <1>6, <3>1, <3>2 DEF StagingFails
  <2>2. /\ pc[u] \in StagingPc /\ pc' = [pc EXCEPT ![u] = "failed"]
        /\ faults' \in 0 .. MaxFaults /\ window' = [window EXCEPT ![parent[u]] = "open"]
        /\ UNCHANGED <<published, managed, ready, temp, backup, runs, image, updateVars, cleaner,
                       history>>
    BY <1>6 DEF StagingFails
  <2> QED BY <2>1, <2>2
<1>7. ASSUME NEW u \in UpdateId, StartFinalizing(u) PROVE Typed'
  BY <1>7 DEF StartFinalizing
<1>8. ASSUME NEW u \in UpdateId, WaitTimesOut(u) PROVE Typed'
  BY <1>8 DEF WaitTimesOut
<1>9. ASSUME NEW u \in UpdateId, Copy(u) PROVE Typed'
  BY <1>9 DEF Copy
<1>10. ASSUME NEW u \in UpdateId, VerifyCopy(u) PROVE Typed'
  BY <1>10 DEF VerifyCopy
<1>11. ASSUME NEW u \in UpdateId, PreparationFails(u) PROVE Typed'
  BY SMTT(30), <1>11 DEF PreparationFails
<1>12. ASSUME NEW u \in UpdateId, BackUp(u) PROVE Typed'
  BY SMTT(30), <1>12 DEF BackUp, Images
<1>13. ASSUME NEW u \in UpdateId, Promote(u) PROVE Typed'
  BY <1>13 DEF Promote
<1>14. ASSUME NEW u \in UpdateId, PromoteFails(u) PROVE Typed'
  <2>1. pc' \in [UpdateId -> Pc] /\ faults' \in 0 .. MaxFaults
    BY SMTT(30), <1>14 DEF PromoteFails
  <2>2. \A v \in UpdateId : pc'[v] = pc[v] \/ (v = u /\ pc'[v] \in {"restore", "failed"})
    BY <1>14 DEF PromoteFails
  <2> QED BY <1>14, <2>1, <2>2 DEF PromoteFails
<1>15. ASSUME NEW u \in UpdateId, Launch(u) PROVE Typed'
  BY <1>15 DEF Launch
<1>16. ASSUME NEW u \in UpdateId, LaunchFails(u) PROVE Typed'
  BY <1>16 DEF LaunchFails
<1>17. ASSUME NEW u \in UpdateId, AwaitReady(u) PROVE Typed'
  BY <1>17 DEF AwaitReady
<1>18. ASSUME NEW u \in UpdateId, AwaitExited(u) PROVE Typed'
  BY <1>18 DEF AwaitExited
<1>19. ASSUME NEW u \in UpdateId, ReadyTimesOut(u) PROVE Typed'
  <2>1. Alive(u) /\ End(u)
    BY <1>19 DEF ReadyTimesOut
  <2>2. pc[u] = "await" /\ pc' = [Abandoned(u) EXCEPT ![u] = "remove"]
    BY <1>19 DEF ReadyTimesOut
  <2>3. \A v \in UpdateId : pc'[v] \in StagingPc => pc'[v] = pc[v] /\ parent[v] # u
    BY <2>2, AbandonedTyped
  <2>4. \A v \in UpdateId : pc'[v] \in {pc[v], "lost"} \/ (v = u /\ pc'[v] = "remove")
    BY <2>2, AbandonedTyped
  <2>5. pc' \in [UpdateId -> Pc]
    BY <2>2, AbandonedTyped
  <2> QED BY <1>19, <2>1, <2>2, <2>3, <2>4, <2>5, EndTyped DEF ReadyTimesOut
<1>20. ASSUME NEW u \in UpdateId, Remove(u) PROVE Typed'
  <2>1. pc' \in [UpdateId -> Pc] /\ managed' \in Content
    <3>1. managed' \in Content
      BY <1>20 DEF Remove
    <3>2. Step(u, "restore") \/ Step(u, "failed")
      BY <1>20 DEF Remove
    <3>3. pc' \in [UpdateId -> Pc]
      BY <3>2
    <3> QED BY <3>1, <3>3
  <2>2. \A v \in UpdateId : pc'[v] = pc[v] \/ (v = u /\ pc'[v] \in {"restore", "failed"})
    BY <1>20 DEF Remove
  <2> QED BY <1>20, <2>1, <2>2 DEF Remove
<1>21. ASSUME NEW u \in UpdateId, Restore(u) PROVE Typed'
  BY <1>21 DEF Restore, Images
<1>22. ASSUME NEW u \in UpdateId, RestoreFails(u) PROVE Typed'
  BY <1>22 DEF RestoreFails
<1>23. ASSUME NEW u \in UpdateId, FinalizerDies(u) PROVE Typed'
  BY <1>23 DEF FinalizerDies
<1>24. ASSUME NEW u \in UpdateId, Acknowledge(u) PROVE Typed'
  BY <1>24 DEF Acknowledge
<1>25. ASSUME NEW u \in UpdateId, RefuseToAcknowledge(u) PROVE Typed'
  <2>1. Alive(u) /\ End(u) /\ window[u] = "starting"
    BY <1>25 DEF RefuseToAcknowledge, Alive
  <2> QED BY <1>25, <2>1, EndTyped DEF RefuseToAcknowledge
<1>26. ASSUME NEW u \in UpdateId, PublishReady(u) PROVE Typed'
  BY <1>26, Items, AfterTyped DEF PublishReady
<1>27. ASSUME NEW u \in UpdateId, CleanupStarts(u) PROVE Typed'
  <2>1. cleaner' \in [UpdateId -> CleanerState]
    BY <1>27, Items DEF CleanupStarts, Leftover
  <2> QED BY <1>27, <2>1 DEF CleanupStarts
<1>28. ASSUME NEW u \in UpdateId, CleanUp(u) PROVE Typed'
  <2>1. cleaner' \in [UpdateId -> CleanerState]
    <3>1. After(cleaner[u]) \in CleanerState
      BY <1>28, AfterTyped DEF CleanUp, CleanerState
    <3> QED BY <1>28, <3>1 DEF CleanUp
  <2>2. /\ staged' \in [UpdateId -> Content] /\ receipt' \in [UpdateId -> BOOLEAN]
        /\ ready' \in [UpdateId -> {"none", "tmp", "set"}]
        /\ temp' \in [UpdateId -> Content] /\ backup' \in [UpdateId -> Content]
    BY <1>28 DEF CleanUp
  <2> QED BY <1>28, <2>1, <2>2 DEF CleanUp
<1>29. ASSUME NEW u \in UpdateId, CleanupFails(u) PROVE Typed'
  BY <1>29, Items, AfterTyped DEF CleanupFails
<1>30. ASSUME NEW u \in UpdateId, NEW w \in Window, BeginUpdate(w, u) PROVE Typed'
  <2>1. PICK v \in Version : target' = [target EXCEPT ![u] = v]
    BY <1>30 DEF BeginUpdate, InstallableUpdate
  <2>2. \A x \in UpdateId : x # u /\ pc[x] \in StagingPc => parent[x] # w
    BY <1>30 DEF BeginUpdate
  <2>3. target' \in [UpdateId -> Version \cup {Missing}]
    BY <2>1
  <2> QED BY <1>30, <2>2, <2>3 DEF BeginUpdate
<1>31. ASSUME NEW w \in Window, WindowQuits(w) PROVE Typed'
  <2>1. Alive(w) /\ End(w) /\ window[w] = "closing"
    BY <1>31 DEF WindowQuits, Alive
  <2> QED BY <1>31, <2>1, EndTyped DEF WindowQuits
<1>32. ASSUME NEW w \in Window, UserCloses(w) PROVE Typed'
  <2>1. Alive(w) /\ End(w) /\ window[w] = "open"
    BY <1>32 DEF UserCloses, Alive
  <2> QED BY <1>32, <2>1, EndTyped DEF UserCloses
<1>33. ASSUME NEW w \in Window, WindowDies(w) PROVE Typed'
  <2>1. Alive(w) /\ End(w) /\ pc' = Abandoned(w)
    BY <1>33 DEF WindowDies
  <2> QED BY <1>33, <2>1, EndTyped, AbandonedTyped DEF WindowDies
<1>34. CASE UNCHANGED vars
  BY <1>34 DEF vars
<1> QED
  BY <1>1, <1>2, <1>3, <1>4, <1>5, <1>6, <1>7, <1>8, <1>9, <1>10, <1>11, <1>12,
     <1>13, <1>14, <1>15, <1>16, <1>17, <1>18, <1>19, <1>20, <1>21, <1>22, <1>23, <1>24,
     <1>25, <1>26, <1>27, <1>28, <1>29, <1>30, <1>31, <1>32, <1>33, <1>34
  DEF Next, Staging, Finalizer, NewWindow, Windows

--------------------------------------------------------------------------------
(* The managed installer. *)

LEMMA KeptInit == Init => Kept
<1> SUFFICES ASSUME Init PROVE Kept
  OBVIOUS
<1>1. managed # Torn
  BY DEF Init, Torn, Missing
<1> QED
  BY <1>1, Contents, Items
  DEF Init, Kept, Whole, ManagedIsWhole, ImageKept, CleanerLate, NoBackupYet, UnrestoredFailed,
      Alone, OneFinalizer, Place, Unused, Alive, Finalizing, FinalPc, StagingPc, Ended

\* A window that ends runs from no file, and its cleanup deletes no more.
LEMMA EndKept ==
    ASSUME Typed, NEW w \in Window, Alive(w), End(w)
    PROVE  /\ \A c \in UpdateId : (window'[c] \notin {"unopened", "closed"}) => Alive(c) /\ c # w
           /\ \A u \in UpdateId : cleaner'[u] \in {cleaner[u], "none"}
           /\ "none" \notin Leftovers
           /\ \A c \in UpdateId : window[c] # "unopened" => window'[c] # "unopened"
<1>1. \A c \in UpdateId : (window'[c] \notin {"unopened", "closed"}) => Alive(c) /\ c # w
  BY EndTyped, Contents DEF Alive
<1>2. \A u \in UpdateId : cleaner'[u] \in {cleaner[u], "none"}
  BY DEF End
<1>3. "none" \notin Leftovers
  BY Items
<1>4. \A c \in UpdateId : window[c] # "unopened" => window'[c] # "unopened"
  BY EndTyped, Contents
<1> QED BY <1>1, <1>2, <1>3, <1>4

\* The cleanup comes after the acknowledgement of a window that was opened, and
\* deletes when the finalizer has ended, which then does not start again.
LEMMA CleanerNext == Typed /\ CleanerLate /\ [Next]_vars => CleanerLate'
<1> SUFFICES ASSUME Typed, CleanerLate, [Next]_vars PROVE CleanerLate'
  OBVIOUS
<1> USE Items, Contents
    DEF Typed, TypeOK, CleanerLate, Step, StagingPc, FinalPc, Ended, fileVars, windowVars,
        updateVars, history
<1>1. ASSUME NEW v \in Version, PublishRelease(v) PROVE CleanerLate'
  BY <1>1 DEF PublishRelease
<1>2. ASSUME NEW l \in Launcher, OpenLauncher(l) PROVE CleanerLate'
  BY <1>2 DEF OpenLauncher
<1>3. ASSUME NEW u \in UpdateId, Stage(u) PROVE CleanerLate'
  BY <1>3 DEF Stage
<1>4. ASSUME NEW u \in UpdateId, WriteReceipt(u) PROVE CleanerLate'
  BY <1>4 DEF WriteReceipt
<1>5. ASSUME NEW u \in UpdateId, SpawnFinalizer(u) PROVE CleanerLate'
  BY <1>5 DEF SpawnFinalizer
<1>6. ASSUME NEW u \in UpdateId, StagingFails(u) PROVE CleanerLate'
  BY <1>6 DEF StagingFails
<1>7. ASSUME NEW u \in UpdateId, StartFinalizing(u) PROVE CleanerLate'
  BY <1>7 DEF StartFinalizing
<1>8. ASSUME NEW u \in UpdateId, WaitTimesOut(u) PROVE CleanerLate'
  BY <1>8 DEF WaitTimesOut
<1>9. ASSUME NEW u \in UpdateId, Copy(u) PROVE CleanerLate'
  BY <1>9 DEF Copy
<1>10. ASSUME NEW u \in UpdateId, VerifyCopy(u) PROVE CleanerLate'
  BY <1>10 DEF VerifyCopy
<1>11. ASSUME NEW u \in UpdateId, PreparationFails(u) PROVE CleanerLate'
  BY <1>11 DEF PreparationFails
<1>12. ASSUME NEW u \in UpdateId, BackUp(u) PROVE CleanerLate'
  BY <1>12 DEF BackUp
<1>13. ASSUME NEW u \in UpdateId, Promote(u) PROVE CleanerLate'
  BY <1>13 DEF Promote
<1>14. ASSUME NEW u \in UpdateId, PromoteFails(u) PROVE CleanerLate'
  BY <1>14 DEF PromoteFails
<1>15. ASSUME NEW u \in UpdateId, Launch(u) PROVE CleanerLate'
  BY <1>15 DEF Launch
<1>16. ASSUME NEW u \in UpdateId, LaunchFails(u) PROVE CleanerLate'
  BY <1>16 DEF LaunchFails
<1>17. ASSUME NEW u \in UpdateId, AwaitReady(u) PROVE CleanerLate'
  BY <1>17 DEF AwaitReady
<1>18. ASSUME NEW u \in UpdateId, AwaitExited(u) PROVE CleanerLate'
  BY <1>18 DEF AwaitExited
<1>19. ASSUME NEW u \in UpdateId, ReadyTimesOut(u) PROVE CleanerLate'
  <2>1. Alive(u) /\ End(u)
    BY <1>19 DEF ReadyTimesOut, Alive
  <2>2. \A v \in UpdateId : pc[v] \in Ended => pc'[v] \in Ended
    BY <1>19 DEF ReadyTimesOut, Abandoned
  <2> QED BY <1>19, <2>1, <2>2, EndKept DEF ReadyTimesOut
<1>20. ASSUME NEW u \in UpdateId, Remove(u) PROVE CleanerLate'
  BY <1>20 DEF Remove
<1>21. ASSUME NEW u \in UpdateId, Restore(u) PROVE CleanerLate'
  BY <1>21 DEF Restore
<1>22. ASSUME NEW u \in UpdateId, RestoreFails(u) PROVE CleanerLate'
  BY <1>22 DEF RestoreFails
<1>23. ASSUME NEW u \in UpdateId, FinalizerDies(u) PROVE CleanerLate'
  BY <1>23 DEF FinalizerDies
<1>24. ASSUME NEW u \in UpdateId, Acknowledge(u) PROVE CleanerLate'
  BY <1>24 DEF Acknowledge
<1>25. ASSUME NEW u \in UpdateId, RefuseToAcknowledge(u) PROVE CleanerLate'
  <2>1. Alive(u) /\ End(u)
    BY <1>25 DEF RefuseToAcknowledge, Alive
  <2>2. \A v \in UpdateId : pc[v] \in Ended => pc'[v] \in Ended
    BY <1>25 DEF RefuseToAcknowledge, Abandoned
  <2> QED BY <1>25, <2>1, <2>2, EndKept DEF RefuseToAcknowledge
<1>26. ASSUME NEW u \in UpdateId, PublishReady(u) PROVE CleanerLate'
  <2>1. cleaner'[u] = "wait" /\ acked'[u] /\ window'[u] # "unopened"
    BY <1>26 DEF PublishReady
  <2>2. \A v \in UpdateId : v # u =>
            cleaner'[v] = cleaner[v] /\ acked'[v] = acked[v] /\ window'[v] = window[v]
    BY <1>26 DEF PublishReady
  <2> QED BY <1>26, <2>1, <2>2 DEF PublishReady
<1>27. ASSUME NEW u \in UpdateId, CleanupStarts(u) PROVE CleanerLate'
  <2>1. acked[u] /\ window[u] # "unopened" /\ pc[u] \in Ended
    BY <1>27 DEF CleanupStarts, FinalizerExited, OpenedByLaunch
  <2> QED BY <1>27, <2>1 DEF CleanupStarts
<1>28. ASSUME NEW u \in UpdateId, CleanUp(u) PROVE CleanerLate'
  BY <1>28, AfterTyped DEF CleanUp
<1>29. ASSUME NEW u \in UpdateId, CleanupFails(u) PROVE CleanerLate'
  BY <1>29 DEF CleanupFails
<1>30. ASSUME NEW u \in UpdateId, NEW w \in Window, BeginUpdate(w, u) PROVE CleanerLate'
  BY <1>30 DEF BeginUpdate
<1>31. ASSUME NEW w \in Window, WindowQuits(w) PROVE CleanerLate'
  <2>1. Alive(w) /\ End(w)
    BY <1>31 DEF WindowQuits, Alive
  <2>2. \A v \in UpdateId : pc[v] \in Ended => pc'[v] \in Ended
    BY <1>31 DEF WindowQuits
  <2> QED BY <1>31, <2>1, <2>2, EndKept DEF WindowQuits
<1>32. ASSUME NEW w \in Window, UserCloses(w) PROVE CleanerLate'
  <2>1. Alive(w) /\ End(w)
    BY <1>32 DEF UserCloses, Alive
  <2>2. \A v \in UpdateId : pc[v] \in Ended => pc'[v] \in Ended
    BY <1>32 DEF UserCloses
  <2> QED BY <1>32, <2>1, <2>2, EndKept DEF UserCloses
<1>33. ASSUME NEW w \in Window, WindowDies(w) PROVE CleanerLate'
  <2>1. Alive(w) /\ End(w)
    BY <1>33 DEF WindowDies, Alive
  <2>2. \A v \in UpdateId : pc[v] \in Ended => pc'[v] \in Ended
    BY <1>33 DEF WindowDies, Abandoned
  <2> QED BY <1>33, <2>1, <2>2, EndKept DEF WindowDies
<1>34. CASE UNCHANGED vars
  BY <1>34 DEF vars
<1> QED
  BY <1>1, <1>2, <1>3, <1>4, <1>5, <1>6, <1>7, <1>8, <1>9, <1>10, <1>11, <1>12,
     <1>13, <1>14, <1>15, <1>16, <1>17, <1>18, <1>19, <1>20, <1>21, <1>22, <1>23, <1>24,
     <1>25, <1>26, <1>27, <1>28, <1>29, <1>30, <1>31, <1>32, <1>33, <1>34
  DEF Next, Staging, Finalizer, NewWindow, Windows

\* The backup remembers whether there was an installer.
LEMMA HadRecorded ==
    ASSUME had \in [UpdateId -> BOOLEAN], NEW u \in UpdateId, BackUp(u)
    PROVE  had'[u] <=> managed # Missing
<1>1. had' = [had EXCEPT ![u] = (managed # Missing)]
  BY DEF BackUp
<1>2. had'[u] = (managed # Missing)
  BY <1>1, Zenon
<1> QED BY <1>2, Zenon

LEMMA KeptNext == IInv /\ [Next]_vars => Kept'
<1> SUFFICES ASSUME IInv, [Next]_vars PROVE Kept'
  OBVIOUS
<1>0. CleanerLate'
  BY CleanerNext DEF IInv, Kept
<1> USE <1>0, UpdateAssumption, Contents, Items
    DEF IInv, Typed, TypeOK, OneStaging, OpenedByLaunch, Kept, Whole, ManagedIsWhole, ImageKept,
        NoBackupYet, UnrestoredFailed, Alone, OneFinalizer, Place, Unused, Alive,
        Finalizing, Step, Spend, StagingPc, FinalPc, Ended, fileVars, windowVars, updateVars,
        history
<1>1. ASSUME NEW v \in Version, PublishRelease(v) PROVE Kept'
  BY <1>1 DEF PublishRelease
<1>2. ASSUME NEW l \in Launcher, OpenLauncher(l) PROVE Kept'
  BY <1>2 DEF OpenLauncher
<1>3. ASSUME NEW u \in UpdateId, Stage(u) PROVE Kept'
  BY <1>3 DEF Stage
<1>4. ASSUME NEW u \in UpdateId, WriteReceipt(u) PROVE Kept'
  BY <1>4 DEF WriteReceipt
<1>5. ASSUME NEW u \in UpdateId, SpawnFinalizer(u) PROVE Kept'
  BY <1>5 DEF SpawnFinalizer
<1>6. ASSUME NEW u \in UpdateId, StagingFails(u) PROVE Kept'
  BY <1>6 DEF StagingFails
<1>7. ASSUME NEW u \in UpdateId, StartFinalizing(u) PROVE Kept'
  <2>1. Whole' /\ ImageKept' /\ NoBackupYet' /\ UnrestoredFailed'
    BY <1>7 DEF StartFinalizing
  <2>2. ASSUME ~overlapped' PROVE \A v \in UpdateId : ~Finalizing(v)
    BY <1>7, <2>2 DEF StartFinalizing
  <2>3. Alone'
    BY <1>7, <2>2 DEF StartFinalizing
  <2> QED BY <2>1, <2>3
<1>8. ASSUME NEW u \in UpdateId, WaitTimesOut(u) PROVE Kept'
  BY <1>8 DEF WaitTimesOut
<1>9. ASSUME NEW u \in UpdateId, Copy(u) PROVE Kept'
  BY <1>9 DEF Copy
<1>10. ASSUME NEW u \in UpdateId, VerifyCopy(u) PROVE Kept'
  BY <1>10 DEF VerifyCopy
<1>11. ASSUME NEW u \in UpdateId, PreparationFails(u) PROVE Kept'
  BY <1>11 DEF PreparationFails
<1>12. ASSUME NEW u \in UpdateId, BackUp(u) PROVE Kept'
  <2>1. Whole' /\ NoBackupYet' /\ UnrestoredFailed'
    BY <1>12 DEF BackUp
  <2>2. CASE managed = Missing
    BY <1>12, <2>1, <2>2 DEF BackUp
  <2>3. CASE managed # Missing
    <3>1. \A c \in UpdateId : window[c] \notin {"unopened", "closed"} => image'[c] # "managed"
      BY <1>12, <2>3 DEF BackUp, Images
    <3>2. ImageKept'
      BY <1>12, <3>1 DEF BackUp
    <3>3. OneFinalizer /\ ~overlapped => OneFinalizer' /\ \A v \in UpdateId : Unused(v)'
      BY <1>12, <3>1 DEF BackUp
    <3>4. ASSUME ~overlapped, NEW v \in UpdateId PROVE Place(v)'
      <4>1. CASE v = u
        <5>1. managed = before[u] /\ pc'[u] = "promote"
          BY <1>12, <3>4 DEF BackUp
        <5>2. managed' = Missing /\ backup'[u] = managed /\ before'[u] = before[u]
          BY <1>12, <2>3 DEF BackUp
        <5>3. had'[u] <=> managed # Missing
          BY <1>12, HadRecorded
        <5> QED BY <2>3, <4>1, <5>1, <5>2, <5>3
      <4>2. CASE v # u
        <5>1. ~Finalizing(v)
          BY <1>12, <3>4, <4>2 DEF BackUp
        <5>2. pc'[v] = pc[v] /\ backup'[v] = backup[v] /\ had'[v] = had[v]
          BY <1>12, <4>2 DEF BackUp
        <5>3. before'[v] = before[v] /\ acked'[v] = acked[v]
          BY <1>12 DEF BackUp
        <5> QED BY <3>4, <5>1, <5>2, <5>3
      <4> QED BY <4>1, <4>2
    <3> QED BY <1>12, <2>1, <3>2, <3>3, <3>4 DEF BackUp
  <2> QED BY <2>2, <2>3
<1>13. ASSUME NEW u \in UpdateId, Promote(u) PROVE Kept'
  BY <1>13 DEF Promote, Locked
<1>14. ASSUME NEW u \in UpdateId, PromoteFails(u) PROVE Kept'
  <2>1. \A v \in UpdateId : v # u => pc'[v] = pc[v]
    BY <1>14 DEF PromoteFails
  <2>2. pc[u] = "promote" /\ pc'[u] = IF had[u] THEN "restore" ELSE "failed"
    BY <1>14 DEF PromoteFails
  <2>3. UNCHANGED <<fileVars, windowVars, updateVars, cleaner, history>>
    BY <1>14 DEF PromoteFails
  <2>4. Whole' /\ ImageKept' /\ NoBackupYet' /\ UnrestoredFailed'
    BY <2>1, <2>2, <2>3
  <2>5. Alone'
    BY <2>1, <2>2, <2>3
  <2> QED BY <2>4, <2>5
<1>15. ASSUME NEW u \in UpdateId, Launch(u) PROVE Kept'
  BY <1>15 DEF Launch
<1>16. ASSUME NEW u \in UpdateId, LaunchFails(u) PROVE Kept'
  BY <1>16 DEF LaunchFails
<1>17. ASSUME NEW u \in UpdateId, AwaitReady(u) PROVE Kept'
  BY <1>17 DEF AwaitReady
<1>18. ASSUME NEW u \in UpdateId, AwaitExited(u) PROVE Kept'
  BY <1>18 DEF AwaitExited
<1>19. ASSUME NEW u \in UpdateId, ReadyTimesOut(u) PROVE Kept'
  <2>1. Alive(u) /\ End(u) /\ pc[u] = "await" /\ pc' = [Abandoned(u) EXCEPT ![u] = "remove"]
    BY <1>19 DEF ReadyTimesOut
  <2>2. pc'[u] = "remove" /\ \A v \in UpdateId : v # u =>
            pc'[v] = pc[v] \/ (pc[v] \in StagingPc /\ pc'[v] = "lost")
    BY <2>1 DEF Abandoned
  <2>3. UNCHANGED <<fileVars, image, had, before, acked, overlapped, unrestored>>
    BY <1>19 DEF ReadyTimesOut
  <2> HIDE DEF Alive
  <2>4. \A c \in UpdateId : Alive(c)' => Alive(c) /\ c # u
    BY <2>1, EndKept DEF Alive
  <2>5. Whole' /\ NoBackupYet' /\ UnrestoredFailed'
    BY <2>1, <2>2, <2>3
  <2>6. ImageKept'
    BY <2>3, <2>4
  <2>7. ASSUME ~overlapped, NEW v \in UpdateId PROVE Place(v)'
    <3>1. CASE pc'[v] = pc[v]
      BY <2>1, <2>3, <2>7, <3>1
    <3>2. CASE pc'[v] # pc[v]
      BY <2>1, <2>2, <2>3, <2>7, <3>2
    <3> QED BY <3>1, <3>2
  <2>8. ASSUME ~overlapped, NEW v \in UpdateId PROVE Unused(v)'
    BY <2>1, <2>2, <2>3, <2>4, <2>8
  <2>9. ~overlapped => OneFinalizer'
    <3>1. \A v \in UpdateId : Finalizing(v)' => Finalizing(v)
      BY <2>1, <2>2
    <3> QED BY <3>1
  <2> QED BY <2>3, <2>5, <2>6, <2>7, <2>8, <2>9
<1>20. ASSUME NEW u \in UpdateId, Remove(u) PROVE Kept'
  BY <1>20 DEF Remove, Locked
<1>21. ASSUME NEW u \in UpdateId, Restore(u) PROVE Kept'
  BY <1>21 DEF Restore, Images, Locked
<1>22. ASSUME NEW u \in UpdateId, RestoreFails(u) PROVE Kept'
  BY <1>22 DEF RestoreFails
<1>23. ASSUME NEW u \in UpdateId, FinalizerDies(u) PROVE Kept'
  BY <1>23 DEF FinalizerDies
<1>24. ASSUME NEW u \in UpdateId, Acknowledge(u) PROVE Kept'
  BY <1>24 DEF Acknowledge
<1>25. ASSUME NEW u \in UpdateId, RefuseToAcknowledge(u) PROVE Kept'
  <2>1. Alive(u) /\ End(u)
    BY <1>25 DEF RefuseToAcknowledge
  <2>2. \A v \in UpdateId : pc'[v] = pc[v] \/ (pc[v] \in StagingPc /\ pc'[v] = "lost")
    BY <1>25 DEF RefuseToAcknowledge
  <2>3. UNCHANGED <<fileVars, image, had, before, acked, overlapped, unrestored>>
    BY <1>25 DEF RefuseToAcknowledge
  <2> HIDE DEF Alive
  <2>4. \A c \in UpdateId : Alive(c)' => Alive(c) /\ c # u
    BY <2>1, EndKept DEF Alive
  <2>5. Whole' /\ NoBackupYet' /\ UnrestoredFailed'
    BY <2>2, <2>3
  <2>6. ImageKept'
    BY <2>3, <2>4
  <2>7. ASSUME ~overlapped, NEW v \in UpdateId PROVE Place(v)'
    <3>1. CASE pc'[v] = pc[v]
      BY <2>3, <2>7, <3>1
    <3>2. CASE pc'[v] # pc[v]
      BY <2>2, <2>3, <2>7, <3>2
    <3> QED BY <3>1, <3>2
  <2>8. ASSUME ~overlapped, NEW v \in UpdateId PROVE Unused(v)'
    BY <2>2, <2>3, <2>4, <2>8
  <2>9. ~overlapped => OneFinalizer'
    <3>1. \A v \in UpdateId : Finalizing(v)' => Finalizing(v)
      BY <2>2
    <3> QED BY <3>1
  <2> QED BY <2>3, <2>5, <2>6, <2>7, <2>8, <2>9
<1>26. ASSUME NEW u \in UpdateId, PublishReady(u) PROVE Kept'
  BY <1>26 DEF PublishReady
<1>27. ASSUME NEW u \in UpdateId, CleanupStarts(u) PROVE Kept'
  BY <1>27 DEF CleanupStarts
<1>28. ASSUME NEW u \in UpdateId, CleanUp(u) PROVE Kept'
  <2>1. \A v \in UpdateId : temp'[v] \in {temp[v], Missing} /\ staged'[v] \in {staged[v], Missing}
    BY <1>28 DEF CleanUp
  <2>2. pc[u] \in Ended /\ acked[u]
    BY <1>28 DEF CleanUp, CleanerLate
  <2>3. \A v \in UpdateId : v # u => backup'[v] = backup[v]
    BY <1>28 DEF CleanUp
  <2>4. UNCHANGED <<managed, window, image, pc, had, before, acked, overlapped, unrestored>>
    BY <1>28 DEF CleanUp
  <2>5. backup'[u] \in {backup[u], Missing}
    BY <1>28 DEF CleanUp
  <2>6. Whole' /\ ImageKept' /\ NoBackupYet' /\ UnrestoredFailed'
    BY <2>1, <2>2, <2>3, <2>4, <2>5
  <2>7. Alone'
    BY <2>2, <2>3, <2>4
  <2> QED BY <2>6, <2>7
<1>29. ASSUME NEW u \in UpdateId, CleanupFails(u) PROVE Kept'
  BY <1>29 DEF CleanupFails
<1>30. ASSUME NEW u \in UpdateId, NEW w \in Window, BeginUpdate(w, u) PROVE Kept'
  BY <1>30 DEF BeginUpdate
<1>31. ASSUME NEW w \in Window, WindowQuits(w) PROVE Kept'
  <2>1. Alive(w) /\ End(w)
    BY <1>31 DEF WindowQuits
  <2>2. \A v \in UpdateId : pc'[v] = pc[v] \/ (pc[v] \in StagingPc /\ pc'[v] = "lost")
    BY <1>31 DEF WindowQuits
  <2>3. UNCHANGED <<fileVars, image, had, before, acked, overlapped, unrestored>>
    BY <1>31 DEF WindowQuits
  <2> HIDE DEF Alive
  <2>4. \A c \in UpdateId : Alive(c)' => Alive(c) /\ c # w
    BY <2>1, EndKept DEF Alive
  <2>5. Whole' /\ NoBackupYet' /\ UnrestoredFailed'
    BY ZenonT(60), <2>2, <2>3
  <2>6. ImageKept'
    BY <2>3, <2>4
  <2>7. ASSUME ~overlapped, NEW v \in UpdateId PROVE Place(v)'
    <3>1. CASE pc'[v] = pc[v]
      BY <2>3, <2>7, <3>1
    <3>2. CASE pc'[v] # pc[v]
      BY <2>2, <2>3, <2>7, <3>2
    <3> QED BY <3>1, <3>2
  <2>8. ASSUME ~overlapped, NEW v \in UpdateId PROVE Unused(v)'
    BY <2>2, <2>3, <2>4, <2>8
  <2>9. ~overlapped => OneFinalizer'
    <3>1. \A v \in UpdateId : Finalizing(v)' => Finalizing(v)
      BY <2>2
    <3> QED BY <3>1
  <2> QED BY <2>3, <2>5, <2>6, <2>7, <2>8, <2>9
<1>32. ASSUME NEW w \in Window, UserCloses(w) PROVE Kept'
  <2>1. Alive(w) /\ End(w)
    BY <1>32 DEF UserCloses
  <2>2. \A v \in UpdateId : pc'[v] = pc[v] \/ (pc[v] \in StagingPc /\ pc'[v] = "lost")
    BY <1>32 DEF UserCloses
  <2>3. UNCHANGED <<fileVars, image, had, before, acked, overlapped, unrestored>>
    BY <1>32 DEF UserCloses
  <2> HIDE DEF Alive
  <2>4. \A c \in UpdateId : Alive(c)' => Alive(c) /\ c # w
    BY <2>1, EndKept DEF Alive
  <2>5. Whole' /\ NoBackupYet' /\ UnrestoredFailed'
    BY ZenonT(60), <2>2, <2>3
  <2>6. ImageKept'
    BY <2>3, <2>4
  <2>7. ASSUME ~overlapped, NEW v \in UpdateId PROVE Place(v)'
    <3>1. CASE pc'[v] = pc[v]
      BY <2>3, <2>7, <3>1
    <3>2. CASE pc'[v] # pc[v]
      BY <2>2, <2>3, <2>7, <3>2
    <3> QED BY <3>1, <3>2
  <2>8. ASSUME ~overlapped, NEW v \in UpdateId PROVE Unused(v)'
    BY <2>2, <2>3, <2>4, <2>8
  <2>9. ~overlapped => OneFinalizer'
    <3>1. \A v \in UpdateId : Finalizing(v)' => Finalizing(v)
      BY <2>2
    <3> QED BY <3>1
  <2> QED BY <2>3, <2>5, <2>6, <2>7, <2>8, <2>9
<1>33. ASSUME NEW w \in Window, WindowDies(w) PROVE Kept'
  <2>1. Alive(w) /\ End(w)
    BY <1>33 DEF WindowDies
  <2>2. \A v \in UpdateId : pc'[v] = pc[v] \/ (pc[v] \in StagingPc /\ pc'[v] = "lost")
    BY <1>33 DEF WindowDies, Abandoned
  <2>3. UNCHANGED <<fileVars, image, had, before, acked, overlapped, unrestored>>
    BY <1>33 DEF WindowDies
  <2> HIDE DEF Alive
  <2>4. \A c \in UpdateId : Alive(c)' => Alive(c) /\ c # w
    BY <2>1, EndKept DEF Alive
  <2>5. Whole' /\ NoBackupYet' /\ UnrestoredFailed'
    BY <2>2, <2>3
  <2>6. ImageKept'
    BY <2>3, <2>4
  <2>7. ASSUME ~overlapped, NEW v \in UpdateId PROVE Place(v)'
    <3>1. CASE pc'[v] = pc[v]
      BY <2>3, <2>7, <3>1
    <3>2. CASE pc'[v] # pc[v]
      BY <2>2, <2>3, <2>7, <3>2
    <3> QED BY <3>1, <3>2
  <2>8. ASSUME ~overlapped, NEW v \in UpdateId PROVE Unused(v)'
    BY <2>2, <2>3, <2>4, <2>8
  <2>9. ~overlapped => OneFinalizer'
    <3>1. \A v \in UpdateId : Finalizing(v)' => Finalizing(v)
      BY <2>2
    <3> QED BY <3>1
  <2> QED BY <2>3, <2>5, <2>6, <2>7, <2>8, <2>9
<1>34. CASE UNCHANGED vars
  BY <1>34 DEF vars
<1> QED
  BY <1>1, <1>2, <1>3, <1>4, <1>5, <1>6, <1>7, <1>8, <1>9, <1>10, <1>11, <1>12,
     <1>13, <1>14, <1>15, <1>16, <1>17, <1>18, <1>19, <1>20, <1>21, <1>22, <1>23, <1>24,
     <1>25, <1>26, <1>27, <1>28, <1>29, <1>30, <1>31, <1>32, <1>33, <1>34
  DEF Next, Staging, Finalizer, NewWindow, Windows

--------------------------------------------------------------------------------
(* The theorems. *)

LEMMA Inductive == Spec => []IInv
<1>1. Init => IInv
  BY TypedInit, KeptInit DEF IInv
<1>2. IInv /\ [Next]_vars => IInv'
  BY TypedNext, KeptNext DEF IInv
<1> QED
  BY <1>1, <1>2, PTL DEF Spec

\* Every file, window and update keeps its type, and the window an update is
\* staged from stays busy: neither its user nor a finalizer that kills it can
\* leave the update behind (update.rs, prepare_update and wait_for_ready_ack).
THEOREM UpdateTypeCorrect == Spec => []TypeOK
<1>1. IInv => TypeOK
  BY DEF IInv, Typed
<1> QED BY <1>1, Inductive, PTL

\* The managed installer and its backups are whole, and while updates do not
\* overlap the previous installer survives until it is not needed any more,
\* whatever fails, dies or is killed (update.rs, promote_and_launch,
\* cleanup_completed_update).
THEOREM PriorInstallerSurvives == Spec => []InstallerKept
<1>1. ASSUME IInv PROVE PriorSurvives
  <2> USE DEF IInv, Kept, Alone, Place, NoBackupYet
  <2>1. ASSUME ~overlapped, NEW u \in UpdateId, Finalizing(u)
        PROVE  before[u] \in {managed, backup[u]}
    BY <1>1, <2>1 DEF Finalizing, FinalPc
  <2>2. ASSUME ~overlapped, NEW u \in UpdateId, pc[u] = "lost", had[u], ~acked[u]
        PROVE  backup[u] = before[u]
    BY <1>1, <2>2
  <2> QED BY <2>1, <2>2 DEF PriorSurvives
<1>2. IInv => InstallerKept
  BY <1>1 DEF IInv, Kept, Whole, InstallerKept
<1> QED BY <1>2, Inductive, PTL

\* Only its own steps make a finalizer that works give up.
LEMMA GivesUp ==
    ASSUME TypeOK, Next, NEW u \in UpdateId, Finalizing(u), pc'[u] = "failed"
    PROVE  PreparationFails(u) \/ PromoteFails(u) \/ Remove(u) \/ Restore(u) \/ RestoreFails(u)
<1> USE DEF TypeOK, Finalizing, FinalPc, StagingPc, Step
<1>1. ASSUME NEW v \in UpdateId, Staging(v) PROVE FALSE
  BY <1>1 DEF Staging, BeginUpdate, Stage, WriteReceipt, SpawnFinalizer, StagingFails
<1>2. ASSUME NEW v \in UpdateId, NewWindow(v) PROVE FALSE
  BY <1>2 DEF NewWindow, Acknowledge, RefuseToAcknowledge, PublishReady, CleanupStarts, CleanUp,
              CleanupFails
<1>3. ASSUME NEW v \in UpdateId, FinalizerDies(v) PROVE FALSE
  BY <1>3 DEF FinalizerDies
<1>4. ASSUME Windows PROVE FALSE
  BY <1>4 DEF Windows, WindowQuits, UserCloses, WindowDies, Abandoned
<1>5. ASSUME \/ \E v \in Version : PublishRelease(v)
             \/ \E l \in Launcher : OpenLauncher(l)
      PROVE  FALSE
  BY <1>5 DEF PublishRelease, OpenLauncher
<1>6. ASSUME NEW v \in UpdateId,
             \/ StartFinalizing(v) \/ WaitTimesOut(v) \/ Copy(v) \/ VerifyCopy(v) \/ BackUp(v)
             \/ Promote(v) \/ Launch(v) \/ LaunchFails(v) \/ AwaitReady(v) \/ AwaitExited(v)
      PROVE  FALSE
  BY <1>6 DEF StartFinalizing, WaitTimesOut, Copy, VerifyCopy, BackUp, Promote, Launch,
              LaunchFails, AwaitReady, AwaitExited
<1>7. ASSUME NEW v \in UpdateId, ReadyTimesOut(v) PROVE FALSE
  BY <1>7 DEF ReadyTimesOut, Abandoned
<1>8. ASSUME NEW v \in UpdateId, v # u,
             PreparationFails(v) \/ Remove(v) \/ Restore(v) \/ RestoreFails(v) \/ PromoteFails(v)
      PROVE  FALSE
  BY <1>8 DEF PreparationFails, PromoteFails, Remove, Restore, RestoreFails
<1> QED
  BY <1>1, <1>2, <1>3, <1>4, <1>5, <1>6, <1>7, <1>8 DEF Next, Finalizer

\* A finalizer that gives up while updates do not overlap leaves the installer
\* it found, or the backup of it when the restoring rename itself failed
\* (update.rs, finalize_update and promote_and_launch).
THEOREM GivingUpRestores == Spec => FailureRestores
<1> DEFINE Restored(u) ==
        (Finalizing(u) /\ pc'[u] = "failed" /\ ~overlapped) =>
            IF u \in unrestored' THEN backup'[u] = before[u] ELSE managed' = before[u]
<1>1. ASSUME IInv, Next, NEW u \in UpdateId, Finalizing(u), pc'[u] = "failed", ~overlapped
      PROVE  IF u \in unrestored' THEN backup'[u] = before[u] ELSE managed' = before[u]
  <2> USE DEF IInv, Typed, TypeOK, Kept, Alone, Place, Unused, UnrestoredFailed, Finalizing,
              FinalPc, Step, Locked
  <2>1. CASE PreparationFails(u)
    BY <1>1, <2>1 DEF PreparationFails, history, fileVars
  <2>2. CASE PromoteFails(u)
    BY <1>1, <2>2 DEF PromoteFails, history, fileVars
  <2>3. CASE Remove(u)
    BY <1>1, <2>3 DEF Remove, history
  <2>4. CASE Restore(u)
    BY <1>1, <2>4 DEF Restore, history
  <2>5. CASE RestoreFails(u)
    BY <1>1, <2>5 DEF RestoreFails, fileVars
  <2>6. TypeOK
    BY <1>1
  <2> QED
    BY <1>1, <2>1, <2>2, <2>3, <2>4, <2>5, <2>6, GivesUp
<1>2. IInv /\ [Next]_vars => [\A u \in UpdateId : Restored(u)]_vars
  BY <1>1
<1> QED
  BY <1>2, Inductive, PTL DEF Spec, FailureRestores
================================================================================
