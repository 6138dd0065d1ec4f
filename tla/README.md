# Verification of Beatblock Online

TLA+ specifications of Beatblock Online, the multiplayer companion of the
rhythm game Beatblock: what the program is made of, which of it is specified
here, what TLC checks on small instances and what TLAPS proves for all of them.
All paths are relative to `src/`.

## 1. The system

The companion (`companion/`, Rust, Tokio) runs beside the game on every
player's machine. One of them hosts: it owns the authoritative room, accepts
peers over QUIC, and publishes snapshots. A Lua mod inside the game
(`mod/shared/bbt/`) talks to its companion over a local socket. Spectators and
commentators watch rendered copies of the game; an OBS plugin (`obs-plugin/`)
shows them. An installer and a self-updater put the mod and the companion in
place.

| Component | State it keeps | Operations | Talks to | Hard behaviour | Correct when |
|---|---|---|---|---|---|
| Room engine `companion/src/room.rs` | snapshot (roster, chart, setlist, policy, lifecycle), final and started runs, current and replaced run ids, disconnect deadlines | join, reconnect, disconnect, admit, roles, kick, setlist, verify, ready, start, run events, expiries, close | called under one RwLock by the room service | events of several peers and of the host in any order; drops and resumes during a race; timeouts racing late answers | a race never strands; one final result per racer; results are gapless and verified; rules and roster do not move in a race; chart and setlist agree |
| Room service `app_state.rs`, `main.rs` | engine lock, `is_host`, `room_dirty`, pending verification and transfer requests | network event dispatch, host commands, 1 s maintenance scan, publication, `close_room` | engine, hub, storage, journal, IPC | state changes under the lock, effects after it; several awaits between closing the room and ceasing to host | peers see every change, newest last; a refused control has no effect outside |
| Peer transport `network.rs` | connections by peer and by session, resume tokens, readers and writers, password attempts | accept, authenticate, resume, revoke, send, broadcast | room service by one event queue | a resume racing the end of the old reader; events queued before `Authenticated`; check and insert under separate locks | one live connection per session; events of a connection in order; a resume keeps its connection |
| Chart verification and transfer `transfer.rs`, `chart_hash.rs`, `app_state.rs` | offers, chunks received, locked chart of each peer | offer, chunk, verify, select | engine, peers | a report about the previous chart arriving after the next is locked | a racer is verified for the chart that is locked |
| Client reconnect `app_state.rs` | session id, token, attempt counter | dial, back off, resume, give up | transport | a manual leave while a retry is under way | one connection attempt at a time; a left room stays left |
| Broadcast and commentators `app_state.rs`, `model.rs` | plan revision, render slots, subscriptions | assign slot, subscribe, grant | engine, renderers | plan and roster change together | a slot shows a racer; only those with access get streams |
| Storage `storage.rs` | database, backlog of events not yet written | save room, queue and flush events | room service | flushes that fail or overlap; a contended lock | every event stored once and in order |
| Journal `journal.rs` | bounded queue, hash chain of lines | append, rotate | room service | a full queue | what the room counted is in the journal |
| Control plane `ipc.rs`, `http.rs`, `game_commands.rs` | the claimed game session, the busy flag | claim, command, event, session end | game, window | the same command from three sides | one mutating command at a time; the flag is always released |
| Renderer processes and ring `renderer.rs`, `obs-plugin/src/plugin.c` | slots, child processes, a shared-memory ring | launch, stop, write frame, read frame | game, OBS | memory shared by two processes | a frame read is a frame written |
| Audio isolation `audio_sessions.rs` | mute state per process | mute, restore | Windows | sessions that appear later | what was muted is restored |
| Installer `installer.rs` | runtime, mod, maintenance copy, two files in the game folder, their backups, manifest; during an install its rollback guards | install, update, repair, move, restore, uninstall | file system, Windows | some fifteen file operations of which any may fail; a crash between two; what one manifest claims carried over to the next, through moves, updates and restores | a failed install changes nothing, a reported one is whole, the user's own files are never lost and come back at uninstall |
| Self-update `update.rs` | receipt, staged executable | check, download, stage, promote | installer | replacing a program that runs | a working executable at every step |
| Game mod `mod/shared/bbt/` | run id, sequence, score totals, dashboard state | run events, IPC worker | companion | retry, restart and scene changes in mid run | one gapless sequence per run |
| Window, tray, exports, credentials, NAT; schemas and scripts | none worth a model | | | | |

Every participant reaches the room through one queue: `network.rs` readers put
`NetworkEvent`s on it, one task takes them off and calls
`AppState::handle_network_event`, which takes the room's write lock, changes the
room, releases it and publishes. The host's own game events
(`apply_run_to_room`), the host's controls and the maintenance scan of
`main.rs:210-239` take the same lock from other tasks. The unit of interleaving
in the room is therefore one critical section on that lock, and that is what one
action of `RoomEngine` is.

The hazards of the code, each at its line, are listed in `PROJECT.json`.

## 2. Modules

| Module | What it is |
|---|---|
| `RoomEngine` | The room: every operation of `room.rs`, under the guards `app_state.rs` and `network.rs` put before it |
| `RaceContract` | The abstract specification: what a room promises its racers |
| `RoomProperties` | The room's type invariant, safety, action and liveness properties, its refinement of `RaceContract`, and statements of the documents that the code does not keep |
| `HostSessions` | The host's half of the transport: accepting, resuming, readers, tokens, and the event queue, with the room service's handlers |
| `ClientSession` | A participant's runtime: join, leave, losses, removals and the reconnect task |
| `EventPipeline` | What the host does with a change: the event backlog and its flushers, publication to database, exports and peers, and the export worker |
| `ChartTransfer` | How participants come to have the locked chart: matching, requests, packaging, offers, decisions, streams, installation, over links that fail |
| `BroadcastPlan` | Plan revisions, Commentator access and subscriptions on the host; the mirror and its processes on the Commentator |
| `RendererInputs` | What the hidden games are fed: sources, the writer of input pages, and the controls that start runs, launch and stop slots |
| `Installer` | The installer's file transaction, with its properties |
| `Update` | The installer's self-update: staging, finalizer, new window, rollback, cleanup |
| `GameLink` | The game and its runtime: commands, the worker thread and its pipe, the claim, the busy flag, and the runtime's life |
| `RoomProofs` | Theorems about `RoomEngine!Spec`: types, races, setlists, results, the roster, and that it implements `RaceContract` |
| `HostProofs` | Theorems about `HostSessions` and `EventPipeline` |
| `RendererProofs` | Theorems about `BroadcastPlan` and `RendererInputs` |
| `ClientSessionProofs`, `ChartTransferProofs`, `InstallerProofs`, `UpdateProofs`, `GameLinkProofs` | Theorems about the specifications of `ClientSession`, `ChartTransfer`, `Installer`, `Update` and `GameLink` |
| `MCRoomEngine`, `MCHostSessions`, `MCClientSession`, `MCEventPipeline`, `MCChartTransfer`, `MCBroadcastPlan`, `MCRendererInputs`, `MCInstaller`, `MCUpdate`, `MCGameLink` | What the instances of TLC need |

`HostProofs` and `RendererProofs` each extend the two specifications they are
about, which is why `EventPipeline` and `RendererInputs` prefix the names every
specification has (`PipelineSpec`, `InputsNext`).

The modules meet at the interfaces of the code. `HostSessions` decides when the
host hears `Authenticated` and `Disconnected`; `RoomEngine` takes these as
`Join`, `Reconnect` and `Disconnect` in any order its `link` allows, and
`HostSessions` keeps of the room only what decides whether a join is accepted.
`ClientSession` takes a host that may answer or end a connection at any time.
`EventPipeline` counts changes of the room instead of keeping one. `BroadcastPlan`
and `RendererInputs` are two sides of `RendererManager`: which processes run, and
what they read. `GameLink` carries commands to the point where they run; what a
command does then is an action of the others.

### How RoomEngine follows the code

`lifecycle`, `chart`, `setlist`, `active`, `mode`, `checks`, `settings` and
`part` are fields of `RoomSnapshot`; `finalized`, `started`, `activeRun`,
`retired` and `deadlines` are the maps and sets beside it in `RoomEngine`.
`phase` is what the application adds: `closing` from `RoomEngine::close` until
`close_room` clears `is_host` several awaits later, and `gone` then. `link[s]` is
what the transport last did for a session: `up` from `Authenticated` to
`Disconnected`, `down` while the resume token stands, `revoked` when the host has
dropped connection and token but the reader has not ended yet, `gone` when it
has. While a link is `up` or `revoked` its envelopes are still delivered.
`counted` is a history variable (score events that entered the standings in the
current attempt) and `races` counts races for the bound.

| Actions | Code |
|---|---|
| `Join`, `JoinRefused`, `Reconnect`, `Disconnect` | `request_join_with_id`, `disconnect_at`, and `handle_network_event`, which disconnects a session whose join it refuses |
| `ExpireDisconnect`, `ExpireUnstartedRuns` | the maintenance scan: `expire_due_disconnects`, `expire_unstarted_runs` |
| `Admit`, `SetRole`, `SetHostParticipating`, `SetCommentatorAccess`, `Kick` | host controls over the roster; the application sends the rejection of a request through `kick` |
| `SetValidityChecks`, `ChangeSetting` | host controls over rules; the settings that share one guard are one variable |
| `LockChart`, `AppendChart`, `RemoveSetlist`, `MoveSetlist`, `AdvanceSetlist` | the chart and the setlist |
| `SetVerified`, `SetReady`, `ScheduleStart` | getting to a race |
| `RunStarted`, `IngestScore`, `Invalidate`, `FinishRun`, `RunEventRefused` | `apply_run_to_room`: an event that an operation refuses is recorded by `reject_run_event` |
| `Close`, `StopHosting` | `close_room` |

`rank`, `refresh_ready_lifecycle`, `reset_for_locked_chart` and
`try_finish_chart` are operators (`Ranked`, `Refreshed`, `ResetForLockedChart`,
`TryFinishChart`) applied by the actions whose code calls them and by no other:
that `finish_run` does not rank and a join does not refresh is part of the model.

Run events are lost, replayed and reordered by letting a session send any run
event with any run id, sequence number and totals at any time its envelopes are
delivered. What a client may send is thus not restricted to what the game mod
does send; nothing proved or checked of the room relies on well-behaved clients.

Abstractions. Display names are numbers in name order. Score totals keep
`currentMaxHits` (`done`) and `misses` (`missed`): they decide completion and
accuracy, and the other counters add only reasons to refuse an event, which
`RunEventRefused` covers. Accuracies are whole percents. The ranking key keeps
validity, accuracy, progress and name, and leaves out the maximum combo.
Deadlines keep who is due and not when: a deadline may fall due at any time after
it was set, so every outcome of the race between a timeout and a late answer is
a behaviour. Each due expiry is an action, where the code runs the due ones of a
scan under one lock; the scan's room changes and the `disconnect_peer` calls after
it are one step, and a resume between the two is not in the model. Handlers
that refuse without changing the room are left out. `Init` is a room as hosted;
a room restored from the database is not modelled.

### How Installer follows the code

`disk` maps places to contents: the runtime, the mod folder, the maintenance
copy and what a retired alpha release left behind exist once, `version.dll`
(`Lovely`) and `steam_appid.txt` (`AppId`) in each game folder. A file of the
program is the build that wrote it. `backup` is `data_dir/backups`, whose names
are made from the game folder, and `manifest` is `install-manifest.json` with
its four `claims` (owned and backed up, for each of the two files). The program
is where `job` and `step` say, and `undo` holds its rollback guards, the latest
first; `claims` are the local variables the next manifest will be made of.

| Actions | Code |
|---|---|
| `Install`, `Repair` | the start of `install_with_progress_platform`, of a chosen folder or the manifest's |
| `ReplaceRuntime` to `ReturnOldAppId` | its file operations one by one, in order: most make a guard, the backups (`BackUpLovely`, `BackUpAppId`) and the registration (`Register`) make none |
| `SaveManifest`, `Commit`, `CommitFails` | the manifest, then the commits; of these only that of the mod can fail |
| `Fail`, `DropGuard`, `Undone` | a `?` or `bail!` anywhere before, and the drops of the guards that follow |
| `Restore`, `Uninstall`, `RemoveMod` to `RemoveRest`, `Stop` | `restore_with_progress` and `uninstall_with_progress_platform`, which keep no guards and stop at the first error |
| `Crash` | the process dies between two operations: guards are not dropped, nothing is undone |
| `Adopt`, `Vanish`, `Reappear` | Steam comes to list a folder; a folder no longer validates as a game, and does again |

`original`, `before`, `outcome`, `used`, `jobs` and `mishaps` are histories for
the properties and the bounds.

Abstractions. One program runs at a time; that the game and OBS are closed, and
which of the two adapters is installed, is decided before anything changes and
is left out. A file operation happens or does not: replacement is by
`atomic_write`, and the plain copies into the backups are taken as whole. A guard
that is dropped succeeds (the code ignores its errors). The guards of a move's
two files are in one vector, which drops them first to last where the model
drops them last to first; they are of different files, so only a crash between
the two drops could tell. Staging, the renderer profile and
`installer-path.txt` lie within the steps beside them, and the firewall rule and
the uninstall entry are one fact, `registered`. Whether another Lovely mod is
about is chosen at the start, and users write no files of their own between
operations. `litter` says that a folder named `.BeatblockOnline.stage-` and a
fresh id lies in Mods with nobody working on it: the package is staged there
before the runtime is replaced (`installer.rs:810-822`), without a guard, so an
install that fails or dies before its mod is activated leaves it (`LeavesStage`).
Nothing removes it, and nothing takes it for a mod.

### How HostSessions follows the code

`resume` is `resume_sessions`, `entry` the maps `peers` and `peer_connections`,
which are written and removed side by side, `queue` the channel of
`NetworkEvent`s. `acc[c]` and `reader[c]` are the places of the two tasks every
connection has. `roster` keeps of a participant only whether the room has it,
connected, in its grace period, or past it.

| Actions | Code |
|---|---|
| `Accept`, `CheckResume`, `Welcome`, `Connect`, `Announce`, `CutOff` | `accept_peer`, in the pieces its locks and awaits cut it into, and its early ends |
| `ReaderStrips`, `ReaderReports` | the end of `spawn_reader`: the entries first, then `Disconnected`, which may wait for the queue |
| `DropSlowPeer`, `DisconnectPeer` | `broadcast` and `send_to` finding a queue full, and `disconnect_peer` with `allow_resume` false |
| `HandleAuthenticated`, `HandleDisconnected`, `HandleLate`, `HandleForbidden` | `handle_network_event`; a forbidden or oversized message ends connection and token at once and leaves the roster entry to the report of the loss |
| `Expire`, `Remove`, `CloseRoom`, `StartHost` | the maintenance scan, kick and rejection, closing or leaving, and hosting again in the same process |

Session ids and connections are finite sets taken in order. Which of a join's
outcomes the room chooses is left open, so the model has every behaviour of
`RoomEngine` and more. `overtaken` and `crowded` are histories, of two races the
code does not exclude, and `ConnectionsAgree` does not catch either: `overtaken`
has the connections whose `Disconnected` was reported before their
`Authenticated`, which stay connected in the roster, and `crowded` those
that were being authenticated for a session while another of it was unfinished
or open, of which two can end up open together. What the property says is said
of all others.

### How ClientSession follows the code

`status`, `session`, `request` and `server` are the fields
`connection_status`, `local_session_id`, `reconnect_request` and
`server_connection`, each behind a lock of its own. `user`, `events` and `task`
are the three tasks that write them: the control in progress, the event loop's
queue and `reconnect_task`.

| Actions | Code |
|---|---|
| `JoinRoom` to `JoinUndone` | `join_room`, at any time, also from within a room; its dial shuts the connection in use down first (`join_inner`). `JoinFailed` and `JoinUnreached` are its errors before and after that, `JoinAbandoned` the 12 s of the game's command, which drop it where it waits |
| `LeaveRoom`, `LeaveRoomDone` | `leave_room`: the connection ends at once, the runtime is offline several awaits later |
| `HandleAuthenticated`, `HandleRemoval`, `HandleDrop`, `ListenerReports` | the event loop on a participant; a drop starts a reconnect only if none has its handle |
| `TaskReturns` to `TaskGivesUp`, `StrayConnects` | `spawn_reconnect`; an aborted task stops at its next await, and one already past it writes what it found |
| `HostWelcomes`, `LinkEnds`, `HostClosesRoom` | the host and the network |

Backoff delays are left out; `MaxTries` is how many attempts fit in the 30 s. The
rooms a participant joins one after the other are one, which may be closed.
Controls are the game's, one at a time; those of HTTP, which have no busy flag,
are left out.

Nothing keeps a participant that is in a room from asking for a room. Its session
and its wish to return then stand while it dials, and the loss of the connection
the dial has shut down is handled as a loss of the room: it starts a reconnect
beside the dial. `moved` is the history that a join began so. Then two joins can
succeed; the later one stores its connection over the earlier one's, which
nothing closes any more although its reader works on. A join can also fail
before it dials and show a participant as offline that still has its connection.
The connections given up in these two ways are `astray`.

### How EventPipeline follows the code

A room is its revision, an event its place in the order of arrival. `db` is who
holds the one database connection, which the code only ever tries
(`try_lock`): `"late"` is a save whose waiter timed out and which runs on.

| Actions | Code |
|---|---|
| `Change`, `LocalRun`, `QueueEvent`, `ApplyRun`, `MarkRoomDirty` | what reaches the room, and the flag the score paths set instead of publishing |
| `Snapshot`, `SaveBegins`, `SaveContended`, `Saved`, `SaveFails`, `SaveTimesOut`, `LateSave`, `PublishExports`, `Wake`, `Send` | `broadcast_room` with `sync_room_state` and `ExportPublisher::publish_room` |
| `FlushRoomUpdates` | the 25 ms clock: takes the flag and puts it back if publishing fails |
| `FlushTick`, `DeleteHistory`, `FlushBegins`, `FlushContended`, `FlushFails`, `Flushed`, `DeleteBegins`, `DeleteContended`, `Deleted` | `flush_pending_events` by the 25 ms tick and by `history.delete` |
| `ExportWoken`, `ExportWindowCloses`, `WritePending` | the export worker and its 100 ms window |

The backlog's two limits (events and bytes) are one. What the exports write and
how is left out.

### How ChartTransfer follows the code

The host's side is `chart` and `verified` of the room, `active_transfer_builds`
(`active`), the packaging tasks (`build`), `pending_transfer_offers`
(`pending`) and the archives on disk. The participant's side is its copy of the
room, the two memories that make it look and ask once per lock, the offer on
the screen (`offer`), its trust and its authorizations, and the archives that
have arrived. Messages of a connection are ordered; archives travel on streams
of their own.

| Actions | Code |
|---|---|
| `LockChart`, `HearStatus`, `HearSnapshot`, `Verify`, `Ask` | the lock, `chart.status`, `try_auto_match_locked_chart` and the user's own choices |
| `HearRequest`, `EnterQueue`, `StartPacking`, `Pack`, `PackingFails`, `PackingLeaves`, `RecordOffer`, `SendOffer` | the request handler of `handle_network_event`, which looks at the offers under one lock and enters the queue under another, and `prepare_chart_transfer_offer`: one archive is packed at a time, and whether the request still stands is asked again at each step |
| `HearOffer`, `Decide`, `HearDecision` | the offer, `decide_chart_transfer`, and the host's answer to it |
| `Send`, `Receive`, `StreamBreaks`, `BeginInstall`, `EndInstall` | `send_chart_transfer`, the receiver of `network.rs`, `install_received_chart_transfer` |
| `LoseLink`, `HearLoss`, `Resume` | a connection lost with a prefix of each direction read, and resumed |

A packing that fails leaves what it has written, `<id>.partial` or the archive
(`PackingLeaves`), unless it had not begun or removed a file it found too large
(`PackingFails`). An offer made between the two locks of a request handler is
replaced by that of the second request, and its archive has no owner then. Both
are in `forgotten`: they stay until the room is left or closed, which removes
`transfer-outgoing` altogether.

`consented` and `forgotten` are histories. That a folder has the canonical hash of the lock
(`chart_hash.rs`) is `Matches`: hashing is a function of the contents, so a chart
is its hash. Archives' contents, sizes and extraction limits, the eviction of
the cache and charts of the game itself are left out.

### How BroadcastPlan and RendererInputs follow the code

In `BroadcastPlan` a configuration of all slots is one number and the processes
of its slots are one child. `task[t]` is a task of the host in
`refresh_broadcast_plan` (revision, slots, store, send) or in
`set_commentator_access`; `worker[t]` a task of the Commentator in
`stop_all` and `configure`/`launch_slot`. `KillProcess` and `LaunchChild` are
the two critical sections on the process table of a launch, so another task can
come between. `late`, `crossed` and `outrun` are histories of three races the code
does not exclude: a subscription that was checked before a revocation and stored
after it, two launches between kill and insertion at once, and a plan that was
being applied when everything was last stopped.

`RendererInputs` splits `write_aligned_inputs` where it lets a lock go
(`CloneBarrier`, `ViewSlots`, `HoldBuffers`, `WriteWarmup`, `WriteRelease`), and
the controls likewise: `begin_run` is `BeginRun`, `DropSamples`, `DropAnchors`,
`OpenBarrier`, `ZeroPages` and `DropEpoch`, `configure` is `Configure`, `Assign`,
`launch_slot` is `Relaunch`, `CloseBarrier`, `StartChild`, and `stop_participant`
or a stopped slot is `StopSlot`, `ForgetStopped`, `DropBuffers`. The sources are
`Advance`, `PushSample`, `PushAnchor`, `PushTap`. Time is counted in samples: a
source's beat is its sample number. The page keeps of an input what it belongs to
(run, beat) and whether capture is on; paddle angles are left out.

### How Update follows the code

A version is a number and a file holds the version of its contents, 0 for
missing, `Torn` for a half-written one. `pc[u]` is where update `u` is: staging
in a window, then in the finalizer process (`finalize_update`,
`promote_and_launch`, `wait_for_ready_ack`), `window` the life of every
installer window and `cleaner` the thread that removes what is left.

| Actions | Code |
|---|---|
| `PublishRelease`, `BeginUpdate`, `Stage`, `WriteReceipt`, `SpawnFinalizer`, `StagingFails` | `evaluate_releases`, `prepare_update`, `launch_finalizer` |
| `StartFinalizing` to `LaunchFails` | the finalizer's steps up to the new window |
| `AwaitReady`, `AwaitExited`, `ReadyTimesOut`, `Remove`, `Restore`, `RestoreFails` | the wait for readiness, and the way back |
| `Acknowledge`, `RefuseToAcknowledge`, `PublishReady`, `CleanupStarts`, `CleanUp`, `CleanupFails` | the new window |
| `OpenLauncher`, `WindowQuits`, `UserCloses`, `WindowDies`, `FinalizerDies` | processes start and end |

`StagingFails` removes what was staged, except where `launch_finalizer` finds the
receipt or the staged program invalid before it starts it (`update.rs:175-181`):
these stay.

That the file of a running program can be renamed but neither removed nor
replaced is the operating system's rule (`Locked`). Nothing in the code keeps two
windows from updating at once, and nothing does here.

### How GameLink follows the code

A game's channels are `outbound`, `inbound` and `stop`; `session` and `pending`
are `sessionActive` and `pendingRequestId`. Each session is a worker thread with
`hello` (`handshakeMessage`) and `unsent` (`pendingSend`), over a connection
`conn` with the messages in flight `up` and `down`. The runtime has `owner`
(`ipc_client_id`), `busy` (`control_in_flight`) and one task per command in
`control`.

| Actions | Code |
|---|---|
| `StartOnlineRuntime`, `Command`, `ExitOnline`, `HandleEvent`, `GiveUp` | `core.lua`: the frame thread |
| `Stop`, `LaunchRuntime`, `Connect`, `Send`, `SendFails`, `Receive`, `ReceiveFails` | `ipc_thread.lua`: the loop of the worker |
| `Accept`, `Refuse`, `ReadEnds` | `ipc.rs`: `run_named_pipe`, `accept_client_message` |
| `Execute`, `ExecuteSessionEnd`, `EndControl` | `game_commands.rs`: `handle`; `ControlGuard` |
| `StartServing`, `RuntimeExits` | `main.rs` |
| `RuntimeCrashes`, `PipeBreaks` | the environment |

A message leaves the channel whole and is in the pipe whole: a write that fails
has sent no complete line. A worker that stops closes its end, and what it wrote
can still be read. Only commands and their answers travel here; telemetry,
heartbeats, progress and snapshots change nothing the module speaks of. That the
runtime also ends when the game's process does is left out, as no game ends.

## 3. What is checked

All instances are exhaustive. `CHECK_DEADLOCK FALSE` everywhere: a room that
has been closed, or whose clients stay silent, stops, and nobody has to start the
installer or a transfer.

| Run | Instance | Shows |
|---|---|---|
| `MCRace` | host and peer, one competitive race, one run id, two sequence numbers, drops, maintenance fairness | `TypeOK`; `RaceHasOpenRun`: a race in progress has a racer without a final result; `AttemptsSettled`: no attempt is left open outside a race, which is what makes `finish_run`, which has no lifecycle guard, harmless there; `ScoresHonest`; `KeepsContract`; `RaceHeldOnlyByLiveRun` |
| `MCHost` | a host alone, setlists of up to three entries of two charts, two races, three run ids of which one is remembered as replaced, run checks switched, closure | `SetlistKept`, `BadVerdictSticks` and `ScoresHonest` where attempts are replaced and rules change |
| `MCRoster` | host and two peers under one name, all roster controls, two races, room for two racers and one spectator | `RosterKept` |
| `MCHostSessions` | two session ids, three connections, an event queue of one | `TokenHasOwner`: no resume token outlives its participant; `ConnectionsAgree`: roster, peer table and readers agree |
| `MCClientSession` | three connections, two attempts, joins, leaves and losses without limit | `DialsAccounted`: one connection at a time unless a room was asked for from within one, and even then each open one is in use, dialled or known as astray; none survives a leave; `RetryEnds`: a reconnect at work ends |
| `MCEventPipeline` | two inputs, two faults, a backlog of one | `EventsAccounted`: no event is lost but by the cap or a deletion; `DirtyIsPublished`: a score reaches the peers whatever fails; `WaitingEnds`: backlog and exports drain |
| `MCChartTransfer` | two participants, two charts of which one has scripts, two locks, two archives, one manual choice and one fault of one participant (a package picked by hand counts as both), room for one build | `ArchivesAccounted`: an archive exists as long as somebody has its path, but for the forgotten ones; `OfferIsAnswerable`: no participant is stuck behind an offer; `ConsentBeforeBytes` |
| `MCBroadcastPlan` | two changes, two grants or revocations, two toggles, one loss | `PlanConverges` for overlapping refreshes; `RelayIsAuthorized` and `NoChildLeftBehind`, each but for the races named above |
| `MCRendererInputs` | two slots, two participants, one run of three samples with a tap, each received at once, two controls | `InputIsCurrent`: no input of an old run, none for a child that waits, no tap judged twice, no paddle seeded twice |
| `MCInstaller` | two game folders, two builds, three operations, one mishap (a crash, a failed commit or a vanished folder), a failure at any step | `FailedInstallChangesNothing`: an install that fails before its manifest is written leaves everything as it was, but for the folder it staged its package in; `FilesSafe` |
| `MCUpdate` | two launchers at versions 1 (a preview) and 2, a release 3, two updates, the second from a launcher or from the window of the first, one fault | `InstallerKept`: a whole installer is there at every moment; `FailureRestores`; `UpdateEnds` |
| `MCGameLink` | one game that enters Online twice and leaves once, two commands of which the second restarts, one failure, channels of two and one | `CommandsKept`; `LinkRecovers`: a game that stays Online claims a runtime again, and a heard session_end ends the runtime |

Properties that name several: `ScoresHonest` is `ValidIsGapless` (a valid result
was made of every score event), `ValidIsVerified` and `ActiveNotRetired`.
`SetlistKept` is `ChartFollowsSetlist` and `SetlistInOrder`. `RosterKept` is
`RunStateInRoster`, `AllReadyIsReady`, `RanksDistinct`, `HostPresent`,
`WithinCapacity` and `CommentatorIsSpectator`. `ConnectionsAgree` is `UpHasReader`,
`OpenIsReachable` and `SessionNotDoubled`. `DialsAccounted` is `AtMostOneConnection`,
`ConnectionsOwned`, `NoConnectionLeftBehind` and `NoDialAfterLeaving`. `WaitingEnds` is
`BacklogDrains` and `ExportsAreWritten`. `InputIsCurrent` is `OldRunNotReplayed`,
`ParkedReadsNothing`, `JudgedOnce` and `SeededOncePerCohort`. `FilesSafe` is `InstalledIsWhole` (an
install that reports success has put the whole of its build in place),
`OriginalKept` (a file a game came with is in place or in the backups) and
`GameRestored` (uninstalling gives every folder back as it was). `InstallerKept`
is `ManagedIsWhole` and `PriorSurvives`. `CommandsKept` is `HeardOnce` and
`HeardInOrder` (commands reach the runtime once and in order, over lost pipes and
leftover workers), `AcceptedWereDone` and `BusyAccounted`. `LinkRecovers` is
`LinkReturns` and `SessionEndEnds`.

The contract. `RaceContract` has five variables: the stage (lobby, race,
closed), the racers of the race in progress, who of them is settled, everybody's
set total and the rules. Its steps say that a race starts with a fixed roster
and fixed rules, that each racer settles once, that a total moves only when its
owner settles, and that the race is over exactly when everybody has. The
refinement mapping in `RoomProperties` reads `stage` off `phase` and `lifecycle`,
`racers` off the admitted racing roles and `settled` off `finalized`.

Bounds of the room. Two participants are enough for every property of a race: the
code treats racers independently except where it ranks them and where it asks
whether all are settled, and one racer settled with the other open, both
settled and neither settled all occur. Two sequence numbers give a first event,
a successor, a gap, a replay and an overtaken event. One note per chart
(`MaxHits = 1`) makes runs incomplete or complete, and totals range past every
limit. Three run ids with one remembered let a replaced id be forgotten and
come back. Two peers under one name contend for the name, and limits of two and
one are reached. Three setlist entries have a completed, an active and a
pending one, and two pending ones to swap. No symmetry is used: display names
order the sessions.

Bounds of the transport. Three connections of one session are one that ends, one
that resumes and one that overtakes it; two sessions let ids be confused. A
queue of one is full whenever anything waits. Two attempts are one that fails
and one that follows it.

Bounds of the pipeline. With a backlog of one, a failing batch meets an event
queued meanwhile and the cap has to choose; two faults are one for each flusher
or two in a row. Of a transfer, two participants contend for the single build
slot, a second lock makes every message of the first a late one, and one fault
cuts a connection or a stream at any point of it; only `p` has faults and a user
that intervenes. Two changes are two refreshes that overlap in any order, a
grant and a revocation race a subscription, and a toggle on and off races a
plan. Three samples are one before the first scoring sample, a tap and one after
it; two controls are a launch and a stop during one pass of the writer.

Bounds of the installer. Two folders make a move, three operations an install followed
by an update or move followed by a restore or uninstall, and an install that
fails or is cut short followed by two more. Each folder comes with nothing, with
a foreign `version.dll` and app id, or with a Lovely injector, and alpha leftovers
are there or not. Two builds are enough to tell a payload of ours from that of
another build of ours. Folders are alike and builds are alike, and all
properties are of safety, so the instance uses that symmetry. Two properties say
less than one would like, since the code does: `OriginalKept` leaves out
`version.dll` after a mishap followed by another build, and `GameRestored` leaves
it out when more than one build installed (below) or another Lovely mod is
about, when the code keeps the injector on purpose. Of updates, two run one
after the other, in the window the first one opened, or at once from two
launchers; three versions have a preview between two stable ones.

Bounds of the game link. Two sessions of one game are what it takes for the worker
of the first to be still at work in the second; the second is not left
(`LastStays`), so the runtime ends by session_end, a restart or a crash. Two
commands make a late answer meet a later command, and full channels meet one
that waits. Two copies of the game are left to a variant of the instance: of the
claim, what can go wrong is told under `NoCrossing` below.

Fairness. Every fair specification assumes only that what the runtime schedules
is scheduled.

- `RoomProperties!FairSpec`: weak fairness of the maintenance scan alone
  (`ExpireUnstartedRuns` and each `ExpireDisconnect`): `main.rs:232-237` runs the
  scan in a loop that ticks once a second for as long as the process lives, and
  the deadlines it looks at fall due by the passage of time. No client and no
  host command is assumed ever to act. `RaceHeldOnlyByLiveRun` is what follows: a
  race ends, or a connected racer whose game is running holds it open. That such
  a racer can hold it open for as long as it likes is what the code does; there
  is no limit on a run's duration.
- `ClientSession!FairSpec`: the event loop takes what is queued, the reconnect
  task's timers fire, an aborted task runs to its next await, and a control that
  has begun ends. A host that answers, a user that acts and a network that works
  are not assumed.
- `EventPipeline!PipelineFairness`: tasks and blocking workers finish what they have
  begun and the two 25 ms clocks tick. Weak fairness suffices although flushers
  contend, because inputs are finite: the property is that the backlog drains
  once events stop. Faults are bounded, that is, a database that fails for ever
  is left out.
- `Update!FairSpec`: each finalizer that runs goes on (its waits have deadlines).
  That it lives is not assumed: its death is a step of the world.
- `GameLink!Fairness`: every worker's loop, every connection's task and the
  runtime's own tasks go on, except that a command may take for ever. Weak fairness
  of each loop as a whole suffices because messages, restarts and failures are
  bounded. Nothing makes a user act.

### Where the code and its documents disagree

These statements were found not to hold. Each is kept as a definition and is
violated when it takes the place of the property line of the configuration named.

| Definition, configuration | Statement | What happens |
|---|---|---|
| `ValidRanksBeforeDnf`, `MCRace` | `docs/operator-guide.md:123`, "Complete valid attempts rank normally" | `finish_run` turns an incomplete run into DNF and does not rank again: at Results a DNF may be first |
| `NoOrphanEntry`, `MCRace` | `docs/operator-guide.md:127`, "the Player remains available for later charts" | a racer expired in a race keeps its entry and name while its resume token is gone: it can neither resume nor join under its name |
| `ReconnectAccepted`, `MCRoster` | `docs/protocol.md:54-55`, "Reconnect restores the same authenticated participant" | `admit` marks a pending participant that has dropped as connected, and its resume is then refused as already connected |
| `VerifiedHasLock`, `MCChartTransfer` | the comment at `room.rs:236-238`: a stale verification cannot ready a participant for a different assignment | `chart.status` names no chart (`app_state.rs:1599`): a report about the previous chart that arrives after the host locked the next one verifies the participant for a chart it does not have |
| `ReconnectEnds`, `MCClientSession` (PROPERTY) | a participant shown as reconnecting becomes connected or offline | a loss reported while the task that dialled has not ended starts no other task (`app_state.rs:3326`): the status stays |
| `PeersUpToDate`, `MCEventPipeline` | `app_state.rs:3486`, "Keeping room state, transport sessions, and publication together" | a publication that fails outside the score path is not repeated: the peers keep the old room until the next change |
| `CommentatorHasPlan`, `MCBroadcastPlan` | `docs/obs-setup.md:18`, "A host-granted Commentator receives the same plan read-only" | a Commentator that resumes is sent the room and no plan |
| `RevocationClears`, `MCBroadcastPlan` | `docs/mod-guide.md:45`, "A role change, removal, revocation, room exit, or shutdown clears the grant's active subscriptions and stale local renderer state" | a subscription is checked under one lock and stored under another (`app_state.rs:1738-1753`): one stored after a revocation goes on; and a plan being applied while the mirror is turned off launches its children after the stop |
| `SeededOnce`, `MCRendererInputs` | `docs/obs-setup.md:119`, "seeds each paddle once" | stopping or adding a slot during a run rebuilds the shared clock for the others |
| `HostPackageKept`, `MCChartTransfer` with `Zipped <- MCZippedA` | `docs/mod-guide.md:67`, the original archive is transferred | a package that is one file is its own archive, and a declined or finished transfer deletes it |
| `BackupsKept`, `MCInstaller` (PROPERTY) | `docs/injection.md:36`, "Existing injector backups are never replaced during update or repair" | a backup counts only if a manifest names it: an install dies between `version.dll` and the manifest, and the next one, of another build, copies the first build's injector over the user's |
| `ExitStopsRuntime`, `MCGameLink` (PROPERTY) | the dialog at `online_state.lua:562`, "Stop the Online runtime and return to the main menu?" | a worker sends `session_end` only over a transport it has (`ipc_thread.lua:232`): leaving Online while the runtime starts leaves it running until the game ends |
| `NoCrossing`, `MCGameLink` with `Game = {g1, g2}`, `GameOf <- TwoGames` | `docs/protocol.md:22`, "preventing control replies and room snapshots from crossing" | a connection is subscribed before its hello is read (`ipc.rs:109`): a second copy sees answers meant for the first until it is refused |

Reading the same code showed more. In the room:
With run checks off, `start_run` does not look at `finalized_runs`, so a DNF by
launch timeout becomes Pending and then Valid by a late retry, where
`docs/protocol.md:48-49` has one final result per participant. A racer that
finishes and then stays away past the grace period is made DNF by
`expire_disconnect` (`room.rs:500`) with the score it was credited left in its
set total. `admit` (`room.rs:209`), unlike `set_role`, keeps the automatic
verification of a spectator it turns into a player. Removing the active last
entry of a setlist before its race (`room.rs:410`) selects the completed entry
before it. `expire_disconnect` forgets the deadline before it knows whether it
does anything (`room.rs:495`), so a pending request whose peer leaves during a
race never goes away. Between `close()` and the clearing of `is_host`
(`app_state.rs:2806`), locking a chart or a last `run.finished` reopens a closed
room; `RaceContract` promises nothing of a closed room for that reason. A kick
tells its target before the room is asked (`app_state.rs:2458`): one that a race
refuses has announced a removal that does not happen.

On the participant: `shutdown_with_reason` says that it closes every transport
(`network.rs:660`), but it knows only the last endpoint stored. After a join from
within a room, and a reconnect started beside it, the connection of the earlier
join is closed by nobody, and a leave does not end it. A password or name that is
not valid fails a join before it shuts anything down (`join_with_game_build`), and
the participant is shown as offline while its connection to the former room, with
reader and writer, lives on.

In the pipeline: with two flushers, a failed batch can go back in front of a
batch that is newer and already stored, so events may be stored out of the order
the comment at `storage.rs:215` keeps them in; the last flush at shutdown does
not see a batch another flusher holds; and a full journal queue refuses the
host's own run event before the room has seen it (`app_state.rs:1193`).

In the installer: where the program itself put `version.dll` there, an update to
a build with another payload finds no backup and makes one of its own old
injector (`installer.rs:960`), which uninstall then puts back, where
`docs/injection.md:83` says it removes an injector of its own. A failed
`commit` (`installer.rs:1150`) undoes every file under a manifest that is already
the new one. A move that has just quarantined an alpha package takes it for
another Lovely mod, since `other_lovely_mods` leaves out only folders named after
the current product (`installer.rs:2648`), and leaves its injector in the former
folder. After Restore Game Files the manifest still claims
`steam_appid.txt`, so one the user then writes is replaced without a backup
(`installer.rs:1023`), where `docs/injection.md:78` says that one is made. The
firewall rule and the uninstall entry have no guard and outlive a failed
install.

In the self-update: nothing keeps two windows from updating at once, and two
finalizers that overlap can restore an older installer over a newer one, which
is why three properties speak of updates that do not overlap. A finalizer that
dies between backup and promotion leaves no managed installer and nobody to put
the backup back. A copy that was cut short stays beside the managed installer.

In the game link: a command whose deadline passed (`core.lua:1073`) goes on in the
runtime and may be done after all, while a second try is refused as busy. The
answer is published before the flag is released, so a quick next command can be
refused too. Entering Online again before the old worker has read its 'stop'
clears it (`core.lua:281`): both workers then share the channel, and a command the
one without a hello takes is refused and never answered.

## 4. What is proved

`RoomProofs` proves, for every set of sessions, runs, charts and settings, every
capacity and every bound allowed by the named assumptions of `RoomEngine`
(`SessionAssumption`: the host is a session and sessions are finite;
`NameAssumption`, `NoneAssumption`, `LimitAssumption`, `OptionAssumption`: the
kinds of the other constants):

- `TypeCorrect`: `Spec => []TypeOK`. Most of it is bookkeeping; the part that is
  not is that accuracies stay within 0 and 100 whatever totals clients report.
- `RaceNeverStranded`: `Spec => []RaceHasOpenRun`.
- `NoOpenAttempt`: `Spec => []AttemptsSettled`.

The last two come from one inductive invariant, `RaceOK`:
`RaceHasOpenRun /\ AttemptsSettled /\ StartedCompete`. Neither of the first two
is inductive alone. A race ends when all competitors are finalized; that then
no *attempt* is open needs every session with an attempt to be a competitor,
which is `StartedCompete`, and that in turn holds because roles, admissions and
kicks of admitted racers are refused while a race runs. The proof has one lemma
for the steps that leave the seats alone (`RaceKept`), one for those that run
`try_finish_chart` and one for those outside a race, and one step per action.

For the rest of the room it proves `SetlistStaysInOrder`:
`Spec => []SetlistKept`, for setlists of any length. `SetlistKept` is inductive with the types; the work is in
what the sequence operators of the community modules do (`Removed`, `Inserted`,
`Moved`): that moving an entry between two places behind the active one leaves
the played part as it is and brings nothing played behind it.

It also proves `ResultsAreHonest`: `Spec => []ScoresHonest`. Its inductive
invariant `ScoreOK` says that

- a valid result exists only from a race on, has every event counted if the checks
  are on, and during the race belongs to a racer who was verified when it began;
  the result still pending of a competitor has had no gap so far (`Clean`);
- the active run is none of the replaced ones, and no run was replaced before
  there was one (`FreshRun`);
- an open room is not in the closed stage (`OpenStage`).

The phase is why `ValidIsGapless` speaks of open rooms: while a room closes, its
last setlist entry can still be removed, which takes it back to forming with its
old results, and its competitive checks can then be switched on over results
that were recorded without them. Nothing reads those results any more.

And it proves `VerdictsStick`: `Spec => BadVerdictSticks`, which needs the types
only: every action is looked at for what it does to the verdict of a competitor,
and only a kick of somebody who is none and a transition outside a race may
better one.

Last, `RosterStaysWhole`: `Spec => []RosterKept`, for every roster, order of names
and pair of limits. Its inductive invariant `RosterOK` has three parts.

- `Seated`: no bookkeeping without an entry, the limits, the host's seat and the
  commentators as they are, and three facts these rest on: names in the roster
  differ, since a join under a name that is taken is refused; who is admitted has
  an entry; and the host has no connection that the transport could end, so
  nothing ever waits for it to come back.
- `Offered`: nobody is left in `chart_locked` once all are ready, and a room that
  could start has a chart. Without the second, a change of readiness would not
  refresh the lifecycle. A join or a reconnect does not refresh it either; it
  need not, because it brings somebody who is not ready (`Unready`).
- `RanksDiffer`. The order of the standings is a strict one, total where names
  differ (`PrecedesOrders`), so of two racers the one behind is preceded by more
  (`RankedApart`). A step either ranks everybody anew or at most takes ranks away
  (`RanksStep`); `run.started` of a retry and the start of a race do the latter.

Finally it proves the refinement, `RoomKeepsContract`: `Spec =>
KeepsContract`. Every step that does not stutter `Prepares` a race, `Begins` one
or `Settles` racers. Three facts of the reachable states carry it: `RaceOK`,
because a race must end in the very step in which its last racer settles and not
before; `AttemptsSettled` within it, because a finish paid between two races
would settle nobody; and `PaidWereAdmitted`, which says that somebody who is not
admitted has been paid nothing, since only such a participant can be kicked
during a race and the totals it had go with it.

`RendererProofs` proves, for any number of changes, grants, toggles and losses
(`BoundAssumption`: the bounds are numbers):

- `BroadcastTypeCorrect`: `Spec => []TypeOK`, from `Typed`. The parts that are not
  bookkeeping are that no task holds a revision the counter has not reached, and
  that a child the process table knows is one that runs.
- `TelemetryStaysAuthorized`: `Spec => []RelayIsAuthorized`. The invariant,
  `RelayOK`, includes the subscription that is checked and not yet stored, which
  is where a revocation can come in between.
- `CommentatorCatchesUp`: `Spec => []PlanConverges`. It needs two facts about
  plans wherever they are. `PlansKnown`: a plan with the last revision, in a task,
  in the host's state, in a queue or at the Commentator, has the present layout,
  or a task that changed the slots is yet to take a revision; this is so because
  the revision is taken before the slots are read. `LastPlanOnItsWay`: a plan with
  the last revision is in a task, in the queue or arrived, unless it was missed.
  At rest nothing is in a task or in the queue.
- `ChildrenAreStopped`: `Spec => []NoChildLeftBehind`. Inductive with where the
  tasks of the Commentator are: between the two critical sections of a launch the
  old child is already gone, whatever another task stops or configures meanwhile
  (`Exclusive`); and with the mirror off, either a task is about to stop everything
  and finds in the table whatever runs, or nothing runs and none will be launched
  (`StopsWhenOff`).

Of `RendererInputs` it proves, for any slots, participants and taps, any delay,
jitter, tolerance and number of samples, runs and controls (`TimeAssumption`:
these are naturals and the first note is not at 0; `NobodyAssumption`), from the
inductive invariant `InputsInv`, which TLC had found to hold on the instance of
`MCRendererInputs` and on one with late samples, two taps and no tolerance:

- `InputsTypeCorrect`: `InputsSpec => []InputsTypeOK`. That an epoch is never due
  before the first note and a delay rests on `AnchorsOK`: an anchor is resolved to
  a sample from the first note on, and a sample is never received before it is
  made (`SamplesOK`).
- `InputStaysCurrent`: `InputsSpec => []InputIsCurrent`, all four of its parts.
  That no page keeps old input needs only that the buffers hold samples of the
  present run (`SamplesOK`, `PagesOK`): `begin_run` drops them before it zeroes the
  pages, and a pass holds them until it has written. That a parked child reads
  nothing (`ParkedOK`): a slot behind the barrier a pass cloned is `Nobody` in its
  view. That a paddle is seeded once: `WriterOK` says that a pass about to release
  still finds the epoch it took its clock from, with `first` as the epoch says,
  unless something reset it in between, and `SeedsOK` that nobody is seeded before
  the release. That a tap is judged once (`JudgedOK`): `Followed` says that a slot
  has shown a sample its source still has, no further than the clock has come, so
  what it shows next is not earlier (`ShownMonotone`); then `ToldOnce` holds, because
  an edge already consumed is at or behind the tap cursor and a raw flag is only
  taken from a sample not yet shown.

`InstallerProofs` proves, for any games, builds, files the games come with,
numbers of operations and of mishaps (`GameAssumption`: finitely many folders;
`FileAssumption`: the kinds of files differ where the code tells them apart;
`InitAssumption`: no folder comes with a payload; `NoneAssumption`: to have no
manifest is not a manifest; `JobAssumption`: the bounds are numbers):

- `InstallerTypeCorrect`: `Spec => []TypeOK`, from `Typed`, which adds that the
  program knows its folder and build exactly while it works. The part that is
  not bookkeeping is that every place only ever gets a file of its kind, also out
  of a backup.
- `FailureUndone`: `Spec => []FailedInstallChangesNothing`. That a stage folder
  is at most added is `Littered`: nobody removes one. Of the rest the inductive
  invariant is `Undoable`: at every step of an install and of its undoing, the
  guards *owe* every place what it held at the beginning, where a place that no
  guard is for holds it now and otherwise its earliest guard, the last to be
  dropped, has it. A guarded write keeps what is owed (`Logged`), since it adds a
  guard with the present contents in front; a drop does too (`Dropped`); an
  unguarded write is harmless only where a guard exists already, which is why
  putting in the new mod needs the guard of the folder moved aside. With no
  guards left, owing is holding. The quarantine has a flag of its own and follows
  the guard of the alpha mod.
- `FilesAreSafe`: `Spec => []FilesSafe`, all three of its parts, from `Sound`,
  the conjunction of the two invariants above and of one for each part:
  - `Progress`, for `InstalledIsWhole`: what the steps behind an install have put
    in place is still there, and a removal works on the manifest's folder.
  - `Originals`, for `OriginalKept`. The property speaks of the contents of a
    place; the invariant must speak of all that may come to lie there
    (`Lying`: the contents and those the guards will put back), because a file
    that is safe now may be replaced by an undo. Whichever of these comes to lie
    at a place, the original is that, or in the backups, or there was none
    (`Kept`); a claim of ownership is made only when the original is in the
    backups or there was none; a claim of a backup only when the file is there.
    What version.dll adds is that a payload left by a build that was cut short
    looks like a user's injector to another build: `Exposed` is that case, where
    only the weaker part is kept.
  - `Truth`, for `GameRestored`: as long as there was no mishap, the manifest's
    claims *tell* how each folder differs from what it came with (`Truthful`), so
    what they tell an uninstall to do gives it back. During an install this is
    said of the snapshot it would go back to, of the claims it has gathered, and
    of the former folder step by step; during an uninstall of what is returned so
    far. `Originals` needs it: without mishaps two builds may alternate, and the
    second takes the payload of the first for the user's and backs it up. That is
    harmless because the claims are true: they then say that there was no original
    of the user's.

`ChartTransferProofs` proves, for any participants, charts, packaging limit and
bounds (`TransferAssumption`: the special charts are charts, `NoChart` is none,
and the limits are numbers):

- `TransferTypeCorrect`: `Spec => []TypeOK`, from `Typed`, which adds that a
  packed archive has an id and a chart exactly while its task offers it, and that
  only one task packs.
- `ConsentGiven`: `Spec => []ConsentBeforeBytes`, which is inductive with the
  types.
- `NothingLeftBehind`: `Spec => []ArchivesAccounted`, an equivalence: an archive
  exists, and is not forgotten, exactly if a task, an offer or a sender holds it.
  That what is held exists needs that nobody deletes it for another (`Alone`):
  an archive has one holder, but for a task that is sending the offer it has just
  recorded. `Alone` needs that nobody speaks of an archive before its offer was
  sent (`Unsent`): a decision in the channel cannot hand it to the sender while
  its task may still take it back. That what exists is held needs `Kept`: a task
  that ends leaves its archive to the offer or the sender, ids are fresh, and an
  archive is never one of the host's packages, which `Delete` would remove in its
  place.
- `OffersGetAnswers`: `Spec => []OfferIsAnswerable`. `AllAnswerable` says where an
  offer that waits can be: with the sending task, in the channel, on the
  participant's screen, answered in the channel back, or given up because the
  loss of the participant is in that channel behind everything it still said.

`HostProofs` proves, for any sessions, connections and capacity of the event
queue (`SessionsAssumption`: they are numbers, so that ids can be handed out in
order, and sessions are finite; `NothingAssumption`, `QueueAssumption`):

- `HostTypeCorrect`: `Spec => []TypeOK`, and with it `Base`, which the others rest
  on. `Shape` relates the accepting task, the reader and the session of a
  connection; `QueueOK` says that an `Authenticated` in the queue is of a
  connection whose reader works on, unless its `Disconnected` is behind it or has
  overtaken it; `RoomDown` says that between two rooms nobody is in the roster and
  no connection is open.
- `TokensHaveOwners`: `Spec => []TokenHasOwner`. Inductive on top of `Base`: every
  step that takes the participant leaves the call that takes its token.
- `ConnectionsStayInStep`: `Spec => []ConnectionsAgree`. That somebody shown as
  connected is watched by a reader follows from `QueueOK`. The other two parts need
  each other and `NoneBeside`: while a connection is being authenticated for a
  session, no other of it is open, because the check found no entry, and an open
  connection has one; so the entry that `Connect` writes replaces nobody's.

Of `EventPipeline` it proves, for any number of inputs and faults and any cap of the
backlog (`BoundsAssumption`: they are naturals and the cap is not 0), from the invariant `PipelineBase`:

- `PipelineTypeCorrect`: `PipelineSpec => []PipelineTypeOK`; the parts that are not
  bookkeeping are that the backlog keeps its cap whatever is put back in front of
  it, and that the room never has more changes than it was given.
- `EventsStayAccounted`: `PipelineSpec => []EventsAccounted`: an event that arrived
  is in the backlog, in a flusher's batch, stored, or gone by the cap or a deletion.
  `BatchesHeld` carries it: a flusher that neither waits for the connection nor has
  it holds no batch, so taking the backlog overwrites none.

`ClientSessionProofs` proves, for any number of connections and attempts
(`ConnAssumption`: connections are numbers, so that they can be opened in order;
`TriesAssumption`):

- `ClientTypeCorrect`: `Spec => []TypeOK`; the attempts left never become negative.
- `ConnectionsAreOwned`: `Spec => []DialsAccounted`, from the invariant `Accounted`.
  A connection that is open is the one in use, or the one that the control or the
  task is dialling, or went astray (`ConnectionsOwned`): this holds of every order
  of joins, losses and reconnects. That it is one connection and not three rests
  on `Alone`, which speaks of behaviours in which no room was asked for while the
  wish to return to one stood (`~moved`): a control on its way in or out and a
  reconnect task are then never at work together, although nothing locks one
  against the other, since there is no wish that a stale loss could act on. In
  the others it is false, and TLC shows two dials at work. `Wish` says where a
  wish can stand: never during a leave, and with somebody shown as offline only
  for a room that is closed for good. And in a closed room no connection that was
  answered is left (`Shut`), so that of an earlier room is not in use when the
  next join begins; what nobody wants is in use only by a join not yet done, or
  astray.

`UpdateProofs` proves, for any launchers, updates, versions and number of faults
(`UpdateAssumption`):

- `UpdateTypeCorrect`: `Spec => []TypeOK`, from `Typed`. `TypeOK` also says that
  a window is busy while it stages, which rests on `OneStaging` and
  `OpenedByLaunch`: a window starts one update at a time, and none before it was
  opened.
- `PriorInstallerSurvives`: `Spec => []InstallerKept`. `Kept` follows the previous
  installer step by step (`Place`): where it is at every point of the finalizer's
  program, that nobody runs from the file while it is moved (`Unused`), that what
  is promoted was read back whole (`Whole`), and that the cleanup, which deletes
  the backup, comes after the acknowledgement and the finalizer's end
  (`CleanerLate`).
- `GivingUpRestores`: `Spec => FailureRestores`, from the same invariant.

`GameLinkProofs` proves, for any games, workers, commands and channel capacities
(`LinkAssumption`: every worker is of a game, the bounds are numbers):

- `LinkTypeCorrect`: `Spec => []TypeOK`; the part that is not bookkeeping is that no
  channel ever holds more than its limit, although two workers of a game may fill
  the inbound one side by side.
- `CommandsReachOnce`: `Spec => []CommandsKept`. `Lined` puts the commands of a
  worker in a row: what was heard, what is in the pipe, what it holds unsent. In
  every row and in every channel ids increase, no command is in two places
  (`Apart`), and those still queued were asked for after all those taken. A write
  that fails leaves its command where it is, last in the row, to be sent again. `AcksDone`
  follows each acknowledgement back to the command that was done.

Trying to prove these changed the specifications twice. `Update` ended a window
that a finalizer killed or that crashed without ending the update the window was
staging itself; the instance was too small to have a chain of updates in which
that shows. Both steps now abandon it (`Abandoned`), and the instance has such a
chain. And `SessionNotDoubled` spoke of two connections that had met; three can
come to the same end with each pair apart, which TLC showed with four connections
of one session. It now speaks of the session, as `OpenIsReachable` does.
Working towards a proof of `JudgedOnce` showed where it did not hold: with samples
later than the delay, and two runs, a sample that comes while `begin_run` has
dropped the samples and not yet the cursors repeats a tap. It now speaks of the
time outside `begin_run`, which resets the children next.

Every property proved is also checked by a run, and every invariant and action
property the runs check is proved. What is only model-checked is liveness,
which the prover does not reach: `RaceHeldOnlyByLiveRun`, `RetryEnds`,
`DirtyIsPublished`, `WaitingEnds`, `UpdateEnds` and `LinkRecovers`.

## 5. What is not modelled

- The journal (`journal.rs`): one bounded queue and one thread that appends to a
  file. What it does to the room, refusing the host's own event when it is full,
  is told above.
- HTTP (`http.rs`) as another way to give commands, and the installer's and
  tray's use of it. Its commands are not under the busy flag, so two joins may run
  at once through it, which `ClientSession` leaves out.
- The OBS plugin's reader of the frame ring and the audio sessions: code against
  interfaces of OBS and Windows. `RendererInputs` ends at the page the child reads.
- How the mod makes its run events: hooks in the game's own code. The room takes
  the events in any order. The screens of the mod keep no state others see.
- Presentation, credentials, NAT mapping, schemas and build scripts: no state
  worth a model.

Within the modelled parts: timestamps and the lengths of deadlines, reasons and
warnings, score details beyond two counters, restoration of a room from the
database, the password limiter, the contents and extraction limits of archives,
cache eviction, official charts, paddle angles and frames, downloads and hashes
of the self-update, the installer's OBS transaction and its elevated helper.

## 6. Plan

1. The journal as a further stage of `EventPipeline`.
2. Hosting under the command's timeout: what a cancelled `host_room` leaves behind.
