---------------------------- MODULE EventPipeline ----------------------------
(***************************************************************************)
(* What the host does with a change of its room: the durable backlog of    *)
(* run events (storage.rs), the publication of snapshots to the database,  *)
(* the exports and the peers (app_state.rs), and the export worker         *)
(* (exports.rs).  Tasks of the runtime: the network event loop, the        *)
(* control being executed, the 25 ms maintenance clock, the 25 ms storage  *)
(* tick (main.rs) and the export worker's thread.  They share the room,    *)
(* the dirty flag, the backlog and one database connection that is only    *)
(* ever tried, never waited for.  A snapshot is its revision, the number   *)
(* of changes it contains; an event is its place in the order of arrival.  *)
(***************************************************************************)
EXTENDS Integers, Sequences, SequencesExt

CONSTANTS
    MaxInputs,    \* bound: changes, run events and deletions the host is given
    MaxFaults,    \* bound: transactions that fail or outlast the 3 s timeout
    BacklogCap    \* MAX_PENDING_EVENTS

ASSUME BoundsAssumption == /\ MaxInputs \in Nat /\ MaxFaults \in Nat
                           /\ BacklogCap \in Nat \ {0}

VARIABLES
    room,      \* revision of the room snapshot
    dirty,     \* room_dirty
    task,      \* [Task -> [pc, rev, retry]]
    db,        \* who holds the connection: "late", a save nobody waits for
    peers,     \* the revision the peers were sent last
    backlog,   \* pending_events
    flush,     \* [Flusher -> [pc, batch]]
    rows,      \* events in run_events
    gone,      \* history: events a full backlog dropped or a deletion took
    arrived,   \* history: events queued so far
    pending,   \* the room snapshot waiting to be exported, or none
    wakeQueued,\* wake_queued
    signals,   \* Wake signals in the export worker's channel
    worker,    \* the export worker
    inputs,    \* inputs so far
    faults     \* faults so far

changeVars == <<inputs, room, dirty, task>>
dbVars == <<db, faults>>
logVars == <<backlog, flush, rows, gone, arrived>>
exportVars == <<pending, wakeQueued, signals, worker>>
pipelineVars == <<changeVars, dbVars, peers, logVars, exportVars>>

Task == {"network", "control", "clock"}
Flusher == {"tick", "history"}
Publishing == {"sync", "save", "saving", "publish", "wake", "send"}
TaskPc == Publishing \cup {"idle", "apply", "mark", "history"}
FlushPc == {"idle", "lock", "commit", "delete", "deleting"}
Revision == 0 .. MaxInputs
Nothing == -1
Events == 1 .. MaxInputs

AtRest == [pc |-> "idle", rev |-> 0, retry |-> FALSE]
Idle(t) == task[t].pc = "idle"
Input == inputs < MaxInputs /\ inputs' = inputs + 1
At(t, pc) == task[t].pc = pc
Goto(t, pc) == task' = [task EXCEPT ![t].pc = pc]
InFlight(f) == Range(flush[f].batch)

PipelineInit ==
    /\ inputs = 0 /\ room = 0 /\ dirty = FALSE
    /\ task = [t \in Task |-> AtRest]
    /\ db = "free" /\ peers = 0 /\ faults = 0
    /\ backlog = <<>> /\ rows = {} /\ gone = {} /\ arrived = 0
    /\ flush = [f \in Flusher |-> [pc |-> "idle", batch |-> <<>>]]
    /\ pending = Nothing /\ wakeQueued = FALSE /\ signals = 0
    /\ worker = "waiting"

-----------------------------------------------------------------------------
(* broadcast_room and what calls it.                                       *)

(* A join, drop or status of a peer, a host control, or an expiry: the     *)
(* room changes under its lock and is then published.                      *)
Change(t) ==
    /\ Idle(t) /\ Input
    /\ room' = room + 1
    /\ task' = [task EXCEPT ![t] = [pc |-> "sync", rev |-> 0, retry |-> FALSE]]
    /\ UNCHANGED <<dirty, dbVars, peers, logVars, exportVars>>

(* Mutant of FlushRoomUpdates: a publication that fails is not retried.    *)
FlushOnce ==
    /\ Idle("clock") /\ dirty
    /\ dirty' = FALSE
    /\ task' = [task EXCEPT !["clock"] = [pc |-> "sync", rev |-> 0, retry |-> FALSE]]
    /\ UNCHANGED <<inputs, room, dbVars, peers, logVars, exportVars>>

(* The flag is taken first and put back by a publication that fails.       *)
FlushRoomUpdates ==
    /\ Idle("clock") /\ dirty
    /\ dirty' = FALSE
    /\ task' = [task EXCEPT !["clock"] = [pc |-> "sync", rev |-> 0, retry |-> TRUE]]
    /\ UNCHANGED <<inputs, room, dbVars, peers, logVars, exportVars>>

(* sync_room_state clones the snapshot and hands it to a blocking worker.  *)
Snapshot(t) ==
    /\ At(t, "sync")
    /\ task' = [task EXCEPT ![t].pc = "save", ![t].rev = room]
    /\ UNCHANGED <<inputs, room, dirty, dbVars, peers, logVars, exportVars>>

(* `?` leaves broadcast_room; only flush_room_updates sets the flag again. *)
Unpublished(t) ==
    /\ task' = [task EXCEPT ![t] = AtRest]
    /\ dirty' = (dirty \/ task[t].retry)

SaveBegins(t) ==
    /\ At(t, "save") /\ db = "free"
    /\ db' = t /\ Goto(t, "saving")
    /\ UNCHANGED <<inputs, room, dirty, faults, peers, logVars, exportVars>>

SaveContended(t) ==
    /\ At(t, "save") /\ db # "free"
    /\ Unpublished(t)
    /\ UNCHANGED <<inputs, room, dbVars, peers, logVars, exportVars>>

Saved(t) ==
    /\ At(t, "saving")
    /\ db' = "free" /\ Goto(t, "publish")
    /\ UNCHANGED <<inputs, room, dirty, faults, peers, logVars, exportVars>>

SaveFails(t) ==
    /\ At(t, "saving") /\ faults < MaxFaults
    /\ faults' = faults + 1 /\ db' = "free" /\ Unpublished(t)
    /\ UNCHANGED <<inputs, room, peers, logVars, exportVars>>

(* The timeout drops the handle, not the blocking worker.                  *)
SaveTimesOut(t) ==
    /\ At(t, "saving") /\ faults < MaxFaults
    /\ faults' = faults + 1 /\ db' = "late" /\ Unpublished(t)
    /\ UNCHANGED <<inputs, room, peers, logVars, exportVars>>

LateSave ==
    /\ db = "late" /\ db' = "free"
    /\ UNCHANGED <<changeVars, faults, peers, logVars, exportVars>>

(* ExportPublisher::publish_room stores the snapshot, then wakes.          *)
PublishExports(t) ==
    /\ At(t, "publish")
    /\ pending' = task[t].rev /\ Goto(t, "wake")
    /\ UNCHANGED <<inputs, room, dirty, dbVars, peers, logVars, wakeQueued, signals, worker>>

(* wake, and then broadcast_room's own clone of the snapshot.              *)
Wake(t) ==
    /\ At(t, "wake")
    /\ signals' = IF wakeQueued THEN signals ELSE signals + 1
    /\ wakeQueued' = TRUE
    /\ task' = [task EXCEPT ![t].pc = "send", ![t].rev = room]
    /\ UNCHANGED <<inputs, room, dirty, dbVars, peers, logVars, pending, worker>>

Send(t) ==
    /\ At(t, "send")
    /\ peers' = task[t].rev /\ task' = [task EXCEPT ![t] = AtRest]
    /\ UNCHANGED <<inputs, room, dirty, dbVars, logVars, exportVars>>

Publish(t) == \/ Snapshot(t) \/ SaveBegins(t) \/ SaveContended(t) \/ Saved(t) \/ SaveFails(t)
              \/ SaveTimesOut(t) \/ PublishExports(t) \/ Wake(t) \/ Send(t)

-----------------------------------------------------------------------------
(* Run events.                                                             *)

(* queue_event: a peer's event is in the backlog before it is applied; an  *)
(* event a full backlog refuses is not applied either.                     *)
QueueEvent ==
    /\ Idle("network") /\ Input
    /\ Len(backlog) < BacklogCap
    /\ arrived' = arrived + 1
    /\ backlog' = Append(backlog, arrived + 1)
    /\ Goto("network", "apply")
    /\ UNCHANGED <<room, dirty, dbVars, peers, flush, rows, gone, exportVars>>

(* The host's own run event goes to the journal, not to the backlog.       *)
LocalRun ==
    /\ Idle("control") /\ Input
    /\ room' = room + 1 /\ Goto("control", "mark")
    /\ UNCHANGED <<dirty, dbVars, peers, logVars, exportVars>>

ApplyRun ==
    /\ At("network", "apply")
    /\ room' = room + 1 /\ Goto("network", "mark")
    /\ UNCHANGED <<inputs, dirty, dbVars, peers, logVars, exportVars>>

MarkRoomDirty(t) ==
    /\ At(t, "mark")
    /\ dirty' = TRUE /\ Goto(t, "idle")
    /\ UNCHANGED <<inputs, room, dbVars, peers, logVars, exportVars>>

-----------------------------------------------------------------------------
(* flush_pending_events, from the tick and from history.delete.            *)

TakeBacklog(f) ==
    /\ flush' = [flush EXCEPT ![f] = [pc |-> IF backlog # <<>> THEN "lock"
                                             ELSE IF f = "history" THEN "delete" ELSE "idle",
                                      batch |-> backlog]]
    /\ backlog' = <<>>
    /\ UNCHANGED <<rows, gone, arrived>>

FlushTick ==
    /\ flush["tick"].pc = "idle" /\ backlog # <<>>
    /\ TakeBacklog("tick")
    /\ UNCHANGED <<changeVars, dbVars, peers, exportVars>>

DeleteHistory ==
    /\ Idle("control") /\ Input /\ Goto("control", "history")
    /\ TakeBacklog("history")
    /\ UNCHANGED <<room, dirty, dbVars, peers, exportVars>>

(* An error of either flusher; the control that asked for it returns.      *)
FlushEnds(f) == task' = IF f = "history" THEN [task EXCEPT !["control"].pc = "idle"] ELSE task

(* Mutant of Requeued: the batch replaces what was queued meanwhile.       *)
RequeuedAlone(batch, queued) == [kept |-> batch, dropped |-> {}]

(* Mutant of Requeued: the caps are checked by queue_event alone.          *)
RequeuedUnbounded(batch, queued) == [kept |-> batch \o queued, dropped |-> {}]

(* A failed batch goes back in front; the newest events over the cap go.   *)
Requeued(batch, queued) ==
    LET all == batch \o queued
        kept == IF Len(all) > BacklogCap THEN SubSeq(all, 1, BacklogCap) ELSE all
    IN [kept |-> kept, dropped |-> Range(all) \ Range(kept)]

(* Mutant of Requeue: an error ends the task that flushes.                 *)
RequeueAndStop(f) ==
    LET again == Requeued(flush[f].batch, backlog) IN
    /\ backlog' = again.kept /\ gone' = gone \cup again.dropped
    /\ flush' = [flush EXCEPT ![f] = [pc |-> "stopped", batch |-> <<>>]]
    /\ FlushEnds(f)
    /\ UNCHANGED <<inputs, room, dirty, peers, rows, arrived, exportVars>>

Requeue(f) ==
    LET again == Requeued(flush[f].batch, backlog) IN
    /\ backlog' = again.kept /\ gone' = gone \cup again.dropped
    /\ flush' = [flush EXCEPT ![f] = [pc |-> "idle", batch |-> <<>>]]
    /\ FlushEnds(f)
    /\ UNCHANGED <<inputs, room, dirty, peers, rows, arrived, exportVars>>

FlushBegins(f) ==
    /\ flush[f].pc = "lock" /\ db = "free"
    /\ db' = f /\ flush' = [flush EXCEPT ![f].pc = "commit"]
    /\ UNCHANGED <<changeVars, faults, peers, backlog, rows, gone, arrived, exportVars>>

FlushContended(f) ==
    /\ flush[f].pc = "lock" /\ db # "free"
    /\ Requeue(f) /\ UNCHANGED <<db, faults>>

FlushFails(f) ==
    /\ flush[f].pc = "commit" /\ faults < MaxFaults
    /\ faults' = faults + 1 /\ db' = "free" /\ Requeue(f)

Flushed(f) ==
    /\ flush[f].pc = "commit"
    /\ db' = "free" /\ rows' = rows \cup InFlight(f)
    /\ flush' = [flush EXCEPT ![f] = [pc |-> IF f = "history" THEN "delete" ELSE "idle",
                                      batch |-> <<>>]]
    /\ UNCHANGED <<changeVars, faults, peers, backlog, gone, arrived, exportVars>>

(* The connection was let go in between and is tried again.                *)
DeleteBegins ==
    /\ flush["history"].pc = "delete" /\ db = "free"
    /\ db' = "history" /\ flush' = [flush EXCEPT !["history"].pc = "deleting"]
    /\ UNCHANGED <<changeVars, faults, peers, backlog, rows, gone, arrived, exportVars>>

DeleteContended ==
    /\ flush["history"].pc = "delete" /\ db # "free"
    /\ flush' = [flush EXCEPT !["history"].pc = "idle"] /\ FlushEnds("history")
    /\ UNCHANGED <<inputs, room, dirty, dbVars, peers, backlog, rows, gone, arrived, exportVars>>

Deleted ==
    /\ flush["history"].pc = "deleting"
    /\ db' = "free" /\ rows' = {} /\ gone' = gone \cup rows
    /\ flush' = [flush EXCEPT !["history"].pc = "idle"] /\ FlushEnds("history")
    /\ UNCHANGED <<inputs, room, dirty, faults, peers, backlog, arrived, exportVars>>

Flushing(f) == FlushBegins(f) \/ FlushContended(f) \/ FlushFails(f) \/ Flushed(f)
Deleting == DeleteBegins \/ DeleteContended \/ Deleted

-----------------------------------------------------------------------------
(* The export worker.                                                      *)

(* A Wake opens a 100 ms window; until it closes the flag keeps others from *)
(* being queued.                                                           *)
ExportWoken ==
    /\ worker = "waiting" /\ signals > 0
    /\ signals' = signals - 1 /\ worker' = "window"
    /\ UNCHANGED <<changeVars, dbVars, peers, logVars, pending, wakeQueued>>

(* The flag is cleared before the pending snapshot is taken.               *)
ExportWindowCloses ==
    /\ worker = "window" /\ worker' = "writing"
    /\ wakeQueued' = FALSE
    /\ UNCHANGED <<changeVars, dbVars, peers, logVars, pending, signals>>

WritePending ==
    /\ worker = "writing" /\ worker' = "waiting"
    /\ pending' = Nothing
    /\ UNCHANGED <<changeVars, dbVars, peers, logVars, wakeQueued, signals>>

(* Mutant of ExportWorker: the snapshot is taken before the flag is cleared. *)
ExportTakesFirst ==
    /\ worker = "window" /\ worker' = "writing" /\ pending' = Nothing
    /\ UNCHANGED <<changeVars, dbVars, peers, logVars, wakeQueued, signals>>
ExportClearsLast ==
    /\ worker = "writing" /\ worker' = "waiting" /\ wakeQueued' = FALSE
    /\ UNCHANGED <<changeVars, dbVars, peers, logVars, pending, signals>>
ExportWorkerSwapped == ExportWoken \/ ExportTakesFirst \/ ExportClearsLast

ExportWorker == ExportWoken \/ ExportWindowCloses \/ WritePending

-----------------------------------------------------------------------------
Run == ApplyRun \/ \E t \in Task : MarkRoomDirty(t)

PipelineNext ==
    \/ \E t \in Task : Change(t) \/ Publish(t)
    \/ FlushRoomUpdates \/ LateSave
    \/ QueueEvent \/ LocalRun \/ Run
    \/ FlushTick \/ DeleteHistory \/ Deleting
    \/ \E f \in Flusher : Flushing(f)
    \/ ExportWorker

PipelineSpec == PipelineInit /\ [][PipelineNext]_pipelineVars

(* Tasks and blocking workers that have begun something finish it, and the *)
(* two clocks tick.  Nothing makes a host act or an event arrive.          *)
PipelineFairness ==
    /\ \A t \in Task : WF_pipelineVars(Publish(t))
    /\ WF_pipelineVars(Run)
    /\ \A f \in Flusher : WF_pipelineVars(Flushing(f))
    /\ WF_pipelineVars(Deleting) /\ WF_pipelineVars(FlushRoomUpdates) /\ WF_pipelineVars(FlushTick)
    /\ WF_pipelineVars(LateSave) /\ WF_pipelineVars(ExportWorker)
PipelineFairSpec == PipelineSpec /\ PipelineFairness

-----------------------------------------------------------------------------
PipelineTypeOK ==
    /\ room \in Revision /\ dirty \in BOOLEAN
    /\ task \in [Task -> [pc : TaskPc, rev : Revision, retry : BOOLEAN]]
    /\ db \in {"free", "late"} \cup Task \cup Flusher
    /\ peers \in Revision
    /\ backlog \in BoundedSeq(Events, BacklogCap)
    /\ flush \in [Flusher -> [pc : FlushPc, batch : BoundedSeq(Events, BacklogCap)]]
    /\ rows \cup gone \subseteq Events /\ arrived \in 0 .. MaxInputs
    /\ pending \in Revision \cup {Nothing} /\ wakeQueued \in BOOLEAN /\ signals \in Nat
    /\ worker \in {"waiting", "window", "writing"} /\ faults \in 0 .. MaxFaults
    /\ inputs \in 0 .. MaxInputs

(* An event the host took from a peer is waiting, being committed, stored, *)
(* or was dropped by the cap or deleted with its room: failed batches,     *)
(* contention and events that arrive meanwhile lose none (storage.rs:178). *)
EventsAccounted ==
    1 .. arrived = Range(backlog) \cup rows \cup gone \cup UNION {InFlight(f) : f \in Flusher}

(* A score that was marked dirty reaches the peers, whatever fails on the  *)
(* way: the flag is taken before the snapshot is cloned and put back when  *)
(* the publication fails (app_state.rs:3474).                              *)
DirtyIsPublished == \A r \in Revision \ {0} : (dirty /\ room = r) ~> peers >= r

(* Once events stop arriving none is left waiting, though the flushers     *)
(* only ever try the connection and put back what they could not commit    *)
(* (storage.rs:178, main.rs:192).                                          *)
BacklogDrains == <>[](backlog = <<>> /\ \A f \in Flusher : InFlight(f) = {})

(* No snapshot handed to the exports waits forever: a publication that     *)
(* finds a Wake queued relies on it (exports.rs:145).                      *)
ExportsAreWritten == pending # Nothing ~> pending = Nothing

(* Nothing that waits for a worker waits forever.                          *)
WaitingEnds == BacklogDrains /\ ExportsAreWritten

(* "Keeping room state, transport sessions, and publication together"      *)
(* (app_state.rs:3486): once nothing is under way and nothing is marked    *)
(* for later, the peers have the room as it is.  The code does not keep    *)
(* this: a publication that fails is not repeated.                         *)
PeersUpToDate == (~dirty /\ \A t \in Task : Idle(t)) => peers = room
=============================================================================
