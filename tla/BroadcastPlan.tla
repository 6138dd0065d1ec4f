---------------------------- MODULE BroadcastPlan ----------------------------
(***************************************************************************)
(* The plan of the streamed slots, on the host and on a Commentator.  On   *)
(* the host every change of a renderer slot ends in refresh_broadcast_plan,*)
(* which two tasks can run at once: the control the user gave and the task *)
(* that handles network events.  On the Commentator the event task stores  *)
(* newer plans and applies them while the mirror is on, and the user turns *)
(* the mirror on and off; both of them stop and launch renderer processes  *)
(* (RendererManager).  The configuration of the slots is one layout, 0     *)
(* when no slot is assigned, and the processes of its slots are one child. *)
(***************************************************************************)
EXTENDS Integers, Sequences, FiniteSets

CONSTANTS
    MaxChanges,     \* changes of the host's slots
    MaxGrants,      \* grants and revocations
    MaxToggles,     \* times the Commentator turns the mirror on or off
    MaxDrops        \* losses of the connection

ASSUME BoundAssumption == {MaxChanges, MaxGrants, MaxToggles, MaxDrops} \subseteq Nat

VARIABLES
    layout,     \* the host's renderer slots
    revision,   \* broadcast_revision
    hostPlan,   \* the host's broadcast_plan
    access,     \* commentator_access of the participant in the host's room
    connected,  \* connected of the participant in the host's room
    subscribed, \* commentator_subscribers holds the session
    task,       \* what each task of the host is doing
    link,       \* the connection is up
    toMirror, toHost,   \* the control stream in each direction
    myAccess,   \* commentator_access in the Commentator's copy of the room
    plan,       \* the Commentator's broadcast_plan
    mirror,     \* local_mirror_enabled
    shown,      \* the layout its renderer slots are configured with
    tracked,    \* the process table holds a child
    live,       \* children running
    worker,     \* what each task of the Commentator is doing
    missed,     \* history: the last plan was not sent to the Commentator
    late,       \* history: the subscription was checked before the last
                \* revocation and is stored after it
    crossed,    \* history: two tasks launched a child at once
    outrun,     \* history: the last stop of all slots came while another task
                \* was applying a plan
    spent       \* changes, grants, toggles and drops so far

hostVars == <<layout, revision, hostPlan, access, connected, subscribed>>
wireVars == <<link, toMirror, toHost>>
mirrorVars == <<myAccess, plan, mirror>>
childVars == <<shown, tracked, live>>
history == <<missed, late, crossed, outrun>>
vars == <<hostVars, task, wireVars, mirrorVars, childVars, worker, history, spent>>

HostTask == {"control", "network"}
MirrorTask == {"events", "user"}
Layout == 0 .. MaxChanges
Plan == [revision : Nat, layout : Layout]
HostPc == {"idle", "fetch", "read", "store", "send", "grant", "revoke", "subscribe"}
WorkerPc == {"idle", "enable", "disable", "apply", "stop", "clear", "configure", "launch"}
Message == [kind : {"plan", "revoked", "snapshot"}, plan : Plan, access : BOOLEAN]

NoPlan == [revision |-> 0, layout |-> 0]
Resting == [pc |-> "idle", plan |-> NoPlan]
PlanMessage(p) == [kind |-> "plan", plan |-> p, access |-> FALSE]
Revoked == [kind |-> "revoked", plan |-> NoPlan, access |-> FALSE]
Snapshot(a) == [kind |-> "snapshot", plan |-> NoPlan, access |-> a]
Spend(what, max) == spent[what] < max /\ spent' = [spent EXCEPT ![what] = @ + 1]

(* send_to and broadcast: nothing reaches a peer that is not connected.    *)
Sent(messages) == IF link /\ connected THEN toMirror \o messages ELSE toMirror

Init ==
    /\ layout = 0 /\ revision = 0 /\ hostPlan = NoPlan
    /\ access = FALSE /\ connected = TRUE /\ subscribed = FALSE
    /\ task = [t \in HostTask |-> Resting]
    /\ link = TRUE /\ toMirror = <<>> /\ toHost = <<>>
    /\ myAccess = FALSE /\ plan = NoPlan /\ mirror = FALSE
    /\ shown = 0 /\ tracked = FALSE /\ live = 0
    /\ worker = [t \in MirrorTask |-> Resting]
    /\ missed = TRUE /\ late = FALSE
    /\ crossed = FALSE /\ outrun = FALSE
    /\ spent = [change |-> 0, grant |-> 0, toggle |-> 0, drop |-> 0]

-----------------------------------------------------------------------------
(* refresh_broadcast_plan on the host, after a slot was configured or      *)
(* stopped                                                                 *)

ChangeSlots(t) ==
    /\ task[t].pc = "idle" /\ Spend("change", MaxChanges)
    /\ layout' = layout + 1
    /\ task' = [task EXCEPT ![t].pc = "fetch"]
    /\ UNCHANGED <<revision, hostPlan, access, connected, subscribed, wireVars, mirrorVars, childVars,
                   worker, history>>

(* The revision is taken before the slots are read, so a higher revision   *)
(* never carries an older layout.                                          *)
(* Mutant of FetchRevision: the counter is read and not advanced.          *)
FetchRevisionOnly(t) ==
    /\ task[t].pc = "fetch"
    /\ task' = [task EXCEPT ![t] = [pc |-> "read", plan |-> [revision |-> revision + 1, layout |-> 0]]]
    /\ UNCHANGED <<hostVars, wireVars, mirrorVars, childVars, worker, history, spent>>

FetchRevision(t) ==
    /\ task[t].pc = "fetch"
    /\ revision' = revision + 1
    /\ task' = [task EXCEPT ![t] = [pc |-> "read", plan |-> [revision |-> revision + 1, layout |-> 0]]]
    /\ UNCHANGED <<layout, hostPlan, access, connected, subscribed, wireVars, mirrorVars, childVars,
                   worker, history, spent>>

ReadSlots(t) ==
    /\ task[t].pc = "read"
    /\ task' = [task EXCEPT ![t].pc = "store", ![t].plan.layout = layout]
    /\ UNCHANGED <<hostVars, wireVars, mirrorVars, childVars, worker, history, spent>>

(* Mutant of StorePlan: the revision is taken after the slots were read.   *)
StorePlanWithNewRevision(t) ==
    /\ task[t].pc = "store"
    /\ revision' = revision + 1
    /\ hostPlan' = [task[t].plan EXCEPT !.revision = revision']
    /\ task' = [task EXCEPT ![t] = [pc |-> "send", plan |-> hostPlan']]
    /\ UNCHANGED <<layout, access, connected, subscribed, wireVars, mirrorVars, childVars,
                   worker, history, spent>>

StorePlan(t) ==
    /\ task[t].pc = "store"
    /\ hostPlan' = task[t].plan
    /\ task' = [task EXCEPT ![t].pc = "send"]
    /\ UNCHANGED <<layout, revision, access, connected, subscribed, wireVars, mirrorVars, childVars,
                   worker, history, spent>>

(* It goes to every connected participant with Commentator access.         *)
SendPlan(t) ==
    /\ task[t].pc = "send"
    /\ LET reaches == access /\ connected /\ link
       IN  /\ toMirror' = IF access THEN Sent(<<PlanMessage(task[t].plan)>>) ELSE toMirror
           /\ missed' = IF task[t].plan.revision = revision THEN ~reaches ELSE missed
    /\ task' = [task EXCEPT ![t] = Resting]
    /\ UNCHANGED <<hostVars, link, toHost, mirrorVars, childVars, worker, late, crossed, outrun, spent>>

-----------------------------------------------------------------------------
(* set_commentator_access: the room first; a grant ends with the plan as   *)
(* it is stored, a revocation with the end of the subscription.            *)

SetAccess(enabled) ==
    /\ task["control"].pc = "idle" /\ access # enabled /\ Spend("grant", MaxGrants)
    /\ access' = enabled
    /\ task' = [task EXCEPT !["control"].pc = IF enabled THEN "grant" ELSE "revoke"]
    /\ late' = (late /\ ~enabled)
    /\ UNCHANGED <<layout, revision, hostPlan, connected, subscribed, wireVars, mirrorVars, childVars,
                   worker, missed, crossed, outrun>>

Grant ==
    /\ task["control"].pc = "grant"
    /\ toMirror' = Sent(<<Snapshot(access), PlanMessage(hostPlan)>>)
    /\ missed' = ~(link /\ connected /\ hostPlan.revision = revision)
    /\ task' = [task EXCEPT !["control"] = Resting]
    /\ UNCHANGED <<hostVars, link, toHost, mirrorVars, childVars, worker, late, crossed, outrun,
                   spent>>

(* Mutant of Revoke: the session stays a subscriber.                       *)
RevokeKeepingSubscriber ==
    /\ task["control"].pc = "revoke"
    /\ toMirror' = Sent(<<Revoked, Snapshot(access)>>)
    /\ task' = [task EXCEPT !["control"] = Resting]
    /\ UNCHANGED <<hostVars, link, toHost, mirrorVars, childVars, worker, history, spent>>

Revoke ==
    /\ task["control"].pc = "revoke"
    /\ subscribed' = FALSE
    /\ toMirror' = Sent(<<Revoked, Snapshot(access)>>)
    /\ late' = (task["network"].pc = "subscribe")
    /\ task' = [task EXCEPT !["control"] = Resting]
    /\ UNCHANGED <<layout, revision, hostPlan, access, connected, link, toHost, mirrorVars, childVars,
                   worker, missed, crossed, outrun, spent>>

(* broadcast.subscribe: the room is asked before the subscriber is stored. *)
HearSubscribe ==
    /\ task["network"].pc = "idle" /\ toHost # <<>>
    /\ toHost' = Tail(toHost)
    /\ IF Head(toHost)
       THEN /\ task' = IF access THEN [task EXCEPT !["network"].pc = "subscribe"] ELSE task
            /\ UNCHANGED <<subscribed, late>>
       ELSE subscribed' = FALSE /\ late' = FALSE /\ UNCHANGED task
    /\ UNCHANGED <<layout, revision, hostPlan, access, connected, link, toMirror, mirrorVars, childVars,
                   worker, missed, crossed, outrun, spent>>

Subscribe ==
    /\ task["network"].pc = "subscribe"
    /\ subscribed' = TRUE
    /\ toMirror' = Sent(<<PlanMessage(hostPlan)>>)
    /\ missed' = (missed /\ ~(link /\ connected /\ hostPlan.revision = revision))
    /\ task' = [task EXCEPT !["network"] = Resting]
    /\ UNCHANGED <<layout, revision, hostPlan, access, connected, link, toHost, mirrorVars, childVars,
                   worker, late, crossed, outrun, spent>>

-----------------------------------------------------------------------------
(* The connection: lost, noticed by the host, which refreshes the plan as  *)
(* for any participant that leaves, and resumed with the room's snapshot.  *)

LoseLink ==
    /\ link /\ Spend("drop", MaxDrops)
    /\ link' = FALSE /\ toMirror' = <<>> /\ toHost' = <<>>
    /\ missed' = TRUE
    /\ UNCHANGED <<hostVars, task, mirrorVars, childVars, worker, late, crossed, outrun>>

NoticeLoss ==
    /\ ~link /\ connected /\ task["network"].pc = "idle"
    /\ connected' = FALSE /\ subscribed' = FALSE /\ late' = FALSE
    /\ task' = [task EXCEPT !["network"].pc = "fetch"]
    /\ UNCHANGED <<layout, revision, hostPlan, access, wireVars, mirrorVars, childVars, worker,
                   missed, crossed, outrun, spent>>

Resume ==
    /\ ~link /\ ~connected /\ task["network"].pc = "idle"
    /\ link' = TRUE /\ connected' = TRUE
    /\ toMirror' = <<Snapshot(access)>>
    /\ UNCHANGED <<layout, revision, hostPlan, access, subscribed, task, toHost, mirrorVars, childVars,
                   worker, history, spent>>

-----------------------------------------------------------------------------
(* The renderer processes of the Commentator.  launch_slot and stop_slot   *)
(* take the table's lock to remove a child and kill it, and again to       *)
(* insert one: what another task inserted in between is dropped, and a     *)
(* dropped child runs on.                                                  *)

UsesRenderers(t) == worker[t].pc \in {"stop", "clear", "configure", "launch"}
Launching(t) == \E u \in MirrorTask \ {t} : worker[u].pc = "launch"
Applying(t) == \E u \in MirrorTask \ {t} : UsesRenderers(u) /\ worker[u].plan.layout # 0
NoteStop(t) == outrun' = IF worker[t].plan.layout = 0 THEN Applying(t) ELSE outrun

KillProcess ==
    /\ tracked' = FALSE
    /\ live' = IF tracked THEN live - 1 ELSE live

Goto(t, pc) == worker' = [worker EXCEPT ![t].pc = pc]

(* Mutant of StopChild: the slot forgets its child without killing it.     *)
StopChildUnkilled(t) ==
    /\ worker[t].pc = "stop"
    /\ tracked' = FALSE
    /\ NoteStop(t)
    /\ Goto(t, "clear")
    /\ UNCHANGED <<hostVars, task, wireVars, mirrorVars, live, shown, missed, late, crossed, spent>>

(* stop_all: the child is killed, then the slot is made inactive.          *)
StopChild(t) ==
    /\ worker[t].pc = "stop"
    /\ KillProcess
    /\ NoteStop(t)
    /\ Goto(t, "clear")
    /\ UNCHANGED <<hostVars, task, wireVars, mirrorVars, shown, missed, late, crossed, spent>>

ClearSlots(t) ==
    /\ worker[t].pc = "clear"
    /\ shown' = 0
    /\ IF worker[t].plan.layout = 0 THEN worker' = [worker EXCEPT ![t] = Resting]
       ELSE Goto(t, "configure")
    /\ UNCHANGED <<hostVars, task, wireVars, mirrorVars, tracked, live, history, spent>>

ConfigureSlots(t) ==
    /\ worker[t].pc = "configure"
    /\ shown' = worker[t].plan.layout
    /\ KillProcess
    /\ crossed' = (crossed \/ Launching(t))
    /\ Goto(t, "launch")
    /\ UNCHANGED <<hostVars, task, wireVars, mirrorVars, missed, late, outrun, spent>>

LaunchChild(t) ==
    /\ worker[t].pc = "launch"
    /\ tracked' = TRUE /\ live' = live + 1
    /\ worker' = [worker EXCEPT ![t] = Resting]
    /\ UNCHANGED <<hostVars, task, wireVars, mirrorVars, shown, history, spent>>

(* A child that exits is found by refresh_health, which removes it.        *)
ChildExits ==
    /\ tracked /\ live > 0
    /\ live' = live - 1 /\ tracked' = FALSE
    /\ UNCHANGED <<hostVars, task, wireVars, mirrorVars, shown, worker, history, spent>>

-----------------------------------------------------------------------------
(* The Commentator *)

(* apply_broadcast_plan_locally *)
Apply(t) ==
    /\ worker[t].pc = "apply"
    /\ worker' = [worker EXCEPT ![t] = IF mirror THEN [pc |-> "stop", plan |-> plan] ELSE Resting]
    /\ UNCHANGED <<hostVars, task, wireVars, mirrorVars, childVars, history, spent>>

(* Mutant of StopAll: the mirror is off, its children are left.            *)
StopNothing(t) == worker' = [worker EXCEPT ![t] = Resting]

StopAll(t) == worker' = [worker EXCEPT ![t] = [pc |-> "stop", plan |-> NoPlan]]

(* apply_host_message, for a plan, a revocation and a room snapshot.       *)
Accepts(p) == p.revision > plan.revision

ReceivePlan ==
    /\ worker["events"].pc = "idle" /\ toMirror # <<>> /\ Head(toMirror).kind = "plan"
    /\ toMirror' = Tail(toMirror)
    /\ IF Accepts(Head(toMirror).plan)
       THEN plan' = Head(toMirror).plan /\ Goto("events", "apply")
       ELSE UNCHANGED <<plan, worker>>
    /\ UNCHANGED <<hostVars, task, link, toHost, myAccess, mirror, childVars, history, spent>>

ReceiveRevoked ==
    /\ worker["events"].pc = "idle" /\ toMirror # <<>> /\ Head(toMirror).kind = "revoked"
    /\ toMirror' = Tail(toMirror)
    /\ mirror' = FALSE /\ StopAll("events")
    /\ UNCHANGED <<hostVars, task, link, toHost, myAccess, plan, childVars, history, spent>>

ReceiveSnapshot ==
    /\ worker["events"].pc = "idle" /\ toMirror # <<>> /\ Head(toMirror).kind = "snapshot"
    /\ toMirror' = Tail(toMirror)
    /\ myAccess' = Head(toMirror).access
    /\ IF mirror /\ ~myAccess'
       THEN mirror' = FALSE /\ StopAll("events")
       ELSE UNCHANGED <<mirror, worker>>
    /\ UNCHANGED <<hostVars, task, link, toHost, plan, childVars, history, spent>>

(* set_local_broadcast_mirror: the room is asked before the flag is set.   *)
Toggle(enabled) ==
    /\ worker["user"].pc = "idle" /\ myAccess /\ Spend("toggle", MaxToggles)
    /\ Goto("user", IF enabled THEN "enable" ELSE "disable")
    /\ UNCHANGED <<hostVars, task, wireVars, mirrorVars, childVars, history>>

SetMirror ==
    /\ worker["user"].pc \in {"enable", "disable"}
    /\ mirror' = (worker["user"].pc = "enable")
    /\ toHost' = IF link THEN Append(toHost, mirror') ELSE toHost
    /\ IF mirror' THEN Goto("user", "apply") ELSE StopAll("user")
    /\ UNCHANGED <<hostVars, task, link, toMirror, myAccess, plan, childVars, history, spent>>

-----------------------------------------------------------------------------
Host ==
    \/ \E t \in HostTask :
          ChangeSlots(t) \/ FetchRevision(t) \/ ReadSlots(t) \/ StorePlan(t) \/ SendPlan(t)
    \/ \E enabled \in BOOLEAN : SetAccess(enabled)
    \/ Grant \/ Revoke \/ HearSubscribe \/ Subscribe \/ NoticeLoss \/ Resume
Commentator ==
    \/ ReceivePlan \/ ReceiveRevoked \/ ReceiveSnapshot
    \/ \E enabled \in BOOLEAN : Toggle(enabled)
    \/ SetMirror
    \/ \E t \in MirrorTask :
          Apply(t) \/ StopChild(t) \/ ClearSlots(t) \/ ConfigureSlots(t) \/ LaunchChild(t)

Next == Host \/ Commentator \/ LoseLink \/ ChildExits
Spec == Init /\ [][Next]_vars

-----------------------------------------------------------------------------
TypeOK ==
    /\ layout \in Layout /\ revision \in Nat
    /\ hostPlan \in Plan /\ hostPlan.revision <= revision
    /\ {access, connected, subscribed, link, myAccess, mirror, tracked, missed, late, crossed,
      outrun} \subseteq BOOLEAN
    /\ task \in [HostTask -> [pc : HostPc, plan : Plan]]
    /\ toMirror \in Seq(Message) /\ toHost \in Seq(BOOLEAN)
    /\ plan \in Plan /\ shown \in Layout /\ live \in Nat
    /\ worker \in [MirrorTask -> [pc : WorkerPc, plan : Plan]]

Settled ==
    /\ \A t \in HostTask : task[t].pc = "idle"
    /\ \A t \in MirrorTask : worker[t].pc = "idle"
    /\ toMirror = <<>>

(* However many refreshes of the host overlap, once everything is          *)
(* delivered the plan a Commentator holds is the host's slots as they are, *)
(* if the refresh with the highest revision was sent to it.                *)
PlanConverges ==
    Settled /\ access /\ connected /\ link /\ ~missed => plan.layout = layout

(* Telemetry is relayed only to sessions with Commentator access: when a   *)
(* revocation has returned no subscription is left, but one that was being *)
(* stored at that moment, and of that nothing once it has ended or access  *)
(* has been granted again.                                                 *)
RelayIsAuthorized ==
    subscribed => access \/ late \/ task["control"].pc = "revoke"

(* Whatever the two tasks of the Commentator stop and launch between each  *)
(* other's steps, a slot has at most one child and the process table knows *)
(* it, unless both were between the kill and the launch of one at once.    *)
(* When the mirror is off no child is left, whoever turned it off, unless  *)
(* a plan was being applied as everything was last stopped.                *)
NoChildLeftBehind ==
    ~crossed =>
        /\ live <= 1 /\ (live = 1 => tracked)
        /\ (~mirror /\ ~outrun /\ \A t \in MirrorTask : worker[t].pc = "idle") => live = 0

(* "A role change, removal, revocation, room exit, or shutdown clears the  *)
(* grant's active subscriptions and stale local renderer state"            *)
(* (docs/mod-guide.md:45).  The code keeps neither when a revocation meets *)
(* a subscription being stored, or a plan being applied.                   *)
RevocationClears ==
    /\ subscribed => access \/ task["control"].pc = "revoke"
    /\ (~mirror /\ \A t \in MirrorTask : worker[t].pc = "idle") => live = 0

(* "A host-granted Commentator receives the same plan read-only"           *)
(* (docs/obs-setup.md:18): whenever the host and its Commentator are at    *)
(* rest and connected, also after the Commentator has resumed its session. *)
(* The code does not keep this: a resumed session hears of no plan.        *)
CommentatorHasPlan ==
    Settled /\ access /\ connected /\ link => plan.layout = layout
===============================================================================
