----------------------------- MODULE RendererProofs -----------------------------
(***************************************************************************)
(* Proofs about what the commentators and the renderer games are given.    *)
(* BroadcastPlan, for any number of changes, grants, toggles and losses:   *)
(* the plan a Commentator ends with is the host's, and its telemetry needs *)
(* its access.  RendererInputs, for any slots, participants, taps, delay   *)
(* and jitter: the children play the input of their run, once.             *)
(***************************************************************************)
EXTENDS BroadcastPlan, RendererInputs, WellFoundedInduction, TLAPS

InProgress(t) == task[t].pc \in {"read", "store", "send"}

In(seq, e) == \E i \in DOMAIN seq : seq[i] = e

-----------------------------------------------------------------------------
(***************************************************************************)
(* What a queue holds after a message was added or taken.                  *)
(***************************************************************************)
LEMMA Added ==
    ASSUME NEW s \in Seq(Message), NEW m \in Seq(Message)
    PROVE  /\ s \o m \in Seq(Message)
           /\ \A e : In(s \o m, e) <=> In(s, e) \/ In(m, e)
<1>1. /\ s \o m \in Seq(Message) /\ Len(s \o m) = Len(s) + Len(m)
      /\ \A i \in 1 .. Len(s) + Len(m) :
            (s \o m)[i] = IF i <= Len(s) THEN s[i] ELSE m[i - Len(s)]
  OBVIOUS
<1>2. /\ DOMAIN s = 1 .. Len(s) /\ DOMAIN m = 1 .. Len(m)
      /\ DOMAIN (s \o m) = 1 .. Len(s) + Len(m) /\ Len(s) \in Nat /\ Len(m) \in Nat
  BY <1>1
<1>3. ASSUME NEW e, In(s \o m, e)
      PROVE  In(s, e) \/ In(m, e)
  <2>1. PICK i \in 1 .. Len(s) + Len(m) : (s \o m)[i] = e
    BY <1>2, <1>3 DEF In
  <2>2. CASE i <= Len(s)
    BY <1>1, <1>2, <2>1, <2>2 DEF In
  <2>3. CASE ~(i <= Len(s))
    <3>1. i - Len(s) \in 1 .. Len(m) /\ m[i - Len(s)] = e
      BY <1>1, <1>2, <2>1, <2>3
    <3> QED
      BY <1>2, <3>1 DEF In
  <2> QED
    BY <2>2, <2>3
<1>4. ASSUME NEW e, In(s, e)
      PROVE  In(s \o m, e)
  <2>1. PICK i \in 1 .. Len(s) : s[i] = e
    BY <1>2, <1>4 DEF In
  <2>2. i \in 1 .. Len(s) + Len(m) /\ (s \o m)[i] = e
    BY <1>1, <1>2, <2>1
  <2> QED
    BY <1>2, <2>2 DEF In
<1>5. ASSUME NEW e, In(m, e)
      PROVE  In(s \o m, e)
  <2>1. PICK i \in 1 .. Len(m) : m[i] = e
    BY <1>2, <1>5 DEF In
  <2>2. /\ Len(s) + i \in 1 .. Len(s) + Len(m) /\ ~(Len(s) + i <= Len(s))
        /\ (Len(s) + i) - Len(s) = i
    BY <1>2, <2>1
  <2>3. (s \o m)[Len(s) + i] = e
    BY <1>1, <2>1, <2>2
  <2> QED
    BY <1>2, <2>2, <2>3 DEF In
<1> QED
  BY <1>1, <1>3, <1>4, <1>5

LEMMA Taken ==
    ASSUME NEW s \in Seq(Message), s # <<>>
    PROVE  /\ Head(s) \in Message /\ Tail(s) \in Seq(Message)
           /\ \A e : In(s, e) <=> e = Head(s) \/ In(Tail(s), e)
<1>1. /\ Head(s) = s[1] /\ s[1] \in Message /\ Tail(s) \in Seq(Message)
      /\ Len(Tail(s)) = Len(s) - 1 /\ Len(s) \in Nat \ {0}
      /\ \A i \in 1 .. Len(s) - 1 : Tail(s)[i] = s[i + 1]
  OBVIOUS
<1>2. DOMAIN s = 1 .. Len(s) /\ DOMAIN Tail(s) = 1 .. Len(s) - 1
  BY <1>1
<1>3. ASSUME NEW e, In(s, e)
      PROVE  e = Head(s) \/ In(Tail(s), e)
  <2>1. PICK i \in 1 .. Len(s) : s[i] = e
    BY <1>2, <1>3 DEF In
  <2>2. CASE i = 1
    BY <1>1, <2>1, <2>2
  <2>3. CASE i # 1
    <3>1. i - 1 \in 1 .. Len(s) - 1 /\ (i - 1) + 1 = i
      BY <1>1, <2>3
    <3>2. Tail(s)[i - 1] = e
      BY <1>1, <2>1, <3>1
    <3> QED
      BY <1>2, <3>1, <3>2 DEF In
  <2> QED
    BY <2>2, <2>3
<1>4. ASSUME NEW e, In(Tail(s), e)
      PROVE  In(s, e)
  <2>1. PICK i \in 1 .. Len(s) - 1 : Tail(s)[i] = e
    BY <1>2, <1>4 DEF In
  <2>2. i + 1 \in 1 .. Len(s) /\ s[i + 1] = e
    BY <1>1, <2>1
  <2> QED
    BY <1>2, <2>2 DEF In
<1>5. In(s, Head(s))
  BY <1>1, <1>2 DEF In
<1> QED
  BY <1>1, <1>3, <1>4, <1>5

LEMMA Single ==
    ASSUME NEW a, NEW e
    PROVE  In(<<a>>, e) <=> e = a
  BY DEF In

LEMMA Double ==
    ASSUME NEW a, NEW b, NEW e
    PROVE  In(<<a, b>>, e) <=> e = a \/ e = b
<1>1. DOMAIN <<a, b>> = {1, 2} /\ <<a, b>>[1] = a /\ <<a, b>>[2] = b
  OBVIOUS
<1> QED
  BY <1>1 DEF In

-----------------------------------------------------------------------------
(***************************************************************************)
(* Types.                                                                  *)
(***************************************************************************)
LEMMA Bounds == MaxChanges \in Nat /\ 0 \in Layout
  BY BoundAssumption DEF Layout

TaskState == [pc : HostPc, plan : Plan]
WorkerState == [pc : WorkerPc, plan : Plan]

\* TypeOK, one variable at a time, with a layout that is within its bound
\* because every change was counted.
HostTypes ==
    /\ layout \in Layout /\ revision \in Nat
    /\ hostPlan \in Plan /\ hostPlan.revision <= revision
    /\ spent \in [{"change", "grant", "toggle", "drop"} -> Nat]
    /\ layout = spent["change"]
    /\ task \in [HostTask -> TaskState]
    /\ \A t \in HostTask : task[t].plan.revision <= revision

FlagTypes ==
    /\ access \in BOOLEAN /\ connected \in BOOLEAN /\ subscribed \in BOOLEAN
    /\ link \in BOOLEAN /\ myAccess \in BOOLEAN /\ mirror \in BOOLEAN
    /\ tracked \in BOOLEAN /\ missed \in BOOLEAN /\ late \in BOOLEAN
    /\ crossed \in BOOLEAN /\ outrun \in BOOLEAN

WireTypes == toMirror \in Seq(Message) /\ toHost \in Seq(BOOLEAN)

MirrorTypes ==
    /\ plan \in Plan /\ shown \in Layout /\ live \in Nat
    /\ tracked => live > 0
    /\ worker \in [MirrorTask -> WorkerState]

Typed == HostTypes /\ FlagTypes /\ WireTypes /\ MirrorTypes

LEMMA Records ==
    /\ NoPlan \in Plan /\ Resting \in TaskState /\ Resting \in WorkerState
    /\ \A x \in TaskState, pc \in HostPc : [x EXCEPT !.pc = pc] \in TaskState
    /\ \A x \in WorkerState, pc \in WorkerPc : [x EXCEPT !.pc = pc] \in WorkerState
    /\ \A p \in Plan : PlanMessage(p) \in Message
    /\ Revoked \in Message /\ Snapshot(TRUE) \in Message /\ Snapshot(FALSE) \in Message
<1>1. NoPlan \in Plan
  BY Bounds DEF NoPlan, Plan
<1>2. Resting \in TaskState /\ Resting \in WorkerState
  BY <1>1 DEF Resting, TaskState, WorkerState, HostPc, WorkerPc
<1>3. /\ \A x \in TaskState, pc \in HostPc : [x EXCEPT !.pc = pc] \in TaskState
      /\ \A x \in WorkerState, pc \in WorkerPc : [x EXCEPT !.pc = pc] \in WorkerState
  BY DEF TaskState, WorkerState
<1>4. /\ \A p \in Plan : PlanMessage(p) \in Message
      /\ Revoked \in Message /\ Snapshot(TRUE) \in Message /\ Snapshot(FALSE) \in Message
  BY <1>1 DEF PlanMessage, Revoked, Snapshot, Message
<1> QED
  BY <1>1, <1>2, <1>3, <1>4

LEMMA SentType ==
    ASSUME WireTypes, NEW m \in Seq(Message)
    PROVE  Sent(m) \in Seq(Message)
  BY Added DEF Sent, WireTypes

LEMMA TypesInit == Init => Typed
<1> SUFFICES ASSUME Init
             PROVE  Typed
  OBVIOUS
<1>1. HostTypes
  BY Bounds, Records DEF Init, HostTypes, NoPlan, Resting, TaskState
<1>2. FlagTypes
  BY DEF Init, FlagTypes
<1>4. WireTypes
  BY DEF Init, WireTypes
<1>3. MirrorTypes
  BY Bounds, Records DEF Init, MirrorTypes, WorkerState
<1> QED
  BY <1>1, <1>2, <1>3, <1>4 DEF Typed

\* A step of one host task that has no more to say than what it does next.
LEMMA TaskGoes ==
    ASSUME HostTypes, NEW t \in HostTask, NEW x \in TaskState,
           task' = [task EXCEPT ![t] = x], x.plan.revision <= revision',
           revision' \in Nat, revision <= revision'
    PROVE  /\ task' \in [HostTask -> TaskState]
           /\ \A u \in HostTask : task'[u].plan.revision <= revision'
<1>1. task \in [HostTask -> TaskState] /\ revision \in Nat
  BY DEF HostTypes
<1>2. ASSUME NEW u \in HostTask
      PROVE  task'[u].plan.revision <= revision'
  <2>1. CASE u = t
    BY <1>1, <2>1
  <2>2. CASE u # t
    <3>1. task'[u] = task[u] /\ task[u].plan.revision \in Nat
      BY <1>1, <2>2 DEF TaskState, Plan
    <3>2. task[u].plan.revision <= revision
      BY DEF HostTypes
    <3> QED
      BY <1>1, <3>1, <3>2
  <2> QED
    BY <2>1, <2>2
<1> QED
  BY <1>1, <1>2

LEMMA TypesHost ==
    ASSUME Typed, Host
    PROVE  Typed'
<1> USE DEF hostVars, wireVars, mirrorVars, childVars, history
<1>1. /\ task \in [HostTask -> TaskState] /\ "control" \in HostTask /\ "network" \in HostTask
      /\ \A t \in HostTask : task[t] \in TaskState /\ task[t].plan \in Plan
      /\ \A t \in HostTask : task[t].plan.revision <= revision
      /\ revision \in Nat /\ layout \in Layout /\ hostPlan \in Plan
      /\ hostPlan.revision <= revision
  BY DEF Typed, HostTypes, TaskState, HostTask
<1>2. Resting \in TaskState /\ Resting.plan.revision = 0
  BY Records DEF Resting, NoPlan
<1>3. ASSUME NEW t \in HostTask, ChangeSlots(t)
      PROVE  Typed'
  <2> DEFINE x == [task[t] EXCEPT !.pc = "fetch"]
  <2>1. x \in TaskState /\ x.plan = task[t].plan
    BY <1>1 DEF TaskState, HostPc
  <2>2. task' = [task EXCEPT ![t] = x]
    BY <1>3 DEF ChangeSlots
  <2> HIDE DEF x
  <2>3. /\ task' \in [HostTask -> TaskState]
        /\ \A u \in HostTask : task'[u].plan.revision <= revision'
    BY <1>1, <1>3, <2>1, <2>2, TaskGoes DEF ChangeSlots, Typed
  <2>4. layout' \in Layout /\ layout' = spent'["change"]
        /\ spent' \in [{"change", "grant", "toggle", "drop"} -> Nat]
    BY <1>3, Bounds DEF ChangeSlots, Spend, Typed, HostTypes, Layout
  <2> QED
    BY <1>3, <2>3, <2>4
    DEF ChangeSlots, Typed, HostTypes, FlagTypes, WireTypes, MirrorTypes
<1>4. ASSUME NEW t \in HostTask, FetchRevision(t)
      PROVE  Typed'
  <2> DEFINE x == [pc |-> "read", plan |-> [revision |-> revision + 1, layout |-> 0]]
  <2>1. x \in TaskState /\ x.plan.revision = revision + 1
    BY <1>1, Bounds DEF TaskState, HostPc, Plan
  <2>2. task' = [task EXCEPT ![t] = x] /\ revision' = revision + 1
    BY <1>4 DEF FetchRevision
  <2> HIDE DEF x
  <2>5. revision' \in Nat /\ revision <= revision' /\ x.plan.revision <= revision'
    BY <1>1, <2>1, <2>2
  <2>3. /\ task' \in [HostTask -> TaskState]
        /\ \A u \in HostTask : task'[u].plan.revision <= revision'
    BY <2>1, <2>2, <2>5, TaskGoes DEF Typed
  <2>4. hostPlan.revision <= revision'
    BY <1>1, <2>2 DEF Plan
  <2> QED
    BY <1>1, <1>4, <2>2, <2>3, <2>4
    DEF FetchRevision, Typed, HostTypes, FlagTypes, WireTypes, MirrorTypes
<1>5. ASSUME NEW t \in HostTask, ReadSlots(t)
      PROVE  Typed'
  <2> DEFINE x == [task[t] EXCEPT !.pc = "store", !.plan.layout = layout]
  <2>1. x \in TaskState /\ x.plan.revision = task[t].plan.revision
    BY <1>1 DEF TaskState, HostPc, Plan
  <2>2. task' = [task EXCEPT ![t] = x]
    BY <1>5 DEF ReadSlots
  <2> HIDE DEF x
  <2>3. /\ task' \in [HostTask -> TaskState]
        /\ \A u \in HostTask : task'[u].plan.revision <= revision'
    BY <1>1, <1>5, <2>1, <2>2, TaskGoes DEF ReadSlots, Typed
  <2> QED
    BY <1>5, <2>3 DEF ReadSlots, Typed, HostTypes, FlagTypes, WireTypes, MirrorTypes
<1>6. ASSUME NEW t \in HostTask, StorePlan(t)
      PROVE  Typed'
  <2> DEFINE x == [task[t] EXCEPT !.pc = "send"]
  <2>1. x \in TaskState /\ x.plan = task[t].plan
    BY <1>1 DEF TaskState, HostPc
  <2>2. task' = [task EXCEPT ![t] = x]
    BY <1>6 DEF StorePlan
  <2> HIDE DEF x
  <2>3. /\ task' \in [HostTask -> TaskState]
        /\ \A u \in HostTask : task'[u].plan.revision <= revision'
    BY <1>1, <1>6, <2>1, <2>2, TaskGoes DEF StorePlan, Typed
  <2> QED
    BY <1>1, <1>6, <2>3
    DEF StorePlan, Typed, HostTypes, FlagTypes, WireTypes, MirrorTypes
<1>7. ASSUME NEW t \in HostTask, SendPlan(t)
      PROVE  Typed'
  <2>1. /\ task' \in [HostTask -> TaskState]
        /\ \A u \in HostTask : task'[u].plan.revision <= revision'
    BY <1>1, <1>2, <1>7, TaskGoes DEF SendPlan, Typed
  <2>2. WireTypes'
    <3>1. <<PlanMessage(task[t].plan)>> \in Seq(Message)
      BY <1>1, Records
    <3> QED
      BY <1>7, <3>1, SentType DEF SendPlan, Typed, WireTypes
  <2>3. FlagTypes'
    BY <1>7 DEF SendPlan, Typed, FlagTypes
  <2> QED
    BY <1>7, <2>1, <2>2, <2>3 DEF SendPlan, Typed, HostTypes, MirrorTypes
<1>8. ASSUME NEW enabled \in BOOLEAN, SetAccess(enabled)
      PROVE  Typed'
  <2> DEFINE x == [task["control"] EXCEPT !.pc = IF enabled THEN "grant" ELSE "revoke"]
  <2>1. x \in TaskState /\ x.plan = task["control"].plan
    BY <1>1 DEF TaskState, HostPc
  <2>2. task' = [task EXCEPT !["control"] = x]
    BY <1>8 DEF SetAccess
  <2> HIDE DEF x
  <2>3. /\ task' \in [HostTask -> TaskState]
        /\ \A u \in HostTask : task'[u].plan.revision <= revision'
    BY <1>1, <1>8, <2>1, <2>2, TaskGoes DEF SetAccess, Typed
  <2>4. /\ spent' \in [{"change", "grant", "toggle", "drop"} -> Nat]
        /\ spent'["change"] = spent["change"]
    BY <1>8 DEF SetAccess, Spend, Typed, HostTypes
  <2> QED
    BY <1>8, <2>3, <2>4
    DEF SetAccess, Typed, HostTypes, FlagTypes, WireTypes, MirrorTypes
<1>9. ASSUME Grant \/ Revoke \/ Subscribe
      PROVE  Typed'
  <2>1. /\ task' \in [HostTask -> TaskState]
        /\ \A u \in HostTask : task'[u].plan.revision <= revision'
    BY <1>1, <1>2, <1>9, TaskGoes DEF Grant, Revoke, Subscribe, Typed
  <2>2. WireTypes'
    <3>1. Snapshot(access) \in Message
      BY Records DEF Typed, FlagTypes
    <3>2. /\ <<Snapshot(access), PlanMessage(hostPlan)>> \in Seq(Message)
          /\ <<Revoked, Snapshot(access)>> \in Seq(Message)
          /\ <<PlanMessage(hostPlan)>> \in Seq(Message)
      BY <1>1, <3>1, Records
    <3> QED
      BY <1>9, <3>2, SentType DEF Grant, Revoke, Subscribe, Typed, WireTypes
  <2>3. FlagTypes'
    BY ZenonT(60), <1>9 DEF Grant, Revoke, Subscribe, Typed, FlagTypes
  <2> QED
    BY <1>9, <2>1, <2>2, <2>3 DEF Grant, Revoke, Subscribe, Typed, HostTypes, MirrorTypes
<1>10. ASSUME HearSubscribe
       PROVE  Typed'
  <2> DEFINE x == [task["network"] EXCEPT !.pc = "subscribe"]
  <2>1. x \in TaskState /\ x.plan = task["network"].plan
    BY <1>1 DEF TaskState, HostPc
  <2>2. task' = task \/ task' = [task EXCEPT !["network"] = x]
    BY <1>10 DEF HearSubscribe
  <2> HIDE DEF x
  <2>3. /\ task' \in [HostTask -> TaskState]
        /\ \A u \in HostTask : task'[u].plan.revision <= revision'
    <3>1. CASE task' = task
      BY <1>1, <1>10, <3>1 DEF HearSubscribe
    <3>2. CASE task' = [task EXCEPT !["network"] = x]
      BY <1>1, <1>10, <2>1, <3>2, TaskGoes DEF HearSubscribe, Typed
    <3> QED
      BY <2>2, <3>1, <3>2
  <2>4. subscribed' \in BOOLEAN
    BY <1>10 DEF HearSubscribe, Typed, FlagTypes
  <2>5. toHost' \in Seq(BOOLEAN)
    <3>1. toHost # <<>> /\ toHost' = Tail(toHost) /\ toHost \in Seq(BOOLEAN)
      BY <1>10 DEF HearSubscribe, Typed, WireTypes
    <3> QED
      BY <3>1
  <2> QED
    BY <1>10, <2>3, <2>4, <2>5
    DEF HearSubscribe, Typed, HostTypes, FlagTypes, WireTypes, MirrorTypes
<1>11. ASSUME NoticeLoss
       PROVE  Typed'
  <2> DEFINE x == [task["network"] EXCEPT !.pc = "fetch"]
  <2>1. x \in TaskState /\ x.plan = task["network"].plan
    BY <1>1 DEF TaskState, HostPc
  <2>2. task' = [task EXCEPT !["network"] = x]
    BY <1>11 DEF NoticeLoss
  <2> HIDE DEF x
  <2>3. /\ task' \in [HostTask -> TaskState]
        /\ \A u \in HostTask : task'[u].plan.revision <= revision'
    BY <1>1, <1>11, <2>1, <2>2, TaskGoes DEF NoticeLoss, Typed
  <2> QED
    BY <1>11, <2>3 DEF NoticeLoss, Typed, HostTypes, FlagTypes, WireTypes, MirrorTypes
<1>12. ASSUME Resume
       PROVE  Typed'
  <2>1. <<Snapshot(access)>> \in Seq(Message)
    <3>1. access = TRUE \/ access = FALSE
      BY DEF Typed, FlagTypes
    <3>2. Snapshot(access) \in Message
      BY <3>1, Records
    <3> QED
      BY <3>2
  <2> QED
    BY <1>12, <2>1 DEF Resume, Typed, HostTypes, FlagTypes, WireTypes, MirrorTypes
<1> QED
  BY <1>3, <1>4, <1>5, <1>6, <1>7, <1>8, <1>9, <1>10, <1>11, <1>12 DEF Host

LEMMA TypesCommentator ==
    ASSUME Typed, Commentator \/ LoseLink \/ ChildExits
    PROVE  Typed'
<1> USE DEF hostVars, wireVars, mirrorVars, childVars, history
<1>1. /\ worker \in [MirrorTask -> WorkerState] /\ plan \in Plan
      /\ "events" \in MirrorTask /\ "user" \in MirrorTask
      /\ \A t \in MirrorTask : worker[t] \in WorkerState /\ worker[t].plan \in Plan
  BY DEF Typed, MirrorTypes, WorkerState, MirrorTask
<1>2. ASSUME NEW t \in MirrorTask, NEW pc \in WorkerPc
      PROVE  [worker EXCEPT ![t].pc = pc] \in [MirrorTask -> WorkerState]
  <2>1. [worker[t] EXCEPT !.pc = pc] \in WorkerState
    BY <1>1, Records
  <2> QED
    BY <1>1, <2>1
<1>3. ASSUME NEW t \in MirrorTask, NEW p \in Plan
      PROVE  [worker EXCEPT ![t] = [pc |-> "stop", plan |-> p]] \in [MirrorTask -> WorkerState]
  BY <1>1 DEF WorkerState, WorkerPc
<1>4. ASSUME NEW t \in MirrorTask
      PROVE  [worker EXCEPT ![t] = Resting] \in [MirrorTask -> WorkerState]
  BY <1>1, Records
<1>5. NoPlan \in Plan
  BY Records
<1>6. ASSUME toMirror # <<>>
      PROVE  Head(toMirror) \in Message /\ Tail(toMirror) \in Seq(Message)
  BY <1>6, Taken DEF Typed, WireTypes
<1>7. ASSUME ReceivePlan \/ ReceiveRevoked \/ ReceiveSnapshot
      PROVE  Typed'
  <2>1. Head(toMirror) \in Message /\ toMirror' \in Seq(Message)
    BY <1>6, <1>7 DEF ReceivePlan, ReceiveRevoked, ReceiveSnapshot
  <2>2. Head(toMirror).plan \in Plan /\ Head(toMirror).access \in BOOLEAN
    BY <2>1 DEF Message
  <2>3. worker' \in [MirrorTask -> WorkerState]
    <3>1. \/ worker' = worker
          \/ worker' = [worker EXCEPT !["events"].pc = "apply"]
          \/ worker' = [worker EXCEPT !["events"] = [pc |-> "stop", plan |-> NoPlan]]
      BY <1>7 DEF ReceivePlan, ReceiveRevoked, ReceiveSnapshot, StopAll, Goto
    <3>2. "apply" \in WorkerPc
      BY DEF WorkerPc
    <3> QED
      BY <1>1, <1>2, <1>3, <1>5, <3>1, <3>2
  <2>4. plan' \in Plan /\ mirror' \in BOOLEAN /\ myAccess' \in BOOLEAN
    BY <1>1, <1>7, <2>2
    DEF ReceivePlan, ReceiveRevoked, ReceiveSnapshot, Typed, FlagTypes
  <2> QED
    BY <1>7, <2>1, <2>3, <2>4
    DEF ReceivePlan, ReceiveRevoked, ReceiveSnapshot,
        Typed, HostTypes, FlagTypes, WireTypes, MirrorTypes
<1>8. ASSUME NEW enabled \in BOOLEAN, Toggle(enabled)
      PROVE  Typed'
  <2>1. worker' \in [MirrorTask -> WorkerState]
    BY <1>1, <1>2, <1>8 DEF Toggle, Goto, WorkerPc
  <2>2. /\ spent' \in [{"change", "grant", "toggle", "drop"} -> Nat]
        /\ spent'["change"] = spent["change"]
    BY <1>8 DEF Toggle, Spend, Typed, HostTypes
  <2> QED
    BY <1>8, <2>1, <2>2 DEF Toggle, Typed, HostTypes, FlagTypes, WireTypes, MirrorTypes
<1>9. ASSUME SetMirror
      PROVE  Typed'
  <2>1. worker' \in [MirrorTask -> WorkerState]
    <3>1. \/ worker' = [worker EXCEPT !["user"].pc = "apply"]
          \/ worker' = [worker EXCEPT !["user"] = [pc |-> "stop", plan |-> NoPlan]]
      BY <1>9 DEF SetMirror, StopAll, Goto
    <3>2. "apply" \in WorkerPc
      BY DEF WorkerPc
    <3> QED
      BY <1>1, <1>2, <1>3, <1>5, <3>1, <3>2
  <2>2. mirror' \in BOOLEAN
    BY <1>9 DEF SetMirror
  <2>3. toHost' \in Seq(BOOLEAN)
    <3>1. toHost' = toHost \/ toHost' = Append(toHost, mirror')
      BY <1>9 DEF SetMirror
    <3>2. toHost \in Seq(BOOLEAN)
      BY DEF Typed, WireTypes
    <3> QED
      BY <2>2, <3>1, <3>2
  <2> QED
    BY <1>9, <2>1, <2>2, <2>3 DEF SetMirror, Typed, HostTypes, FlagTypes, WireTypes, MirrorTypes
<1>10. ASSUME NEW t \in MirrorTask,
              \/ Apply(t) \/ StopChild(t) \/ ClearSlots(t) \/ ConfigureSlots(t) \/ LaunchChild(t)
       PROVE  Typed'
  <2>1. worker' \in [MirrorTask -> WorkerState]
    <3>1. \/ worker' = [worker EXCEPT ![t] = [pc |-> "stop", plan |-> plan]]
          \/ worker' = [worker EXCEPT ![t] = Resting]
          \/ \E pc \in WorkerPc : worker' = [worker EXCEPT ![t].pc = pc]
      <4>1. "clear" \in WorkerPc /\ "configure" \in WorkerPc /\ "launch" \in WorkerPc
        BY DEF WorkerPc
      <4>2. CASE Apply(t)
        BY <4>2 DEF Apply
      <4>3. CASE StopChild(t) \/ ClearSlots(t) \/ ConfigureSlots(t) \/ LaunchChild(t)
        BY <4>1, <4>3 DEF StopChild, ClearSlots, ConfigureSlots, LaunchChild, Goto
      <4> QED
        BY <1>10, <4>2, <4>3
    <3> QED
      BY <1>1, <1>2, <1>3, <1>4, <3>1
  <2>2. shown' \in Layout
    BY <1>1, <1>10, Bounds
    DEF Apply, StopChild, ClearSlots, ConfigureSlots, LaunchChild, Typed, MirrorTypes, Plan
  <2>3. live' \in Nat /\ (tracked' => live' > 0) /\ tracked' \in BOOLEAN
    <3>1. live \in Nat /\ (tracked => live > 0) /\ tracked \in BOOLEAN
      BY DEF Typed, MirrorTypes, FlagTypes
    <3>2. CASE StopChild(t) \/ ConfigureSlots(t)
      <4>1. tracked' = FALSE /\ live' = IF tracked THEN live - 1 ELSE live
        BY <3>2 DEF StopChild, ConfigureSlots, KillProcess
      <4>2. live' = live \/ (live > 0 /\ live' = live - 1)
        BY <3>1, <4>1
      <4>3. live' \in Nat
        BY <3>1, <4>2
      <4> QED
        BY <4>1, <4>3
    <3>3. CASE LaunchChild(t)
      <4>1. live' = live + 1 /\ tracked' = TRUE
        BY <3>3 DEF LaunchChild
      <4> QED
        BY <3>1, <4>1
    <3>4. CASE Apply(t) \/ ClearSlots(t)
      <4>1. live' = live /\ tracked' = tracked
        BY <3>4 DEF Apply, ClearSlots
      <4> QED
        BY <3>1, <4>1
    <3> QED
      BY <1>10, <3>2, <3>3, <3>4
  <2>4. crossed' \in BOOLEAN /\ outrun' \in BOOLEAN
    BY <1>10
    DEF Apply, StopChild, ClearSlots, ConfigureSlots, LaunchChild, NoteStop, Launching, Applying,
        Typed, FlagTypes
  <2> QED
    BY <1>1, <1>10, <2>1, <2>2, <2>3, <2>4
    DEF Apply, StopChild, ClearSlots, ConfigureSlots, LaunchChild,
        Typed, HostTypes, FlagTypes, WireTypes, MirrorTypes
<1>11. ASSUME LoseLink
       PROVE  Typed'
  <2>1. /\ spent' \in [{"change", "grant", "toggle", "drop"} -> Nat]
        /\ spent'["change"] = spent["change"]
    BY <1>11 DEF LoseLink, Spend, Typed, HostTypes
  <2>2. <<>> \in Seq(Message) /\ <<>> \in Seq(BOOLEAN)
    OBVIOUS
  <2> QED
    BY <1>11, <2>1, <2>2 DEF LoseLink, Typed, HostTypes, FlagTypes, WireTypes, MirrorTypes
<1>12. ASSUME ChildExits
       PROVE  Typed'
  <2>1. live \in Nat /\ live > 0 /\ live' = live - 1 /\ tracked' = FALSE
    BY <1>12 DEF ChildExits, Typed, MirrorTypes
  <2>3. live' \in Nat
    BY <2>1
  <2>2. live' \in Nat /\ (tracked' => live' > 0) /\ tracked' \in BOOLEAN
    BY <2>1, <2>3
  <2> QED
    BY <1>12, <2>2 DEF ChildExits, Typed, HostTypes, FlagTypes, WireTypes, MirrorTypes
<1> QED
  BY <1>7, <1>8, <1>9, <1>10, <1>11, <1>12 DEF Commentator

LEMMA TypesNext == Typed /\ [Next]_vars => Typed'
<1> SUFFICES ASSUME Typed, [Next]_vars
             PROVE  Typed'
  OBVIOUS
<1>1. CASE Next
  BY <1>1, TypesHost, TypesCommentator DEF Next
<1>2. CASE UNCHANGED vars
  BY <1>2 DEF vars, hostVars, wireVars, mirrorVars, childVars, history,
              Typed, HostTypes, FlagTypes, WireTypes, MirrorTypes
<1> QED
  BY <1>1, <1>2

LEMMA TypesInvariant == Spec => []Typed
  BY TypesInit, TypesNext, PTL DEF Spec

\* Every queue, plan and task stays of its kind, no revision is ahead of the
\* host's counter, and no child is counted that does not run.
THEOREM BroadcastTypeCorrect == Spec => []TypeOK
<1>1. Typed => TypeOK
  BY DEF Typed, HostTypes, FlagTypes, WireTypes, MirrorTypes, TypeOK, TaskState, WorkerState
<1> QED
  BY <1>1, TypesInvariant, PTL

-----------------------------------------------------------------------------
(***************************************************************************)
(* Subscriptions                                                           *)
(***************************************************************************)

\* A subscription is authorized before it is stored: what the network task
\* found still holds when it stores it, or a revocation is under way that
\* ends it, or one returned in between.
RelayOK ==
    (subscribed \/ task["network"].pc = "subscribe")
        => access \/ late \/ task["control"].pc = "revoke"

LEMMA RelayNext == Typed /\ RelayOK /\ [Next]_vars => RelayOK'
<1> SUFFICES ASSUME Typed, RelayOK, [Next]_vars
             PROVE  RelayOK'
  OBVIOUS
<1> USE DEF hostVars, wireVars, mirrorVars, childVars, history
<1>1. task \in [HostTask -> TaskState] /\ HostTask = {"control", "network"}
  BY DEF Typed, HostTypes, HostTask
<1>2. ASSUME NEW t \in HostTask,
             ChangeSlots(t) \/ FetchRevision(t) \/ ReadSlots(t) \/ StorePlan(t) \/ SendPlan(t)
      PROVE  RelayOK'
  <2>1. /\ subscribed' = subscribed /\ access' = access /\ late' = late
        /\ task[t].pc # "revoke" /\ task[t].pc # "subscribe"
    BY <1>2 DEF ChangeSlots, FetchRevision, ReadSlots, StorePlan, SendPlan
  <2>2. /\ \A u \in HostTask \ {t} : task'[u] = task[u]
        /\ task'[t].pc # "revoke" /\ task'[t].pc # "subscribe"
    BY <1>1, <1>2
    DEF ChangeSlots, FetchRevision, ReadSlots, StorePlan, SendPlan, TaskState, Resting
  <2> QED
    BY <1>1, <2>1, <2>2 DEF RelayOK
<1>3. ASSUME NEW enabled \in BOOLEAN, SetAccess(enabled)
      PROVE  RelayOK'
  <2>1. /\ task'["control"].pc = IF enabled THEN "grant" ELSE "revoke"
        /\ access' = enabled /\ subscribed' = subscribed
        /\ task'["network"] = task["network"] /\ late' = (late /\ ~enabled)
    BY <1>1, <1>3 DEF SetAccess, TaskState
  <2> QED
    BY <2>1 DEF RelayOK
<1>4. CASE Grant
  <2>1. /\ task["control"].pc = "grant" /\ task'["network"] = task["network"]
        /\ subscribed' = subscribed /\ access' = access /\ late' = late
    BY <1>1, <1>4 DEF Grant
  <2> QED
    BY <2>1 DEF RelayOK
<1>5. CASE Revoke
  <2>1. /\ task'["network"] = task["network"] /\ subscribed' = FALSE
        /\ late' = (task["network"].pc = "subscribe")
    BY <1>1, <1>5 DEF Revoke
  <2> QED
    BY <2>1 DEF RelayOK
<1>6. CASE HearSubscribe
  <2>1. /\ access' = access /\ task'["control"] = task["control"]
        /\ task["network"].pc # "subscribe"
    BY <1>1, <1>6 DEF HearSubscribe
  <2>2. /\ subscribed' => subscribed /\ late' = late
        /\ task'["network"].pc = "subscribe" => access
    BY <1>1, <1>6, <2>1 DEF HearSubscribe, TaskState
  <2> QED
    BY <2>1, <2>2 DEF RelayOK
<1>7. CASE Subscribe
  <2>1. /\ task["network"].pc = "subscribe" /\ task'["control"] = task["control"]
        /\ access' = access /\ late' = late
    BY <1>1, <1>7 DEF Subscribe
  <2> QED
    BY <2>1 DEF RelayOK
<1>8. CASE NoticeLoss
  <2>1. task'["network"].pc = "fetch" /\ subscribed' = FALSE
    BY <1>1, <1>8 DEF NoticeLoss, TaskState
  <2> QED
    BY <2>1 DEF RelayOK
<1>9. CASE Resume \/ Commentator \/ LoseLink \/ ChildExits \/ UNCHANGED vars
  <2>1. /\ task' = task /\ subscribed' = subscribed /\ access' = access
        /\ late' = late
    BY <1>9 DEF Resume, Commentator, LoseLink, ChildExits, vars, ReceivePlan, ReceiveRevoked,
                ReceiveSnapshot, Toggle, SetMirror, Apply, StopChild, ClearSlots,
                ConfigureSlots, LaunchChild
  <2> QED
    BY <2>1 DEF RelayOK
<1> QED
  BY <1>2, <1>3, <1>4, <1>5, <1>6, <1>7, <1>8, <1>9 DEF Next, Host

\* commentator_subscribers holds only sessions with Commentator access,
\* however grants, revocations and subscriptions interleave.
THEOREM TelemetryStaysAuthorized == Spec => []RelayIsAuthorized
<1>1. Init => RelayOK
  BY DEF Init, RelayOK, Resting, HostTask
<1>2. RelayOK => RelayIsAuthorized
  BY DEF RelayOK, RelayIsAuthorized
<1> QED
  BY <1>1, <1>2, TypesInvariant, RelayNext, PTL DEF Spec

-----------------------------------------------------------------------------
(***************************************************************************)
(* Plans                                                                   *)
(***************************************************************************)

\* A plan that carries the last revision carries the slots as they are,
\* unless a task that changed them has yet to take a revision.
Pending == \E t \in HostTask : task[t].pc = "fetch"
Known(p) == p.revision <= revision /\ (p.revision = revision => p.layout = layout \/ Pending)

PlansKnown ==
    /\ Known(hostPlan) /\ Known(plan)
    /\ \A t \in HostTask : task[t].pc \in {"store", "send"} => Known(task[t].plan)
    /\ \A e \in Message : In(toMirror, e) /\ e.kind = "plan" => Known(e.plan)

\* The last plan is on its way to the Commentator, unless it was missed.
LastPlanOnItsWay ==
    /\ ~link => missed
    /\ \/ missed \/ plan.revision = revision
       \/ \E t \in HostTask : InProgress(t) /\ task[t].plan.revision = revision
       \/ \E e \in Message : In(toMirror, e) /\ e.kind = "plan" /\ e.plan.revision = revision

LEMMA KnownKept ==
    ASSUME Typed,
           \/ revision' = revision + 1
           \/ revision' = revision /\ Pending'
           \/ revision' = revision /\ layout' = layout /\ (Pending => Pending')
    PROVE  \A p \in Plan : Known(p) => Known(p)'
<1> SUFFICES ASSUME NEW p \in Plan, Known(p)
             PROVE  Known(p)'
  OBVIOUS
<1>1. p.revision \in Nat /\ revision \in Nat
  BY DEF Typed, HostTypes, Plan
<1>2. CASE revision' = revision + 1
  BY <1>1, <1>2 DEF Known
<1>3. CASE revision' = revision /\ Pending'
  BY <1>3 DEF Known
<1>4. CASE revision' = revision /\ layout' = layout /\ (Pending => Pending')
  BY <1>4 DEF Known
<1> QED
  BY <1>2, <1>3, <1>4

\* What a message sent to the Commentator adds to its queue.
LEMMA SentHolds ==
    ASSUME WireTypes, NEW m \in Seq(Message)
    PROVE  /\ \A e : In(toMirror, e) => In(Sent(m), e)
           /\ \A e : In(Sent(m), e) => In(toMirror, e) \/ In(m, e)
           /\ link /\ connected => \A e : In(m, e) => In(Sent(m), e)
  BY Added DEF Sent, WireTypes

\* A step keeps the plans known when each plan it leaves is one it found, and
\* the known ones stay known.
LEMMA PlansKept ==
    ASSUME Typed, PlansKnown, \A p \in Plan : Known(p) => Known(p)',
           hostPlan' = hostPlan \/ Known(hostPlan)',
           plan' = plan \/ Known(plan)',
           \A t \in HostTask : task'[t].pc \in {"store", "send"} =>
              \/ task[t].pc \in {"store", "send"} /\ task'[t].plan = task[t].plan
              \/ Known(task[t].plan)',
           \A e \in Message : In(toMirror, e)' /\ e.kind = "plan" =>
              \/ In(toMirror, e)
              \/ e.plan = hostPlan
              \/ \E t \in HostTask : task[t].pc = "send" /\ e.plan = task[t].plan
    PROVE  PlansKnown'
<1>1. /\ hostPlan \in Plan /\ plan \in Plan /\ \A t \in HostTask : task[t].plan \in Plan
      /\ \A e \in Message : e.plan \in Plan
  BY DEF Typed, HostTypes, MirrorTypes, TaskState, Message
<1>2. Known(hostPlan)' /\ Known(plan)'
  BY <1>1 DEF PlansKnown, Known
<1>3. ASSUME NEW t \in HostTask, task'[t].pc \in {"store", "send"}
      PROVE  Known(task[t].plan)'
  BY <1>1, <1>3 DEF PlansKnown, Known
<1>4. ASSUME NEW e \in Message, In(toMirror, e)', e.kind = "plan"
      PROVE  Known(e.plan)'
  <2>1. Known(e.plan)
    BY <1>4 DEF PlansKnown
  <2> QED
    BY <1>1, <2>1 DEF Known
<1> QED
  BY <1>2, <1>3, <1>4 DEF PlansKnown

LEMMA PlansHost ==
    ASSUME Typed, PlansKnown, Host
    PROVE  PlansKnown'
<1> USE DEF hostVars, wireVars, mirrorVars, childVars, history
<1>1. /\ task \in [HostTask -> TaskState] /\ HostTask = {"control", "network"}
      /\ \A t \in HostTask : task[t].plan \in Plan /\ task[t].plan.revision <= revision
  BY DEF Typed, HostTypes, HostTask, TaskState
<1>2. plan' = plan
  BY DEF Host, ChangeSlots, FetchRevision, ReadSlots, StorePlan, SendPlan, SetAccess, Grant,
         Revoke, HearSubscribe, Subscribe, NoticeLoss, Resume
<1>3. ASSUME NEW t \in HostTask,
             ChangeSlots(t) \/ FetchRevision(t) \/ ReadSlots(t) \/ StorePlan(t)
      PROVE  PlansKnown'
  <2>1. /\ toMirror' = toMirror
        /\ \A u \in HostTask \ {t} : task'[u] = task[u]
    BY <1>1, <1>3 DEF ChangeSlots, FetchRevision, ReadSlots, StorePlan, In
  <2>2. \A e \in Message : In(toMirror, e)' => In(toMirror, e)
    BY <2>1 DEF In
  <2>3. CASE ChangeSlots(t)
    <3>1. Pending' /\ revision' = revision /\ hostPlan' = hostPlan /\ task'[t].pc = "fetch"
      BY <1>1, <2>3 DEF ChangeSlots, Pending, TaskState
    <3>2. \A p \in Plan : Known(p) => Known(p)'
      BY <3>1, KnownKept
    <3> QED
      BY <1>2, <2>1, <2>2, <3>1, <3>2, PlansKept
  <2>4. CASE FetchRevision(t)
    <3>1. revision' = revision + 1 /\ hostPlan' = hostPlan /\ task'[t].pc = "read"
      BY <1>1, <2>4 DEF FetchRevision
    <3>2. \A p \in Plan : Known(p) => Known(p)'
      BY <3>1, KnownKept
    <3> QED
      BY <1>2, <2>1, <2>2, <3>1, <3>2, PlansKept
  <2>5. CASE ReadSlots(t)
    <3>1. /\ revision' = revision /\ layout' = layout /\ hostPlan' = hostPlan
          /\ task[t].pc = "read" /\ task'[t].plan.layout = layout
          /\ task'[t].plan.revision = task[t].plan.revision
      BY <1>1, <2>5 DEF ReadSlots, TaskState, Plan
    <3>2. Pending => Pending'
      BY <2>1, <3>1 DEF Pending
    <3>3. \A p \in Plan : Known(p) => Known(p)'
      BY <3>1, <3>2, KnownKept
    <3>4. Known(task[t].plan)'
      BY <1>1, <3>1 DEF Known
    <3> QED
      BY <1>2, <2>1, <2>2, <3>1, <3>3, <3>4, PlansKept
  <2>6. CASE StorePlan(t)
    <3>1. /\ revision' = revision /\ layout' = layout /\ hostPlan' = task[t].plan
          /\ task[t].pc = "store" /\ task'[t].plan = task[t].plan
      BY <1>1, <2>6 DEF StorePlan, TaskState
    <3>2. Pending => Pending'
      BY <2>1, <3>1 DEF Pending
    <3>3. \A p \in Plan : Known(p) => Known(p)'
      BY <3>1, <3>2, KnownKept
    <3>4. Known(hostPlan)'
      BY <1>1, <3>1, <3>3 DEF PlansKnown, Known
    <3> QED
      BY <1>2, <2>1, <2>2, <3>1, <3>3, <3>4, PlansKept
  <2> QED
    BY <1>3, <2>3, <2>4, <2>5, <2>6
<1>4. ASSUME NEW t \in HostTask, SendPlan(t) \/ (t = "control" /\ (Grant \/ Revoke))
                                 \/ (t = "network" /\ Subscribe)
      PROVE  PlansKnown'
  <2>1. /\ revision' = revision /\ layout' = layout /\ hostPlan' = hostPlan
        /\ task' = [task EXCEPT ![t] = Resting] /\ task[t].pc # "fetch"
    BY <1>4 DEF SendPlan, Grant, Revoke, Subscribe
  <2>2. task'[t].pc = "idle" /\ \A u \in HostTask \ {t} : task'[u] = task[u]
    BY <1>1, <2>1 DEF Resting
  <2>3. Pending => Pending'
    BY <2>1, <2>2 DEF Pending
  <2>4. \A p \in Plan : Known(p) => Known(p)'
    BY <2>1, <2>3, KnownKept
  <2>5. ASSUME NEW e \in Message, In(toMirror, e)', e.kind = "plan"
        PROVE  In(toMirror, e) \/ e.plan = hostPlan \/ (task[t].pc = "send" /\ e.plan = task[t].plan)
    <3>1. access = TRUE \/ access = FALSE
      BY DEF Typed, FlagTypes
    <3>2. /\ PlanMessage(task[t].plan) \in Message /\ PlanMessage(hostPlan) \in Message
          /\ Snapshot(access) \in Message /\ Revoked \in Message
      BY <1>1, <3>1, Records DEF Typed, HostTypes
    <3>3. /\ PlanMessage(task[t].plan).plan = task[t].plan
          /\ PlanMessage(hostPlan).plan = hostPlan
          /\ Snapshot(access).kind # "plan" /\ Revoked.kind # "plan"
      BY DEF PlanMessage, Snapshot, Revoked
    <3>9. /\ <<PlanMessage(task[t].plan)>> \in Seq(Message)
          /\ <<PlanMessage(hostPlan)>> \in Seq(Message)
          /\ <<Snapshot(access), PlanMessage(hostPlan)>> \in Seq(Message)
          /\ <<Revoked, Snapshot(access)>> \in Seq(Message)
      BY <3>2
    <3>4. In(toMirror', e)
      BY <2>5 DEF In
    <3>5. CASE SendPlan(t)
      <4>1. /\ task[t].pc = "send"
            /\ toMirror' = toMirror \/ toMirror' = Sent(<<PlanMessage(task[t].plan)>>)
        BY <3>5 DEF SendPlan
      <4>2. In(toMirror, e) \/ In(<<PlanMessage(task[t].plan)>>, e)
        BY <3>4, <3>9, <4>1, SentHolds DEF Typed
      <4> QED
        BY <3>3, <4>1, <4>2, Single
    <3>6. CASE Grant
      <4>1. toMirror' = Sent(<<Snapshot(access), PlanMessage(hostPlan)>>)
        BY <3>6 DEF Grant
      <4>2. In(toMirror, e) \/ In(<<Snapshot(access), PlanMessage(hostPlan)>>, e)
        BY <3>4, <3>9, <4>1, SentHolds DEF Typed
      <4> QED
        BY <2>5, <3>3, <4>2, Double
    <3>7. CASE Revoke
      <4>1. toMirror' = Sent(<<Revoked, Snapshot(access)>>)
        BY <3>7 DEF Revoke
      <4>2. In(toMirror, e) \/ In(<<Revoked, Snapshot(access)>>, e)
        BY <3>4, <3>9, <4>1, SentHolds DEF Typed
      <4> QED
        BY <2>5, <3>3, <4>2, Double
    <3>8. CASE Subscribe
      <4>1. toMirror' = Sent(<<PlanMessage(hostPlan)>>)
        BY <3>8 DEF Subscribe
      <4>2. In(toMirror, e) \/ In(<<PlanMessage(hostPlan)>>, e)
        BY <3>4, <3>9, <4>1, SentHolds DEF Typed
      <4> QED
        BY <3>3, <4>2, Single
    <3> QED
      BY <1>4, <3>5, <3>6, <3>7, <3>8
  <2> QED
    BY <1>2, <2>1, <2>2, <2>4, <2>5, PlansKept
<1>5. ASSUME (\E enabled \in BOOLEAN : SetAccess(enabled)) \/ HearSubscribe \/ NoticeLoss
      PROVE  PlansKnown'
  <2>1. /\ revision' = revision /\ layout' = layout /\ hostPlan' = hostPlan /\ toMirror' = toMirror
    BY <1>5 DEF SetAccess, HearSubscribe, NoticeLoss
  <2>2. \A t \in HostTask : \/ task'[t] = task[t]
                            \/ task[t].pc = "idle" /\ task'[t].pc \notin {"store", "send"}
    BY ZenonT(60), <1>1, <1>5 DEF SetAccess, HearSubscribe, NoticeLoss, TaskState
  <2>3. Pending => Pending'
    BY <2>2 DEF Pending
  <2>4. \A p \in Plan : Known(p) => Known(p)'
    BY <2>1, <2>3, KnownKept
  <2>5. \A e \in Message : In(toMirror, e)' => In(toMirror, e)
    BY <2>1 DEF In
  <2> QED
    BY <1>2, <2>1, <2>2, <2>4, <2>5, PlansKept
<1>6. ASSUME Resume
      PROVE  PlansKnown'
  <2>1. /\ revision' = revision /\ layout' = layout /\ hostPlan' = hostPlan /\ task' = task
        /\ toMirror' = <<Snapshot(access)>>
    BY <1>6 DEF Resume
  <2>2. Pending => Pending'
    BY <2>1 DEF Pending
  <2>3. \A p \in Plan : Known(p) => Known(p)'
    BY <2>1, <2>2, KnownKept
  <2>4. \A e \in Message : ~(In(toMirror, e)' /\ e.kind = "plan")
    BY <2>1, Single DEF In, Snapshot
  <2> QED
    BY <1>2, <2>1, <2>3, <2>4, PlansKept
<1> QED
  BY <1>1, <1>3, <1>4, <1>5, <1>6 DEF Host

LEMMA PlansElsewhere ==
    ASSUME Typed, PlansKnown, Commentator \/ LoseLink \/ ChildExits \/ UNCHANGED vars
    PROVE  PlansKnown'
<1> USE DEF hostVars, wireVars, mirrorVars, childVars, history
<1>1. revision' = revision /\ layout' = layout /\ hostPlan' = hostPlan /\ task' = task
  BY DEF Commentator, LoseLink, ChildExits, vars, ReceivePlan, ReceiveRevoked, ReceiveSnapshot,
         Toggle, SetMirror, Apply, StopChild, ClearSlots, ConfigureSlots, LaunchChild
<1>2. \A p \in Plan : Known(p) => Known(p)'
  <2>1. Pending => Pending'
    BY <1>1 DEF Pending
  <2> QED
    BY <1>1, <2>1, KnownKept
<1>3. CASE ReceivePlan \/ ReceiveRevoked \/ ReceiveSnapshot
  <2>1. toMirror # <<>> /\ toMirror' = Tail(toMirror) /\ toMirror \in Seq(Message)
    BY <1>3 DEF ReceivePlan, ReceiveRevoked, ReceiveSnapshot, Typed, WireTypes
  <2>2. /\ Head(toMirror) \in Message /\ In(toMirror, Head(toMirror))
        /\ \A e : In(Tail(toMirror), e) => In(toMirror, e)
    BY <2>1, Taken
  <2>3. \A e \in Message : In(toMirror, e)' => In(toMirror, e)
    BY <2>1, <2>2 DEF In
  <2>4. plan' = plan \/ Known(plan)'
    <3>1. CASE plan' = plan
      BY <3>1
    <3>2. CASE plan' # plan
      <4>1. Head(toMirror).kind = "plan" /\ plan' = Head(toMirror).plan
        BY <1>3, <3>2 DEF ReceivePlan, ReceiveRevoked, ReceiveSnapshot
      <4>2. Known(Head(toMirror).plan) /\ Head(toMirror).plan \in Plan
        BY <2>2, <4>1 DEF PlansKnown, Message
      <4> QED
        BY <1>2, <4>1, <4>2 DEF Known
    <3> QED
      BY <3>1, <3>2
  <2> QED
    BY <1>1, <1>2, <2>3, <2>4, PlansKept
<1>4. CASE LoseLink
  <2>1. toMirror' = <<>> /\ plan' = plan
    BY <1>4 DEF LoseLink
  <2>2. \A e \in Message : ~In(toMirror, e)'
    BY <2>1 DEF In
  <2> QED
    BY <1>1, <1>2, <2>1, <2>2, PlansKept
<1>5. ASSUME toMirror' = toMirror, plan' = plan
      PROVE  PlansKnown'
  <2>1. \A e \in Message : In(toMirror, e)' => In(toMirror, e)
    BY <1>5 DEF In
  <2> QED
    BY <1>1, <1>2, <1>5, <2>1, PlansKept
<1>6. CASE (\E enabled \in BOOLEAN : Toggle(enabled)) \/ SetMirror \/ ChildExits \/ UNCHANGED vars
  BY <1>5, <1>6 DEF Toggle, SetMirror, ChildExits, vars
<1>7. ASSUME NEW t \in MirrorTask,
             Apply(t) \/ StopChild(t) \/ ClearSlots(t) \/ ConfigureSlots(t) \/ LaunchChild(t)
      PROVE  PlansKnown'
  BY <1>5, <1>7 DEF Apply, StopChild, ClearSlots, ConfigureSlots, LaunchChild
<1> QED
  BY <1>3, <1>4, <1>6, <1>7 DEF Commentator

\* A step keeps the last plan on its way when it takes no revision and no
\* message, and ends no task that has a plan in hand.
LEMMA LastPlanKept ==
    ASSUME Typed, LastPlanOnItsWay, ~link' => missed', missed' \/ ~missed,
           revision' = revision, plan' = plan,
           \A e \in Message : In(toMirror, e) => In(toMirror, e)',
           \A t \in HostTask : InProgress(t) => \/ InProgress(t)' /\ task'[t].plan.revision = task[t].plan.revision
                                                \/ missed' \/ task[t].plan.revision # revision
    PROVE  LastPlanOnItsWay'
<1>1. CASE missed'
  BY <1>1 DEF LastPlanOnItsWay
<1>2. CASE ~missed' /\ plan.revision = revision
  BY <1>2 DEF LastPlanOnItsWay
<1>3. ASSUME ~missed', NEW t \in HostTask, InProgress(t), task[t].plan.revision = revision
      PROVE  LastPlanOnItsWay'
  BY <1>3 DEF LastPlanOnItsWay
<1>4. ASSUME ~missed', NEW e \in Message, In(toMirror, e), e.kind = "plan", e.plan.revision = revision
      PROVE  LastPlanOnItsWay'
  BY <1>4 DEF LastPlanOnItsWay
<1> QED
  BY <1>1, <1>2, <1>3, <1>4 DEF LastPlanOnItsWay

LEMMA LastPlanHost ==
    ASSUME Typed, LastPlanOnItsWay, Host
    PROVE  LastPlanOnItsWay'
<1> USE DEF hostVars, wireVars, mirrorVars, childVars, history
<1>1. /\ task \in [HostTask -> TaskState] /\ HostTask = {"control", "network"}
      /\ \A t \in HostTask : task[t].plan \in Plan
      /\ hostPlan \in Plan /\ (~link => missed) /\ plan' = plan
  BY DEF Typed, HostTypes, HostTask, TaskState, LastPlanOnItsWay, Host, ChangeSlots,
         FetchRevision, ReadSlots, StorePlan, SendPlan, SetAccess, Grant, Revoke,
         HearSubscribe, Subscribe, NoticeLoss, Resume
<1>2. ASSUME NEW p \in Plan, p.revision = revision, revision' = revision, link, connected,
             link' = link, toMirror' = Sent(<<PlanMessage(p)>>)
      PROVE  LastPlanOnItsWay'
  <2>1. PlanMessage(p) \in Message /\ <<PlanMessage(p)>> \in Seq(Message)
    BY Records
  <2>2. In(toMirror, PlanMessage(p))'
    <3>1. In(Sent(<<PlanMessage(p)>>), PlanMessage(p))
      BY <1>2, <2>1, Single, SentHolds DEF Typed
    <3> QED
      BY <1>2, <3>1 DEF In
  <2>3. PlanMessage(p).kind = "plan" /\ PlanMessage(p).plan.revision = revision'
    BY <1>2 DEF PlanMessage
  <2> QED
    BY <1>2, <2>1, <2>2, <2>3 DEF LastPlanOnItsWay
<1>3. ASSUME toMirror' = toMirror
      PROVE  \A e \in Message : In(toMirror, e) => In(toMirror, e)'
  BY <1>3 DEF In
<1>4. ASSUME NEW t \in HostTask, ChangeSlots(t) \/ ReadSlots(t) \/ StorePlan(t)
      PROVE  LastPlanOnItsWay'
  <2>1. /\ toMirror' = toMirror /\ link' = link /\ missed' = missed /\ revision' = revision
        /\ \A u \in HostTask \ {t} : task'[u] = task[u]
    BY <1>1, <1>4 DEF ChangeSlots, ReadSlots, StorePlan
  <2>2. \/ task[t].pc = "idle"
        \/ task'[t].pc \in {"store", "send"} /\ task'[t].plan.revision = task[t].plan.revision
    BY <1>1, <1>4 DEF ChangeSlots, ReadSlots, StorePlan, TaskState, Plan
  <2>3. \A u \in HostTask : InProgress(u) =>
           InProgress(u)' /\ task'[u].plan.revision = task[u].plan.revision
    BY <2>1, <2>2 DEF InProgress
  <2> QED
    BY <1>1, <1>3, <2>1, <2>3, LastPlanKept
<1>5. ASSUME NEW t \in HostTask, FetchRevision(t)
      PROVE  LastPlanOnItsWay'
  <2>1. /\ link' = link /\ missed' = missed /\ revision' = revision + 1
        /\ task'[t].pc = "read" /\ task'[t].plan.revision = revision + 1
    BY <1>1, <1>5 DEF FetchRevision
  <2> QED
    BY <1>1, <2>1 DEF LastPlanOnItsWay, InProgress
<1>6. ASSUME NEW t \in HostTask, SendPlan(t)
      PROVE  LastPlanOnItsWay'
  <2>1. /\ revision' = revision /\ link' = link
        /\ task' = [task EXCEPT ![t] = Resting]
        /\ toMirror' = IF access THEN Sent(<<PlanMessage(task[t].plan)>>) ELSE toMirror
        /\ missed' = IF task[t].plan.revision = revision THEN ~(access /\ connected /\ link) ELSE missed
    BY <1>6 DEF SendPlan
  <2>2. CASE task[t].plan.revision = revision /\ access /\ connected /\ link
    BY <1>1, <1>2, <2>1, <2>2
  <2>3. CASE task[t].plan.revision = revision /\ ~(access /\ connected /\ link)
    BY <2>1, <2>3 DEF LastPlanOnItsWay
  <2>4. CASE task[t].plan.revision # revision
    <3>1. \A e \in Message : In(toMirror, e) => In(toMirror, e)'
      <4>1. <<PlanMessage(task[t].plan)>> \in Seq(Message)
        BY <1>1, Records
      <4>2. toMirror' = toMirror \/ toMirror' = Sent(<<PlanMessage(task[t].plan)>>)
        BY <2>1
      <4> QED
        <5>1. CASE toMirror' = Sent(<<PlanMessage(task[t].plan)>>)
          BY <4>1, <5>1, SentHolds DEF Typed, In
        <5> QED
          BY <1>3, <4>2, <5>1
    <3>2. \A u \in HostTask \ {t} : task'[u] = task[u]
      BY <1>1, <2>1
    <3>3. missed' = missed
      BY <2>1, <2>4
    <3> QED
      BY <1>1, <2>1, <2>4, <3>1, <3>2, <3>3, LastPlanKept DEF InProgress
  <2> QED
    BY <2>2, <2>3, <2>4
<1>7. ASSUME Grant
      PROVE  LastPlanOnItsWay'
  <2>1. /\ revision' = revision /\ link' = link
        /\ toMirror' = Sent(<<Snapshot(access), PlanMessage(hostPlan)>>)
        /\ missed' = ~(link /\ connected /\ hostPlan.revision = revision)
    BY <1>7 DEF Grant
  <2>2. CASE link /\ connected /\ hostPlan.revision = revision
    <3>1. access = TRUE \/ access = FALSE
      BY DEF Typed, FlagTypes
    <3>2. Snapshot(access) \in Message /\ PlanMessage(hostPlan) \in Message
      BY <1>1, <3>1, Records
    <3>3. <<Snapshot(access), PlanMessage(hostPlan)>> \in Seq(Message)
      BY <3>2
    <3>4. In(Sent(<<Snapshot(access), PlanMessage(hostPlan)>>), PlanMessage(hostPlan))
      BY <2>2, <3>3, Double, SentHolds DEF Typed
    <3>5. In(toMirror, PlanMessage(hostPlan))'
      <4>1. In(toMirror', PlanMessage(hostPlan))
        BY <2>1, <3>4
      <4>2. hostPlan' = hostPlan
        BY <1>7 DEF Grant
      <4> QED
        BY <4>1, <4>2 DEF In, PlanMessage
    <3>6. /\ PlanMessage(hostPlan)'.kind = "plan"
          /\ PlanMessage(hostPlan)'.plan.revision = revision'
          /\ PlanMessage(hostPlan)' \in Message
      <4>1. hostPlan' = hostPlan
        BY <1>7 DEF Grant
      <4> QED
        BY <2>1, <2>2, <3>2, <4>1 DEF PlanMessage
    <3> QED
      BY <2>1, <2>2, <3>5, <3>6 DEF LastPlanOnItsWay
  <2>3. CASE ~(link /\ connected /\ hostPlan.revision = revision)
    BY <2>1, <2>3 DEF LastPlanOnItsWay
  <2> QED
    BY <2>2, <2>3
<1>8. ASSUME Subscribe
      PROVE  LastPlanOnItsWay'
  <2>1. /\ revision' = revision /\ link' = link
        /\ toMirror' = Sent(<<PlanMessage(hostPlan)>>)
        /\ missed' = (missed /\ ~(link /\ connected /\ hostPlan.revision = revision))
        /\ task["network"].pc = "subscribe" /\ task'["control"] = task["control"]
    BY <1>1, <1>8 DEF Subscribe
  <2>2. CASE link /\ connected /\ hostPlan.revision = revision
    BY <1>1, <1>2, <2>1, <2>2
  <2>3. CASE ~(link /\ connected /\ hostPlan.revision = revision)
    <3>1. \A e \in Message : In(toMirror, e) => In(toMirror, e)'
      <4>1. <<PlanMessage(hostPlan)>> \in Seq(Message)
        BY <1>1, Records
      <4> QED
        BY <2>1, <4>1, SentHolds DEF Typed, In
    <3>2. \A t \in HostTask : InProgress(t) => task'[t] = task[t]
      BY <1>1, <2>1 DEF InProgress
    <3>3. missed' \/ ~missed
      BY <2>1, <2>3
    <3>4. ~link' => missed'
      BY <1>1, <2>1, <2>3
    <3> QED
      BY <1>1, <2>1, <3>1, <3>2, <3>3, <3>4, LastPlanKept DEF InProgress
  <2> QED
    BY <2>2, <2>3
<1>9. ASSUME (\E enabled \in BOOLEAN : SetAccess(enabled)) \/ Revoke \/ HearSubscribe \/ NoticeLoss
      PROVE  LastPlanOnItsWay'
  <2>1. revision' = revision /\ link' = link /\ missed' = missed
    BY <1>9 DEF SetAccess, Revoke, HearSubscribe, NoticeLoss
  <2>2. \A t \in HostTask : InProgress(t) => task'[t] = task[t]
    BY <1>1, <1>9 DEF SetAccess, Revoke, HearSubscribe, NoticeLoss, InProgress
  <2>3. \A e \in Message : In(toMirror, e) => In(toMirror, e)'
    <3>1. access = TRUE \/ access = FALSE
      BY DEF Typed, FlagTypes
    <3>2. Snapshot(access) \in Message /\ Revoked \in Message
      BY <3>1, Records
    <3>3. <<Revoked, Snapshot(access)>> \in Seq(Message)
      BY <3>2
    <3>4. toMirror' = toMirror \/ toMirror' = Sent(<<Revoked, Snapshot(access)>>)
      BY <1>9 DEF SetAccess, Revoke, HearSubscribe, NoticeLoss
    <3> QED
      <4>1. CASE toMirror' = Sent(<<Revoked, Snapshot(access)>>)
        BY <3>3, <4>1, SentHolds DEF Typed, In
      <4> QED
        BY <1>3, <3>4, <4>1
  <2> QED
    BY <1>1, <2>1, <2>2, <2>3, LastPlanKept DEF InProgress
<1>10. ASSUME Resume
       PROVE  LastPlanOnItsWay'
  <2>1. ~link /\ missed' = missed
    BY <1>10 DEF Resume
  <2> QED
    BY <1>1, <2>1 DEF LastPlanOnItsWay
<1> QED
  BY <1>4, <1>5, <1>6, <1>7, <1>8, <1>9, <1>10 DEF Host

LEMMA LastPlanElsewhere ==
    ASSUME Typed, PlansKnown, LastPlanOnItsWay,
           Commentator \/ LoseLink \/ ChildExits \/ UNCHANGED vars
    PROVE  LastPlanOnItsWay'
<1> USE DEF hostVars, wireVars, mirrorVars, childVars, history
<1>1. revision' = revision /\ task' = task /\ (~link => missed)
  BY DEF Commentator, LoseLink, ChildExits, vars, ReceivePlan, ReceiveRevoked, ReceiveSnapshot,
         Toggle, SetMirror, Apply, StopChild, ClearSlots, ConfigureSlots, LaunchChild,
         LastPlanOnItsWay
<1>2. CASE ReceivePlan \/ ReceiveRevoked \/ ReceiveSnapshot
  <2>1. /\ link' = link /\ missed' = missed
        /\ toMirror # <<>> /\ toMirror' = Tail(toMirror) /\ toMirror \in Seq(Message)
    BY <1>2 DEF ReceivePlan, ReceiveRevoked, ReceiveSnapshot, Typed, WireTypes
  <2>2. /\ Head(toMirror) \in Message /\ In(toMirror, Head(toMirror))
        /\ \A e : In(toMirror, e) => e = Head(toMirror) \/ In(Tail(toMirror), e)
    BY <2>1, Taken
  <2>3. \A e \in Message : In(toMirror, e) => e = Head(toMirror) \/ In(toMirror, e)'
    BY <2>1, <2>2 DEF In
  <2>4. ASSUME plan.revision = revision
        PROVE  plan'.revision = revision
    <3>1. CASE plan' = plan
      BY <2>4, <3>1
    <3>2. CASE plan' # plan
      <4>1. /\ Head(toMirror).kind = "plan" /\ Head(toMirror).plan.revision > plan.revision
        BY <1>2, <3>2 DEF ReceivePlan, ReceiveRevoked, ReceiveSnapshot, Accepts
      <4>2. Head(toMirror).plan.revision <= revision
        BY <2>2, <4>1 DEF PlansKnown, Known
      <4>3. Head(toMirror).plan.revision \in Nat /\ plan.revision \in Nat /\ revision \in Nat
        BY <2>2 DEF Typed, HostTypes, MirrorTypes, Message, Plan
      <4> QED
        BY <2>4, <4>1, <4>2, <4>3
    <3> QED
      BY <3>1, <3>2
  <2>5. ASSUME Head(toMirror).kind = "plan", Head(toMirror).plan.revision = revision
        PROVE  plan'.revision = revision
    <3>1. /\ ReceivePlan
          /\ plan' = IF Accepts(Head(toMirror).plan) THEN Head(toMirror).plan ELSE plan
      BY <1>2, <2>5 DEF ReceivePlan, ReceiveRevoked, ReceiveSnapshot
    <3>2. plan.revision <= revision /\ plan.revision \in Nat /\ revision \in Nat
      BY DEF PlansKnown, Known, Typed, HostTypes, MirrorTypes, Plan
    <3> QED
      BY <2>5, <3>1, <3>2 DEF Accepts
  <2> QED
    BY <1>1, <2>1, <2>3, <2>4, <2>5 DEF LastPlanOnItsWay, InProgress
<1>3. CASE LoseLink
  BY <1>3 DEF LoseLink, LastPlanOnItsWay
<1>4. ASSUME toMirror' = toMirror, plan' = plan, link' = link, missed' = missed
      PROVE  LastPlanOnItsWay'
  <2>1. \A e \in Message : In(toMirror, e) => In(toMirror, e)'
    BY <1>4 DEF In
  <2> QED
    BY <1>1, <1>4, <2>1, LastPlanKept DEF InProgress
<1>5. CASE (\E enabled \in BOOLEAN : Toggle(enabled)) \/ SetMirror \/ ChildExits \/ UNCHANGED vars
  BY <1>4, <1>5 DEF Toggle, SetMirror, ChildExits, vars
<1>6. ASSUME NEW t \in MirrorTask,
             Apply(t) \/ StopChild(t) \/ ClearSlots(t) \/ ConfigureSlots(t) \/ LaunchChild(t)
      PROVE  LastPlanOnItsWay'
  BY <1>4, <1>6 DEF Apply, StopChild, ClearSlots, ConfigureSlots, LaunchChild
<1> QED
  BY <1>2, <1>3, <1>5, <1>6 DEF Commentator

PlansOK == Typed /\ PlansKnown /\ LastPlanOnItsWay

LEMMA PlansInit == Init => PlansOK
<1> SUFFICES ASSUME Init
             PROVE  PlansOK
  OBVIOUS
<1>1. Typed
  BY TypesInit
<1>2. /\ hostPlan = NoPlan /\ plan = NoPlan /\ revision = 0 /\ layout = 0
      /\ toMirror = <<>> /\ missed = TRUE /\ \A t \in HostTask : task[t].pc = "idle"
  BY DEF Init, Resting
<1>3. Known(hostPlan) /\ Known(plan)
  BY <1>2 DEF Known, NoPlan
<1>4. \A e \in Message : ~In(toMirror, e)
  BY <1>2 DEF In
<1> QED
  BY <1>1, <1>2, <1>3, <1>4 DEF PlansOK, PlansKnown, LastPlanOnItsWay

LEMMA PlansNext == PlansOK /\ [Next]_vars => PlansOK'
<1> SUFFICES ASSUME PlansOK, [Next]_vars
             PROVE  PlansOK'
  OBVIOUS
<1>1. Typed'
  BY TypesNext DEF PlansOK
<1>2. CASE Host
  BY <1>1, <1>2, PlansHost, LastPlanHost DEF PlansOK
<1>3. CASE Commentator \/ LoseLink \/ ChildExits \/ UNCHANGED vars
  BY <1>1, <1>3, PlansElsewhere, LastPlanElsewhere DEF PlansOK
<1> QED
  BY <1>2, <1>3 DEF Next

\* Whatever refreshes overlap, the Commentator ends with the host's slots: the
\* plan of the last revision is on its way or arrived, and it is known.
THEOREM CommentatorCatchesUp == Spec => []PlanConverges
<1>1. PlansOK => PlanConverges
  <2> SUFFICES ASSUME PlansOK, Settled, ~missed
               PROVE  plan.layout = layout
    BY DEF PlanConverges
  <2>1. ~Pending /\ \A t \in HostTask : ~InProgress(t)
    BY DEF Settled, Pending, InProgress
  <2>2. \A e \in Message : ~In(toMirror, e)
    BY DEF Settled, In
  <2>3. plan.revision = revision
    BY <2>1, <2>2 DEF PlansOK, LastPlanOnItsWay
  <2> QED
    BY <2>1, <2>3 DEF PlansOK, PlansKnown, Known
<1> QED
  BY <1>1, PlansInit, PlansNext, PTL DEF Spec

-----------------------------------------------------------------------------
(***************************************************************************)
(* Children                                                                *)
(***************************************************************************)

\* One task at a time is between the kill and the launch of a slot's child, and
\* then the slot has none; a task launches only for a plan that assigns a slot.
Exclusive ==
    ~crossed =>
        /\ live = IF tracked THEN 1 ELSE 0
        /\ \A t \in MirrorTask : worker[t].pc = "launch" =>
              ~tracked /\ \A u \in MirrorTask : worker[u].pc = "launch" => u = t
LaunchesForSlots ==
    \A t \in MirrorTask : worker[t].pc \in {"configure", "launch"} => worker[t].plan.layout # 0

\* With the mirror off a task is about to stop everything, or there is nothing
\* to stop and nothing to come.
StopsWhenOff ==
    ~crossed /\ ~outrun /\ ~mirror =>
        \/ \E t \in MirrorTask : worker[t].pc = "stop" /\ worker[t].plan.layout = 0
        \/ /\ live = 0
           /\ \A t \in MirrorTask : UsesRenderers(t) => worker[t].plan.layout = 0

ChildrenOK == Exclusive /\ LaunchesForSlots /\ StopsWhenOff

\* Who has the renderers keeps them while tasks do other things.
LEMMA ChildrenKept ==
    ASSUME Typed, ChildrenOK, UNCHANGED <<childVars, crossed, outrun, mirror>>,
           worker' \in [MirrorTask -> WorkerState],
           NEW t \in MirrorTask, \A u \in MirrorTask \ {t} : worker'[u] = worker[u],
           worker[t] = worker'[t] \/ ~(UsesRenderers(t) \/ UsesRenderers(t)')
    PROVE  ChildrenOK'
  BY DEF ChildrenOK, Exclusive, LaunchesForSlots, StopsWhenOff, UsesRenderers, childVars

\* A task that is told to stop everything will.
LEMMA ChildrenStop ==
    ASSUME Typed, ChildrenOK, UNCHANGED <<childVars, crossed, outrun>>, NEW t \in MirrorTask,
           StopAll(t), ~UsesRenderers(t)
    PROVE  ChildrenOK'
<1>1. /\ worker'[t].pc = "stop" /\ worker'[t].plan.layout = 0
      /\ \A u \in MirrorTask \ {t} : worker'[u] = worker[u]
  BY DEF StopAll, NoPlan, Typed, MirrorTypes, WorkerState
<1>2. Exclusive' /\ LaunchesForSlots'
  BY <1>1 DEF ChildrenOK, Exclusive, LaunchesForSlots, UsesRenderers, childVars
<1>3. StopsWhenOff'
  BY <1>1 DEF StopsWhenOff
<1> QED
  BY <1>2, <1>3 DEF ChildrenOK

LEMMA ChildrenNext == Typed /\ ChildrenOK /\ [Next]_vars => ChildrenOK'
<1> SUFFICES ASSUME Typed, ChildrenOK, [Next]_vars
             PROVE  ChildrenOK'
  OBVIOUS
<1> USE DEF hostVars, wireVars, mirrorVars, childVars, history
<1>1. worker \in [MirrorTask -> WorkerState] /\ live \in Nat /\ tracked \in BOOLEAN
  BY DEF Typed, MirrorTypes, FlagTypes
<1>2. ASSUME UNCHANGED <<worker, mirror, tracked, live, crossed, outrun>>
      PROVE  ChildrenOK'
  BY <1>2 DEF ChildrenOK, Exclusive, LaunchesForSlots, StopsWhenOff, UsesRenderers
<1>3. CASE Host \/ LoseLink \/ UNCHANGED vars
  BY <1>2, <1>3 DEF Host, ChangeSlots, FetchRevision, ReadSlots, StorePlan, SendPlan, SetAccess,
                    Grant, Revoke, HearSubscribe, Subscribe, NoticeLoss, Resume, LoseLink, vars
<1>4. CASE ChildExits
  BY <1>1, <1>4
  DEF ChildExits, ChildrenOK, Exclusive, LaunchesForSlots, StopsWhenOff, UsesRenderers
<1>5. CASE ReceivePlan
  <2>1. CASE UNCHANGED worker
    BY <1>2, <1>5, <2>1 DEF ReceivePlan
  <2>2. CASE Goto("events", "apply")
    <3>1. /\ worker'["events"].pc = "apply" /\ worker["events"].pc = "idle"
          /\ \A u \in MirrorTask \ {"events"} : worker'[u] = worker[u]
          /\ worker' \in [MirrorTask -> WorkerState] /\ "events" \in MirrorTask
      BY <1>1, <1>5, <2>2 DEF ReceivePlan, Goto, WorkerState, WorkerPc, MirrorTask
    <3> QED
      BY <1>5, <3>1, ChildrenKept DEF ReceivePlan, UsesRenderers
  <2> QED
    BY <1>5, <2>1, <2>2 DEF ReceivePlan
<1>6. CASE ReceiveRevoked
  BY <1>6, ChildrenStop DEF ReceiveRevoked, UsesRenderers, MirrorTask
<1>7. CASE ReceiveSnapshot
  <2>1. CASE UNCHANGED <<mirror, worker>>
    BY <1>2, <1>7, <2>1 DEF ReceiveSnapshot
  <2>2. CASE StopAll("events")
    BY <1>7, <2>2, ChildrenStop DEF ReceiveSnapshot, UsesRenderers, MirrorTask
  <2> QED
    BY <1>7, <2>1, <2>2 DEF ReceiveSnapshot
<1>8. ASSUME NEW enabled \in BOOLEAN, Toggle(enabled)
      PROVE  ChildrenOK'
  <2>1. /\ worker'["user"].pc \in {"enable", "disable"} /\ worker["user"].pc = "idle"
        /\ \A u \in MirrorTask \ {"user"} : worker'[u] = worker[u]
        /\ worker' \in [MirrorTask -> WorkerState] /\ "user" \in MirrorTask
    BY <1>1, <1>8 DEF Toggle, Goto, WorkerState, WorkerPc, MirrorTask
  <2> QED
    BY <1>8, <2>1, ChildrenKept DEF Toggle, UsesRenderers
<1>9. CASE SetMirror
  <2>1. CASE worker["user"].pc = "disable"
    <3>1. StopAll("user")
      BY <1>9, <2>1 DEF SetMirror
    <3> QED
      BY <1>9, <2>1, <3>1, ChildrenStop DEF SetMirror, UsesRenderers, MirrorTask
  <2>2. CASE worker["user"].pc = "enable"
    <3>1. mirror' = TRUE /\ Goto("user", "apply")
      BY <1>9, <2>2 DEF SetMirror
    <3>2. worker'["user"].pc = "apply" /\ \A u \in MirrorTask \ {"user"} : worker'[u] = worker[u]
      BY <1>1, <3>1 DEF Goto, WorkerState, MirrorTask
    <3>3. live' = live /\ tracked' = tracked /\ crossed' = crossed /\ outrun' = outrun
      BY <1>9 DEF SetMirror
    <3> QED
      BY <2>2, <3>1, <3>2, <3>3
      DEF ChildrenOK, Exclusive, LaunchesForSlots, StopsWhenOff
  <2> QED
    BY <1>9, <2>1, <2>2 DEF SetMirror
<1>10. ASSUME NEW t \in MirrorTask, Apply(t)
       PROVE  ChildrenOK'
  <2>1. /\ worker[t].pc = "apply" /\ \A u \in MirrorTask \ {t} : worker'[u] = worker[u]
        /\ worker'[t].pc = IF mirror THEN "stop" ELSE "idle"
        /\ UNCHANGED <<mirror, live, tracked, crossed, outrun>>
    BY <1>1, <1>10 DEF Apply, Resting
  <2> QED
    BY <2>1 DEF ChildrenOK, Exclusive, LaunchesForSlots, StopsWhenOff, UsesRenderers
<1>11. ASSUME NEW t \in MirrorTask, StopChild(t)
       PROVE  ChildrenOK'
  <2>1. /\ worker[t].pc = "stop" /\ worker'[t].pc = "clear" /\ worker'[t].plan = worker[t].plan
        /\ \A u \in MirrorTask \ {t} : worker'[u] = worker[u]
    BY <1>1, <1>11 DEF StopChild, Goto, WorkerState
  <2>2. /\ tracked' = FALSE /\ live' = IF tracked THEN live - 1 ELSE live
        /\ mirror' = mirror
    BY <1>11 DEF StopChild, KillProcess
  <2>3. /\ crossed' = crossed
        /\ IF worker[t].plan.layout = 0
           THEN outrun' = \E u \in MirrorTask \ {t} : UsesRenderers(u) /\ worker[u].plan.layout # 0
           ELSE outrun' = outrun
    BY <1>11 DEF StopChild, NoteStop, Applying
  <2>4. Exclusive'
    BY <1>1, <2>1, <2>2, <2>3 DEF ChildrenOK, Exclusive, UsesRenderers
  <2>5. LaunchesForSlots'
    BY <2>1 DEF ChildrenOK, LaunchesForSlots
  <2>6. StopsWhenOff'
    BY <2>1, <2>2, <2>3, <2>4 DEF ChildrenOK, Exclusive, StopsWhenOff, UsesRenderers
  <2> QED
    BY <2>4, <2>5, <2>6 DEF ChildrenOK
<1>12. ASSUME NEW t \in MirrorTask, ClearSlots(t)
       PROVE  ChildrenOK'
  <2>1. worker[t].pc = "clear" /\ UNCHANGED <<mirror, live, tracked, crossed, outrun>>
    BY <1>12 DEF ClearSlots
  <2>2. CASE worker[t].plan.layout = 0
    <3>1. worker'[t].pc = "idle" /\ \A u \in MirrorTask \ {t} : worker'[u] = worker[u]
      BY <1>1, <1>12, <2>2 DEF ClearSlots, Resting
    <3> QED
      BY <2>1, <3>1 DEF ChildrenOK, Exclusive, LaunchesForSlots, StopsWhenOff, UsesRenderers
  <2>3. CASE worker[t].plan.layout # 0
    <3>1. /\ worker'[t].pc = "configure" /\ worker'[t].plan = worker[t].plan
          /\ \A u \in MirrorTask \ {t} : worker'[u] = worker[u]
      BY <1>1, <1>12, <2>3 DEF ClearSlots, Goto, WorkerState
    <3> QED
      BY <2>1, <2>3, <3>1 DEF ChildrenOK, Exclusive, LaunchesForSlots, StopsWhenOff,
                              UsesRenderers
  <2> QED
    BY <2>2, <2>3
<1>13. ASSUME NEW t \in MirrorTask, ConfigureSlots(t)
       PROVE  ChildrenOK'
  <2>1. /\ worker[t].pc = "configure" /\ mirror' = mirror /\ outrun' = outrun
        /\ ~crossed' => ~crossed /\ \A u \in MirrorTask \ {t} : worker[u].pc # "launch"
        /\ \A u \in MirrorTask \ {t} : worker'[u] = worker[u]
        /\ worker'[t].pc = "launch" /\ worker'[t].plan = worker[t].plan
        /\ tracked' = FALSE /\ live' = IF tracked THEN live - 1 ELSE live
    BY <1>1, <1>13 DEF ConfigureSlots, Launching, KillProcess, Goto, WorkerState
  <2>2. Exclusive'
    BY <1>1, <2>1 DEF ChildrenOK, Exclusive
  <2>3. LaunchesForSlots'
    BY <2>1 DEF ChildrenOK, LaunchesForSlots
  <2>4. StopsWhenOff'
    BY <1>1, <2>1 DEF ChildrenOK, LaunchesForSlots, Exclusive, StopsWhenOff, UsesRenderers
  <2> QED
    BY <2>2, <2>3, <2>4 DEF ChildrenOK
<1>14. ASSUME NEW t \in MirrorTask, LaunchChild(t)
       PROVE  ChildrenOK'
  <2>1. /\ worker[t].pc = "launch" /\ UNCHANGED <<mirror, crossed, outrun>>
        /\ \A u \in MirrorTask \ {t} : worker'[u] = worker[u]
        /\ worker'[t].pc = "idle" /\ tracked' = TRUE /\ live' = live + 1
    BY <1>1, <1>14 DEF LaunchChild, Resting
  <2> QED
    BY <1>1, <2>1 DEF ChildrenOK, Exclusive, LaunchesForSlots, StopsWhenOff,
                      UsesRenderers
<1> QED
  BY <1>3, <1>4, <1>5, <1>6, <1>7, <1>8, <1>9, <1>10, <1>11, <1>12, <1>13, <1>14
  DEF Next, Commentator

\* A slot has one child at most, the table knows it, and turning the mirror off
\* leaves none, whether the user, a revocation or a snapshot did it: as long as
\* the Commentator's two tasks are not between the kill and the launch of a child
\* at once, and no plan is being applied while everything is last stopped.
THEOREM ChildrenAreStopped == Spec => []NoChildLeftBehind
<1>1. Init => ChildrenOK
  BY DEF Init, ChildrenOK, Exclusive, LaunchesForSlots, StopsWhenOff, UsesRenderers,
         Resting
<1>2. Typed /\ ChildrenOK => NoChildLeftBehind
  BY DEF Typed, MirrorTypes, FlagTypes, ChildrenOK, Exclusive, StopsWhenOff, NoChildLeftBehind
<1> QED
  BY <1>1, <1>2, TypesInvariant, ChildrenNext, PTL DEF Spec

-----------------------------------------------------------------------------
(***************************************************************************)
(* RendererInputs: what the children are fed, for every set of slots,      *)
(* participants and taps, every delay, jitter and tolerance, and runs and  *)
(* controls without end.                                                   *)
(***************************************************************************)
LEMMA Scale ==
    /\ FirstNote \in Nat /\ FirstNote > 0 /\ Delay \in Nat /\ Jitter \in Nat /\ Tolerance \in Nat
    /\ MaxNow \in Nat /\ MaxRuns \in Nat /\ MaxControls \in Nat
    /\ Taps \subseteq 1 .. MaxNow /\ Taps \subseteq Nat /\ Taps \subseteq Time
    /\ Time \subseteq Nat /\ 0 \in Time /\ 0 \in 0 .. MaxRuns
  BY TimeAssumption DEF Time

(* A set of naturals that is not empty has a least member.                 *)
LEMMA LeastExists ==
    ASSUME NEW S \in SUBSET Nat, S # {}
    PROVE  \E x \in S : \A y \in S : x <= y
<1> DEFINE R == OpToRel(<, Nat)
<1>1. IsWellFoundedOn(R, Nat)
  BY NatLessThanWellFounded
<1>2. \A x, y \in Nat : y < x => <<y, x>> \in R
  BY DEF OpToRel
<1> HIDE DEF R
<1>3. PICK x \in S : \A y \in S : ~(<<y, x>> \in R)
  BY <1>1, WFMin
<1>4. ASSUME NEW y \in S
      PROVE  x <= y
  <2>1. x \in Nat /\ y \in Nat /\ ~(y < x)
    BY <1>2, <1>3
  <2> QED
    BY <2>1
<1> QED
  BY <1>4

LEMMA GreatestExists ==
    ASSUME NEW n \in Nat, NEW S \in SUBSET (0 .. n), S # {}
    PROVE  \E x \in S : \A y \in S : x >= y
<1> DEFINE T == {n - x : x \in S}
<1>1. T \in SUBSET Nat /\ T # {}
  <2>1. \A x \in S : n - x \in Nat
    OBVIOUS
  <2> QED
    BY <2>1
<1>2. PICK d \in T : \A e \in T : d <= e
  BY <1>1, LeastExists
<1>3. PICK x \in S : d = n - x
  BY <1>2
<1>4. \A y \in S : n - x <= n - y
  BY <1>2, <1>3
<1> QED
  BY <1>4

LEMMA MaxOf ==
    ASSUME NEW n \in Nat, NEW S \in SUBSET (0 .. n), S # {}
    PROVE  Max(S) \in S /\ \A y \in S : Max(S) >= y
  BY GreatestExists DEF Max

LEMMA MinOf ==
    ASSUME NEW S \in SUBSET Nat, S # {}
    PROVE  Min(S) \in S /\ \A y \in S : Min(S) <= y
  BY LeastExists DEF Min

LEMMA LatestOf ==
    ASSUME NEW S \in SUBSET Sample, S # {}
    PROVE  Latest(S) \in S /\ \A r \in S : r.index <= Latest(S).index
<1> DEFINE I == {q.index : q \in S}
<1>1. I \in SUBSET (0 .. MaxNow) /\ I # {}
  BY Scale DEF Sample
<1>2. PICK i \in I : \A j \in I : i >= j
  BY <1>1, GreatestExists, Scale
<1>3. PICK q \in S : q.index = i
  BY <1>2
<1>4. ASSUME NEW r \in S
      PROVE  r.index <= q.index
  <2>1. r.index \in I /\ i >= r.index /\ r.index \in Nat /\ i \in Nat
    BY <1>1, <1>2
  <2> QED
    BY <1>3, <2>1
<1> QED
  BY <1>4 DEF Latest

LEMMA EarliestOf ==
    ASSUME NEW S \in SUBSET Sample, S # {}
    PROVE  Earliest(S) \in S /\ \A r \in S : Earliest(S).index <= r.index
<1> DEFINE I == {q.index : q \in S}
<1>1. I \in SUBSET Nat /\ I # {}
  BY Scale DEF Sample
<1>2. PICK i \in I : \A j \in I : i <= j
  BY <1>1, LeastExists
<1>3. PICK q \in S : q.index = i
  BY <1>2
<1>4. \A r \in S : q.index <= r.index
  BY <1>2, <1>3
<1> QED
  BY <1>4 DEF Earliest

-----------------------------------------------------------------------------
\* The records the writer, the controls and the anchors are kept in.
Pass == [pc : WriterPc, gate : SUBSET Slot, view : [Slot -> Participant \cup {Nobody}],
         time : Time, at : Nat, first : BOOLEAN]
Control == [pc : OpPc, slot : Slot \cup {Nobody}, who : Participant \cup {Nobody}, calls : Nat]
Anchor == [set : BOOLEAN, source : Time, receipt : Time]
USE DEF Pass, Control, Anchor

InputsTyped ==
    /\ now \in Time /\ racing \in BOOLEAN
    /\ slots \in [Slot -> Participant \cup {Nobody}]
    /\ samples \in [Participant -> SUBSET Sample]
    /\ anchors \in [Participant -> Anchor]
    /\ taps \in [Participant -> SUBSET Taps]
    /\ source \in [Slot -> Participant \cup {Nobody}]
    /\ tapCursor \in [Slot -> Time] /\ sampleCursor \in [Slot -> Time]
    /\ awaiting \subseteq Slot /\ page \in [Slot -> Input] /\ epoch \in Epoch
    /\ writer \in Pass
    /\ op \in Control
    /\ run \in 0 .. MaxRuns /\ parked \subseteq Slot /\ tardy \subseteq Taps
    /\ judged \in [Slot -> [Taps -> 0 .. 2]] /\ seeds \in [Slot -> 0 .. 2] /\ rebuilt \in BOOLEAN

Viewed == writer.pc \in {"viewing", "warming", "releasing"}
Clock == IF Viewed THEN writer.time ELSE now
NoAnchorSet == \A p \in Participant : ~anchors[p].set
Playing == op.pc \notin {"begin_anchors", "begin_cursors", "begin_pages", "begin_epoch"}

SamplesOK == \A p \in Participant : \A q \in samples[p] : q.index <= q.receipt /\ q.run = run
AnchorsOK ==
    /\ \A p \in Participant :
          anchors[p].source > 0 => /\ anchors[p].set /\ anchors[p].source >= FirstNote
                                   /\ anchors[p].receipt >= FirstNote
    /\ Beginning => ~racing
    /\ op.pc \in {"begin_cursors", "begin_pages", "begin_epoch"} => NoAnchorSet
EpochOK ==
    /\ epoch # NoEpoch => epoch.at \in FirstNote + Delay .. MaxNow + Delay
    /\ epoch.released => Clock >= epoch.at
WriterOK ==
    /\ writer.time <= now
    /\ Viewed => /\ CohortOf(writer.view) # {}
                 /\ \A s \in writer.gate : writer.view[s] = Nobody
    /\ writer.pc = "warming" => ~epoch.released
    /\ writer.pc = "releasing" =>
          /\ writer.time >= writer.at
          /\ \/ rebuilt \/ NoAnchorSet
             \/ epoch # NoEpoch /\ epoch.at = writer.at /\ writer.first = ~epoch.released
OpOK ==
    /\ op.pc \in {"assign", "launch", "reset", "stop"} => op.slot \in Slot
    /\ op.pc \in {"assign", "drop"} => op.who \in Participant
    /\ op.pc = "begin_samples" => run < MaxRuns
PagesOK ==
    op.pc \notin {"begin_anchors", "begin_cursors", "begin_pages"} =>
        \A s \in Slot : page[s] # Zero => page[s].run = run
ParkedOK ==
    /\ \A s \in parked : page[s] = Zero /\ s \in awaiting /\ ~Missed(s)
    /\ op.pc = "reset" => op.slot \in awaiting
    /\ op.pc = "stop" => op.slot \notin parked
SeedsOK ==
    ~rebuilt => \A s \in Slot : seeds[s] < 2 /\ (seeds[s] > 0 => epoch.released)
CursorsOK ==
    /\ ~rebuilt /\ ~epoch.released => \A s \in Slot : sampleCursor[s] = 0
    /\ op.pc \in {"begin_pages", "begin_epoch"} => \A s \in Slot : sampleCursor[s] = 0
Behind(s, p) ==
    /\ \E q \in samples[p] : q.index = sampleCursor[s]
    /\ sampleCursor[s] <= anchors[p].source + (Clock - epoch.at)
Followed(s) ==
    epoch.released /\ source[s] \in Participant /\ sampleCursor[s] > 0 =>
        (anchors[source[s]].set => Behind(s, source[s]))
ToldOnce(s, t) ==
    judged[s][t] > 0 =>
        /\ epoch.released /\ t <= sampleCursor[s]
        /\ t \notin tardy => judged[s][t] < 2
        /\ source[s] \in Participant /\ t \in taps[source[s]] \ tardy => t <= tapCursor[s]
JudgedOK ==
    ~rebuilt /\ Playing => \A s \in Slot : Followed(s) /\ \A t \in Taps : ToldOnce(s, t)
InputsInv == InputsTyped /\ SamplesOK /\ AnchorsOK /\ EpochOK /\ WriterOK /\ OpOK /\ PagesOK
             /\ ParkedOK /\ SeedsOK /\ CursorsOK /\ JudgedOK

-----------------------------------------------------------------------------
(***************************************************************************)
(* What a pass of the writer finds and writes.                             *)
(***************************************************************************)
LEMMA CohortMembers ==
    ASSUME InputsTyped
    PROVE  /\ CohortOf(writer.view) \subseteq Participant
           /\ \A s \in Slot : writer.view[s] \in Participant \cup {Nobody}
           /\ \A s \in Slot : writer.view[s] # Nobody => writer.view[s] \in CohortOf(writer.view)
  BY DEF InputsTyped, CohortOf

\* An anchor is resolved once, to a sample from the first note on.
LEMMA ResolveFacts ==
    ASSUME InputsTyped, SamplesOK, NEW p \in Participant
    PROVE  /\ Resolve(p) \in Anchor
           /\ Resolve(p).set = anchors[p].set
           /\ \/ Resolve(p) = anchors[p]
              \/ /\ anchors[p].set /\ anchors[p].source = 0
                 /\ Resolve(p).source >= FirstNote /\ Resolve(p).receipt >= FirstNote
<1>1. anchors[p] \in Anchor /\ samples[p] \in SUBSET Sample
  BY DEF InputsTyped
<1>2. CASE anchors[p].set /\ ~Resolved(p) /\ FromFirstNote(p) # {}
  <2> DEFINE q == Earliest(FromFirstNote(p))
  <2>1. FromFirstNote(p) \in SUBSET Sample
    BY <1>1 DEF FromFirstNote
  <2>2. q \in FromFirstNote(p)
    BY <1>2, <2>1, EarliestOf
  <2>3. /\ q.index \in 1 .. MaxNow /\ q.receipt \in Time /\ q.index >= FirstNote
        /\ q.index <= q.receipt
    BY <2>1, <2>2 DEF FromFirstNote, SamplesOK, Sample
  <2>4. Resolve(p) = [set |-> TRUE, source |-> q.index, receipt |-> q.receipt]
    BY <1>2 DEF Resolve
  <2> HIDE DEF q
  <2>5. q.index \in Time /\ q.receipt >= FirstNote /\ anchors[p].source = 0
    BY <1>1, <1>2, <2>3, Scale DEF Time, Resolved
  <2> QED
    BY <1>1, <1>2, <2>3, <2>4, <2>5
<1>3. CASE ~(anchors[p].set /\ ~Resolved(p) /\ FromFirstNote(p) # {})
  BY <1>1, <1>3 DEF Resolve
<1> QED
  BY <1>2, <1>3

LEMMA HoldFacts ==
    ASSUME InputsInv, HoldBuffers
    PROVE  /\ anchors' \in [Participant -> Anchor]
           /\ \A p \in Participant :
                 /\ anchors'[p].set = anchors[p].set /\ anchors'[p].source >= anchors[p].source
                 /\ anchors'[p].source > 0 => /\ anchors'[p].set /\ anchors'[p].source >= FirstNote
                                              /\ anchors'[p].receipt >= FirstNote
           /\ epoch' \in Epoch
           /\ epoch' # NoEpoch => epoch'.at \in FirstNote + Delay .. MaxNow + Delay
           /\ epoch' = epoch \/ (~epoch'.released /\ (epoch.released => rebuilt'))
           /\ rebuilt => rebuilt'
           /\ writer'.pc \in {"warming", "releasing"}
           /\ writer'.pc = "releasing" => epoch' # NoEpoch /\ ~(writer.time < epoch'.at)
           /\ writer'.pc = "warming" => epoch' = NoEpoch \/ writer.time < epoch'.at
           /\ writer' = [writer EXCEPT !.pc = writer'.pc, !.at = epoch'.at, !.first = ~epoch'.released]
<1> DEFINE cohort == CohortOf(writer.view)
<1>0. /\ InputsTyped /\ SamplesOK /\ AnchorsOK /\ EpochOK /\ WriterOK
      /\ writer.pc = "viewing"
      /\ writer \in Pass
      /\ epoch \in Epoch /\ rebuilt \in BOOLEAN
  BY DEF InputsInv, HoldBuffers, InputsTyped
<1>1. cohort \subseteq Participant /\ cohort # {}
  BY <1>0, CohortMembers DEF WriterOK, Viewed
<1>2. /\ anchors' = [p \in Participant |-> IF p \in cohort THEN Resolve(p) ELSE anchors[p]]
      /\ epoch' = NextEpoch(cohort, anchors')
      /\ rebuilt' = (rebuilt \/ (epoch.released /\ epoch.cohort # cohort))
      /\ writer' = [writer EXCEPT
                       !.pc = IF epoch' = NoEpoch \/ writer.time < epoch'.at
                              THEN "warming" ELSE "releasing",
                       !.at = epoch'.at, !.first = ~epoch'.released]
  BY DEF HoldBuffers
<1> HIDE DEF cohort
<1>3. anchors' \in [Participant -> Anchor]
  <2>1. \A p \in Participant : /\ Resolve(p) \in Anchor
                               /\ anchors[p] \in Anchor
    BY <1>0, ResolveFacts DEF InputsTyped
  <2> QED
    BY <1>2, <2>1
<1>4. ASSUME NEW p \in Participant
      PROVE  /\ anchors'[p].set = anchors[p].set /\ anchors'[p].source >= anchors[p].source
             /\ anchors'[p].source > 0 => /\ anchors'[p].set /\ anchors'[p].source >= FirstNote
                                          /\ anchors'[p].receipt >= FirstNote
  <2>1. anchors'[p] = anchors[p] \/ anchors'[p] = Resolve(p)
    BY <1>2
  <2>2. anchors[p].source \in Nat /\ anchors'[p].source \in Nat
    BY <1>0, <1>3, Scale DEF InputsTyped
  <2>3. anchors[p].source > 0 => /\ anchors[p].set /\ anchors[p].source >= FirstNote
                                 /\ anchors[p].receipt >= FirstNote
    BY <1>0 DEF AnchorsOK
  <2>4. CASE anchors'[p] = anchors[p]
    BY <2>2, <2>3, <2>4
  <2>5. CASE anchors'[p] = Resolve(p) /\ Resolve(p) # anchors[p]
    <3>1. /\ Resolve(p).set = anchors[p].set /\ anchors[p].set /\ anchors[p].source = 0
          /\ Resolve(p).source >= FirstNote /\ Resolve(p).receipt >= FirstNote
      BY <1>0, <2>5, ResolveFacts
    <3> QED
      BY <2>2, <2>5, <3>1, Scale
  <2> QED
    BY <2>1, <2>4, <2>5
<1> DEFINE receipts == {anchors'[p].receipt : p \in cohort}
           begun == [cohort |-> cohort, released |-> FALSE, at |-> Max(receipts) + Delay]
<1>5. CASE \A p \in cohort : anchors'[p].source > 0
  <2>1. receipts \in SUBSET (0 .. MaxNow) /\ receipts # {}
    BY <1>1, <1>3 DEF Time
  <2>2. Max(receipts) \in receipts
    BY <2>1, MaxOf, Scale
  <2>3. \A r \in receipts : r \in FirstNote .. MaxNow
    <3>1. ASSUME NEW p \in cohort
          PROVE  anchors'[p].receipt \in FirstNote .. MaxNow
      BY <1>1, <1>3, <1>4, <1>5, Scale DEF Time
    <3> QED
      BY <3>1
  <2>4. Max(receipts) \in FirstNote .. MaxNow
    BY <2>2, <2>3
  <2> QED
    <3> HIDE DEF receipts
    <3>1. Max(receipts) + Delay \in FirstNote + Delay .. MaxNow + Delay /\ Max(receipts) + Delay \in Nat
      BY <2>4, Scale
    <3>2. begun \in Epoch /\ begun.at \in FirstNote + Delay .. MaxNow + Delay /\ ~begun.released
      BY <1>1, <3>1 DEF Epoch
    <3>3. NextEpoch(cohort, anchors') =
             IF (IF epoch.cohort = cohort THEN epoch ELSE NoEpoch) = NoEpoch THEN begun
             ELSE IF epoch.cohort = cohort THEN epoch ELSE NoEpoch
      BY <1>5 DEF NextEpoch, receipts
    <3> HIDE DEF begun
    <3>4. epoch' = epoch \/ (~epoch'.released /\ (epoch.released => rebuilt'))
      <4>1. CASE epoch.cohort = cohort
        BY <1>0, <1>2, <3>2, <3>3, <4>1 DEF NoEpoch
      <4>2. CASE epoch.cohort # cohort
        BY <1>0, <1>2, <3>2, <3>3, <4>2
      <4> QED
        BY <4>1, <4>2
    <3>5. epoch' \in Epoch /\ (epoch' # NoEpoch => epoch'.at \in FirstNote + Delay .. MaxNow + Delay)
      BY <1>0, <1>2, <3>2, <3>3 DEF EpochOK
    <3> QED
      BY <1>0, <1>2, <1>3, <1>4, <3>4, <3>5
<1>6. CASE ~(\A p \in cohort : anchors'[p].source > 0)
  <2>1. NextEpoch(cohort, anchors') = IF epoch.cohort = cohort THEN epoch ELSE NoEpoch
    BY <1>6 DEF NextEpoch
  <2>2. NoEpoch \in Epoch /\ ~NoEpoch.released
    BY DEF NoEpoch, Epoch
  <2>3. epoch' = epoch \/ (~epoch'.released /\ (epoch.released => rebuilt'))
    BY <1>0, <1>2, <2>1, <2>2
  <2>4. epoch' \in Epoch /\ (epoch' # NoEpoch => epoch'.at \in FirstNote + Delay .. MaxNow + Delay)
    BY <1>0, <1>2, <2>1, <2>2 DEF EpochOK
  <2> QED
    BY <1>0, <1>2, <1>3, <1>4, <2>3, <2>4
<1> QED
  BY <1>5, <1>6

LEMMA WarmFacts ==
    ASSUME InputsInv, WriteWarmup, NEW s \in Slot
    PROVE  \/ page'[s] = page[s] /\ source'[s] = source[s]
           \/ /\ writer.view[s] \in Participant /\ source'[s] = writer.view[s]
              /\ page'[s] \in Input /\ page'[s].run = run
<1> DEFINE q == Latest(Warmed(writer.view[s]))
<1>0. /\ InputsTyped /\ SamplesOK
      /\ page' = [r \in Slot |->
                    IF Warms(r)
                    THEN LET d == Latest(Warmed(writer.view[r]))
                         IN  [run |-> d.run, beat |-> d.index, capture |-> FALSE]
                    ELSE page[r]]
      /\ source' = [r \in Slot |-> IF Warms(r) THEN writer.view[r] ELSE source[r]]
  BY DEF InputsInv, WriteWarmup
<1>1. CASE Warms(s)
  <2>1. writer.view[s] \in Participant
    BY <1>0, <1>1, CohortMembers DEF Warms
  <2>2. Warmed(writer.view[s]) \in SUBSET Sample /\ Warmed(writer.view[s]) # {}
    BY <1>0, <1>1, <2>1 DEF InputsTyped, Warmed, Warms
  <2>3. q \in samples[writer.view[s]] /\ q \in Sample
    BY <2>2, LatestOf DEF Warmed
  <2>4. q.run = run /\ q.index \in 1 .. MaxNow /\ q.run \in 0 .. MaxRuns
    BY <1>0, <2>1, <2>3 DEF SamplesOK, Sample
  <2>5. page'[s] = [run |-> q.run, beat |-> q.index, capture |-> FALSE] /\ source'[s] = writer.view[s]
    BY <1>0, <1>1
  <2> HIDE DEF q
  <2>6. page'[s] \in Input
    BY <2>4, <2>5, Scale DEF Input
  <2> QED
    BY <2>1, <2>4, <2>5, <2>6
<1>2. CASE ~Warms(s)
  BY <1>0, <1>2
<1> QED
  BY <1>1, <1>2

\* The sample a slot shows, and the tap its child is told of.
LEMMA ShownFacts ==
    ASSUME InputsInv, writer.pc = "releasing", NEW s \in Slot, Shows(s)
    PROVE  LET p == writer.view[s] IN
           /\ p \in Participant /\ Resolved(p) /\ anchors[p].set
           /\ Shown(s) \in samples[p] /\ Shown(s).index \in 1 .. MaxNow /\ Shown(s).run = run
           /\ Shown(s).index <= Target(p)
           /\ \A q \in samples[p] : q.index <= Target(p) => q.index <= Shown(s).index
<1> DEFINE p == writer.view[s]
<1>0. InputsTyped /\ SamplesOK /\ AnchorsOK
  BY DEF InputsInv
<1>1. p \in Participant /\ Resolved(p) /\ Presented(p) # {}
  BY <1>0, CohortMembers DEF Shows
<1>2. Presented(p) \in SUBSET Sample
  BY <1>0, <1>1 DEF InputsTyped, Presented
<1>3. Shown(s) \in Presented(p) /\ \A q \in Presented(p) : q.index <= Shown(s).index
  BY <1>1, <1>2, LatestOf DEF Shown
<1> HIDE DEF p
<1>4. Shown(s) \in samples[p] /\ Shown(s) \in Sample /\ Shown(s).index <= Target(p)
  BY <1>2, <1>3 DEF Presented
<1>5. Shown(s).index \in 1 .. MaxNow /\ Shown(s).run = run
  BY <1>0, <1>1, <1>4 DEF SamplesOK, Sample
<1>6. \A q \in samples[p] : q.index <= Target(p) => q.index <= Shown(s).index
  BY <1>3 DEF Presented
<1>7. anchors[p].set
  BY <1>1 DEF Resolved
<1> QED
  BY <1>1, <1>4, <1>5, <1>6, <1>7 DEF p

LEMMA TapFacts ==
    ASSUME InputsInv, writer.pc = "releasing", NEW s \in Slot, Shows(s)
    PROVE  /\ TapStart(s) \in Time /\ CursorAfter(s) \in Time /\ CursorAfter(s) >= TapStart(s)
           /\ TapOf(s) \in 0 .. MaxNow /\ TapOf(s) <= Shown(s).index
           /\ TapOf(s) \in taps[writer.view[s]] => TapOf(s) <= CursorAfter(s)
           /\ TapOf(s) > 0 => \/ TapOf(s) \in taps[writer.view[s]] /\ TapOf(s) > TapStart(s)
                              \/ TapOf(s) = Shown(s).index /\ NewSample(s)
<1> DEFINE T == taps[writer.view[s]]
           i == Shown(s).index
<1>0. T \in SUBSET Taps /\ i \in 1 .. MaxNow /\ tapCursor[s] \in Time
  BY ShownFacts DEF InputsInv, InputsTyped
<1>1. T \in SUBSET (0 .. MaxNow) /\ T \in SUBSET Nat /\ MaxNow \in Nat /\ Time = 0 .. MaxNow
      /\ Tolerance \in Nat
  BY <1>0, Scale DEF Time
<1>2. TapStart(s) \in Time
  <2> DEFINE old == {t \in T : t + Tolerance < i}
  <2>1. old \in SUBSET (0 .. MaxNow) /\ (old # {} => Max(old) \in old)
    BY <1>1, MaxOf
  <2>2. Baseline(s) = IF old = {} THEN 0 ELSE Max(old)
    BY DEF Baseline
  <2> HIDE DEF T, i, old
  <2>3. Baseline(s) \in Time
    <3>1. CASE old = {}
      BY <2>2, <3>1, Scale
    <3>2. CASE old # {}
      <4>1. Baseline(s) = Max(old) /\ Max(old) \in 0 .. MaxNow
        BY <2>1, <2>2, <3>2
      <4> QED
        BY <1>1, <4>1
    <3> QED
      BY <3>1, <3>2
  <2> QED
    BY <1>0, <2>3 DEF TapStart
<1>3. /\ Passed(s) = {t \in T : TapStart(s) < t /\ t <= i}
      /\ Due(s) = {t \in Passed(s) : t + Tolerance >= i}
  BY DEF Passed, Due
<1> HIDE DEF T, i
<1>4. /\ Passed(s) \cup {TapStart(s)} \in SUBSET (0 .. MaxNow) /\ Due(s) \in SUBSET Nat
      /\ Due(s) \subseteq Passed(s)
  BY <1>1, <1>2, <1>3
<1> DEFINE last == Max(Passed(s) \cup {TapStart(s)})
<1>5. last \in Time /\ last >= TapStart(s) /\ \A t \in Passed(s) : last >= t
  BY <1>1, <1>4, MaxOf
<1> HIDE DEF last
<1>6. CASE Due(s) # {}
  <2> DEFINE m == Min(Due(s))
  <2>1. m \in Due(s)
    BY <1>4, <1>6, MinOf
  <2>2. TapOf(s) = m /\ CursorAfter(s) = m
    BY <1>6 DEF TapOf, CursorAfter
  <2> HIDE DEF m
  <2>3. m \in T /\ m \in 0 .. MaxNow /\ m > TapStart(s) /\ m <= i
    BY <1>1, <1>2, <1>3, <1>4, <2>1
  <2> QED
    BY <1>1, <1>2, <2>2, <2>3 DEF T, i
<1>7. CASE Due(s) = {}
  <2>1. CursorAfter(s) = last
    BY <1>7 DEF CursorAfter, last
  <2>2. TapOf(s) = IF RawTap(s) THEN i ELSE 0
    BY <1>7 DEF TapOf, i
  <2>3. RawTap(s) => NewSample(s)
    BY DEF RawTap
  <2>4. i \in T => i <= last
    BY <1>0, <1>1, <1>2, <1>3, <1>5
  <2>5. 0 \in T => 0 <= last
    BY <1>1, <1>5
  <2> QED
    BY <1>0, <1>1, <1>2, <1>5, <2>1, <2>2, <2>3, <2>4, <2>5 DEF T, i
<1> QED
  BY <1>6, <1>7

\* What the release pass leaves of a slot it shows, and of one it does not.
LEMMA ReleaseFacts ==
    ASSUME InputsInv, WriteRelease, NEW s \in Slot
    PROVE  /\ ~Shows(s) =>
                 /\ page'[s] = page[s] /\ source'[s] = source[s] /\ tapCursor'[s] = tapCursor[s]
                 /\ sampleCursor'[s] = sampleCursor[s] /\ judged'[s] = judged[s] /\ seeds'[s] = seeds[s]
           /\ Shows(s) =>
                 /\ source'[s] = writer.view[s] /\ tapCursor'[s] = CursorAfter(s)
                 /\ sampleCursor'[s] = Shown(s).index
                 /\ page'[s] \in Input /\ page'[s].run = run
                 /\ judged'[s] \in [Taps -> 0 .. 2] /\ seeds'[s] \in 0 .. 2
                 /\ \A t \in Taps : judged'[s][t] > 0 =>
                       \/ t = TapOf(s)
                       \/ ~SourceChanged(s) /\ judged[s][t] > 0
                 /\ \A t \in Taps : judged'[s][t] > 1 => ~SourceChanged(s) /\ judged[s][t] > 0
                                                         /\ (t = TapOf(s) \/ judged[s][t] > 1)
                 /\ seeds'[s] > 1 => seeds[s] > 1 \/ (writer.first /\ seeds[s] > 0)
<1>0. /\ InputsTyped /\ SamplesOK /\ AnchorsOK /\ writer.pc = "releasing"
      /\ judged[s] \in [Taps -> 0 .. 2] /\ seeds[s] \in 0 .. 2 /\ page[s] \in Input
  BY DEF InputsInv, WriteRelease, InputsTyped
<1> DEFINE told == IF SourceChanged(s) THEN Untapped ELSE judged[s]
           seeded == IF SourceChanged(s) THEN 0 ELSE seeds[s]
<1>1. /\ page'[s] = IF Shows(s)
                    THEN [run |-> Shown(s).run, capture |-> TRUE,
                          beat |-> IF writer.first THEN FirstNote ELSE Shown(s).index]
                    ELSE page[s]
      /\ source'[s] = IF Shows(s) THEN writer.view[s] ELSE source[s]
      /\ tapCursor'[s] = IF Shows(s) THEN CursorAfter(s) ELSE tapCursor[s]
      /\ sampleCursor'[s] = IF Shows(s) THEN Shown(s).index ELSE sampleCursor[s]
      /\ judged'[s] = IF ~Shows(s) THEN judged[s]
                      ELSE [t \in Taps |-> IF TapOf(s) = t /\ told[t] < 2
                                           THEN told[t] + 1 ELSE told[t]]
      /\ seeds'[s] = IF Shows(s) /\ (writer.first \/ SourceChanged(s)) /\ seeded < 2
                     THEN seeded + 1 ELSE seeds[s]
  BY DEF WriteRelease
<1>2. told \in [Taps -> 0 .. 2] /\ seeded \in 0 .. 2
  BY <1>0 DEF Untapped
<1>3. CASE Shows(s)
  <2>1. /\ Shown(s).index \in 1 .. MaxNow /\ Shown(s).run = run /\ run \in 0 .. MaxRuns
        /\ FirstNote \in 0 .. MaxNow
    <3>1. /\ writer.view[s] \in Participant /\ Resolved(writer.view[s])
          /\ Shown(s).index \in 1 .. MaxNow /\ Shown(s).run = run
      BY <1>0, <1>3, ShownFacts
    <3>2. anchors[writer.view[s]].source >= FirstNote /\ anchors[writer.view[s]].source \in 0 .. MaxNow
      BY <1>0, <3>1 DEF InputsTyped, AnchorsOK, Resolved, Time
    <3> QED
      BY <1>0, <3>1, <3>2, Scale DEF InputsTyped
  <2>2. page'[s] \in Input /\ page'[s].run = run
    BY <1>1, <1>3, <2>1, Scale DEF Input
  <2>3. judged'[s] = [t \in Taps |-> IF TapOf(s) = t /\ told[t] < 2 THEN told[t] + 1 ELSE told[t]]
    BY <1>1, <1>3
  <2>4. ASSUME NEW t \in Taps
        PROVE  /\ judged'[s][t] \in 0 .. 2
               /\ judged'[s][t] > 0 => t = TapOf(s) \/ told[t] > 0
               /\ judged'[s][t] > 1 => told[t] > 0 /\ (t = TapOf(s) \/ told[t] > 1)
    <3>1. told[t] \in 0 .. 2
      BY <1>2
    <3> HIDE DEF told
    <3> QED
      BY <2>3, <3>1
  <2>5. \A t \in Taps : told[t] > 0 => ~SourceChanged(s) /\ told[t] = judged[s][t]
    BY DEF Untapped
  <2>6. judged'[s] \in [Taps -> 0 .. 2]
    BY <2>3, <2>4
  <2>7. seeds'[s] \in 0 .. 2 /\ (seeds'[s] > 1 => seeds[s] > 1 \/ (writer.first /\ seeds[s] > 0))
    BY <1>0, <1>1
  <2> HIDE DEF told, seeded
  <2> QED
    BY <1>1, <1>3, <2>2, <2>4, <2>5, <2>6, <2>7
<1>4. CASE ~Shows(s)
  BY <1>1, <1>4
<1> QED
  BY <1>3, <1>4

-----------------------------------------------------------------------------
(***************************************************************************)
(* Typing.                                                                 *)
(***************************************************************************)
LEMMA SourcesTyped == InputsInv /\ Sources => InputsTyped'
<1> SUFFICES ASSUME InputsInv, Sources
             PROVE  InputsTyped'
  OBVIOUS
<1> USE DEF InputsTyped
<1>0. InputsTyped
  BY DEF InputsInv
<1>1. CASE Advance
  BY <1>0, <1>1, Scale DEF Advance, Time, bufferVars, cursorVars, records
<1>2. ASSUME NEW p \in Participant, NEW i \in 1 .. MaxNow, PushSample(p, i)
      PROVE  InputsTyped'
  <2>1. [index |-> i, receipt |-> now, run |-> run] \in Sample
    BY <1>0 DEF Sample
  <2>2. samples' \in [Participant -> SUBSET Sample]
    BY <1>0, <1>2, <2>1 DEF PushSample
  <2> QED
    BY <1>0, <1>2, <2>2 DEF PushSample, cursorVars, records
<1>3. ASSUME NEW p \in Participant, PushAnchor(p)
      PROVE  InputsTyped'
  <2>1. NewAnchor \in Anchor /\ NoEpoch \in Epoch
    BY Scale DEF NewAnchor, NoAnchor, NoEpoch, Epoch
  <2>2. anchors' \in [Participant -> Anchor]
    BY <1>0, <1>3, <2>1 DEF PushAnchor
  <2>3. epoch' \in Epoch /\ rebuilt' \in BOOLEAN
    BY <1>0, <1>3, <2>1 DEF PushAnchor, ResetEpoch
  <2> QED
    BY <1>0, <1>3, <2>2, <2>3 DEF PushAnchor, cursorVars
<1>4. ASSUME NEW p \in Participant, NEW t \in Taps, PushTap(p, t)
      PROVE  InputsTyped'
  <2>1. taps' \in [Participant -> SUBSET Taps] /\ tardy' \subseteq Taps
    BY <1>0, <1>4 DEF PushTap
  <2> QED
    BY <1>0, <1>4, <2>1 DEF PushTap, cursorVars
<1> QED
  BY <1>1, <1>2, <1>3, <1>4 DEF Sources

LEMMA WriterTyped == InputsInv /\ Writer => InputsTyped'
<1> SUFFICES ASSUME InputsInv, Writer
             PROVE  InputsTyped'
  OBVIOUS
<1>0. InputsTyped
  BY DEF InputsInv
<1>1. Sleeping \in Pass
  BY Scale DEF Sleeping, WriterPc
<1>2. {"sleeping", "gated", "viewing", "warming", "releasing"} \subseteq WriterPc
  BY DEF WriterPc
<1>3. CASE CloneBarrier
  BY <1>0, <1>2, <1>3 DEF InputsTyped, CloneBarrier, bufferVars, cursorVars, records
<1>4. CASE ViewSlots
  <2>1. Fed(writer.gate) \in [Slot -> Participant \cup {Nobody}]
    BY <1>0 DEF InputsTyped, Fed
  <2>2. writer' \in Pass
    BY <1>0, <1>1, <1>2, <1>4, <2>1, Zenon DEF InputsTyped, ViewSlots
  <2> QED
    BY <1>0, <1>4, <2>2 DEF InputsTyped, ViewSlots, bufferVars, cursorVars, records
<1>5. CASE HoldBuffers
  <2>1. /\ anchors' \in [Participant -> Anchor]
        /\ epoch' \in Epoch /\ writer'.pc \in WriterPc
        /\ writer' = [writer EXCEPT !.pc = writer'.pc, !.at = epoch'.at, !.first = ~epoch'.released]
    BY <1>2, <1>5, HoldFacts
  <2>2. epoch'.at \in Nat /\ epoch'.released \in BOOLEAN
    BY <2>1 DEF Epoch
  <2>3. writer' \in Pass
    BY <1>0, <2>1, <2>2 DEF InputsTyped
  <2>4. rebuilt' \in BOOLEAN
    BY <1>0, <1>5 DEF InputsTyped, HoldBuffers
  <2> QED
    BY <1>0, <1>5, <2>1, <2>3, <2>4, Zenon DEF InputsTyped, HoldBuffers, cursorVars
<1>6. CASE WriteWarmup
  <2>1. page' \in [Slot -> Input] /\ source' \in [Slot -> Participant \cup {Nobody}]
    <3>1. /\ \A s \in Slot : page'[s] \in Input /\ source'[s] \in Participant \cup {Nobody}
      BY <1>0, <1>6, WarmFacts DEF InputsTyped
    <3>2. /\ page' = [s \in Slot |-> page'[s]] /\ source' = [s \in Slot |-> source'[s]]
      BY <1>6 DEF WriteWarmup
    <3> QED
      BY <3>1, <3>2
  <2> QED
    BY <1>0, <1>1, <1>6, <2>1 DEF InputsTyped, WriteWarmup, bufferVars, records
<1>7. CASE WriteRelease
  <2>0. writer.pc = "releasing"
    BY <1>7 DEF WriteRelease
  <2>1. ASSUME NEW s \in Slot
        PROVE  /\ page'[s] \in Input /\ source'[s] \in Participant \cup {Nobody}
               /\ tapCursor'[s] \in Time /\ sampleCursor'[s] \in Time
               /\ judged'[s] \in [Taps -> 0 .. 2] /\ seeds'[s] \in 0 .. 2
    <3>1. CASE Shows(s)
      <4>1. /\ writer.view[s] \in Participant /\ Shown(s).index \in Time
            /\ CursorAfter(s) \in Time
        BY <2>0, <3>1, ShownFacts, TapFacts, Scale DEF Time
      <4> QED
        BY <1>7, <3>1, <4>1, ReleaseFacts
    <3>2. CASE ~Shows(s)
      BY <1>0, <1>7, <3>2, ReleaseFacts DEF InputsTyped
    <3> QED
      BY <3>1, <3>2
  <2>2. /\ page' = [s \in Slot |-> page'[s]] /\ source' = [s \in Slot |-> source'[s]]
        /\ tapCursor' = [s \in Slot |-> tapCursor'[s]]
        /\ sampleCursor' = [s \in Slot |-> sampleCursor'[s]]
        /\ judged' = [s \in Slot |-> judged'[s]] /\ seeds' = [s \in Slot |-> seeds'[s]]
    BY <1>7 DEF WriteRelease
  <2>3. /\ page' \in [Slot -> Input] /\ source' \in [Slot -> Participant \cup {Nobody}]
        /\ tapCursor' \in [Slot -> Time] /\ sampleCursor' \in [Slot -> Time]
        /\ judged' \in [Slot -> [Taps -> 0 .. 2]] /\ seeds' \in [Slot -> 0 .. 2]
    BY <2>1, <2>2
  <2>4. epoch' \in Epoch
    <3>1. [epoch EXCEPT !.released = TRUE] \in Epoch
      BY <1>0 DEF InputsTyped, Epoch
    <3> QED
      BY <1>0, <1>7, <3>1 DEF InputsTyped, WriteRelease, MarkReleased
  <2>5. /\ writer' = Sleeping
        /\ UNCHANGED <<now, racing, slots, samples, anchors, taps, awaiting, op, run, parked, tardy,
                       rebuilt>>
    BY <1>7 DEF WriteRelease, bufferVars
  <2> QED
    BY <1>0, <1>1, <2>3, <2>4, <2>5 DEF InputsTyped
<1> QED
  BY <1>3, <1>4, <1>5, <1>6, <1>7 DEF Writer

LEMMA ControlsTyped == InputsInv /\ Controls => InputsTyped'
<1> SUFFICES ASSUME InputsInv, Controls
             PROVE  InputsTyped'
  OBVIOUS
<1> USE DEF InputsTyped
<1>0. InputsTyped /\ OpOK
  BY DEF InputsInv
<1>1. /\ {"idle", "begin_samples", "begin_anchors", "begin_cursors", "begin_pages", "begin_epoch",
          "assign", "launch", "reset", "stop", "drop"} \subseteq OpPc
      /\ Zero \in Input /\ NoEpoch \in Epoch
      /\ NoAnchor \in Anchor
      /\ Untapped \in [Taps -> 0 .. 2]
  BY Scale DEF OpPc, Zero, Input, NoEpoch, Epoch, NoAnchor, Untapped
<1>2. /\ NoOp \in Control
      /\ [NoOp EXCEPT !.calls = op.calls]
             \in Control
  BY <1>0, <1>1 DEF NoOp
<1>3. ASSUME NEW pc \in OpPc, NEW s \in Slot \cup {Nobody}, NEW who \in Participant \cup {Nobody}
      PROVE  /\ Call(pc, s, who) =>
                op' \in Control
             /\ [op EXCEPT !.pc = pc]
                   \in Control
             /\ [op EXCEPT !.slot = s]
                   \in Control
  <2>0. op \in Control
    BY <1>0
  <2>1. [op EXCEPT !.pc = pc] \in Control
    BY <2>0
  <2>2. [op EXCEPT !.slot = s] \in Control
    BY <2>0
  <2>3. ASSUME Call(pc, s, who)
        PROVE  op' \in Control
    <3>1. op' = [pc |-> pc, slot |-> s, who |-> who, calls |-> op.calls + 1] /\ op.calls + 1 \in Nat
      BY <2>0, <2>3 DEF Call
    <3> QED
      BY <3>1
  <2> QED
    BY <2>1, <2>2, <2>3
<1> USE <1>0, <1>1, <1>2, <1>3 DEF bufferVars, cursorVars, records, Return
<1>4. CASE BeginRun
  BY <1>4 DEF BeginRun
<1>5. CASE DropSamples
  <2>1. run' \in 0 .. MaxRuns /\ samples' \in [Participant -> SUBSET Sample]
    BY <1>5, Scale DEF DropSamples, OpOK
  <2> QED
    BY <1>5, <2>1 DEF DropSamples
<1>6. CASE DropAnchors
  BY <1>6 DEF DropAnchors
<1>7. CASE OpenBarrier
  BY <1>7, Scale DEF OpenBarrier
<1>8. CASE ZeroPages
  BY <1>8 DEF ZeroPages
<1>9. CASE DropEpoch
  <2>0. /\ judged' = [s \in Slot |-> Untapped] /\ seeds' = [s \in Slot |-> 0]
        /\ racing' = TRUE /\ rebuilt' = FALSE
    BY <1>9 DEF DropEpoch
  <2>1. /\ judged' \in [Slot -> [Taps -> 0 .. 2]] /\ seeds' \in [Slot -> 0 .. 2]
        /\ racing' \in BOOLEAN /\ rebuilt' \in BOOLEAN
    <3> HIDE <1>0, <1>1, <1>2, <1>3
    <3>1. racing' \in BOOLEAN /\ rebuilt' \in BOOLEAN
      BY <2>0, Zenon
    <3>2. judged' \in [Slot -> [Taps -> 0 .. 2]] /\ seeds' \in [Slot -> 0 .. 2]
      BY <1>1, <2>0
    <3> QED
      BY <3>1, <3>2
  <2> QED
    BY <1>9, <2>1 DEF DropEpoch
<1>10. CASE EndRun
  BY <1>10 DEF EndRun
<1>11. ASSUME NEW s \in Slot, NEW p \in Participant, Configure(s, p)
      PROVE  InputsTyped'
  BY <1>11, Scale DEF Configure, ForgetSlot, ResetEpoch
<1>12. ASSUME NEW s \in Slot, Relaunch(s)
      PROVE  InputsTyped'
  BY <1>12 DEF Relaunch
<1>13. ASSUME NEW s \in Slot, NEW who \in Participant \cup {Nobody}, StopSlot(s, who)
      PROVE  InputsTyped'
  BY <1>13 DEF StopSlot
<1>14. CASE Assign
  BY <1>14, Scale DEF Assign, OpOK
<1>15. CASE CloseBarrier
  BY <1>15, Scale DEF CloseBarrier, OpOK, Missed
<1>16. CASE StartChild
  BY <1>16, Scale DEF StartChild, OpOK, Missed
<1>17. CASE ForgetStopped
  <2>1. /\ source' \in [Slot -> Participant \cup {Nobody}] /\ tapCursor' \in [Slot -> Time]
        /\ sampleCursor' \in [Slot -> Time]
    BY <1>17, Scale DEF ForgetStopped, ForgetSlot
  <2>2. epoch' \in Epoch /\ rebuilt' \in BOOLEAN
    BY <1>17 DEF ForgetStopped, ResetEpoch
  <2>3. /\ slots' \in [Slot -> Participant \cup {Nobody}] /\ parked' \subseteq Slot
        /\ op' \in Control
    <3>1. CASE \E s \in Slot : op.who # Nobody /\ slots[s] = op.who
      <4> DEFINE s == CHOOSE s \in Slot : slots[s] = op.who
      <4>1. s \in Slot
        BY <3>1
      <4>2. /\ slots' = [slots EXCEPT ![s] = Nobody] /\ parked' = parked \ {s}
            /\ op' = [op EXCEPT !.slot = s]
        BY <1>17, <3>1 DEF ForgetStopped
      <4> HIDE DEF s
      <4> QED
        BY <4>1, <4>2
    <3>2. CASE ~(\E s \in Slot : op.who # Nobody /\ slots[s] = op.who)
      BY <1>17, <3>2 DEF ForgetStopped
    <3> QED
      BY <3>1, <3>2
  <2>4. /\ awaiting' \subseteq Slot
        /\ UNCHANGED <<now, racing, samples, anchors, taps, page, writer, run, judged, seeds, tardy>>
    BY <1>17 DEF ForgetStopped
  <2> HIDE <1>1, <1>2, <1>3
  <2> QED
    BY <2>1, <2>2, <2>3, <2>4
<1>18. CASE DropBuffers
  BY <1>18, Scale DEF DropBuffers, OpOK
<1> QED
  BY <1>4, <1>5, <1>6, <1>7, <1>8, <1>9, <1>10, <1>11, <1>12, <1>13, <1>14, <1>15, <1>16, <1>17,
     <1>18 DEF Controls

LEMMA InputsTypedStep == InputsInv /\ [InputsNext]_inputsVars => InputsTyped'
<1>1. InputsInv /\ UNCHANGED inputsVars => InputsTyped'
  BY DEF InputsInv, InputsTyped, inputsVars, bufferVars, cursorVars, records
<1> QED
  BY <1>1, SourcesTyped, WriterTyped, ControlsTyped DEF InputsNext

-----------------------------------------------------------------------------
(***************************************************************************)
(* What the buffers hold.                                                  *)
(***************************************************************************)
LEMMA SamplesStep == InputsInv /\ [InputsNext]_inputsVars => SamplesOK'
<1> SUFFICES ASSUME InputsInv, [InputsNext]_inputsVars
             PROVE  SamplesOK'
  OBVIOUS
<1>0. InputsTyped /\ SamplesOK
  BY DEF InputsInv
<1>1. CASE \/ Advance \/ (\E p \in Participant : PushAnchor(p))
             \/ (\E p \in Participant, t \in Taps : PushTap(p, t)) \/ CloneBarrier
             \/ ViewSlots \/ HoldBuffers \/ WriteWarmup \/ WriteRelease
  BY <1>0, <1>1 DEF Advance, PushAnchor, ResetEpoch, PushTap, CloneBarrier, ViewSlots,
     HoldBuffers, WriteWarmup, WriteRelease, SamplesOK, bufferVars, cursorVars, records
<1>2. CASE \/ BeginRun \/ DropAnchors \/ OpenBarrier \/ ZeroPages \/ DropEpoch \/ EndRun
             \/ (\E s \in Slot, p \in Participant : Configure(s, p))
             \/ (\E s \in Slot : Relaunch(s))
  BY <1>0, <1>2 DEF BeginRun, DropAnchors, OpenBarrier, ZeroPages, DropEpoch, Return, EndRun,
     Configure, Call, ForgetSlot, ResetEpoch, Relaunch, SamplesOK, bufferVars, cursorVars, records
<1>3. CASE \/ (\E s \in Slot, who \in Participant \cup {Nobody} : StopSlot(s, who))
             \/ Assign \/ CloseBarrier \/ StartChild \/ ForgetStopped
  BY <1>0, <1>3 DEF StopSlot, Call, Assign, Return, CloseBarrier, StartChild, ForgetStopped,
     ForgetSlot, ResetEpoch, SamplesOK, bufferVars, cursorVars, records
<1>4. ASSUME NEW p \in Participant, NEW i \in 1 .. MaxNow, PushSample(p, i)
      PROVE  SamplesOK'
  <2>1. \A r \in Participant : \A q \in samples'[r] :
           q \in samples[r] \/ (q.index = i /\ q.receipt = now /\ q.run = run)
    BY <1>0, <1>4 DEF PushSample, InputsTyped
  <2>2. run' = run /\ i <= now
    BY <1>0, <1>4, Scale DEF PushSample, records, InputsTyped, Time
  <2> QED
    BY <1>0, <2>1, <2>2 DEF SamplesOK
<1>5. CASE DropSamples
  BY <1>0, <1>5 DEF DropSamples, SamplesOK, bufferVars, cursorVars, records
<1>6. CASE DropBuffers
  <2>1. run' = run /\ \A r \in Participant : samples'[r] \subseteq samples[r]
    BY <1>0, <1>6 DEF DropBuffers, records, InputsTyped
  <2> QED
    BY <1>0, <2>1 DEF SamplesOK
<1>7. CASE UNCHANGED inputsVars
  BY <1>0, <1>7 DEF inputsVars, SamplesOK, bufferVars, cursorVars, records
<1> QED
  BY <1>1, <1>2, <1>3, <1>4, <1>5, <1>6, <1>7 DEF InputsNext, Sources, Writer, Controls

LEMMA OpStep == InputsInv /\ [InputsNext]_inputsVars => OpOK'
<1> SUFFICES ASSUME InputsInv, [InputsNext]_inputsVars
             PROVE  OpOK'
  OBVIOUS
<1>0. /\ OpOK /\ Nobody \notin Participant
      /\ op \in Control
  BY NobodyAssumption DEF InputsInv, InputsTyped
<1>1. CASE \/ Advance \/ (\E p \in Participant, i \in 1 .. MaxNow : PushSample(p, i))
             \/ (\E p \in Participant : PushAnchor(p))
             \/ (\E p \in Participant, t \in Taps : PushTap(p, t)) \/ CloneBarrier
             \/ ViewSlots \/ HoldBuffers \/ WriteWarmup \/ WriteRelease
  BY <1>0, <1>1 DEF Advance, PushSample, PushAnchor, ResetEpoch, PushTap, CloneBarrier, ViewSlots,
     HoldBuffers, WriteWarmup, WriteRelease, OpOK, NoOp, bufferVars, cursorVars, records
<1>2. CASE \/ BeginRun \/ DropSamples \/ DropAnchors
  BY <1>0, <1>2 DEF BeginRun, DropSamples, DropAnchors, OpOK, NoOp, bufferVars, cursorVars,
     records
<1>3. CASE \/ OpenBarrier \/ ZeroPages \/ DropEpoch
  BY <1>0, <1>3 DEF OpenBarrier, ZeroPages, DropEpoch, Return, OpOK, NoOp, bufferVars, cursorVars,
     records
<1>4. CASE \/ EndRun \/ (\E s \in Slot, p \in Participant : Configure(s, p))
             \/ (\E s \in Slot : Relaunch(s))
  BY <1>0, <1>4 DEF EndRun, Configure, Call, ForgetSlot, ResetEpoch, Relaunch, OpOK, NoOp,
     bufferVars, cursorVars, records
<1>5. CASE \/ (\E s \in Slot, who \in Participant \cup {Nobody} : StopSlot(s, who))
             \/ Assign \/ CloseBarrier
  BY <1>0, <1>5 DEF StopSlot, Call, Assign, Return, CloseBarrier, OpOK, NoOp, bufferVars,
     cursorVars, records
<1>6. CASE \/ StartChild \/ ForgetStopped \/ DropBuffers
  BY <1>0, <1>6 DEF StartChild, Return, ForgetStopped, ForgetSlot, ResetEpoch, DropBuffers, OpOK,
     NoOp, bufferVars, cursorVars, records
<1>7. CASE UNCHANGED inputsVars
  BY <1>0, <1>7 DEF inputsVars, OpOK, NoOp, bufferVars, cursorVars, records
<1> QED
  BY <1>1, <1>2, <1>3, <1>4, <1>5, <1>6, <1>7 DEF InputsNext, Sources, Writer, Controls

LEMMA AnchorsStep == InputsInv /\ [InputsNext]_inputsVars => AnchorsOK'
<1> SUFFICES ASSUME InputsInv, [InputsNext]_inputsVars
             PROVE  AnchorsOK'
  OBVIOUS
<1>0. /\ AnchorsOK /\ anchors \in [Participant -> Anchor]
      /\ op \in Control
  BY DEF InputsInv, InputsTyped
<1>1. CASE \/ Advance \/ (\E p \in Participant, i \in 1 .. MaxNow : PushSample(p, i))
             \/ (\E p \in Participant, t \in Taps : PushTap(p, t)) \/ CloneBarrier
             \/ ViewSlots \/ WriteWarmup \/ WriteRelease
  BY <1>0, <1>1 DEF Advance, PushSample, PushTap, CloneBarrier, ViewSlots, WriteWarmup,
     WriteRelease, AnchorsOK, NoAnchorSet, Beginning, NoOp, bufferVars, cursorVars, records
<1>2. CASE \/ BeginRun \/ DropSamples \/ OpenBarrier \/ ZeroPages
  BY <1>0, <1>2 DEF BeginRun, DropSamples, OpenBarrier, ZeroPages, AnchorsOK, NoAnchorSet,
     Beginning, NoOp, bufferVars, cursorVars, records
<1>3. CASE \/ DropEpoch \/ EndRun \/ (\E s \in Slot, p \in Participant : Configure(s, p))
             \/ (\E s \in Slot : Relaunch(s))
  BY <1>0, <1>3 DEF DropEpoch, Return, EndRun, Configure, Call, ForgetSlot, ResetEpoch, Relaunch,
     AnchorsOK, NoAnchorSet, Beginning, NoOp, bufferVars, cursorVars, records
<1>4. CASE \/ (\E s \in Slot, who \in Participant \cup {Nobody} : StopSlot(s, who))
             \/ Assign \/ CloseBarrier
  BY <1>0, <1>4 DEF StopSlot, Call, Assign, Return, CloseBarrier, AnchorsOK, NoAnchorSet,
     Beginning, NoOp, bufferVars, cursorVars, records
<1>5. CASE \/ StartChild \/ ForgetStopped
  BY <1>0, <1>5 DEF StartChild, Return, ForgetStopped, ForgetSlot, ResetEpoch, AnchorsOK,
     NoAnchorSet, Beginning, NoOp, bufferVars, cursorVars, records
<1>6. ASSUME NEW p \in Participant, PushAnchor(p)
      PROVE  AnchorsOK'
  <2>1. ~Beginning /\ racing /\ UNCHANGED <<racing, op>>
    BY <1>0, <1>6 DEF AnchorsOK, PushAnchor
  <2>2. \A r \in Participant : anchors'[r] = anchors[r] \/ anchors'[r].source = 0
    BY <1>0, <1>6 DEF PushAnchor, NewAnchor, NoAnchor
  <2>3. ~(0 > 0)
    OBVIOUS
  <2> QED
    BY <1>0, <2>1, <2>2, <2>3 DEF AnchorsOK, Beginning
<1>7. CASE HoldBuffers
  <2>1. \A p \in Participant :
           /\ anchors'[p].set = anchors[p].set
           /\ anchors'[p].source > 0 => /\ anchors'[p].set /\ anchors'[p].source >= FirstNote
                                        /\ anchors'[p].receipt >= FirstNote
    BY <1>7, HoldFacts
  <2>2. UNCHANGED <<op, racing>>
    BY <1>7 DEF HoldBuffers
  <2> QED
    BY <1>0, <2>1, <2>2 DEF AnchorsOK, NoAnchorSet, Beginning
<1>8. CASE DropAnchors
  <2>1. ~racing /\ \A p \in Participant : ~anchors'[p].set /\ ~(anchors'[p].source > 0)
    BY <1>0, <1>8 DEF DropAnchors, AnchorsOK, Beginning, NoAnchor
  <2> QED
    BY <1>0, <1>8, <2>1 DEF DropAnchors, AnchorsOK, NoAnchorSet, Beginning
<1>9. CASE DropBuffers
  <2>1. \A p \in Participant :
           anchors'[p] = anchors[p] \/ (~anchors'[p].set /\ ~(anchors'[p].source > 0))
    BY <1>0, <1>9 DEF DropBuffers, NoAnchor
  <2>2. op'.pc = "idle" /\ UNCHANGED racing
    BY <1>0, <1>9 DEF DropBuffers, Return, NoOp
  <2> QED
    BY <1>0, <2>1, <2>2 DEF AnchorsOK, Beginning
<1>10. CASE UNCHANGED inputsVars
  BY <1>0, <1>10 DEF inputsVars, AnchorsOK, NoAnchorSet, Beginning, NoOp, bufferVars, cursorVars,
     records
<1> QED
  BY <1>1, <1>2, <1>3, <1>4, <1>5, <1>6, <1>7, <1>8, <1>9, <1>10 DEF InputsNext, Sources, Writer,
     Controls

-----------------------------------------------------------------------------
(***************************************************************************)
(* Old input: what a run's pages hold, and what a parked child reads.      *)
(***************************************************************************)
LEMMA PagesStep == InputsInv /\ [InputsNext]_inputsVars => PagesOK'
<1> SUFFICES ASSUME InputsInv, [InputsNext]_inputsVars
             PROVE  PagesOK'
  OBVIOUS
<1>0. /\ PagesOK /\ OpOK /\ page \in [Slot -> Input]
      /\ op \in Control
  BY DEF InputsInv, InputsTyped
<1>1. CASE \/ Advance \/ (\E p \in Participant, i \in 1 .. MaxNow : PushSample(p, i))
             \/ (\E p \in Participant : PushAnchor(p))
             \/ (\E p \in Participant, t \in Taps : PushTap(p, t)) \/ CloneBarrier
             \/ ViewSlots \/ HoldBuffers
  BY <1>0, <1>1 DEF Advance, PushSample, PushAnchor, ResetEpoch, PushTap, CloneBarrier, ViewSlots,
     HoldBuffers, PagesOK, NoOp, bufferVars, cursorVars, records
<1>2. CASE \/ BeginRun \/ DropSamples \/ DropAnchors \/ OpenBarrier
  BY <1>0, <1>2 DEF BeginRun, DropSamples, DropAnchors, OpenBarrier, PagesOK, NoOp, bufferVars,
     cursorVars, records
<1>3. CASE \/ ZeroPages \/ DropEpoch \/ EndRun
  BY <1>0, <1>3 DEF ZeroPages, DropEpoch, Return, EndRun, PagesOK, NoOp, bufferVars, cursorVars,
     records
<1>4. CASE \/ (\E s \in Slot, p \in Participant : Configure(s, p))
             \/ (\E s \in Slot : Relaunch(s))
             \/ (\E s \in Slot, who \in Participant \cup {Nobody} : StopSlot(s, who))
             \/ Assign
  BY <1>0, <1>4 DEF Configure, Call, ForgetSlot, ResetEpoch, Relaunch, StopSlot, Assign, Return,
     PagesOK, NoOp, bufferVars, cursorVars, records
<1>5. CASE \/ CloseBarrier \/ StartChild \/ ForgetStopped \/ DropBuffers
  BY <1>0, <1>5 DEF CloseBarrier, StartChild, Return, ForgetStopped, ForgetSlot, ResetEpoch,
     DropBuffers, PagesOK, NoOp, bufferVars, cursorVars, records
<1>6. CASE WriteWarmup
  <2>1. \A s \in Slot : page'[s] = page[s] \/ page'[s].run = run
    BY <1>6, WarmFacts
  <2>2. UNCHANGED <<op, run>>
    BY <1>6 DEF WriteWarmup, records
  <2> QED
    BY <1>0, <2>1, <2>2 DEF PagesOK
<1>7. CASE WriteRelease
  <2>1. \A s \in Slot : page'[s] = page[s] \/ page'[s].run = run
    BY <1>7, ReleaseFacts
  <2>2. UNCHANGED <<op, run>>
    BY <1>7 DEF WriteRelease
  <2> QED
    BY <1>0, <2>1, <2>2 DEF PagesOK
<1>8. CASE UNCHANGED inputsVars
  BY <1>0, <1>8 DEF inputsVars, PagesOK, NoOp, bufferVars, cursorVars, records
<1> QED
  BY <1>1, <1>2, <1>3, <1>4, <1>5, <1>6, <1>7, <1>8 DEF InputsNext, Sources, Writer, Controls

LEMMA ParkedStep == InputsInv /\ [InputsNext]_inputsVars => ParkedOK'
<1> SUFFICES ASSUME InputsInv, [InputsNext]_inputsVars
             PROVE  ParkedOK'
  OBVIOUS
<1>0. /\ ParkedOK /\ OpOK /\ WriterOK /\ page \in [Slot -> Input] /\ parked \subseteq Slot
      /\ op \in Control
      /\ writer \in Pass
  BY DEF InputsInv, InputsTyped
<1>a. Nobody \notin Participant
  BY NobodyAssumption
<1>1. CASE \/ Advance \/ (\E p \in Participant, i \in 1 .. MaxNow : PushSample(p, i))
             \/ (\E p \in Participant : PushAnchor(p))
             \/ (\E p \in Participant, t \in Taps : PushTap(p, t))
  BY <1>0, <1>1 DEF Advance, PushSample, PushAnchor, ResetEpoch, PushTap, ParkedOK, Missed, NoOp,
     Sleeping, bufferVars, cursorVars, records
<1>2. CASE \/ HoldBuffers \/ BeginRun \/ DropSamples \/ DropAnchors
  BY <1>0, <1>2 DEF HoldBuffers, BeginRun, DropSamples, DropAnchors, ParkedOK, Missed, NoOp,
     Sleeping, bufferVars, cursorVars, records
<1>3. CASE \/ OpenBarrier \/ ZeroPages \/ DropEpoch \/ EndRun
  BY <1>0, <1>3 DEF OpenBarrier, ZeroPages, DropEpoch, Return, EndRun, ParkedOK, Missed, NoOp,
     Sleeping, bufferVars, cursorVars, records
<1>4. CASE \/ (\E s \in Slot, p \in Participant : Configure(s, p))
             \/ (\E s \in Slot : Relaunch(s)) \/ DropBuffers
  BY <1>0, <1>4 DEF Configure, Call, ForgetSlot, ResetEpoch, Relaunch, DropBuffers, Return,
     ParkedOK, Missed, NoOp, Sleeping, bufferVars, cursorVars, records
<1>5. CASE CloneBarrier
  BY <1>0, <1>5 DEF CloneBarrier, ParkedOK, Missed, NoOp, Sleeping, bufferVars, cursorVars,
     records
<1>6. CASE ViewSlots
  BY <1>0, <1>6 DEF ViewSlots, ParkedOK, Missed, NoOp, Sleeping, bufferVars, cursorVars, records
<1>7. CASE WriteWarmup
  <2>1. \A s \in parked : writer.view[s] \notin Participant
    BY <1>0, <1>a, <1>7 DEF ParkedOK, WriterOK, Viewed, Missed, WriteWarmup
  <2>2. \A s \in parked : page'[s] = page[s]
    BY <1>0, <1>7, <2>1, WarmFacts
  <2>3. /\ UNCHANGED <<awaiting, op>> /\ UNCHANGED parked /\ writer'.pc = "sleeping"
    BY <1>7 DEF WriteWarmup, records, Sleeping
  <2> QED
    BY <1>0, <2>2, <2>3 DEF ParkedOK, Missed
<1>8. CASE WriteRelease
  <2>0. writer.pc = "releasing"
    BY <1>8 DEF WriteRelease
  <2>1. \A s \in parked : ~Shows(s)
    BY <1>0, <2>0 DEF ParkedOK, WriterOK, Viewed, Missed, Shows
  <2>2. \A s \in parked : page'[s] = page[s]
    BY <1>0, <1>8, <2>1, ReleaseFacts
  <2>3. /\ UNCHANGED <<awaiting, op, parked>> /\ writer'.pc = "sleeping"
    BY <1>8 DEF WriteRelease, Sleeping
  <2> QED
    BY <1>0, <2>2, <2>3 DEF ParkedOK, Missed
<1>9. ASSUME NEW s \in Slot, NEW who \in Participant \cup {Nobody}, StopSlot(s, who)
      PROVE  ParkedOK'
  BY <1>0, <1>9 DEF StopSlot, Call, ParkedOK, Missed, NoOp, Sleeping, bufferVars, cursorVars,
     records
<1>10. CASE Assign
  BY <1>0, <1>10 DEF Assign, Return, ParkedOK, Missed, NoOp, Sleeping, bufferVars, cursorVars,
     records
<1>11. CASE CloseBarrier
  BY <1>0, <1>11 DEF CloseBarrier, ParkedOK, Missed, NoOp, Sleeping, bufferVars, cursorVars,
     records
<1>12. CASE StartChild
  <2>1. op.pc = "reset" /\ op.slot \in awaiting /\ op.slot \in Slot
    BY <1>0, <1>12 DEF StartChild, ParkedOK, OpOK
  <2>2. op'.pc = "idle" /\ UNCHANGED <<awaiting, writer>>
    BY <1>12 DEF StartChild, Return, NoOp
  <2>3. page' = [page EXCEPT ![op.slot] = Zero]
    BY <1>12 DEF StartChild
  <2>4. \A s \in parked' : s \in parked \/ (s = op.slot /\ ~Missed(s))
    BY <1>12 DEF StartChild
  <2>5. \A s \in parked' : page'[s] = Zero /\ s \in awaiting /\ ~Missed(s)
    BY <1>0, <2>1, <2>3, <2>4 DEF ParkedOK
  <2> QED
    BY <2>2, <2>5 DEF ParkedOK, Missed
<1>13. CASE ForgetStopped
  <2>0. op.pc = "stop" /\ op.slot \notin parked /\ awaiting' = awaiting \ {op.slot}
    BY <1>0, <1>13 DEF ForgetStopped, ParkedOK
  <2>1. UNCHANGED <<page, writer>>
    BY <1>13 DEF ForgetStopped
  <2>2. \/ \E s \in Slot : op' = [op EXCEPT !.slot = s] /\ parked' = parked \ {s}
        \/ op'.pc \in {"idle", "drop"} /\ parked' = parked
    <3>1. CASE \E s \in Slot : op.who # Nobody /\ slots[s] = op.who
      <4> DEFINE s == CHOOSE s \in Slot : slots[s] = op.who
      <4>1. s \in Slot
        BY <3>1
      <4>2. op' = [op EXCEPT !.slot = s] /\ parked' = parked \ {s}
        BY <1>13, <3>1 DEF ForgetStopped
      <4> HIDE DEF s
      <4> QED
        BY <4>1, <4>2
    <3>2. CASE ~(\E s \in Slot : op.who # Nobody /\ slots[s] = op.who)
      BY <1>0, <1>13, <3>2 DEF ForgetStopped, Return, NoOp
    <3> QED
      BY <3>1, <3>2
  <2> QED
    BY <1>0, <2>0, <2>1, <2>2 DEF ParkedOK, Missed
<1>14. CASE UNCHANGED inputsVars
  BY <1>0, <1>14 DEF inputsVars, ParkedOK, Missed, NoOp, Sleeping, bufferVars, cursorVars, records
<1> QED
  BY <1>1, <1>2, <1>3, <1>4, <1>5, <1>6, <1>7, <1>8, <1>9, <1>10, <1>11, <1>12, <1>13,
     <1>14 DEF InputsNext, Sources, Writer, Controls

-----------------------------------------------------------------------------
(***************************************************************************)
(* The release: the epoch, and the pass that marks it.                     *)
(***************************************************************************)
LEMMA EpochStep == InputsInv /\ [InputsNext]_inputsVars => EpochOK'
<1> SUFFICES ASSUME InputsInv, [InputsNext]_inputsVars
             PROVE  EpochOK'
  OBVIOUS
<1>0. /\ EpochOK /\ WriterOK /\ epoch \in Epoch
      /\ writer \in Pass
  BY DEF InputsInv, InputsTyped
<1>a. /\ now \in Nat /\ writer.time \in Nat /\ writer.at \in Nat /\ epoch.at \in Nat
      /\ writer.time <= now
  BY Scale DEF InputsInv, InputsTyped, WriterOK, Epoch
<1>1. CASE \/ (\E p \in Participant, i \in 1 .. MaxNow : PushSample(p, i))
             \/ (\E p \in Participant : PushAnchor(p))
             \/ (\E p \in Participant, t \in Taps : PushTap(p, t))
  BY <1>0, <1>1 DEF PushSample, PushAnchor, ResetEpoch, PushTap, EpochOK, Clock, Viewed, NoEpoch,
     bufferVars, cursorVars, records
<1>2. CASE \/ BeginRun \/ DropSamples \/ DropAnchors
  BY <1>0, <1>2 DEF BeginRun, DropSamples, DropAnchors, EpochOK, Clock, Viewed, NoEpoch,
     bufferVars, cursorVars, records
<1>3. CASE \/ OpenBarrier \/ ZeroPages \/ DropEpoch \/ EndRun
  BY <1>0, <1>3 DEF OpenBarrier, ZeroPages, DropEpoch, Return, EndRun, EpochOK, Clock, Viewed,
     NoEpoch, bufferVars, cursorVars, records
<1>4. CASE \/ (\E s \in Slot, p \in Participant : Configure(s, p))
             \/ (\E s \in Slot : Relaunch(s))
             \/ (\E s \in Slot, who \in Participant \cup {Nobody} : StopSlot(s, who))
             \/ Assign
  BY <1>0, <1>4 DEF Configure, Call, ForgetSlot, ResetEpoch, Relaunch, StopSlot, Assign, Return,
     EpochOK, Clock, Viewed, NoEpoch, bufferVars, cursorVars, records
<1>5. CASE \/ CloseBarrier \/ StartChild \/ ForgetStopped \/ DropBuffers
  BY <1>0, <1>5 DEF CloseBarrier, StartChild, Return, ForgetStopped, ForgetSlot, ResetEpoch,
     DropBuffers, EpochOK, Clock, Viewed, NoEpoch, bufferVars, cursorVars, records
<1>6. CASE Advance
  <2>1. writer' = writer /\ epoch' = epoch /\ now' = now + 1
    BY <1>6 DEF Advance
  <2> QED
    BY <1>0, <1>a, <2>1 DEF EpochOK, Clock, Viewed
<1>7. CASE CloneBarrier
  <2>1. writer.pc = "sleeping" /\ writer'.pc = "gated" /\ epoch' = epoch /\ now' = now
    BY <1>0, <1>7 DEF CloneBarrier
  <2> QED
    BY <1>0, <2>1 DEF EpochOK, Clock, Viewed
<1>8. CASE ViewSlots
  <2>1. /\ writer.pc = "gated" /\ epoch' = epoch /\ now' = now
        /\ \/ writer'.pc = "sleeping"
           \/ writer'.pc = "viewing" /\ writer'.time = now
    BY <1>0, <1>8 DEF ViewSlots, Sleeping
  <2> QED
    BY <1>0, <2>1 DEF EpochOK, Clock, Viewed
<1>9. CASE HoldBuffers
  <2>1. /\ epoch' # NoEpoch => epoch'.at \in FirstNote + Delay .. MaxNow + Delay
        /\ epoch' = epoch \/ ~epoch'.released
    BY <1>9, HoldFacts
  <2>2. writer'.pc \in {"warming", "releasing"} /\ writer'.time = writer.time /\ now' = now
        /\ writer.pc = "viewing"
    BY <1>0, <1>9 DEF HoldBuffers
  <2> QED
    BY <1>0, <2>1, <2>2 DEF EpochOK, Clock, Viewed
<1>10. CASE WriteWarmup
  <2>1. writer.pc = "warming" /\ writer'.pc = "sleeping" /\ epoch' = epoch /\ now' = now
    BY <1>10 DEF WriteWarmup, Sleeping
  <2> QED
    BY <1>0, <1>a, <2>1 DEF EpochOK, Clock, Viewed
<1>11. CASE WriteRelease
  <2>1. /\ writer.pc = "releasing" /\ writer'.pc = "sleeping" /\ now' = now
        /\ epoch' = MarkReleased /\ writer.time >= writer.at
    BY <1>0, <1>11 DEF WriteRelease, Sleeping, WriterOK
  <2>2. \/ epoch' = epoch
        \/ epoch # NoEpoch /\ epoch'.at = epoch.at /\ epoch.at = writer.at
    BY <1>0, <2>1 DEF MarkReleased, Epoch
  <2>3. epoch.at \in Nat
    BY <1>0 DEF Epoch
  <2> QED
    BY <1>0, <1>a, <2>1, <2>2, <2>3 DEF EpochOK, Clock, Viewed
<1>12. CASE UNCHANGED inputsVars
  BY <1>0, <1>12 DEF inputsVars, EpochOK, Clock, Viewed, NoEpoch, bufferVars, cursorVars, records
<1> QED
  BY <1>1, <1>2, <1>3, <1>4, <1>5, <1>6, <1>7, <1>8, <1>9, <1>10, <1>11, <1>12 DEF InputsNext,
     Sources, Writer, Controls

LEMMA WriterStep == InputsInv /\ [InputsNext]_inputsVars => WriterOK'
<1> SUFFICES ASSUME InputsInv, [InputsNext]_inputsVars
             PROVE  WriterOK'
  OBVIOUS
<1>0. /\ EpochOK /\ WriterOK /\ AnchorsOK /\ epoch \in Epoch
      /\ writer \in Pass
  BY DEF InputsInv, InputsTyped
<1>a. /\ now \in Nat /\ writer.time \in Nat /\ writer.at \in Nat /\ epoch.at \in Nat
      /\ writer.time <= now
  BY Scale DEF InputsInv, InputsTyped, WriterOK, Epoch
<1>1. CASE \/ (\E p \in Participant, i \in 1 .. MaxNow : PushSample(p, i))
             \/ (\E p \in Participant, t \in Taps : PushTap(p, t))
  BY <1>0, <1>1 DEF PushSample, PushTap, WriterOK, Viewed, NoAnchorSet, bufferVars, cursorVars,
     records
<1>2. CASE \/ BeginRun \/ DropSamples
  BY <1>0, <1>2 DEF BeginRun, DropSamples, WriterOK, Viewed, NoAnchorSet, bufferVars, cursorVars,
     records
<1>3. CASE \/ OpenBarrier \/ ZeroPages \/ EndRun
  BY <1>0, <1>3 DEF OpenBarrier, ZeroPages, EndRun, WriterOK, Viewed, NoAnchorSet, bufferVars,
     cursorVars, records
<1>4. CASE \/ (\E s \in Slot : Relaunch(s))
             \/ (\E s \in Slot, who \in Participant \cup {Nobody} : StopSlot(s, who))
             \/ Assign
  BY <1>0, <1>4 DEF Relaunch, Call, StopSlot, Assign, Return, WriterOK, Viewed, NoAnchorSet,
     bufferVars, cursorVars, records
<1>5. CASE \/ CloseBarrier \/ StartChild
  BY <1>0, <1>5 DEF CloseBarrier, StartChild, Return, WriterOK, Viewed, NoAnchorSet, bufferVars,
     cursorVars, records
<1>6. CASE Advance
  <2>1. /\ now' = now + 1
        /\ UNCHANGED <<writer, epoch, rebuilt, anchors>>
    BY <1>6 DEF Advance, bufferVars, records
  <2> QED
    BY <1>0, <1>a, <2>1 DEF WriterOK, Viewed, NoAnchorSet
<1>7. ASSUME NEW p \in Participant, PushAnchor(p)
      PROVE  WriterOK'
  <2>1. BuffersFree /\ writer' = writer /\ epoch' = NoEpoch /\ now' = now
    BY <1>7 DEF PushAnchor, ResetEpoch
  <2> QED
    BY <1>0, <2>1 DEF WriterOK, Viewed, BuffersFree
<1>8. CASE CloneBarrier
  <2>1. writer'.pc = "gated" /\ writer'.time = writer.time /\ now' = now
    BY <1>0, <1>8 DEF CloneBarrier
  <2> QED
    BY <1>0, <2>1 DEF WriterOK, Viewed
<1>9. CASE ViewSlots
  <2>1. now' = now /\ writer.pc = "gated"
    BY <1>9 DEF ViewSlots
  <2>2. CASE CohortOf(Fed(writer.gate)) = {}
    <3>1. writer'.pc = "sleeping" /\ writer'.time = 0
      BY <1>9, <2>2 DEF ViewSlots, Sleeping
    <3> QED
      BY <1>a, <2>1, <3>1 DEF WriterOK, Viewed
  <2>3. CASE CohortOf(Fed(writer.gate)) # {}
    <3>1. /\ writer'.pc = "viewing" /\ writer'.time = now /\ writer'.gate = writer.gate
          /\ writer'.view = Fed(writer.gate)
      BY <1>0, <1>9, <2>3 DEF ViewSlots
    <3>2. \A s \in writer.gate : Fed(writer.gate)[s] = Nobody
      BY <1>0 DEF Fed
    <3> QED
      BY <1>a, <2>1, <2>3, <3>1, <3>2 DEF WriterOK, Viewed
  <2> QED
    BY <2>2, <2>3
<1>10. CASE HoldBuffers
  <2>1. /\ writer'.pc \in {"warming", "releasing"}
        /\ writer'.pc = "releasing" => epoch' # NoEpoch /\ ~(writer.time < epoch'.at)
        /\ writer'.pc = "warming" => epoch' = NoEpoch \/ writer.time < epoch'.at
        /\ writer' = [writer EXCEPT !.pc = writer'.pc, !.at = epoch'.at, !.first = ~epoch'.released]
        /\ epoch' \in Epoch /\ (epoch' = epoch \/ ~epoch'.released)
    BY <1>10, HoldFacts
  <2>2. /\ writer'.time = writer.time /\ writer'.gate = writer.gate /\ writer'.view = writer.view
        /\ writer'.at = epoch'.at /\ writer'.first = ~epoch'.released
    BY <1>0, <2>1
  <2>3. now' = now /\ writer.pc = "viewing" /\ Clock = writer.time
    BY <1>10 DEF HoldBuffers, Clock, Viewed
  <2>4. writer'.pc = "warming" => ~epoch'.released
    <3>1. CASE epoch' = epoch
      BY <1>0, <1>a, <2>1, <2>3, <3>1 DEF EpochOK, NoEpoch
    <3>2. CASE ~epoch'.released
      BY <3>2
    <3> QED
      BY <2>1, <3>1, <3>2
  <2>5. writer'.pc = "releasing" => writer'.time >= writer'.at
    BY <1>a, <2>1, <2>2 DEF Epoch
  <2> QED
    BY <1>0, <2>1, <2>2, <2>3, <2>4, <2>5 DEF WriterOK, Viewed
<1>11. CASE WriteWarmup
  <2>1. writer'.pc = "sleeping" /\ writer'.time = 0 /\ now' = now
    BY <1>11 DEF WriteWarmup, Sleeping
  <2> QED
    BY <1>a, <2>1 DEF WriterOK, Viewed
<1>12. CASE WriteRelease
  <2>1. writer'.pc = "sleeping" /\ writer'.time = 0 /\ now' = now
    BY <1>12 DEF WriteRelease, Sleeping
  <2> QED
    BY <1>a, <2>1 DEF WriterOK, Viewed
<1>13. CASE DropAnchors
  <2>1. BuffersFree /\ UNCHANGED <<writer, now>>
    BY <1>13 DEF DropAnchors
  <2> QED
    BY <1>0, <2>1 DEF WriterOK, Viewed, BuffersFree
<1>14. CASE DropBuffers
  <2>1. BuffersFree /\ UNCHANGED <<writer, now>>
    BY <1>14 DEF DropBuffers
  <2> QED
    BY <1>0, <2>1 DEF WriterOK, Viewed, BuffersFree
<1>15. CASE DropEpoch
  <2>1. NoAnchorSet /\ UNCHANGED <<writer, now, anchors>> /\ epoch' = NoEpoch
    BY <1>0, <1>15 DEF DropEpoch, AnchorsOK, bufferVars
  <2> QED
    BY <1>0, <2>1 DEF WriterOK, Viewed, NoEpoch, NoAnchorSet
<1>16. ASSUME NEW s \in Slot, NEW p \in Participant, Configure(s, p)
      PROVE  WriterOK'
  <2>1. UNCHANGED <<writer, now>> /\ epoch' = NoEpoch /\ (writer.pc = "releasing" => rebuilt')
    BY <1>16 DEF Configure, ResetEpoch
  <2> QED
    BY <1>0, <2>1 DEF WriterOK, Viewed, NoEpoch
<1>17. CASE ForgetStopped
  <2>1. UNCHANGED <<writer, now>> /\ epoch' = NoEpoch /\ (writer.pc = "releasing" => rebuilt')
    BY <1>17 DEF ForgetStopped, ResetEpoch
  <2> QED
    BY <1>0, <2>1 DEF WriterOK, Viewed, NoEpoch
<1>18. CASE UNCHANGED inputsVars
  BY <1>0, <1>18 DEF inputsVars, WriterOK, Viewed, NoAnchorSet, bufferVars, cursorVars, records
<1> QED
  BY <1>1, <1>2, <1>3, <1>4, <1>5, <1>6, <1>7, <1>8, <1>9, <1>10, <1>11, <1>12, <1>13, <1>14,
     <1>15, <1>16, <1>17, <1>18 DEF InputsNext, Sources, Writer, Controls

\* A pass that shows a slot marks the epoch it took its clock from.
LEMMA MarkFacts ==
    ASSUME InputsInv, WriteRelease
    PROVE  /\ epoch.released => epoch'.released
           /\ epoch'.at = epoch.at
           /\ rebuilt' = rebuilt /\ op' = op /\ tardy' = tardy
           /\ \A s \in Slot : Shows(s) =>
                 /\ op.pc \notin {"begin_cursors", "begin_pages", "begin_epoch"}
                 /\ ~rebuilt => /\ epoch'.released /\ epoch.at = writer.at
                                /\ writer.first = ~epoch.released
<1>0. /\ WriterOK /\ AnchorsOK /\ epoch \in Epoch /\ writer.pc = "releasing"
      /\ epoch' = MarkReleased /\ rebuilt' = rebuilt /\ op' = op /\ tardy' = tardy
  BY DEF InputsInv, InputsTyped, WriteRelease
<1>1. epoch' = epoch \/ epoch' = [epoch EXCEPT !.released = TRUE]
  BY <1>0 DEF MarkReleased
<1>2. (epoch.released => epoch'.released) /\ epoch'.at = epoch.at
  BY <1>0, <1>1 DEF Epoch
<1>3. ASSUME NEW s \in Slot, Shows(s)
      PROVE  /\ op.pc \notin {"begin_cursors", "begin_pages", "begin_epoch"}
             /\ ~rebuilt => /\ epoch'.released /\ epoch.at = writer.at
                            /\ writer.first = ~epoch.released
  <2>1. ~NoAnchorSet
    BY <1>0, <1>3, ShownFacts DEF NoAnchorSet
  <2>2. op.pc \notin {"begin_cursors", "begin_pages", "begin_epoch"}
    BY <1>0, <2>1 DEF AnchorsOK
  <2>3. ASSUME ~rebuilt
        PROVE  /\ epoch'.released /\ epoch.at = writer.at /\ writer.first = ~epoch.released
    <3>1. epoch # NoEpoch /\ epoch.at = writer.at /\ writer.first = ~epoch.released
      BY <1>0, <2>1, <2>3 DEF WriterOK
    <3>2. epoch' = [epoch EXCEPT !.released = TRUE]
      BY <1>0, <3>1 DEF MarkReleased
    <3> QED
      BY <1>0, <3>1, <3>2 DEF Epoch
  <2> QED
    BY <2>2, <2>3
<1> QED
  BY <1>0, <1>2, <1>3

LEMMA SeedsStep == InputsInv /\ [InputsNext]_inputsVars => SeedsOK'
<1> SUFFICES ASSUME InputsInv, [InputsNext]_inputsVars
             PROVE  SeedsOK'
  OBVIOUS
<1>0. SeedsOK /\ seeds \in [Slot -> 0 .. 2]
  BY DEF InputsInv, InputsTyped
<1>1. CASE \/ Advance \/ (\E p \in Participant, i \in 1 .. MaxNow : PushSample(p, i))
             \/ (\E p \in Participant, t \in Taps : PushTap(p, t))
  BY <1>0, <1>1 DEF Advance, PushSample, PushTap, SeedsOK, bufferVars, cursorVars, records
<1>2. CASE \/ CloneBarrier \/ ViewSlots \/ WriteWarmup
  BY <1>0, <1>2 DEF CloneBarrier, ViewSlots, WriteWarmup, SeedsOK, bufferVars, cursorVars, records
<1>3. CASE \/ BeginRun \/ DropSamples \/ DropAnchors
  BY <1>0, <1>3 DEF BeginRun, DropSamples, DropAnchors, SeedsOK, bufferVars, cursorVars, records
<1>4. CASE \/ OpenBarrier \/ ZeroPages \/ EndRun
  BY <1>0, <1>4 DEF OpenBarrier, ZeroPages, EndRun, SeedsOK, bufferVars, cursorVars, records
<1>5. CASE \/ (\E s \in Slot : Relaunch(s))
             \/ (\E s \in Slot, who \in Participant \cup {Nobody} : StopSlot(s, who))
             \/ Assign
  BY <1>0, <1>5 DEF Relaunch, Call, StopSlot, Assign, Return, SeedsOK, bufferVars, cursorVars,
     records
<1>6. CASE \/ CloseBarrier \/ StartChild \/ DropBuffers
  BY <1>0, <1>6 DEF CloseBarrier, StartChild, Return, DropBuffers, SeedsOK, bufferVars,
     cursorVars, records
<1>7. ASSUME NEW p \in Participant, PushAnchor(p)
      PROVE  SeedsOK'
  <2>1. ~rebuilt' => ~rebuilt /\ ~epoch.released
    BY <1>7 DEF PushAnchor, ResetEpoch
  <2>2. UNCHANGED seeds
    BY <1>7 DEF PushAnchor
  <2> QED
    BY <1>0, <2>1, <2>2 DEF SeedsOK
<1>8. ASSUME NEW s \in Slot, NEW p \in Participant, Configure(s, p)
      PROVE  SeedsOK'
  <2>1. ~rebuilt' => ~rebuilt /\ ~epoch.released
    BY <1>8 DEF Configure, ResetEpoch
  <2>2. UNCHANGED seeds
    BY <1>8 DEF Configure
  <2> QED
    BY <1>0, <2>1, <2>2 DEF SeedsOK
<1>9. CASE ForgetStopped
  <2>1. ~rebuilt' => ~rebuilt /\ ~epoch.released
    BY <1>9 DEF ForgetStopped, ResetEpoch
  <2>2. UNCHANGED seeds
    BY <1>9 DEF ForgetStopped
  <2> QED
    BY <1>0, <2>1, <2>2 DEF SeedsOK
<1>10. CASE HoldBuffers
  <2>1. /\ epoch' = epoch \/ (epoch.released => rebuilt')
        /\ rebuilt => rebuilt'
    BY <1>10, HoldFacts
  <2>2. UNCHANGED seeds
    BY <1>10 DEF HoldBuffers
  <2> QED
    BY <1>0, <2>1, <2>2 DEF SeedsOK
<1>11. CASE DropEpoch
  <2>1. \A s \in Slot : seeds'[s] = 0
    BY <1>11 DEF DropEpoch
  <2> QED
    BY <2>1 DEF SeedsOK
<1>12. CASE WriteRelease
  <2> SUFFICES ASSUME ~rebuilt, NEW s \in Slot
               PROVE  seeds'[s] < 2 /\ (seeds'[s] > 0 => epoch'.released)
    BY <1>12, MarkFacts DEF SeedsOK
  <2>1. seeds[s] \in 0 .. 2 /\ seeds[s] < 2 /\ (seeds[s] > 0 => epoch.released)
    BY <1>0 DEF SeedsOK
  <2>2. CASE Shows(s)
    <3>1. epoch'.released /\ (writer.first => ~epoch.released)
      BY <1>12, <2>2, MarkFacts
    <3>2. seeds'[s] \in 0 .. 2 /\ (seeds'[s] > 1 => seeds[s] > 1 \/ (writer.first /\ seeds[s] > 0))
      BY <1>12, <2>2, ReleaseFacts
    <3>3. ~(writer.first /\ seeds[s] > 0) /\ ~(seeds[s] > 1)
      BY <2>1, <3>1
    <3>4. ~(seeds'[s] > 1)
      BY <3>2, <3>3
    <3>5. seeds'[s] < 2
      BY <3>2, <3>4
    <3> QED
      BY <3>1, <3>5
  <2>3. CASE ~Shows(s)
    BY <1>12, <2>1, <2>3, MarkFacts, ReleaseFacts
  <2> QED
    BY <2>2, <2>3
<1>13. CASE UNCHANGED inputsVars
  BY <1>0, <1>13 DEF inputsVars, SeedsOK, bufferVars, cursorVars, records
<1> QED
  BY <1>1, <1>2, <1>3, <1>4, <1>5, <1>6, <1>7, <1>8, <1>9, <1>10, <1>11, <1>12,
     <1>13 DEF InputsNext, Sources, Writer, Controls

LEMMA CursorsStep == InputsInv /\ [InputsNext]_inputsVars => CursorsOK'
<1> SUFFICES ASSUME InputsInv, [InputsNext]_inputsVars
             PROVE  CursorsOK'
  OBVIOUS
<1>0. /\ CursorsOK /\ sampleCursor \in [Slot -> Time]
      /\ op \in Control
  BY DEF InputsInv, InputsTyped
<1>1. CASE \/ Advance \/ (\E p \in Participant, i \in 1 .. MaxNow : PushSample(p, i))
             \/ (\E p \in Participant, t \in Taps : PushTap(p, t))
  BY <1>0, <1>1 DEF Advance, PushSample, PushTap, CursorsOK, NoOp, bufferVars, cursorVars, records
<1>2. CASE \/ CloneBarrier \/ ViewSlots \/ WriteWarmup
  BY <1>0, <1>2 DEF CloneBarrier, ViewSlots, WriteWarmup, CursorsOK, NoOp, bufferVars, cursorVars,
     records
<1>3. CASE \/ BeginRun \/ DropSamples \/ DropAnchors
  BY <1>0, <1>3 DEF BeginRun, DropSamples, DropAnchors, CursorsOK, NoOp, bufferVars, cursorVars,
     records
<1>4. CASE \/ OpenBarrier \/ ZeroPages \/ EndRun
  BY <1>0, <1>4 DEF OpenBarrier, ZeroPages, EndRun, CursorsOK, NoOp, bufferVars, cursorVars,
     records
<1>5. CASE \/ (\E s \in Slot : Relaunch(s))
             \/ (\E s \in Slot, who \in Participant \cup {Nobody} : StopSlot(s, who))
             \/ Assign
  BY <1>0, <1>5 DEF Relaunch, Call, StopSlot, Assign, Return, CursorsOK, NoOp, bufferVars,
     cursorVars, records
<1>6. CASE \/ CloseBarrier \/ StartChild \/ DropBuffers
  BY <1>0, <1>6 DEF CloseBarrier, StartChild, Return, DropBuffers, CursorsOK, NoOp, bufferVars,
     cursorVars, records
<1>7. ASSUME NEW p \in Participant, PushAnchor(p)
      PROVE  CursorsOK'
  <2>1. ~rebuilt' => ~rebuilt /\ ~epoch.released
    BY <1>7 DEF PushAnchor, ResetEpoch
  <2>2. \A r \in Slot : sampleCursor'[r] = sampleCursor[r] \/ sampleCursor'[r] = 0
    BY <1>0, <1>7 DEF PushAnchor, ForgetSlot, cursorVars
  <2>3. op'.pc \in {"begin_pages", "begin_epoch"} => op.pc = op'.pc
    BY <1>0, <1>7 DEF PushAnchor, Call, Return, NoOp
  <2> QED
    BY <1>0, <2>1, <2>2, <2>3 DEF CursorsOK
<1>8. ASSUME NEW s \in Slot, NEW p \in Participant, Configure(s, p)
      PROVE  CursorsOK'
  <2>1. ~rebuilt' => ~rebuilt /\ ~epoch.released
    BY <1>8 DEF Configure, ResetEpoch
  <2>2. \A r \in Slot : sampleCursor'[r] = sampleCursor[r] \/ sampleCursor'[r] = 0
    BY <1>0, <1>8 DEF Configure, ForgetSlot, cursorVars
  <2>3. op'.pc \in {"begin_pages", "begin_epoch"} => op.pc = op'.pc
    BY <1>0, <1>8 DEF Configure, Call, Return, NoOp
  <2> QED
    BY <1>0, <2>1, <2>2, <2>3 DEF CursorsOK
<1>9. CASE ForgetStopped
  BY <1>0, <1>9 DEF ForgetStopped, ForgetSlot, ResetEpoch, Return, CursorsOK, NoOp, bufferVars,
     cursorVars, records
<1>10. CASE HoldBuffers
  <2>1. /\ epoch' = epoch \/ (epoch.released => rebuilt')
        /\ rebuilt => rebuilt'
    BY <1>10, HoldFacts
  <2>2. UNCHANGED <<op, sampleCursor>>
    BY <1>10 DEF HoldBuffers, cursorVars
  <2> QED
    BY <1>0, <2>1, <2>2 DEF CursorsOK
<1>11. CASE DropEpoch
  <2>1. op.pc = "begin_epoch" /\ UNCHANGED sampleCursor
    BY <1>11 DEF DropEpoch, cursorVars
  <2> QED
    BY <1>0, <2>1 DEF CursorsOK
<1>12. CASE WriteRelease
  <2>1. /\ rebuilt' = rebuilt /\ op' = op /\ (epoch.released => epoch'.released)
        /\ \A s \in Slot : Shows(s) =>
              op.pc \notin {"begin_pages", "begin_epoch"} /\ (~rebuilt => epoch'.released)
    BY <1>12, MarkFacts
  <2>2. \A s \in Slot : ~Shows(s) => sampleCursor'[s] = sampleCursor[s]
    BY <1>12, ReleaseFacts
  <2> QED
    BY <1>0, <2>1, <2>2 DEF CursorsOK
<1>13. CASE UNCHANGED inputsVars
  BY <1>0, <1>13 DEF inputsVars, CursorsOK, NoOp, bufferVars, cursorVars, records
<1> QED
  BY <1>1, <1>2, <1>3, <1>4, <1>5, <1>6, <1>7, <1>8, <1>9, <1>10, <1>11, <1>12,
     <1>13 DEF InputsNext, Sources, Writer, Controls

-----------------------------------------------------------------------------
(***************************************************************************)
(* A tap is judged once.                                                   *)
(***************************************************************************)
\* While the source of a slot stays, what it shows never goes back.
LEMMA ShownMonotone ==
    ASSUME InputsInv, writer.pc = "releasing", NEW s \in Slot, Shows(s), ~rebuilt, Playing,
           ~SourceChanged(s)
    PROVE  sampleCursor[s] <= Shown(s).index
<1> DEFINE p == writer.view[s]
<1>0. /\ WriterOK /\ CursorsOK /\ JudgedOK /\ sampleCursor[s] \in Time /\ source[s] = p
      /\ Clock = writer.time
  BY DEF InputsInv, InputsTyped, SourceChanged, Clock, Viewed
<1>1. /\ p \in Participant /\ anchors[p].set /\ Shown(s).index \in 1 .. MaxNow
      /\ \A q \in samples[p] : q.index <= Target(p) => q.index <= Shown(s).index
  BY ShownFacts
<1> HIDE DEF p
<1>2. CASE sampleCursor[s] = 0
  BY <1>1, <1>2, Scale
<1>3. CASE sampleCursor[s] > 0
  <2>1. epoch.released
    BY <1>0, <1>3, Scale DEF CursorsOK, Time
  <2>2. Behind(s, p)
    BY <1>0, <1>1, <1>3, <2>1 DEF JudgedOK, Followed
  <2>3. epoch.at = writer.at
    BY <1>0, <1>1 DEF WriterOK, NoAnchorSet
  <2>4. sampleCursor[s] <= Target(p)
    BY <1>0, <2>2, <2>3 DEF Behind, Target
  <2> QED
    BY <1>1, <2>2, <2>4 DEF Behind
<1> QED
  BY <1>0, <1>2, <1>3, Scale DEF Time

LEMMA ReleaseFollows ==
    ASSUME InputsInv, WriteRelease, ~rebuilt, Playing, NEW s \in Slot
    PROVE  Followed(s)'
<1>0. /\ InputsTyped /\ WriterOK /\ CursorsOK /\ JudgedOK /\ writer.pc = "releasing"
      /\ UNCHANGED <<now, samples, anchors>> /\ Clock = writer.time /\ Clock' = now
  BY DEF InputsInv, WriteRelease, bufferVars, Sleeping, Clock, Viewed
<1>1. /\ now \in Nat /\ writer.time \in Nat /\ writer.at \in Nat /\ epoch.at \in Nat
      /\ writer.time <= now /\ epoch'.at = epoch.at
      /\ \A p \in Participant : anchors[p].source \in Nat
  BY <1>0, MarkFacts, Scale DEF InputsTyped, WriterOK, Epoch
<1>2. CASE Shows(s)
  <2> DEFINE p == writer.view[s]
             i == Shown(s).index
  <2>1. /\ p \in Participant /\ Shown(s) \in samples[p] /\ i \in 1 .. MaxNow /\ i <= Target(p)
        /\ source'[s] = p /\ sampleCursor'[s] = i /\ epoch.at = writer.at
    BY <1>0, <1>2, ShownFacts, ReleaseFacts, MarkFacts
  <2> HIDE DEF p, i
  <2>2. i <= anchors[p].source + (now - epoch.at)
    BY <1>1, <2>1, Scale DEF Target
  <2>3. \E q \in samples[p] : q.index = i
    BY <2>1 DEF i
  <2> QED
    BY <1>0, <1>1, <2>1, <2>2, <2>3 DEF Followed, Behind
<1>3. CASE ~Shows(s)
  <2>1. source'[s] = source[s] /\ sampleCursor'[s] = sampleCursor[s]
    BY <1>3, ReleaseFacts
  <2>2. CASE sampleCursor[s] > 0 /\ source[s] \in Participant /\ anchors[source[s]].set
    <3>1. epoch.released
      BY <1>0, <2>2, Scale DEF CursorsOK, Time
    <3>2. Behind(s, source[s])
      BY <1>0, <2>2, <3>1 DEF JudgedOK, Followed
    <3>3. sampleCursor[s] \in Nat
      BY <1>0, Scale DEF InputsTyped, Time
    <3>4. sampleCursor[s] <= anchors[source[s]].source + (now - epoch.at)
      BY <1>0, <1>1, <2>2, <3>2, <3>3 DEF Behind
    <3> QED
      BY <1>0, <1>1, <2>1, <3>2, <3>4 DEF Followed, Behind
  <2>3. CASE ~(sampleCursor[s] > 0 /\ source[s] \in Participant /\ anchors[source[s]].set)
    BY <1>0, <2>1, <2>3 DEF Followed
  <2> QED
    BY <2>2, <2>3
<1> QED
  BY <1>2, <1>3

LEMMA ReleaseTellsOnce ==
    ASSUME InputsInv, WriteRelease, ~rebuilt, Playing, NEW s \in Slot, NEW t \in Taps
    PROVE  ToldOnce(s, t)'
<1>0. /\ InputsTyped /\ JudgedOK /\ writer.pc = "releasing" /\ UNCHANGED <<taps, tardy>>
      /\ (epoch.released => epoch'.released)
  BY MarkFacts DEF InputsInv, WriteRelease, bufferVars
<1>a. ToldOnce(s, t)
  BY <1>0 DEF JudgedOK
<1>1. /\ t \in Nat /\ t > 0 /\ sampleCursor[s] \in Nat /\ tapCursor[s] \in Nat
      /\ judged[s][t] \in 0 .. 2
  <2>1. t \in 1 .. MaxNow /\ MaxNow \in Nat
    BY Scale
  <2>2. sampleCursor[s] \in Time /\ tapCursor[s] \in Time /\ judged[s][t] \in 0 .. 2
    BY <1>0 DEF InputsTyped
  <2> QED
    BY <2>1, <2>2 DEF Time
<1>2. CASE ~Shows(s)
  <2>1. /\ judged'[s] = judged[s] /\ source'[s] = source[s] /\ sampleCursor'[s] = sampleCursor[s]
        /\ tapCursor'[s] = tapCursor[s]
    BY <1>2, ReleaseFacts
  <2> QED
    BY <1>0, <1>a, <1>1, <2>1 DEF ToldOnce
<1>3. CASE Shows(s)
  <2> DEFINE p == writer.view[s]
             i == Shown(s).index
  <2>1. /\ p \in Participant /\ i \in Nat /\ epoch'.released
        /\ source'[s] = p /\ sampleCursor'[s] = i /\ tapCursor'[s] = CursorAfter(s)
        /\ judged'[s][t] \in 0 .. 2
    BY <1>0, <1>3, ShownFacts, ReleaseFacts, MarkFacts
  <2>2. /\ judged'[s][t] > 0 => t = TapOf(s) \/ (~SourceChanged(s) /\ judged[s][t] > 0)
        /\ judged'[s][t] > 1 => ~SourceChanged(s) /\ judged[s][t] > 0
                                /\ (t = TapOf(s) \/ judged[s][t] > 1)
    BY <1>3, ReleaseFacts
  <2>3. /\ TapStart(s) \in Nat /\ CursorAfter(s) \in Nat /\ CursorAfter(s) >= TapStart(s)
        /\ TapOf(s) <= i
        /\ TapOf(s) \in taps[p] => TapOf(s) <= CursorAfter(s)
        /\ TapOf(s) > 0 => \/ TapOf(s) \in taps[p] /\ TapOf(s) > TapStart(s)
                           \/ TapOf(s) = i /\ NewSample(s)
    BY <1>0, <1>3, TapFacts, Scale
  <2>4. ~SourceChanged(s) => /\ source[s] = p /\ TapStart(s) = tapCursor[s]
                             /\ sampleCursor[s] <= i
    BY <1>0, <1>3, ShownMonotone DEF SourceChanged, TapStart
  <2>5. NewSample(s) => SourceChanged(s) \/ sampleCursor[s] # i
    BY DEF NewSample
  <2> HIDE DEF p, i
  <2>6. judged'[s][t] > 0 => t <= i
    BY <1>a, <1>1, <2>1, <2>2, <2>3, <2>4 DEF ToldOnce
  <2>7. judged'[s][t] > 0 /\ t \in taps[p] /\ t \notin tardy => t <= CursorAfter(s)
    BY <1>a, <1>1, <2>1, <2>2, <2>3, <2>4 DEF ToldOnce
  <2>8. ASSUME t \notin tardy, judged'[s][t] > 1
        PROVE  FALSE
    <3>1. ~SourceChanged(s) /\ judged[s][t] > 0 /\ judged[s][t] < 2
      BY <1>a, <1>1, <2>2, <2>8 DEF ToldOnce
    <3>2. t = TapOf(s)
      BY <1>1, <2>2, <2>8, <3>1
    <3>3. t <= sampleCursor[s] /\ sampleCursor[s] <= i /\ (t \in taps[p] => t <= tapCursor[s])
      BY <1>a, <1>1, <2>1, <2>4, <2>8, <3>1 DEF ToldOnce
    <3>4. CASE t \in taps[p] /\ t > TapStart(s)
      BY <1>1, <2>4, <3>1, <3>3, <3>4
    <3>5. CASE t = i /\ NewSample(s)
      BY <1>1, <2>1, <2>5, <3>1, <3>3, <3>5
    <3> QED
      BY <1>1, <2>3, <3>2, <3>4, <3>5
  <2>9. t \notin tardy => judged'[s][t] < 2
    BY <2>1, <2>8
  <2> QED
    BY <1>0, <2>1, <2>6, <2>7, <2>9 DEF ToldOnce
<1> QED
  BY <1>2, <1>3

\* The two parts together: once nobody was told of a tap, and the epoch is
\* not released, there is nothing to repeat.
LEMMA Unreleased ==
    ASSUME ~epoch'.released, \A s \in Slot, t \in Taps : judged'[s][t] = 0
    PROVE  JudgedOK'
  BY DEF JudgedOK, Followed, ToldOnce

LEMMA JudgedStep == InputsInv /\ [InputsNext]_inputsVars => JudgedOK'
<1> SUFFICES ASSUME InputsInv, [InputsNext]_inputsVars
             PROVE  JudgedOK'
  OBVIOUS
<1>0. /\ JudgedOK /\ WriterOK /\ InputsTyped /\ epoch \in Epoch /\ now \in Time
      /\ source \in [Slot -> Participant \cup {Nobody}] /\ taps \in [Participant -> SUBSET Taps]
      /\ samples \in [Participant -> SUBSET Sample]
      /\ anchors \in [Participant -> Anchor]
      /\ sampleCursor \in [Slot -> Time] /\ tapCursor \in [Slot -> Time]
      /\ judged \in [Slot -> [Taps -> 0 .. 2]]
      /\ op \in Control
      /\ writer \in Pass
  BY DEF InputsInv, InputsTyped
<1>a. ASSUME ~rebuilt, Playing, ~epoch.released, NEW s \in Slot, NEW t \in Taps
      PROVE  judged[s][t] = 0
  <2>1. ToldOnce(s, t) /\ judged[s][t] \in 0 .. 2
    BY <1>0, <1>a DEF JudgedOK
  <2> QED
    BY <1>a, <2>1 DEF ToldOnce
<1>b. ASSUME ~rebuilt' /\ Playing' => ~rebuilt /\ Playing /\ ~epoch.released,
             judged' = judged, ~epoch'.released
      PROVE  JudgedOK'
  <2>1. CASE ~rebuilt' /\ Playing'
    <3>1. \A s \in Slot, t \in Taps : judged'[s][t] = 0
      BY <1>a, <1>b, <2>1
    <3> QED
      BY <1>b, <3>1, Unreleased
  <2>2. CASE ~(~rebuilt' /\ Playing')
    BY <2>2 DEF JudgedOK
  <2> QED
    BY <2>1, <2>2
<1>1. CASE CloneBarrier
  BY <1>0, <1>1 DEF CloneBarrier, JudgedOK, ToldOnce, Followed, Behind, Playing, Clock, Viewed,
     bufferVars, cursorVars, records
<1>2. CASE \/ BeginRun \/ DropSamples
  BY <1>0, <1>2 DEF BeginRun, DropSamples, JudgedOK, ToldOnce, Followed, Behind, Playing, Clock,
     Viewed, bufferVars, cursorVars, records
<1>3. CASE \/ DropAnchors \/ OpenBarrier
  BY <1>0, <1>3 DEF DropAnchors, OpenBarrier, JudgedOK, ToldOnce, Followed, Behind, Playing,
     Clock, Viewed, bufferVars, cursorVars, records
<1>4. CASE ZeroPages
  BY <1>0, <1>4 DEF ZeroPages, JudgedOK, ToldOnce, Followed, Behind, Playing, Clock, Viewed,
     bufferVars, cursorVars, records
<1>5. CASE \/ (\E s \in Slot : Relaunch(s))
             \/ (\E s \in Slot, who \in Participant \cup {Nobody} : StopSlot(s, who))
  BY <1>0, <1>5 DEF Relaunch, Call, StopSlot, JudgedOK, ToldOnce, Followed, Behind, Playing,
     Clock, Viewed, bufferVars, cursorVars, records
<1>6. CASE \/ Assign \/ CloseBarrier \/ StartChild
  BY <1>0, <1>6 DEF Assign, Return, CloseBarrier, StartChild, JudgedOK, ToldOnce, Followed,
     Behind, Playing, Clock, Viewed, bufferVars, cursorVars, records
<1>7. CASE EndRun
  <2>1. UNCHANGED <<now, bufferVars, cursorVars, epoch, writer, op, records>>
    BY <1>7 DEF EndRun
  <2> QED
    BY <1>0, <2>1 DEF JudgedOK, ToldOnce, Followed, Behind, Playing, Clock, Viewed, bufferVars,
       cursorVars, records
<1>8. CASE Advance
  <2>a. /\ now' = now + 1 /\ writer' = writer
        /\ UNCHANGED <<rebuilt, op, epoch, source, sampleCursor, tapCursor, anchors, samples,
                       judged, taps, tardy>>
    BY <1>8 DEF Advance, bufferVars, cursorVars, records
  <2>b. now \in Nat /\ writer.time \in Nat
    BY <1>0, Scale
  <2>1. /\ Clock \in Nat /\ Clock' \in Nat /\ Clock <= Clock'
        /\ UNCHANGED <<rebuilt, op, epoch, source, sampleCursor, tapCursor, anchors, samples,
                       judged, taps, tardy>>
    BY <2>a, <2>b DEF Clock, Viewed
  <2>2. ASSUME NEW s \in Slot, Followed(s)
        PROVE  Followed(s)'
    <3>1. ASSUME source[s] \in Participant, Behind(s, source[s])
          PROVE  Behind(s, source[s])'
      <4>1. anchors[source[s]].source \in Nat /\ sampleCursor[s] \in Nat /\ epoch.at \in Nat
        BY <1>0, <3>1, Scale DEF Epoch
      <4>2. sampleCursor[s] <= anchors[source[s]].source + (Clock' - epoch.at)
        BY <2>1, <3>1, <4>1 DEF Behind
      <4> QED
        BY <2>1, <3>1, <4>2 DEF Behind
    <3> QED
      BY <2>1, <2>2, <3>1 DEF Followed
  <2>3. Playing' = Playing
    BY <2>1 DEF Playing
  <2> QED
    BY <1>0, <2>1, <2>2, <2>3 DEF JudgedOK, ToldOnce
<1>9. ASSUME NEW p \in Participant, NEW i \in 1 .. MaxNow, PushSample(p, i)
      PROVE  JudgedOK'
  <2>1. /\ \A r \in Participant : samples[r] \subseteq samples'[r]
        /\ UNCHANGED <<rebuilt, op, epoch, source, sampleCursor, tapCursor, anchors, now, writer,
                       judged, taps, tardy>>
    BY <1>0, <1>9 DEF PushSample, cursorVars, records
  <2>2. Playing' = Playing /\ Clock' = Clock
    BY <2>1 DEF Playing, Clock, Viewed
  <2>3. \A r \in Participant, s \in Slot : Behind(s, r) => Behind(s, r)'
    BY <2>1, <2>2 DEF Behind
  <2> QED
    BY <1>0, <2>1, <2>2, <2>3 DEF JudgedOK, ToldOnce, Followed
<1>10. ASSUME NEW p \in Participant, PushAnchor(p)
      PROVE  JudgedOK'
  <2>1. ~rebuilt' /\ Playing' => ~rebuilt /\ Playing /\ ~epoch.released
    BY <1>0, <1>10 DEF PushAnchor, ResetEpoch, Playing
  <2>2. UNCHANGED judged /\ ~epoch'.released
    BY <1>10 DEF PushAnchor, ResetEpoch, NoEpoch
  <2> QED
    BY <1>b, <2>1, <2>2
<1>11. ASSUME NEW p \in Participant, NEW t \in Taps, PushTap(p, t)
      PROVE  JudgedOK'
  BY <1>0, <1>11 DEF PushTap, JudgedOK, ToldOnce, Followed, Behind, Playing, Clock, Viewed,
     bufferVars, cursorVars, records
<1>12. CASE ViewSlots
  <2>1. /\ Clock' = Clock
        /\ UNCHANGED <<rebuilt, op, epoch, source, sampleCursor, tapCursor, anchors, samples,
                       judged, taps, tardy>>
    BY <1>0, <1>12 DEF ViewSlots, bufferVars, cursorVars, records, Clock, Viewed, Sleeping
  <2> QED
    BY <1>0, <2>1 DEF JudgedOK, ToldOnce, Followed, Behind, Playing
<1>13. CASE HoldBuffers
  <2>1. /\ \A p \in Participant :
              anchors'[p].set = anchors[p].set /\ anchors'[p].source >= anchors[p].source
        /\ anchors' \in [Participant -> Anchor]
        /\ epoch' = epoch \/ (~epoch'.released /\ (epoch.released => rebuilt'))
        /\ rebuilt => rebuilt'
    BY <1>13, HoldFacts
  <2>2. /\ Clock' = Clock /\ Clock \in Nat
        /\ UNCHANGED <<op, source, sampleCursor, tapCursor, samples, judged, taps, tardy>>
    <3>1. writer.pc = "viewing" /\ writer'.pc \in {"warming", "releasing"}
          /\ writer'.time = writer.time /\ now' = now
      BY <1>0, <1>13 DEF HoldBuffers
    <3> QED
      BY <1>0, <1>13, <3>1, Scale DEF HoldBuffers, cursorVars, Clock, Viewed
  <2>3. Playing' = Playing
    BY <2>2 DEF Playing
  <2>4. CASE epoch' = epoch
    <3>1. ASSUME NEW s \in Slot, Followed(s)
          PROVE  Followed(s)'
      <4>1. ASSUME source[s] \in Participant, Behind(s, source[s])
            PROVE  Behind(s, source[s])'
        <5>1. /\ anchors[source[s]].source \in Nat /\ anchors'[source[s]].source \in Nat
              /\ sampleCursor[s] \in Nat /\ epoch.at \in Nat
              /\ anchors'[source[s]].source >= anchors[source[s]].source
          BY <1>0, <2>1, <4>1, Scale DEF Epoch
        <5>2. sampleCursor[s] <= anchors'[source[s]].source + (Clock - epoch.at)
          BY <2>2, <4>1, <5>1 DEF Behind
        <5> QED
          BY <2>2, <2>4, <4>1, <5>2 DEF Behind
      <4> QED
        BY <2>1, <2>2, <2>4, <3>1, <4>1 DEF Followed
    <3> QED
      BY <1>0, <2>1, <2>2, <2>3, <2>4, <3>1 DEF JudgedOK, ToldOnce
  <2>5. CASE ~epoch'.released /\ (epoch.released => rebuilt')
    BY <1>b, <2>1, <2>2, <2>3, <2>5
  <2> QED
    BY <2>1, <2>4, <2>5
<1>14. CASE WriteWarmup
  <2>1. /\ writer.pc = "warming" /\ UNCHANGED <<rebuilt, op, epoch, judged>>
    BY <1>14 DEF WriteWarmup, records
  <2>2. /\ ~epoch'.released /\ judged' = judged
        /\ ~rebuilt' /\ Playing' => ~rebuilt /\ Playing /\ ~epoch.released
    BY <1>0, <2>1 DEF WriterOK, Playing
  <2> QED
    BY <1>b, <2>1, <2>2
<1>15. CASE WriteRelease
  <2>1. rebuilt' = rebuilt /\ Playing' = Playing
    BY <1>15, MarkFacts DEF Playing
  <2> QED
    BY <1>15, <2>1, ReleaseFollows, ReleaseTellsOnce DEF JudgedOK
<1>16. CASE DropEpoch
  <2>1. ~epoch'.released /\ \A s \in Slot, t \in Taps : judged'[s][t] = 0
    BY <1>16 DEF DropEpoch, NoEpoch, Untapped
  <2> QED
    BY <2>1, Unreleased
<1>17. ASSUME NEW s \in Slot, NEW p \in Participant, Configure(s, p)
      PROVE  JudgedOK'
  <2>1. ~rebuilt' /\ Playing' => ~rebuilt /\ Playing /\ ~epoch.released
    BY <1>0, <1>17 DEF Configure, ResetEpoch, Call, Playing
  <2>2. UNCHANGED judged /\ ~epoch'.released
    BY <1>17 DEF Configure, ResetEpoch, NoEpoch
  <2> QED
    BY <1>b, <2>1, <2>2
<1>18. CASE ForgetStopped
  <2>1. ~rebuilt' /\ Playing' => ~rebuilt /\ Playing /\ ~epoch.released
    BY <1>0, <1>18 DEF ForgetStopped, ResetEpoch, Playing
  <2>2. UNCHANGED judged /\ ~epoch'.released
    BY <1>18 DEF ForgetStopped, ResetEpoch, NoEpoch
  <2> QED
    BY <1>b, <2>1, <2>2
<1>19. CASE DropBuffers
  <2>a. UNCHANGED <<rebuilt, epoch, source, sampleCursor, tapCursor, now, writer, judged, tardy>>
    BY <1>19 DEF DropBuffers, cursorVars, records
  <2>1. ASSUME NEW r \in Participant
        PROVE  \/ samples'[r] = samples[r] /\ anchors'[r] = anchors[r] /\ taps'[r] = taps[r]
               \/ ~anchors'[r].set /\ taps'[r] = {}
    <3>1. /\ samples' = [samples EXCEPT ![op.who] = {}] /\ taps' = [taps EXCEPT ![op.who] = {}]
          /\ anchors' = [anchors EXCEPT ![op.who] = NoAnchor] /\ ~NoAnchor.set
      BY <1>19 DEF DropBuffers, NoAnchor
    <3> QED
      BY <1>0, <3>1
  <2>2. Playing /\ Clock' = Clock
    BY <1>0, <1>19, <2>a DEF DropBuffers, Playing, Clock, Viewed
  <2>3. ASSUME NEW s \in Slot, Followed(s)
        PROVE  Followed(s)'
    BY <1>0, <2>a, <2>1, <2>2, <2>3 DEF Followed, Behind
  <2>4. ASSUME NEW s \in Slot, NEW t \in Taps, ToldOnce(s, t)
        PROVE  ToldOnce(s, t)'
    <3>1. source[s] \in Participant => taps'[source[s]] \subseteq taps[source[s]]
      BY <2>1
    <3> QED
      BY <2>a, <2>4, <3>1 DEF ToldOnce
  <2> QED
    BY <1>0, <2>a, <2>2, <2>3, <2>4 DEF JudgedOK
<1>20. CASE UNCHANGED inputsVars
  BY <1>0, <1>20 DEF inputsVars, JudgedOK, ToldOnce, Followed, Behind, Playing, Clock, Viewed,
     bufferVars, cursorVars, records
<1> QED
  BY <1>1, <1>2, <1>3, <1>4, <1>5, <1>6, <1>7, <1>8, <1>9, <1>10, <1>11, <1>12, <1>13, <1>14,
     <1>15, <1>16, <1>17, <1>18, <1>19, <1>20 DEF InputsNext, Sources, Writer, Controls

LEMMA InputsInitInv == InputsInit => InputsInv
<1> SUFFICES ASSUME InputsInit
             PROVE  InputsInv
  OBVIOUS
<1>1. InputsTyped
  <2>1. /\ NoEpoch \in Epoch /\ Zero \in Input
        /\ NoAnchor \in Anchor
        /\ Untapped \in [Taps -> 0 .. 2]
    BY Scale DEF NoEpoch, Epoch, Zero, Input, NoAnchor, Untapped
  <2>2. /\ Sleeping \in Pass
        /\ NoOp \in Control
    BY Scale DEF Sleeping, WriterPc, NoOp, OpPc
  <2>3. racing \in BOOLEAN /\ rebuilt \in BOOLEAN
    BY Zenon DEF InputsInit
  <2>4. samples \in [Participant -> SUBSET Sample] /\ taps \in [Participant -> SUBSET Taps]
    BY DEF InputsInit
  <2> QED
    BY <2>1, <2>2, <2>3, <2>4, Scale DEF InputsInit, InputsTyped
<1>2. SamplesOK /\ AnchorsOK /\ PagesOK /\ ParkedOK
  BY DEF InputsInit, SamplesOK, AnchorsOK, PagesOK, ParkedOK, NoAnchor, NoAnchorSet, Beginning, NoOp
<1>3. EpochOK /\ CursorsOK
  BY DEF InputsInit, EpochOK, CursorsOK, NoEpoch
<1>4. WriterOK /\ OpOK
  BY Scale DEF InputsInit, WriterOK, OpOK, Viewed, Sleeping, NoOp
<1>5. SeedsOK /\ JudgedOK
  BY DEF InputsInit, SeedsOK, JudgedOK, Followed, ToldOnce, NoEpoch, Untapped
<1> QED
  BY <1>1, <1>2, <1>3, <1>4, <1>5 DEF InputsInv

LEMMA InputsInvariant == InputsSpec => []InputsInv
<1>1. InputsInv /\ [InputsNext]_inputsVars => InputsInv'
  <2> SUFFICES ASSUME InputsInv /\ [InputsNext]_inputsVars
               PROVE  InputsInv'
    OBVIOUS
  <2>1. InputsTyped' /\ SamplesOK' /\ AnchorsOK' /\ OpOK'
    BY InputsTypedStep, SamplesStep, AnchorsStep, OpStep
  <2>2. EpochOK' /\ WriterOK' /\ PagesOK' /\ ParkedOK'
    BY EpochStep, WriterStep, PagesStep, ParkedStep
  <2>3. SeedsOK' /\ CursorsOK' /\ JudgedOK'
    BY SeedsStep, CursorsStep, JudgedStep
  <2> QED
    BY <2>1, <2>2, <2>3 DEF InputsInv
<1> QED
  BY <1>1, InputsInitInv, PTL DEF InputsSpec

(* What the writer, the sources and the controls share keeps its type; an  *)
(* epoch is never due before the first note and a delay.                   *)
THEOREM InputsTypeCorrect == InputsSpec => []InputsTypeOK
<1>1. InputsInv => InputsTypeOK
  BY DEF InputsInv, InputsTyped, EpochOK, InputsTypeOK
<1> QED
  BY <1>1, InputsInvariant, PTL

(* The children play the input of this run, once: no page holds what was   *)
(* received before the run, a parked child reads nothing, a tap whose edge *)
(* came in time is judged once and a paddle is seeded once per cohort.     *)
THEOREM InputStaysCurrent == InputsSpec => []InputIsCurrent
<1>1. InputsInv => InputIsCurrent
  <2> SUFFICES ASSUME InputsInv
               PROVE  InputIsCurrent
    OBVIOUS
  <2>1. OldRunNotReplayed
    BY DEF InputsInv, PagesOK, OldRunNotReplayed, Beginning
  <2>2. ParkedReadsNothing
    BY DEF InputsInv, ParkedOK, ParkedReadsNothing
  <2>3. JudgedOnce
    <3> SUFFICES ASSUME ~rebuilt, ~Beginning, NEW s \in Slot, NEW t \in Taps \ tardy
                 PROVE  judged[s][t] < 2
      BY DEF JudgedOnce
    <3>1. Playing
      BY DEF Playing, Beginning
    <3>2. ToldOnce(s, t) /\ judged[s][t] \in 0 .. 2
      BY <3>1 DEF InputsInv, InputsTyped, JudgedOK
    <3> QED
      BY <3>2 DEF ToldOnce
  <2>4. SeededOncePerCohort
    BY DEF InputsInv, SeedsOK, SeededOncePerCohort
  <2> QED
    BY <2>1, <2>2, <2>3, <2>4 DEF InputIsCurrent
<1> QED
  BY <1>1, InputsInvariant, PTL
================================================================================
