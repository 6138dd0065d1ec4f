----------------------------- MODULE GameLinkProofs -----------------------------
(***************************************************************************)
(* Proofs about GameLink for every number of games, workers and commands.  *)
(***************************************************************************)
EXTENDS GameLink, TLAPS

GameTyped ==
    /\ session \in [Game -> BOOLEAN] /\ pending \in [Game -> Request \cup {NoMessage}]
    /\ stop \in [Game -> BOOLEAN] /\ asked \in 0 .. MaxRequest /\ accepted \subseteq Request
ChannelTyped ==
    /\ outbound \in [Game -> Seq(Message)] /\ inbound \in [Game -> Seq(Answer \cup {Gone})]
    /\ \A g \in Game : Len(outbound[g]) <= OutboundCap /\ Len(inbound[g]) <= InboundCap
WorkerTyped ==
    /\ life \in [Worker -> Life] /\ hello \in [Worker -> BOOLEAN]
    /\ unsent \in [Worker -> Message \cup {NoMessage}]
WireTyped ==
    /\ conn \in [Worker -> Connection] /\ claimed \in [Worker -> BOOLEAN]
    /\ up \in [Worker -> Seq(Message)] /\ down \in [Worker -> Seq(Answer)]
RuntimeTyped ==
    /\ runtime \in RuntimeState /\ owner \in Game \cup {NoGame} /\ ended \in BOOLEAN
    /\ heard \in [Worker -> Seq(Request)] /\ done \subseteq Request
ControlTyped == busy \in BOOLEAN /\ control \in [Request \cup {End} -> ControlState]
FaultTyped == faults \in 0 .. MaxFaults
Typed == /\ GameTyped /\ ChannelTyped /\ WorkerTyped /\ WireTyped /\ RuntimeTyped
         /\ ControlTyped /\ FaultTyped

LEMMA TypedIs == TypeOK <=> Typed
  BY DEF TypeOK, Typed, GameTyped, ChannelTyped, WorkerTyped, WireTyped, RuntimeTyped,
         ControlTyped, FaultTyped

LEMMA Constants ==
    /\ GameOf \in [Worker -> Game] /\ OutboundCap \in Nat \ {0} /\ InboundCap \in Nat \ {0}
    /\ MaxRequest \in Nat /\ MaxFaults \in Nat /\ Request \subseteq Nat \ {0}
    /\ End \in Message /\ Hello \in Message /\ NoMessage \notin Message
    /\ End \notin Request /\ Hello \notin Request /\ NoMessage \notin Request
    /\ Request \subseteq Message /\ End # Hello
  BY LinkAssumption DEF Request, Message, End, Hello, NoMessage

LEMMA TypedInit == Init => Typed
<1> SUFFICES ASSUME Init PROVE Typed
  OBVIOUS
<1>1. GameTyped
  BY Constants DEF Init, GameTyped
<1>5. FaultTyped
  BY Constants DEF Init, FaultTyped
<1>6. ControlTyped
  BY DEF Init, ControlTyped, ControlState
<1>2. ChannelTyped
  <2>1. <<>> \in Seq(Message) /\ <<>> \in Seq(Answer \cup {Gone}) /\ Len(<<>>) = 0
    OBVIOUS
  <2> QED BY <2>1, Constants DEF Init, ChannelTyped
<1>3. WorkerTyped /\ WireTyped
  BY DEF Init, WorkerTyped, WireTyped, Life, Connection
<1>4. RuntimeTyped
  <2>1. <<>> \in Seq(Request)
    OBVIOUS
  <2> QED BY <2>1 DEF Init, RuntimeTyped, RuntimeState
<1> QED BY <1>1, <1>2, <1>3, <1>4, <1>5, <1>6 DEF Typed

\* What is read from a channel is of the channel's type, and so is the rest.
LEMMA Reading ==
    ASSUME NEW S, NEW q \in Seq(S), q # <<>>
    PROVE  Head(q) \in S /\ Tail(q) \in Seq(S) /\ Len(Tail(q)) = Len(q) - 1
  OBVIOUS

LEMMA Adding ==
    ASSUME NEW S, NEW q \in Seq(S), NEW m \in S
    PROVE  Append(q, m) \in Seq(S) /\ Len(Append(q, m)) = Len(q) + 1
  OBVIOUS

LEMMA TypedUser ==
    ASSUME Typed, NEW g \in Game, User(g) \/ Frame(g)
    PROVE  Typed'
<1> USE Constants DEF Typed
<1>0. /\ outbound[g] \in Seq(Message) /\ inbound[g] \in Seq(Answer \cup {Gone})
      /\ pending[g] \in Request \cup {NoMessage} /\ asked \in Nat
      /\ Len(outbound[g]) \in Nat /\ Len(inbound[g]) \in Nat
  BY DEF ChannelTyped, GameTyped
<1>1. CASE StartOnlineRuntime(g)
  <2>1. GameTyped' /\ ChannelTyped' /\ WireTyped' /\ RuntimeTyped' /\ ControlTyped' /\ FaultTyped'
    BY <1>1 DEF StartOnlineRuntime, GameTyped, ChannelTyped, WireTyped, RuntimeTyped,
       ControlTyped, FaultTyped, wireVars, runtimeVars, controlVars
  <2>2. WorkerTyped'
    BY <1>1 DEF StartOnlineRuntime, WorkerTyped, Life, Unused, WorkersOf
  <2> QED BY <2>1, <2>2
<1>2. CASE Command(g)
  <2>1. asked + 1 \in Request /\ asked + 1 \in Message /\ asked + 1 \in 0 .. MaxRequest
    BY <1>0, <1>2 DEF Command, Request, Message
  <2>2. GameTyped' /\ WorkerTyped' /\ WireTyped' /\ RuntimeTyped' /\ ControlTyped' /\ FaultTyped'
    BY <1>2, <2>1 DEF Command, GameTyped, WorkerTyped, WireTyped, RuntimeTyped,
       ControlTyped, FaultTyped, workerVars, wireVars, runtimeVars, controlVars
  <2>3. /\ Append(outbound[g], asked + 1) \in Seq(Message)
        /\ Len(Append(outbound[g], asked + 1)) <= OutboundCap
    BY <1>0, <1>2, <2>1, Adding DEF Command
  <2>4. ChannelTyped'
    BY <1>2, <2>3 DEF Command, ChannelTyped
  <2> QED BY <2>2, <2>4
<1>3. CASE ExitOnline(g) \/ GiveUp(g)
  <2> DEFINE last == <<End>>
  <2>1. last \in Seq(Message) /\ Len(last) <= OutboundCap
    OBVIOUS
  <2>2. ChannelTyped'
    <3>1. /\ inbound' = inbound
          /\ outbound' = outbound \/ outbound' = [outbound EXCEPT ![g] = last]
      BY <1>3 DEF ExitOnline, GiveUp
    <3> HIDE DEF last
    <3>2. CASE outbound' = outbound
      BY <3>1, <3>2 DEF ChannelTyped
    <3>3. CASE outbound' = [outbound EXCEPT ![g] = last]
      BY <2>1, <3>1, <3>3 DEF ChannelTyped
    <3> QED BY <3>1, <3>2, <3>3
  <2>3. GameTyped' /\ WorkerTyped' /\ WireTyped' /\ RuntimeTyped' /\ ControlTyped' /\ FaultTyped'
    BY <1>3 DEF ExitOnline, GiveUp, GameTyped, WorkerTyped, WireTyped, RuntimeTyped,
       ControlTyped, FaultTyped, workerVars, wireVars, runtimeVars, controlVars
  <2> QED BY <2>2, <2>3
<1>4. CASE HandleEvent(g)
  <2>1. /\ Tail(inbound[g]) \in Seq(Answer \cup {Gone}) /\ Len(Tail(inbound[g])) <= InboundCap
    BY <1>0, <1>4, Reading DEF HandleEvent, ChannelTyped
  <2>2. ChannelTyped'
    BY <1>4, <2>1 DEF HandleEvent, ChannelTyped
  <2>3. GameTyped' /\ WorkerTyped' /\ WireTyped' /\ RuntimeTyped' /\ ControlTyped' /\ FaultTyped'
    BY ZenonT(60), <1>0, <1>4 DEF HandleEvent, GameTyped, WorkerTyped, WireTyped, RuntimeTyped,
       ControlTyped, FaultTyped, workerVars, wireVars, runtimeVars, controlVars
  <2> QED BY <2>2, <2>3
<1> QED BY <1>1, <1>2, <1>3, <1>4 DEF User, Frame

LEMMA Disconnected ==
    ASSUME Typed, NEW w \in Worker, Disconnect(w)
    PROVE  /\ WireTyped' /\ inbound' \in [Game -> Seq(Answer \cup {Gone})]
           /\ \A g \in Game : Len(inbound'[g]) <= InboundCap
<1> DEFINE g == GameOf[w]
<1>1. g \in Game /\ inbound[g] \in Seq(Answer \cup {Gone}) /\ Len(inbound[g]) \in Nat
  BY Constants DEF Typed, ChannelTyped
<1>2. Append(inbound[g], Gone) \in Seq(Answer \cup {Gone})
      /\ Len(Append(inbound[g], Gone)) = Len(inbound[g]) + 1
  BY <1>1, Adding
<1>3. WireTyped'
  BY DEF Disconnect, Typed, WireTyped, Connection
<1> QED BY <1>1, <1>2, <1>3, Constants DEF Disconnect, Typed, ChannelTyped

\* What a worker takes next, and what it leaves.
LEMMA Dequeued ==
    ASSUME Typed, NEW w \in Worker, Dequeue(w)
    PROVE  /\ NextQueued(w) \in Message /\ hello' \in [Worker -> BOOLEAN]
           /\ outbound' \in [Game -> Seq(Message)]
           /\ \A g \in Game : Len(outbound'[g]) <= OutboundCap
<1> DEFINE g == GameOf[w]
<1>1. g \in Game /\ outbound[g] \in Seq(Message) /\ unsent[w] \in Message \cup {NoMessage}
  BY Constants DEF Typed, ChannelTyped, WorkerTyped
<1>2. CASE unsent[w] # NoMessage
  BY <1>1, <1>2 DEF Dequeue, NextQueued, Typed, ChannelTyped, WorkerTyped
<1>3. CASE unsent[w] = NoMessage
  <2>1. outbound[g] # <<>>
    BY <1>3 DEF Dequeue, HasQueued
  <2>2. /\ Head(outbound[g]) \in Message /\ Tail(outbound[g]) \in Seq(Message)
        /\ Len(Tail(outbound[g])) <= OutboundCap
    BY <1>1, <2>1, Reading, Constants DEF Typed, ChannelTyped
  <2> QED
    BY <1>1, <1>3, <2>2 DEF Dequeue, NextQueued, Typed, ChannelTyped, WorkerTyped
<1> QED BY <1>2, <1>3

LEMMA TypedWorker ==
    ASSUME Typed, NEW w \in Worker, WorkerLoop(w)
    PROVE  Typed'
<1> DEFINE g == GameOf[w]
<1>0. /\ g \in Game /\ outbound[g] \in Seq(Message) /\ inbound[g] \in Seq(Answer \cup {Gone})
      /\ Len(inbound[g]) \in Nat /\ up[w] \in Seq(Message) /\ down[w] \in Seq(Answer)
      /\ unsent[w] \in Message \cup {NoMessage}
  BY Constants DEF Typed, ChannelTyped, WireTyped, WorkerTyped
<1>1. CASE Stop(w)
  <2>1. up[w] \o outbound[g] \in Seq(Message)
    BY <1>0
  <2>2. WireTyped'
    BY <1>1, <2>1 DEF Stop, Typed, WireTyped, Connection
  <2>3. ChannelTyped'
    BY <1>1, Constants DEF Stop, Typed, ChannelTyped
  <2>4. GameTyped' /\ WorkerTyped' /\ RuntimeTyped' /\ ControlTyped' /\ FaultTyped'
    BY <1>1 DEF Stop, Typed, GameTyped, WorkerTyped, RuntimeTyped, ControlTyped, FaultTyped,
       runtimeVars, controlVars, Life
  <2> QED BY <2>2, <2>3, <2>4 DEF Typed
<1>2. CASE LaunchRuntime(w)
  BY <1>2 DEF LaunchRuntime, Typed, GameTyped, ChannelTyped, WorkerTyped, WireTyped,
     RuntimeTyped, ControlTyped, FaultTyped, gameVars, workerVars, wireVars, controlVars,
     RuntimeState
<1>3. CASE Connect(w)
  <2>1. /\ Handshake(w).sent \in Seq(Message)
        /\ Handshake(w).unsent \in Message \cup {NoMessage}
    BY <1>0, Constants DEF Handshake
  <2>2. WireTyped' /\ WorkerTyped'
    BY <1>3, <2>1 DEF Connect, Typed, WireTyped, WorkerTyped, Connection
  <2>3. GameTyped' /\ ChannelTyped' /\ RuntimeTyped' /\ ControlTyped' /\ FaultTyped'
    BY <1>3 DEF Connect, Typed, GameTyped, ChannelTyped, RuntimeTyped, ControlTyped, FaultTyped,
       gameVars, runtimeVars, controlVars
  <2> QED BY <2>2, <2>3 DEF Typed
<1>4. CASE Send(w)
  <2>1. Append(up[w], NextQueued(w)) \in Seq(Message)
    BY <1>0, <1>4, Dequeued, Adding DEF Send
  <2>2. ChannelTyped' /\ WorkerTyped'
    BY <1>4, Dequeued DEF Send, Typed, ChannelTyped, WorkerTyped
  <2>3. WireTyped'
    BY <1>4, <2>1 DEF Send, Typed, WireTyped
  <2>4. GameTyped' /\ RuntimeTyped' /\ ControlTyped' /\ FaultTyped'
    BY <1>4 DEF Send, Typed, GameTyped, RuntimeTyped, ControlTyped, FaultTyped, runtimeVars,
       controlVars
  <2> QED BY <2>2, <2>3, <2>4 DEF Typed
<1>5. CASE SendFails(w)
  <2>1. ChannelTyped' /\ WorkerTyped' /\ WireTyped'
    BY <1>5, Dequeued, Disconnected DEF SendFails, Typed, ChannelTyped, WorkerTyped
  <2>2. GameTyped' /\ RuntimeTyped' /\ ControlTyped' /\ FaultTyped'
    BY <1>5 DEF SendFails, Typed, GameTyped, RuntimeTyped, ControlTyped, FaultTyped,
       runtimeVars, controlVars
  <2> QED BY <2>1, <2>2 DEF Typed
<1>6. CASE Receive(w)
  <2>1. /\ Head(down[w]) \in Answer \cup {Gone} /\ Tail(down[w]) \in Seq(Answer)
    BY <1>0, <1>6, Reading DEF Receive
  <2>2. /\ Append(inbound[g], Head(down[w])) \in Seq(Answer \cup {Gone})
        /\ Len(Append(inbound[g], Head(down[w]))) = Len(inbound[g]) + 1
    BY <1>0, <2>1, Adding
  <2>3. ChannelTyped'
    BY <1>0, <1>6, <2>2, Constants DEF Receive, Typed, ChannelTyped
  <2>4. GameTyped' /\ WorkerTyped' /\ WireTyped' /\ RuntimeTyped' /\ ControlTyped' /\ FaultTyped'
    BY <1>6, <2>1 DEF Receive, Typed, GameTyped, WorkerTyped, WireTyped, RuntimeTyped,
       ControlTyped, FaultTyped, workerVars, runtimeVars, controlVars
  <2> QED BY <2>3, <2>4 DEF Typed
<1>7. CASE ReceiveFails(w)
  <2>1. ChannelTyped' /\ WireTyped'
    BY <1>7, Disconnected DEF ReceiveFails, Typed, ChannelTyped
  <2>2. GameTyped' /\ WorkerTyped' /\ RuntimeTyped' /\ ControlTyped' /\ FaultTyped'
    BY <1>7 DEF ReceiveFails, Typed, GameTyped, WorkerTyped, RuntimeTyped, ControlTyped,
       FaultTyped, workerVars, runtimeVars, controlVars
  <2> QED BY <2>1, <2>2 DEF Typed
<1> QED BY <1>1, <1>2, <1>3, <1>4, <1>5, <1>6, <1>7 DEF WorkerLoop

LEMMA Published ==
    ASSUME Typed, NEW event \in Answer, Publish(event) \/ Quiet
    PROVE  down' \in [Worker -> Seq(Answer)] /\ FaultTyped'
<1>1. \A w \in Worker : down[w] \in Seq(Answer) /\ Append(down[w], event) \in Seq(Answer)
  BY Adding DEF Typed, WireTyped
<1>2. FaultTyped'
  BY Constants DEF Publish, Quiet, Fault, Typed, FaultTyped
<1>3. CASE Quiet
  BY <1>2, <1>3 DEF Quiet, Typed, WireTyped
<1>4. ASSUME NEW S, down' = [w \in Worker |-> IF w \in S THEN Append(down[w], event) ELSE down[w]]
      PROVE  down' \in [Worker -> Seq(Answer)]
  BY <1>1, <1>4
<1> QED BY <1>2, <1>3, <1>4 DEF Publish, Typed, WireTyped

LEMMA AnswersTyped ==
    ASSUME NEW m \in Request
    PROVE  [kind |-> "ack", of |-> m] \in Answer /\ [kind |-> "error", of |-> m] \in Answer
  BY DEF Answer

LEMMA TypedAccept ==
    ASSUME Typed, NEW w \in Worker, Accept(w)
    PROVE  Typed'
<1> DEFINE m == Head(up[w])
<1>1. m \in Message /\ Tail(up[w]) \in Seq(Message)
  BY Reading DEF Accept, Typed, WireTyped
<1>2. m # Hello => m \in Request \cup {End}
  BY <1>1 DEF Message
<1>3. /\ down' \in [Worker -> Seq(Answer)] /\ FaultTyped' /\ ControlTyped'
  <2>1. CASE m = Hello
    BY <2>1 DEF Accept, Quiet, Typed, WireTyped, ControlTyped, FaultTyped
  <2>2. CASE m = End
    BY <2>2, Constants DEF Accept, Dispatch, Quiet, Typed, WireTyped, ControlTyped, FaultTyped,
       ControlState
  <2>3. CASE m \in Request
    <3>1. Dispatch(m) /\ m # End
      BY <2>3, Constants DEF Accept
    <3>2. ControlTyped'
      BY <2>3, <3>1 DEF Dispatch, Typed, ControlTyped, ControlState
    <3>3. Publish([kind |-> "error", of |-> m]) \/ Quiet
      BY <3>1 DEF Dispatch
    <3> QED BY <2>3, <3>2, <3>3, Published, AnswersTyped
  <2> QED BY <1>2, <2>1, <2>2, <2>3
<1>4. WireTyped'
  BY <1>1, <1>3 DEF Accept, Typed, WireTyped
<1>5. m \in Request => Append(heard[w], m) \in Seq(Request)
  BY Adding DEF Typed, RuntimeTyped
<1>6. RuntimeTyped'
  BY <1>5, Constants DEF Accept, Typed, RuntimeTyped
<1>7. GameTyped' /\ ChannelTyped' /\ WorkerTyped'
  BY DEF Accept, Typed, GameTyped, ChannelTyped, WorkerTyped, gameVars, workerVars
<1> QED BY <1>3, <1>4, <1>6, <1>7 DEF Typed

LEMMA RuntimeGoneTyped ==
    ASSUME Typed, RuntimeGone
    PROVE  /\ GameTyped' /\ ChannelTyped' /\ WorkerTyped' /\ WireTyped' /\ RuntimeTyped'
           /\ ControlTyped'
<1>1. \A w \in Worker : conn'[w] \in Connection
  BY DEF RuntimeGone, Typed, WireTyped, Connection
<1>2. WireTyped'
  BY <1>1 DEF RuntimeGone, Typed, WireTyped
<1>3. RuntimeTyped' /\ ControlTyped'
  BY DEF RuntimeGone, Typed, RuntimeTyped, ControlTyped, RuntimeState, ControlState
<1> QED
  BY <1>2, <1>3 DEF RuntimeGone, Typed, GameTyped, ChannelTyped, WorkerTyped, gameVars,
     workerVars

LEMMA TypedRuntime ==
    ASSUME Typed,
           \/ \E w \in Worker : Serve(w) \/ PipeBreaks(w)
           \/ \E r \in Request : Execute(r)
           \/ Process \/ RuntimeCrashes
    PROVE  Typed'
<1>1. ASSUME NEW w \in Worker, Refuse(w) \/ ReadEnds(w) \/ PipeBreaks(w) PROVE Typed'
  <2>1. WireTyped'
    <3>1. /\ down' = down /\ (up' = up \/ up' = [up EXCEPT ![w] = <<>>])
          /\ claimed' = claimed \/ claimed' = [claimed EXCEPT ![w] = FALSE]
          /\ conn' \in [Worker -> Connection]
      BY <1>1 DEF Refuse, ReadEnds, PipeBreaks, Typed, WireTyped, Connection
    <3>2. up' \in [Worker -> Seq(Message)]
      <4>1. CASE up' = up
        BY <4>1 DEF Typed, WireTyped
      <4>2. CASE up' = [up EXCEPT ![w] = <<>>]
        BY <4>2 DEF Typed, WireTyped
      <4> QED BY <3>1, <4>1, <4>2
    <3>3. claimed' \in [Worker -> BOOLEAN]
      BY <3>1 DEF Typed, WireTyped
    <3> QED BY <3>1, <3>2, <3>3 DEF Typed, WireTyped
  <2>2. FaultTyped'
    BY <1>1, Constants DEF Refuse, ReadEnds, PipeBreaks, Fault, Typed, FaultTyped
  <2>3. GameTyped' /\ ChannelTyped' /\ WorkerTyped' /\ RuntimeTyped' /\ ControlTyped'
    BY <1>1 DEF Refuse, ReadEnds, PipeBreaks, Typed, GameTyped, ChannelTyped, WorkerTyped,
       RuntimeTyped, ControlTyped, gameVars, workerVars, runtimeVars, controlVars
  <2> QED BY <2>1, <2>2, <2>3 DEF Typed
<1>2. ASSUME NEW r \in Request, Execute(r) PROVE Typed'
  <2>1. down' \in [Worker -> Seq(Answer)] /\ FaultTyped'
    BY <1>2, Published, AnswersTyped DEF Execute
  <2>2. GameTyped' /\ ChannelTyped' /\ WorkerTyped' /\ WireTyped' /\ RuntimeTyped' /\ ControlTyped'
    BY <1>2, <2>1 DEF Execute, Typed, GameTyped, ChannelTyped, WorkerTyped, WireTyped,
       RuntimeTyped, ControlTyped, gameVars, workerVars, RuntimeState, ControlState
  <2> QED BY <2>1, <2>2 DEF Typed
<1>3. CASE Process
  <2>1. CASE StartServing \/ ExecuteSessionEnd \/ \E m \in Request \cup {End} : EndControl(m)
    BY ZenonT(60), <2>1 DEF StartServing, ExecuteSessionEnd, EndControl, ReleasedBy, Typed, GameTyped,
       ChannelTyped, WorkerTyped, WireTyped, RuntimeTyped, ControlTyped, FaultTyped, gameVars,
       workerVars, wireVars, controlVars, RuntimeState, ControlState
  <2>2. CASE RuntimeExits
    BY <2>2, RuntimeGoneTyped DEF RuntimeExits, Typed, FaultTyped
  <2> QED BY <1>3, <2>1, <2>2 DEF Process
<1>4. CASE RuntimeCrashes
  BY <1>4, Constants, RuntimeGoneTyped DEF RuntimeCrashes, Fault, Typed, FaultTyped
<1> QED BY <1>1, <1>2, <1>3, <1>4, TypedAccept DEF Serve

LEMMA TypedNext == Typed /\ [Next]_vars => Typed'
<1> SUFFICES ASSUME Typed, [Next]_vars PROVE Typed'
  OBVIOUS
<1>1. CASE UNCHANGED vars
  BY <1>1 DEF vars, Typed, GameTyped, ChannelTyped, WorkerTyped, WireTyped, RuntimeTyped,
     ControlTyped, FaultTyped, gameVars, workerVars, wireVars, runtimeVars, controlVars
<1> QED BY <1>1, TypedUser, TypedWorker, TypedRuntime DEF Next

\* Whatever breaks, neither channel of a game takes more than it holds, though
\* the game and the worker of an earlier session fill the inbound one side by
\* side (core.lua MAX_STANDARD_OUTBOUND, ipc_thread.lua MAX_INBOUND_BACKLOG).
THEOREM LinkTypeCorrect == Spec => []TypeOK
  BY TypedInit, TypedNext, TypedIs, PTL DEF Spec

-----------------------------------------------------------------------------
(***************************************************************************)
(* The commands on their way.  Each is held by one channel or by one       *)
(* worker; a worker's are heard, then under way, then unsent, and those    *)
(* its game still queues were all asked for later.                         *)
(***************************************************************************)
Requests(q) == {q[i] : i \in DOMAIN q} \cap Request
Increasing(q) ==
    \A i, j \in DOMAIN q : i < j /\ q[i] \in Request /\ q[j] \in Request => q[i] < q[j]
Below(S, T) == \A a \in S, b \in T : a < b

Waiting(w) == {unsent[w]} \cap Request
Taken(w) == Requests(heard[w]) \cup Requests(up[w]) \cup Waiting(w)

InLine(w) ==
    /\ Increasing(heard[w]) /\ Increasing(up[w])
    /\ Below(Requests(heard[w]), Requests(up[w]))
    /\ Below(Requests(heard[w]) \cup Requests(up[w]), Waiting(w))
    /\ Below(Taken(w), Requests(outbound[GameOf[w]]))

Apart ==
    /\ \A v, w \in Worker : v # w => Taken(v) \cap Taken(w) = {}
    /\ \A w \in Worker, g \in Game : Taken(w) \cap Requests(outbound[g]) = {}
    /\ \A g, h \in Game : g # h => Requests(outbound[g]) \cap Requests(outbound[h]) = {}

Issued ==
    /\ \A w \in Worker : Taken(w) \subseteq 1 .. asked
    /\ \A g \in Game : Requests(outbound[g]) \subseteq 1 .. asked

Lined ==
    /\ \A w \in Worker : InLine(w)
    /\ \A g \in Game : Increasing(outbound[g])
    /\ Apart /\ Issued

\* An acknowledgement on its way to a game is of a command that was done.
AcksDone ==
    /\ \A w \in Worker : \A i \in DOMAIN down[w] : down[w][i].kind = "ack" => down[w][i].of \in done
    /\ \A g \in Game : \A i \in DOMAIN inbound[g] :
          inbound[g][i].kind = "ack" => inbound[g][i].of \in done

\* What a channel holds when a message is added, one is read, or all of another
\* is added to it.
LEMMA Numbers ==
    /\ Request \subseteq Int /\ \A S, T : Below(S, T) => S \cap T \cap Int = {}
    /\ Requests(<<>>) = {} /\ \A m : m \notin Request => Requests(<<m>>) = {}
    /\ \A q : Requests(q) \subseteq Request
  BY Constants DEF Below, Requests

LEMMA NoneInOrder == ASSUME NEW q, Requests(q) = {} PROVE Increasing(q)
  BY DEF Requests, Increasing

LEMMA Added ==
    ASSUME NEW S, NEW q \in Seq(S), NEW m \in S
    PROVE  /\ Requests(Append(q, m)) = Requests(q) \cup ({m} \cap Request)
           /\ Increasing(q) /\ Below(Requests(q), {m} \cap Request) => Increasing(Append(q, m))
<1> DEFINE a == Append(q, m)
<1>1. /\ DOMAIN a = 1 .. Len(q) + 1 /\ DOMAIN q = 1 .. Len(q) /\ Len(q) \in Nat
      /\ a[Len(q) + 1] = m /\ \A i \in DOMAIN q : i \in DOMAIN a /\ a[i] = q[i]
  OBVIOUS
<1> HIDE DEF a
<1>2. Requests(a) = Requests(q) \cup ({m} \cap Request)
  BY <1>1 DEF Requests
<1>3. ASSUME Increasing(q), Below(Requests(q), {m} \cap Request)
      PROVE  Increasing(a)
  <2> SUFFICES ASSUME NEW i \in DOMAIN a, NEW j \in DOMAIN a, i < j, a[i] \in Request, a[j] \in Request
               PROVE  a[i] < a[j]
    BY DEF Increasing
  <2>1. i \in DOMAIN q /\ a[i] = q[i] /\ a[i] \in Requests(q)
    BY <1>1 DEF Requests
  <2>2. CASE j \in DOMAIN q
    BY <1>1, <1>3, <2>1, <2>2 DEF Increasing
  <2>3. CASE j = Len(q) + 1
    BY <1>1, <1>3, <2>1, <2>3 DEF Below
  <2> QED BY <1>1, <2>2, <2>3
<1> QED BY <1>2, <1>3 DEF a

LEMMA FirstRead ==
    ASSUME NEW S, NEW q \in Seq(S), q # <<>>
    PROVE  /\ Requests(q) = Requests(Tail(q)) \cup ({Head(q)} \cap Request)
           /\ Increasing(q) => /\ Increasing(Tail(q))
                               /\ Below({Head(q)} \cap Request, Requests(Tail(q)))
<1> DEFINE t == Tail(q)
<1>1. /\ DOMAIN t = 1 .. Len(q) - 1 /\ DOMAIN q = 1 .. Len(q) /\ Len(q) \in Nat \ {0}
      /\ Head(q) = q[1] /\ \A i \in DOMAIN t : i + 1 \in DOMAIN q /\ t[i] = q[i + 1]
      /\ \A i \in DOMAIN q : i # 1 => i - 1 \in DOMAIN t /\ t[i - 1] = q[i]
  OBVIOUS
<1> HIDE DEF t
<1>2. Requests(q) = Requests(t) \cup ({Head(q)} \cap Request)
  <2>1. \A m \in Requests(q) : m \in Requests(t) \cup ({Head(q)} \cap Request)
    BY <1>1 DEF Requests
  <2>2. \A m \in Requests(t) : m \in Requests(q)
    BY <1>1 DEF Requests
  <2>3. {Head(q)} \cap Request \subseteq Requests(q)
    BY <1>1 DEF Requests
  <2> QED BY <2>1, <2>2, <2>3
<1>3. ASSUME Increasing(q)
      PROVE  Increasing(t) /\ Below({Head(q)} \cap Request, Requests(t))
  <2>1. Increasing(t)
    BY <1>1, <1>3 DEF Increasing
  <2>2. Below({Head(q)} \cap Request, Requests(t))
    BY <1>1, <1>3 DEF Increasing, Below, Requests
  <2> QED BY <2>1, <2>2
<1> QED BY <1>2, <1>3 DEF t

LEMMA Joined ==
    ASSUME NEW S, NEW q \in Seq(S), NEW r \in Seq(S)
    PROVE  /\ Requests(q \o r) = Requests(q) \cup Requests(r)
           /\ Increasing(q) /\ Increasing(r) /\ Below(Requests(q), Requests(r)) =>
                  Increasing(q \o r)
<1> DEFINE a == q \o r
<1>1. /\ DOMAIN a = 1 .. Len(q) + Len(r) /\ DOMAIN q = 1 .. Len(q) /\ DOMAIN r = 1 .. Len(r)
      /\ Len(q) \in Nat /\ Len(r) \in Nat
      /\ \A i \in DOMAIN q : i \in DOMAIN a /\ a[i] = q[i]
      /\ \A i \in DOMAIN r : i + Len(q) \in DOMAIN a /\ a[i + Len(q)] = r[i]
      /\ \A i \in DOMAIN a : i \notin DOMAIN q => i - Len(q) \in DOMAIN r /\ a[i] = r[i - Len(q)]
  OBVIOUS
<1> HIDE DEF a
<1>2. Requests(a) = Requests(q) \cup Requests(r)
  <2>1. \A m \in Requests(a) : m \in Requests(q) \cup Requests(r)
    BY <1>1 DEF Requests
  <2>2. \A m \in Requests(q) : m \in Requests(a)
    BY <1>1 DEF Requests
  <2>3. \A m \in Requests(r) : m \in Requests(a)
    BY <1>1 DEF Requests
  <2> QED BY <2>1, <2>2, <2>3
<1>3. ASSUME Increasing(q), Increasing(r), Below(Requests(q), Requests(r))
      PROVE  Increasing(a)
  <2> SUFFICES ASSUME NEW i \in DOMAIN a, NEW j \in DOMAIN a, i < j, a[i] \in Request, a[j] \in Request
               PROVE  a[i] < a[j]
    BY DEF Increasing
  <2>1. CASE j \in DOMAIN q
    BY <1>1, <1>3, <2>1 DEF Increasing
  <2>2. CASE j \notin DOMAIN q /\ i \in DOMAIN q
    <3>1. a[i] \in Requests(q) /\ a[j] \in Requests(r)
      BY <1>1, <2>2 DEF Requests
    <3> QED BY <1>3, <3>1 DEF Below
  <2>3. CASE j \notin DOMAIN q /\ i \notin DOMAIN q
    BY <1>1, <1>3, <2>3 DEF Increasing
  <2> QED BY <2>1, <2>2, <2>3
<1> QED BY <1>2, <1>3 DEF a

\* The steps that only lose commands.
LEMMA OnlyLost ==
    ASSUME Lined, asked' = asked,
           \A w \in Worker : /\ heard'[w] = heard[w]
                             /\ up'[w] = up[w] \/ Requests(up'[w]) = {}
                             /\ unsent'[w] = unsent[w] \/ unsent'[w] \notin Request,
           \A g \in Game : outbound'[g] = outbound[g] \/ Requests(outbound'[g]) = {}
    PROVE  Lined'
<1>1. \A w \in Worker :
         /\ Requests(up'[w]) \subseteq Requests(up[w]) /\ Waiting(w)' \subseteq Waiting(w)
         /\ Taken(w)' \subseteq Taken(w) /\ Increasing(up'[w])
  BY NoneInOrder DEF Waiting, Taken, Lined, InLine
<1>2. \A g \in Game : /\ Requests(outbound'[g]) \subseteq Requests(outbound[g])
                      /\ Increasing(outbound'[g])
  BY NoneInOrder DEF Lined
<1>3. ASSUME NEW w \in Worker PROVE InLine(w)'
  <2>1. GameOf[w] \in Game
    BY Constants
  <2> QED BY <1>1, <1>2, <2>1 DEF Lined, InLine, Below
<1>4. Apart'
  BY <1>1, <1>2 DEF Lined, Apart
<1>5. Issued'
  BY <1>1, <1>2 DEF Lined, Issued
<1> QED BY <1>2, <1>3, <1>4, <1>5 DEF Lined

\* The steps of a worker that take commands from its channel or pass them on.
LEMMA Handed ==
    ASSUME Lined, asked' = asked, NEW w \in Worker, NEW g \in Game, GameOf[w] = g,
           \A v \in Worker : v # w =>
               heard'[v] = heard[v] /\ up'[v] = up[v] /\ unsent'[v] = unsent[v],
           \A h \in Game : h # g => outbound'[h] = outbound[h],
           Increasing(outbound'[g]), Requests(outbound'[g]) \subseteq Requests(outbound[g]),
           Taken(w)' \subseteq Taken(w) \cup Requests(outbound[g]), InLine(w)'
    PROVE  Lined'
<1>1. \A v \in Worker : v # w => Taken(v)' = Taken(v)
  BY DEF Taken, Waiting
<1>2. Taken(w)' \cap Requests(outbound'[g]) = {}
  <2>1. Below(Taken(w)', Requests(outbound'[g]))
    BY DEF InLine
  <2>2. Requests(outbound'[g]) \subseteq Int
    BY Numbers
  <2> QED BY <2>1, <2>2 DEF Below
<1>3. ASSUME NEW v \in Worker, v # w PROVE InLine(v)'
  <2>1. GameOf[v] \in Game /\ Requests(outbound'[GameOf[v]]) \subseteq Requests(outbound[GameOf[v]])
    BY Constants
  <2>2. InLine(v)
    BY DEF Lined
  <2>3. Below(Taken(v)', Requests(outbound'[GameOf[v]]))
    BY <1>1, <1>3, <2>1, <2>2 DEF InLine, Below
  <2> QED BY <1>3, <2>2, <2>3 DEF InLine, Waiting
<1>4. Apart'
  <2>1. ASSUME NEW v \in Worker, v # w PROVE Taken(v)' \cap Taken(w)' = {}
    BY <1>1, <2>1 DEF Lined, Apart
  <2>2. ASSUME NEW v \in Worker, NEW h \in Game PROVE Taken(v)' \cap Requests(outbound'[h]) = {}
    <3>1. CASE v # w
      BY <1>1, <3>1 DEF Lined, Apart
    <3>2. CASE v = w /\ h # g
      BY <3>2 DEF Lined, Apart
    <3> QED BY <1>2, <3>1, <3>2
  <2>3. \A h, k \in Game : h # k => Requests(outbound'[h]) \cap Requests(outbound'[k]) = {}
    BY DEF Lined, Apart
  <2>4. \A v, x \in Worker : v # x => Taken(v)' \cap Taken(x)' = {}
    BY <1>1, <2>1 DEF Lined, Apart
  <2> QED BY <2>2, <2>3, <2>4 DEF Apart
<1>5. Issued'
  BY <1>1 DEF Lined, Issued
<1> QED BY <1>3, <1>4, <1>5 DEF Lined

LEMMA LinedUser ==
    ASSUME Typed, Lined, NEW g \in Game, User(g) \/ Frame(g)
    PROVE  Lined'
<1>0. outbound \in [Game -> Seq(Message)] /\ asked \in Nat
  BY DEF Typed, ChannelTyped, GameTyped
<1>1. CASE StartOnlineRuntime(g) \/ ExitOnline(g) \/ HandleEvent(g) \/ GiveUp(g)
  <2>1. UNCHANGED <<asked, heard, up, unsent>>
    BY <1>1 DEF StartOnlineRuntime, ExitOnline, HandleEvent, GiveUp, workerVars, wireVars,
       runtimeVars
  <2>2. \A h \in Game : outbound'[h] = outbound[h] \/ outbound'[h] = <<Hello>>
                        \/ outbound'[h] = <<End>>
    BY <1>0, <1>1 DEF StartOnlineRuntime, ExitOnline, HandleEvent, GiveUp
  <2> QED BY <2>1, <2>2, Constants, Numbers, OnlyLost
<1>2. CASE Command(g)
  <2> DEFINE m == asked + 1
  <2>1. /\ asked' = m /\ UNCHANGED <<heard, up, unsent>>
        /\ outbound' = [outbound EXCEPT ![g] = Append(outbound[g], m)]
    BY <1>2 DEF Command, workerVars, wireVars, runtimeVars
  <2>0. m \in Request /\ m \in Message
    BY <1>0, <1>2, Constants DEF Command, Request
  <2>2. /\ outbound[g] \in Seq(Message) /\ m \notin 1 .. asked /\ 1 .. asked \subseteq 1 .. m
        /\ m \in 1 .. m /\ \A a \in 1 .. asked : a < m
    BY <1>0
  <2> HIDE DEF m
  <2>3. /\ Requests(outbound'[g]) = Requests(outbound[g]) \cup {m}
        /\ Below(Requests(outbound[g]), {m} \cap Request) => Increasing(outbound'[g])
        /\ \A h \in Game : h # g => outbound'[h] = outbound[h]
    <3>1. outbound'[g] = Append(outbound[g], m) /\ \A h \in Game : h # g => outbound'[h] = outbound[h]
      BY <1>0, <2>1
    <3>2. {m} \cap Request = {m} /\ Increasing(outbound[g])
      BY <2>0 DEF Lined
    <3>3. /\ Requests(Append(outbound[g], m)) = Requests(outbound[g]) \cup ({m} \cap Request)
          /\ Increasing(outbound[g]) /\ Below(Requests(outbound[g]), {m} \cap Request) =>
                Increasing(Append(outbound[g], m))
      BY <2>0, <2>2, Added
    <3> QED BY <3>1, <3>2, <3>3
  <2>4. \A w \in Worker : Taken(w)' = Taken(w) /\ Taken(w) \subseteq 1 .. asked
    BY <2>1 DEF Taken, Waiting, Lined, Issued
  <2>5. \A h \in Game : Requests(outbound[h]) \subseteq 1 .. asked
    BY DEF Lined, Issued
  <2>6. \A h \in Game : Increasing(outbound'[h])
    BY <2>2, <2>3, <2>5 DEF Below, Lined
  <2>7. ASSUME NEW w \in Worker PROVE InLine(w)'
    <3>1. InLine(w) /\ GameOf[w] \in Game
      BY Constants DEF Lined
    <3>2. Below(Taken(w)', Requests(outbound'[GameOf[w]]))
      <4>1. CASE GameOf[w] = g
        BY <2>2, <2>3, <2>4, <3>1, <4>1 DEF InLine, Below
      <4>2. CASE GameOf[w] # g
        BY <2>3, <2>4, <3>1, <4>2 DEF InLine
      <4> QED BY <4>1, <4>2
    <3> QED BY <2>1, <3>1, <3>2 DEF InLine, Waiting
  <2>8. Apart'
    <3>1. \A w \in Worker, h \in Game : Taken(w)' \cap Requests(outbound'[h]) = {}
      BY <2>2, <2>3, <2>4 DEF Lined, Apart
    <3>2. \A h, k \in Game : h # k => Requests(outbound'[h]) \cap Requests(outbound'[k]) = {}
      BY <2>2, <2>3, <2>5 DEF Lined, Apart
    <3> QED BY <2>4, <3>1, <3>2 DEF Lined, Apart
  <2>9. Issued'
    BY <2>1, <2>2, <2>3, <2>4, <2>5 DEF Issued
  <2> QED BY <2>6, <2>7, <2>8, <2>9 DEF Lined
<1> QED BY <1>1, <1>2 DEF User, Frame

\* What a worker takes from its channel is the first command on it.
LEMMA TakenFirst ==
    ASSUME Typed, Lined, NEW w \in Worker, Dequeue(w)
    PROVE  LET g == GameOf[w]
               next == {NextQueued(w)} \cap Request IN
           /\ \A h \in Game : h # g => outbound'[h] = outbound[h]
           /\ Increasing(outbound'[g]) /\ Requests(outbound'[g]) \subseteq Requests(outbound[g])
           /\ next \subseteq Waiting(w) \cup Requests(outbound[g])
           /\ Below(next, Requests(outbound'[g]))
           /\ Below(Requests(heard[w]) \cup Requests(up[w]), next)
<1> DEFINE g == GameOf[w]
           next == {NextQueued(w)} \cap Request
<1>1. /\ g \in Game /\ outbound \in [Game -> Seq(Message)] /\ outbound[g] \in Seq(Message)
      /\ InLine(w) /\ Increasing(outbound[g])
  BY Constants DEF Typed, ChannelTyped, Lined
<1>2. CASE unsent[w] # NoMessage
  <2>1. outbound' = outbound /\ next = Waiting(w)
    BY <1>2 DEF Dequeue, NextQueued, Waiting
  <2>2. Below(next, Requests(outbound[g])) /\ Below(Requests(heard[w]) \cup Requests(up[w]), next)
    BY <1>1, <2>1 DEF InLine, Taken, Below
  <2> QED BY <1>1, <2>1, <2>2
<1>3. CASE unsent[w] = NoMessage
  <2>1. /\ outbound[g] # <<>> /\ next = {Head(outbound[g])} \cap Request
        /\ outbound' = [outbound EXCEPT ![g] = Tail(outbound[g])]
    BY <1>3 DEF Dequeue, HasQueued, NextQueued
  <2>2. /\ outbound'[g] = Tail(outbound[g]) /\ \A h \in Game : h # g => outbound'[h] = outbound[h]
    BY <1>1, <2>1
  <2>3. /\ Requests(outbound[g]) = Requests(outbound'[g]) \cup next
        /\ Increasing(outbound'[g]) /\ Below(next, Requests(outbound'[g]))
    BY <1>1, <2>1, <2>2, FirstRead
  <2>4. Below(Requests(heard[w]) \cup Requests(up[w]), next)
    BY <1>1, <2>3 DEF InLine, Taken, Below
  <2> QED BY <2>2, <2>3, <2>4
<1> QED BY <1>2, <1>3

LEMMA LinedWorker ==
    ASSUME Typed, Lined, NEW w \in Worker, WorkerLoop(w)
    PROVE  Lined'
<1> DEFINE g == GameOf[w]
           next == {NextQueued(w)} \cap Request
<1>0. /\ g \in Game /\ outbound \in [Game -> Seq(Message)] /\ outbound[g] \in Seq(Message)
      /\ up \in [Worker -> Seq(Message)] /\ up[w] \in Seq(Message)
      /\ unsent \in [Worker -> Message \cup {NoMessage}]
      /\ InLine(w) /\ Increasing(outbound[g])
  BY Constants DEF Typed, ChannelTyped, WireTyped, WorkerTyped, Lined
<1>1. CASE Stop(w)
  <2>1. /\ UNCHANGED <<asked, heard>> /\ \A v \in Worker : v # w => up'[v] = up[v] /\ unsent'[v] = unsent[v]
        /\ \A h \in Game : h # g => outbound'[h] = outbound[h]
        /\ unsent'[w] = NoMessage
    BY <1>0, <1>1 DEF Stop, runtimeVars
  <2>2. CASE conn[w] = "open"
    <3>1. up'[w] = up[w] \o outbound[g] /\ outbound'[g] = <<>>
      BY <1>0, <1>1, <2>2 DEF Stop
    <3>2. Requests(outbound'[g]) = {} /\ Increasing(outbound'[g]) /\ Waiting(w)' = {}
      BY <2>1, <3>1, Numbers, NoneInOrder, Constants DEF Waiting
    <3>3. Below(Requests(up[w]), Requests(outbound[g]))
      BY <1>0 DEF InLine, Taken, Below
    <3>4. Requests(up'[w]) = Requests(up[w]) \cup Requests(outbound[g]) /\ Increasing(up'[w])
      BY <1>0, <3>1, <3>3, Joined DEF InLine
    <3>5. /\ Taken(w)' \subseteq Taken(w) \cup Requests(outbound[g])
      BY <2>1, <3>2, <3>4 DEF Taken
    <3>6. Below(Requests(heard[w]), Requests(up'[w]))
      BY <1>0, <3>4 DEF InLine, Taken, Below
    <3>7. InLine(w)'
      BY <1>0, <2>1, <3>2, <3>4, <3>6 DEF InLine, Below
    <3> QED BY <1>0, <2>1, <3>2, <3>5, <3>7, Handed
  <2>3. CASE conn[w] # "open"
    <3>1. up' = up /\ (outbound'[g] = outbound[g] \/ outbound'[g] = <<>>)
      BY <1>0, <1>1, <2>3 DEF Stop
    <3>2. \A v \in Worker : unsent'[v] = unsent[v] \/ unsent'[v] \notin Request
      BY <2>1, Constants
    <3> QED BY <2>1, <3>1, <3>2, Numbers, OnlyLost
  <2> QED BY <2>2, <2>3
<1>2. CASE LaunchRuntime(w) \/ Receive(w)
  <2>1. UNCHANGED <<asked, heard, up, unsent, outbound>>
    BY <1>2 DEF LaunchRuntime, Receive, gameVars, workerVars, wireVars, runtimeVars
  <2> QED BY <2>1, OnlyLost
<1>3. CASE Connect(w)
  <2>1. UNCHANGED <<asked, heard, outbound>>
    BY <1>3 DEF Connect, gameVars, runtimeVars
  <2>2. \A v \in Worker : up'[v] = up[v] \/ up'[v] = <<>> \/ up'[v] = <<Hello>>
    BY <1>0, <1>3 DEF Connect, Handshake
  <2>3. \A v \in Worker : unsent'[v] = unsent[v] \/ unsent'[v] = NoMessage
    BY <1>0, <1>3 DEF Connect, Handshake
  <2> QED BY <2>1, <2>2, <2>3, Constants, Numbers, OnlyLost
<1>4. CASE Send(w)
  <2>1. Dequeue(w) /\ UNCHANGED <<asked, heard>> /\ NextQueued(w) \in Message
    BY <1>4, Dequeued DEF Send, runtimeVars
  <2>2. /\ up'[w] = Append(up[w], NextQueued(w)) /\ unsent'[w] = NoMessage
        /\ \A v \in Worker : v # w => up'[v] = up[v] /\ unsent'[v] = unsent[v]
    BY <1>0, <1>4 DEF Send
  <2>3. /\ \A h \in Game : h # g => outbound'[h] = outbound[h]
        /\ Increasing(outbound'[g]) /\ Requests(outbound'[g]) \subseteq Requests(outbound[g])
        /\ next \subseteq Waiting(w) \cup Requests(outbound[g])
        /\ Below(next, Requests(outbound'[g]))
        /\ Below(Requests(heard[w]) \cup Requests(up[w]), next)
    BY <2>1, TakenFirst
  <2>4. Requests(up'[w]) = Requests(up[w]) \cup next /\ Increasing(up'[w])
    <3>1. Below(Requests(up[w]), next) /\ Increasing(up[w])
      BY <1>0, <2>3 DEF Below, InLine
    <3> QED BY <1>0, <2>1, <2>2, <3>1, Added
  <2>5. Waiting(w)' = {} /\ Taken(w)' = Requests(heard[w]) \cup Requests(up[w]) \cup next
    BY <2>1, <2>2, <2>4, Constants DEF Waiting, Taken
  <2> HIDE DEF next
  <2>6. Taken(w)' \subseteq Taken(w) \cup Requests(outbound[g])
    BY <2>3, <2>5 DEF Taken
  <2>7. InLine(w)'
    <3>1. /\ Below(Requests(heard[w]), Requests(up'[w]))
          /\ Below(Taken(w)', Requests(outbound'[g]))
      BY <1>0, <2>3, <2>4, <2>5 DEF InLine, Taken, Below
    <3> QED BY <1>0, <2>1, <2>4, <2>5, <3>1 DEF InLine, Below
  <2> QED BY <1>0, <2>1, <2>2, <2>3, <2>6, <2>7, Handed
<1>5. CASE SendFails(w)
  <2>1. Dequeue(w) /\ UNCHANGED <<asked, heard>>
    BY <1>5 DEF SendFails, runtimeVars
  <2>2. /\ up'[w] = <<>> /\ unsent'[w] = NextQueued(w)
        /\ \A v \in Worker : v # w => up'[v] = up[v] /\ unsent'[v] = unsent[v]
    BY <1>0, <1>5 DEF SendFails, Disconnect
  <2>3. /\ \A h \in Game : h # g => outbound'[h] = outbound[h]
        /\ Increasing(outbound'[g]) /\ Requests(outbound'[g]) \subseteq Requests(outbound[g])
        /\ next \subseteq Waiting(w) \cup Requests(outbound[g])
        /\ Below(next, Requests(outbound'[g]))
        /\ Below(Requests(heard[w]) \cup Requests(up[w]), next)
    BY <2>1, TakenFirst
  <2>4. Requests(up'[w]) = {} /\ Increasing(up'[w]) /\ Waiting(w)' = next
    BY <2>2, Numbers, NoneInOrder DEF Waiting
  <2>5. Taken(w)' = Requests(heard[w]) \cup next
    BY <2>1, <2>4 DEF Taken
  <2> HIDE DEF next
  <2>6. Taken(w)' \subseteq Taken(w) \cup Requests(outbound[g])
    BY <2>3, <2>5 DEF Taken
  <2>7. InLine(w)'
    <3>1. /\ Below(Requests(heard[w]), Requests(up'[w]))
          /\ Below(Requests(heard[w]) \cup Requests(up'[w]), Waiting(w)')
          /\ Below(Taken(w)', Requests(outbound'[g]))
      BY <1>0, <2>3, <2>4, <2>5 DEF InLine, Taken, Below
    <3> QED BY <1>0, <2>1, <2>4, <3>1 DEF InLine
  <2> QED BY <1>0, <2>1, <2>2, <2>3, <2>6, <2>7, Handed
<1>6. CASE ReceiveFails(w)
  <2>1. UNCHANGED <<asked, heard, unsent, outbound>>
    BY <1>6 DEF ReceiveFails, workerVars, runtimeVars
  <2>2. \A v \in Worker : up'[v] = up[v] \/ up'[v] = <<>>
    BY <1>0, <1>6 DEF ReceiveFails, Disconnect
  <2> QED BY <2>1, <2>2, Numbers, OnlyLost
<1> QED BY <1>1, <1>2, <1>3, <1>4, <1>5, <1>6 DEF WorkerLoop

LEMMA LinedAccept ==
    ASSUME Typed, Lined, NEW w \in Worker, Accept(w)
    PROVE  Lined'
<1> DEFINE m == Head(up[w])
           g == GameOf[w]
<1>0. /\ g \in Game /\ up \in [Worker -> Seq(Message)] /\ up[w] \in Seq(Message) /\ up[w] # <<>>
      /\ heard \in [Worker -> Seq(Request)] /\ heard[w] \in Seq(Request)
      /\ InLine(w) /\ Increasing(outbound[g])
  BY Constants DEF Typed, WireTyped, RuntimeTyped, Lined, Accept
<1>1. /\ UNCHANGED <<asked, outbound, unsent>> /\ up'[w] = Tail(up[w])
      /\ \A v \in Worker : v # w => heard'[v] = heard[v] /\ up'[v] = up[v]
      /\ heard'[w] = IF m \in Request THEN Append(heard[w], m) ELSE heard[w]
  BY <1>0 DEF Accept, gameVars, workerVars
<1>2. /\ Requests(up[w]) = Requests(up'[w]) \cup ({m} \cap Request)
      /\ Increasing(up'[w]) /\ Below({m} \cap Request, Requests(up'[w]))
  BY <1>0, <1>1, FirstRead DEF InLine
<1> HIDE DEF m
<1>3. /\ Requests(heard'[w]) = Requests(heard[w]) \cup ({m} \cap Request)
      /\ Increasing(heard'[w])
  <2>1. CASE m \in Request
    <3>1. Below(Requests(heard[w]), {m} \cap Request)
      BY <1>0, <1>2 DEF InLine, Below
    <3> QED BY <1>0, <1>1, <2>1, <3>1, Added DEF InLine
  <2>2. CASE m \notin Request
    BY <1>0, <1>1, <2>2 DEF InLine
  <2> QED BY <2>1, <2>2
<1>4. Taken(w)' = Taken(w)
  BY <1>1, <1>2, <1>3 DEF Taken, Waiting
<1>5. InLine(w)'
  <2>1. /\ Below(Requests(heard'[w]), Requests(up'[w]))
        /\ Below(Requests(heard'[w]) \cup Requests(up'[w]), Waiting(w))
    BY <1>0, <1>2, <1>3 DEF InLine, Below
  <2> QED BY <1>0, <1>1, <1>2, <1>3, <1>4, <2>1 DEF InLine, Waiting
<1> QED BY <1>0, <1>1, <1>4, <1>5, Handed

LEMMA LinedNext == Typed /\ Lined /\ [Next]_vars => Lined'
<1> SUFFICES ASSUME Typed, Lined, [Next]_vars PROVE Lined'
  OBVIOUS
<1>0. up \in [Worker -> Seq(Message)]
  BY DEF Typed, WireTyped
<1>1. ASSUME NEW w \in Worker, Refuse(w) \/ ReadEnds(w) \/ PipeBreaks(w) PROVE Lined'
  <2>1. UNCHANGED <<asked, heard, unsent, outbound>>
    BY <1>1 DEF Refuse, ReadEnds, PipeBreaks, gameVars, workerVars, runtimeVars
  <2>2. \A v \in Worker : up'[v] = up[v] \/ up'[v] = <<>>
    BY <1>0, <1>1 DEF Refuse, ReadEnds, PipeBreaks
  <2> QED BY <2>1, <2>2, Numbers, OnlyLost
<1>2. ASSUME \/ \E r \in Request : Execute(r)
             \/ Process \/ RuntimeCrashes \/ UNCHANGED vars
      PROVE  Lined'
  <2>1. UNCHANGED <<asked, heard, unsent, outbound>>
    BY <1>2 DEF Execute, Process, StartServing, ExecuteSessionEnd, RuntimeExits, EndControl,
       RuntimeGone, RuntimeCrashes, vars, gameVars, workerVars, runtimeVars
  <2>2. \A v \in Worker : up'[v] = up[v] \/ up'[v] = <<>>
    BY <1>0, <1>2 DEF Execute, Process, StartServing, ExecuteSessionEnd, RuntimeExits, EndControl,
       RuntimeGone, RuntimeCrashes, vars, wireVars
  <2> QED BY <2>1, <2>2, Numbers, OnlyLost
<1> QED BY <1>1, <1>2, LinedUser, LinedWorker, LinedAccept DEF Next, Serve

-----------------------------------------------------------------------------
(***************************************************************************)
(* The answers to the commands, and the busy flag.                         *)
(***************************************************************************)
LEMMA AddedAnswer ==
    ASSUME NEW S, NEW q \in Seq(S), NEW m \in S, NEW D,
           \A i \in DOMAIN q : q[i].kind = "ack" => q[i].of \in D,
           m.kind = "ack" => m.of \in D
    PROVE  \A i \in DOMAIN Append(q, m) :
              Append(q, m)[i].kind = "ack" => Append(q, m)[i].of \in D
<1> DEFINE a == Append(q, m)
<1>1. \A i \in DOMAIN a : (i \in DOMAIN q /\ a[i] = q[i]) \/ a[i] = m
  OBVIOUS
<1> HIDE DEF a
<1>2. \A i \in DOMAIN a : a[i].kind = "ack" => a[i].of \in D
  BY <1>1
<1> QED BY <1>2 DEF a

LEMMA ReadAnswer ==
    ASSUME NEW S, NEW q \in Seq(S), q # <<>>, NEW D,
           \A i \in DOMAIN q : q[i].kind = "ack" => q[i].of \in D
    PROVE  /\ \A i \in DOMAIN Tail(q) : Tail(q)[i].kind = "ack" => Tail(q)[i].of \in D
           /\ Head(q).kind = "ack" => Head(q).of \in D
<1> DEFINE t == Tail(q)
<1>1. /\ Head(q) = q[1] /\ 1 \in DOMAIN q
      /\ \A i \in DOMAIN t : i + 1 \in DOMAIN q /\ t[i] = q[i + 1]
  OBVIOUS
<1> HIDE DEF t
<1>2. \A i \in DOMAIN t : t[i].kind = "ack" => t[i].of \in D
  BY <1>1
<1> QED BY <1>1, <1>2 DEF t

LEMMA GoneIsNoAck == Gone.kind # "ack" /\ \A r : [kind |-> "error", of |-> r].kind # "ack"
  BY DEF Gone

LEMMA AnsweredWorker ==
    ASSUME Typed, AcksDone, NEW w \in Worker, WorkerLoop(w)
    PROVE  AcksDone' /\ UNCHANGED <<done, accepted>>
<1> DEFINE g == GameOf[w]
<1>0. /\ g \in Game /\ inbound \in [Game -> Seq(Answer \cup {Gone})]
      /\ inbound[g] \in Seq(Answer \cup {Gone})
      /\ down \in [Worker -> Seq(Answer)] /\ down[w] \in Seq(Answer)
      /\ \A v \in Worker : \A i \in DOMAIN down[v] :
            down[v][i].kind = "ack" => down[v][i].of \in done
      /\ \A h \in Game : \A i \in DOMAIN inbound[h] :
            inbound[h][i].kind = "ack" => inbound[h][i].of \in done
  BY Constants DEF Typed, ChannelTyped, WireTyped, AcksDone
<1>1. UNCHANGED <<done, accepted>>
  BY DEF WorkerLoop, Stop, LaunchRuntime, Connect, Send, SendFails, Receive, ReceiveFails, gameVars,
     runtimeVars, controlVars
<1>2. CASE Receive(w)
  <2>1. /\ down[w] # <<>> /\ down' = [down EXCEPT ![w] = Tail(down[w])]
        /\ inbound' = [inbound EXCEPT ![g] = Append(inbound[g], Head(down[w]))]
    BY <1>2 DEF Receive
  <2>2. /\ \A i \in DOMAIN down'[w] : down'[w][i].kind = "ack" => down'[w][i].of \in done
        /\ Head(down[w]).kind = "ack" => Head(down[w]).of \in done
    BY <1>0, <2>1, ReadAnswer
  <2>3. Head(down[w]) \in Answer \cup {Gone}
    BY <1>0, <2>1, Reading
  <2>4. \A i \in DOMAIN inbound'[g] : inbound'[g][i].kind = "ack" => inbound'[g][i].of \in done
    BY <1>0, <2>1, <2>2, <2>3, AddedAnswer
  <2>5. /\ \A v \in Worker : v # w => down'[v] = down[v]
        /\ \A h \in Game : h # g => inbound'[h] = inbound[h]
    BY <1>0, <2>1
  <2> QED BY <1>0, <1>1, <2>2, <2>4, <2>5 DEF AcksDone
<1>3. CASE Disconnect(w)
  <2>1. /\ \A v \in Worker : down'[v] = down[v] \/ down'[v] = <<>>
        /\ inbound' = inbound \/ inbound' = [inbound EXCEPT ![g] = Append(inbound[g], Gone)]
    BY <1>0, <1>3 DEF Disconnect
  <2>5. \A h \in Game : inbound'[h] = inbound[h] \/ (h = g /\ inbound'[h] = Append(inbound[g], Gone))
    <3>1. CASE inbound' = inbound
      BY <3>1
    <3>2. CASE inbound' = [inbound EXCEPT ![g] = Append(inbound[g], Gone)]
      BY <1>0, <3>2
    <3> QED BY <2>1, <3>1, <3>2
  <2>2. \A i \in DOMAIN Append(inbound[g], Gone) :
            Append(inbound[g], Gone)[i].kind = "ack" => Append(inbound[g], Gone)[i].of \in done
    <3>1. Gone \in Answer \cup {Gone}
      OBVIOUS
    <3> QED BY <1>0, <3>1, AddedAnswer, GoneIsNoAck
  <2>3. ASSUME NEW v \in Worker, NEW i \in DOMAIN down'[v], down'[v][i].kind = "ack"
        PROVE  down'[v][i].of \in done
    BY <1>0, <2>1, <2>3
  <2>4. ASSUME NEW h \in Game, NEW i \in DOMAIN inbound'[h], inbound'[h][i].kind = "ack"
        PROVE  inbound'[h][i].of \in done
    BY <1>0, <2>2, <2>4, <2>5
  <2> QED BY <1>1, <2>3, <2>4 DEF AcksDone
<1>4. CASE Stop(w) \/ LaunchRuntime(w) \/ Connect(w) \/ Send(w)
  <2>1. /\ \A v \in Worker : down'[v] = down[v] \/ down'[v] = <<>>
        /\ inbound' = inbound
    BY <1>0, <1>4 DEF Stop, LaunchRuntime, Connect, Send, gameVars, wireVars
  <2> QED BY <1>0, <1>1, <2>1 DEF AcksDone
<1> QED BY <1>1, <1>2, <1>3, <1>4 DEF WorkerLoop, SendFails, ReceiveFails

LEMMA AnsweredFrame ==
    ASSUME Typed, AcksDone, AcceptedWereDone, NEW g \in Game, User(g) \/ Frame(g)
    PROVE  AcksDone' /\ AcceptedWereDone'
<1>0. /\ inbound \in [Game -> Seq(Answer \cup {Gone})] /\ inbound[g] \in Seq(Answer \cup {Gone})
      /\ \A h \in Game : \A i \in DOMAIN inbound[h] :
            inbound[h][i].kind = "ack" => inbound[h][i].of \in done
  BY DEF Typed, ChannelTyped, AcksDone
<1>1. UNCHANGED <<done, down>>
  BY DEF User, Frame, StartOnlineRuntime, Command, ExitOnline, HandleEvent, GiveUp, wireVars,
     runtimeVars, controlVars
<1>2. CASE HandleEvent(g)
  <2>1. /\ inbound[g] # <<>> /\ inbound' = [inbound EXCEPT ![g] = Tail(inbound[g])]
    BY <1>2 DEF HandleEvent
  <2>2. /\ \A i \in DOMAIN inbound'[g] : inbound'[g][i].kind = "ack" => inbound'[g][i].of \in done
        /\ Head(inbound[g]).kind = "ack" => Head(inbound[g]).of \in done
    BY <1>0, <2>1, ReadAnswer
  <2>3. AcksDone'
    BY <1>0, <1>1, <2>1, <2>2 DEF AcksDone
  <2>4. AcceptedWereDone'
    BY <1>1, <1>2, <2>2, GoneIsNoAck DEF HandleEvent, AcceptedWereDone, Settles
  <2> QED BY <2>3, <2>4
<1>3. CASE StartOnlineRuntime(g) \/ Command(g) \/ ExitOnline(g) \/ GiveUp(g)
  <2>1. accepted' = accepted /\ \A h \in Game : inbound'[h] = inbound[h] \/ inbound'[h] = <<>>
    BY <1>0, <1>3 DEF StartOnlineRuntime, Command, ExitOnline, GiveUp
  <2> QED BY <1>0, <1>1, <2>1 DEF AcksDone, AcceptedWereDone
<1> QED BY <1>2, <1>3 DEF User, Frame

\* What the runtime publishes is an error, or the answer to what it has done.
LEMMA AnswerPublished ==
    ASSUME Typed, AcksDone, done \subseteq done', inbound' = inbound, NEW event \in Answer,
           Publish(event) \/ Quiet, event.kind = "ack" => event.of \in done'
    PROVE  AcksDone'
<1>0. /\ down \in [Worker -> Seq(Answer)]
      /\ \A v \in Worker : \A i \in DOMAIN down[v] :
            down[v][i].kind = "ack" => down[v][i].of \in done'
      /\ \A h \in Game : \A i \in DOMAIN inbound[h] :
            inbound[h][i].kind = "ack" => inbound[h][i].of \in done'
  BY DEF Typed, WireTyped, AcksDone
<1>1. \A v \in Worker : down'[v] = down[v] \/ down'[v] = Append(down[v], event)
  BY <1>0 DEF Publish, Quiet
<1>2. ASSUME NEW v \in Worker
      PROVE  \A i \in DOMAIN down'[v] : down'[v][i].kind = "ack" => down'[v][i].of \in done'
  <2>1. CASE down'[v] = down[v]
    BY <1>0, <2>1
  <2>2. CASE down'[v] = Append(down[v], event)
    BY <1>0, <2>2, AddedAnswer
  <2> QED BY <1>1, <2>1, <2>2
<1> QED BY <1>0, <1>2 DEF AcksDone

LEMMA AnsweredRuntime ==
    ASSUME Typed, AcksDone, AcceptedWereDone,
           \/ \E w \in Worker : Serve(w) \/ PipeBreaks(w)
           \/ \E r \in Request : Execute(r)
           \/ Process \/ RuntimeCrashes \/ UNCHANGED vars
    PROVE  AcksDone' /\ AcceptedWereDone'
<1>1. UNCHANGED <<inbound, accepted>>
  BY DEF Serve, Accept, Refuse, ReadEnds, PipeBreaks, Execute, Process, StartServing,
     ExecuteSessionEnd, RuntimeExits, EndControl, RuntimeGone, RuntimeCrashes, vars, gameVars
<1>2. ASSUME NEW w \in Worker, Accept(w) PROVE AcksDone' /\ done' = done
  <2>1. done' = done
    BY <1>2 DEF Accept
  <2>2. CASE Quiet
    BY <1>1, <2>1, <2>2 DEF Quiet, AcksDone
  <2>3. CASE ~Quiet
    <3> DEFINE m == Head(up[w])
    <3>1. m \in Request /\ Publish([kind |-> "error", of |-> m])
      <4>1. up[w] \in Seq(Message) /\ up[w] # <<>>
        BY <1>2 DEF Accept, Typed, WireTyped
      <4>2. m \in Message
        BY <4>1, Reading
      <4> QED BY <1>2, <2>3, <4>2 DEF Accept, Dispatch, Message
    <3> QED BY <1>1, <2>1, <3>1, AnswerPublished, AnswersTyped, GoneIsNoAck
  <2> QED BY <2>1, <2>2, <2>3
<1>3. ASSUME NEW r \in Request, Execute(r) PROVE AcksDone' /\ done \subseteq done'
  <2>1. CASE done' = done \cup {r} /\ Publish([kind |-> "ack", of |-> r])
    <3>1. done \subseteq done' /\ [kind |-> "ack", of |-> r].of \in done'
      BY <2>1
    <3> QED BY <1>1, <2>1, <3>1, AnswerPublished, AnswersTyped
  <2>2. CASE done' = done /\ Publish([kind |-> "error", of |-> r])
    BY <1>1, <2>2, AnswerPublished, AnswersTyped, GoneIsNoAck
  <2> QED BY <1>3, <2>1, <2>2 DEF Execute
<1>4. ASSUME \/ \E w \in Worker : Refuse(w) \/ ReadEnds(w) \/ PipeBreaks(w)
             \/ Process \/ RuntimeCrashes \/ UNCHANGED vars
      PROVE  UNCHANGED <<down, done>>
  BY <1>4 DEF Refuse, ReadEnds, PipeBreaks, Process, StartServing, ExecuteSessionEnd, RuntimeExits,
     EndControl, RuntimeGone, RuntimeCrashes, vars, wireVars, runtimeVars, controlVars
<1> QED BY <1>1, <1>2, <1>3, <1>4 DEF Serve, AcksDone, AcceptedWereDone

LEMMA BusyNext ==
    Typed /\ BusyAccounted /\ [Next]_vars => BusyAccounted'
<1> SUFFICES ASSUME Typed, BusyAccounted, [Next]_vars PROVE BusyAccounted'
  OBVIOUS
<1>0. /\ control \in [Request \cup {End} -> ControlState] /\ busy \in BOOLEAN
      /\ \A r \in Request : r # End
  BY Constants DEF Typed, ControlTyped
<1>1. ASSUME NEW m \in Message, Dispatch(m), m # Hello PROVE BusyAccounted'
  <2>1. CASE m = End
    <3>1. busy' = busy /\ \A r \in Request : control'[r] = control[r]
      BY <1>0, <1>1, <2>1 DEF Dispatch
    <3> QED BY <3>1 DEF BusyAccounted
  <2>2. CASE m \in Request /\ busy
    BY <1>0, <1>1, <2>2 DEF Dispatch, BusyAccounted
  <2>3. CASE m \in Request /\ ~busy
    <3>1. busy' = TRUE /\ control' = [control EXCEPT ![m] = "running"]
      BY <1>0, <1>1, <2>3 DEF Dispatch
    <3>2. \A r \in Request : control[r] = "none"
      BY <2>3 DEF BusyAccounted
    <3> QED BY <1>0, <2>3, <3>1, <3>2 DEF BusyAccounted
  <2> QED BY <1>1, <2>1, <2>2, <2>3 DEF Message
<1>2. ASSUME NEW w \in Worker, Accept(w) PROVE BusyAccounted'
  <2>1. Head(up[w]) \in Message
    BY <1>2, Reading DEF Accept, Typed, WireTyped
  <2>2. CASE Head(up[w]) = Hello
    BY <1>2, <2>2 DEF Accept, BusyAccounted
  <2> QED BY <1>1, <1>2, <2>1, <2>2 DEF Accept
<1>3. ASSUME NEW r \in Request, Execute(r) PROVE BusyAccounted'
  <2>1. busy' = busy /\ \A s \in Request : (control'[s] # "none") <=> (control[s] # "none")
    BY <1>0, <1>3 DEF Execute
  <2> QED BY <2>1 DEF BusyAccounted
<1>4. CASE ExecuteSessionEnd
  <2>1. busy' = busy /\ \A s \in Request : control'[s] = control[s]
    BY <1>0, <1>4 DEF ExecuteSessionEnd
  <2> QED BY <2>1 DEF BusyAccounted
<1>5. ASSUME NEW m \in Request \cup {End}, EndControl(m) PROVE BusyAccounted'
  <2>1. CASE m = End
    <3>1. busy' = busy /\ \A s \in Request : control'[s] = control[s]
      BY <1>0, <1>5, <2>1 DEF EndControl, ReleasedBy
    <3> QED BY <3>1 DEF BusyAccounted
  <2>2. CASE m \in Request
    <3>1. \A s \in Request : s # m => control[s] = "none"
      BY <1>5, <2>2 DEF EndControl, BusyAccounted
    <3>2. busy' = FALSE /\ \A s \in Request : control'[s] = "none"
      BY <1>0, <1>5, <2>2, <3>1 DEF EndControl, ReleasedBy
    <3> QED BY <3>2 DEF BusyAccounted
  <2> QED BY <2>1, <2>2
<1>6. CASE RuntimeExits \/ RuntimeCrashes
  BY <1>6 DEF RuntimeExits, RuntimeCrashes, RuntimeGone, BusyAccounted
<1>7. ASSUME \/ \E g \in Game : User(g) \/ Frame(g)
             \/ \E w \in Worker : WorkerLoop(w) \/ Refuse(w) \/ ReadEnds(w) \/ PipeBreaks(w)
             \/ StartServing \/ UNCHANGED vars
      PROVE  UNCHANGED <<busy, control>>
  BY <1>7 DEF User, Frame, StartOnlineRuntime, Command, ExitOnline, HandleEvent, GiveUp, WorkerLoop,
     Stop, LaunchRuntime, Connect, Send, SendFails, Receive, ReceiveFails, Refuse, ReadEnds,
     PipeBreaks, StartServing, vars, runtimeVars, controlVars
<1> QED
  BY <1>2, <1>3, <1>4, <1>5, <1>6, <1>7 DEF Next, Serve, Process, BusyAccounted

\* What the game asks for reaches the runtime once and in order, whichever of
\* its workers takes it and whatever breaks on the way; at most one command
\* runs beside session_end, with the flag up exactly then; and what the game
\* takes for done was done (ipc_thread.lua pendingSend, ipc.rs ControlGuard,
\* core.lua handleCommand).
THEOREM CommandsReachOnce == Spec => []CommandsKept
<1> DEFINE Inv == Typed /\ Lined /\ AcksDone /\ AcceptedWereDone /\ BusyAccounted
<1>1. Init => Inv
  <2> SUFFICES ASSUME Init PROVE Inv
    OBVIOUS
  <2>1. Typed
    BY TypedInit
  <2>2. /\ \A w \in Worker : Taken(w) = {} /\ heard[w] = <<>> /\ up[w] = <<>> /\ down[w] = <<>>
        /\ \A w \in Worker : Waiting(w) = {}
        /\ \A g \in Game : outbound[g] = <<>> /\ inbound[g] = <<>>
    BY Constants, Numbers DEF Init, Taken, Waiting
  <2>3. Lined
    <3>1. /\ Increasing(<<>>) /\ \A w \in Worker : GameOf[w] \in Game
      BY Numbers, NoneInOrder, Constants
    <3> QED BY <2>2, <3>1, Numbers DEF Lined, InLine, Below, Apart, Issued
  <2>4. AcksDone
    BY <2>2 DEF AcksDone
  <2>5. AcceptedWereDone /\ BusyAccounted
    BY DEF Init, AcceptedWereDone, BusyAccounted
  <2> QED BY <2>1, <2>3, <2>4, <2>5
<1>2. Inv /\ [Next]_vars => Inv'
  <2> SUFFICES ASSUME Inv, [Next]_vars PROVE AcksDone' /\ AcceptedWereDone'
    BY TypedNext, LinedNext, BusyNext
  <2>1. ASSUME NEW w \in Worker, WorkerLoop(w) PROVE AcksDone' /\ AcceptedWereDone'
    BY <2>1, AnsweredWorker DEF AcceptedWereDone
  <2> QED BY <2>1, AnsweredFrame, AnsweredRuntime DEF Next
<1>3. Inv => CommandsKept
  <2> SUFFICES ASSUME Inv PROVE HeardOnce /\ HeardInOrder
    BY DEF CommandsKept
  <2>1. ASSUME NEW w \in Worker
        PROVE  /\ IsInjective(heard[w]) /\ Range(heard[w]) \subseteq Taken(w)
               /\ \A i, j \in DOMAIN heard[w] : i < j => heard[w][i] <= heard[w][j]
    <3>1. heard[w] \in Seq(Request) /\ Increasing(heard[w])
      BY DEF Typed, RuntimeTyped, Lined, InLine
    <3>2. /\ DOMAIN heard[w] \subseteq Int /\ \A i \in DOMAIN heard[w] : heard[w][i] \in Request
          /\ \A i, j \in DOMAIN heard[w] : i < j => heard[w][i] < heard[w][j]
      BY <3>1 DEF Increasing
    <3>3. IsInjective(heard[w])
      <4> SUFFICES ASSUME NEW i \in DOMAIN heard[w], NEW j \in DOMAIN heard[w],
                          heard[w][i] = heard[w][j], i # j
                   PROVE  FALSE
        BY DEF IsInjective
      <4>1. i \in Int /\ j \in Int /\ heard[w][i] \in Int
        BY <3>2, Numbers
      <4>2. i < j \/ j < i
        BY <4>1
      <4>3. heard[w][i] < heard[w][i]
        BY <3>2, <4>2
      <4> QED BY <4>1, <4>3
    <3>4. Range(heard[w]) \subseteq Taken(w)
      BY <3>2 DEF Range, Taken, Requests
    <3>5. \A i, j \in DOMAIN heard[w] : i < j => heard[w][i] <= heard[w][j]
      <4> SUFFICES ASSUME NEW i \in DOMAIN heard[w], NEW j \in DOMAIN heard[w], i < j
                   PROVE  heard[w][i] <= heard[w][j]
        OBVIOUS
      <4>1. heard[w][i] \in Int /\ heard[w][j] \in Int /\ heard[w][i] < heard[w][j]
        <5>1. heard[w][i] \in Request /\ heard[w][j] \in Request /\ heard[w][i] < heard[w][j]
          BY <3>2
        <5>2. Request \subseteq Int
          BY Numbers
        <5> QED BY <5>1, <5>2
      <4> QED BY <4>1
    <3> QED BY <3>3, <3>4, <3>5
  <2>2. \A v, w \in Worker : v # w => Taken(v) \cap Taken(w) = {}
    BY DEF Lined, Apart
  <2> QED BY <2>1, <2>2 DEF HeardOnce, HeardInOrder
<1> QED BY <1>1, <1>2, <1>3, PTL DEF Spec
=================================================================================
