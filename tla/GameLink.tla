------------------------------- MODULE GameLink -------------------------------
(***************************************************************************)
(* The game and its hidden runtime: the commands of the in-game client     *)
(* (bbt/core.lua), the thread that owns the pipe (bbt/ipc_thread.lua), the *)
(* runtime's side of it (ipc.rs), the execution of control commands        *)
(* (game_commands.rs) and the runtime's life (main.rs).                    *)
(*                                                                         *)
(* A game has one outbound and one inbound channel.  Entering Online       *)
(* starts a worker thread; the worker connects, starting a runtime when    *)
(* there is none, and moves messages both ways.  Requests are numbered in  *)
(* the order the games make them.  Every deadline may pass at any time.    *)
(* Frames, heartbeats, telemetry and events other than the answers to      *)
(* commands change nothing here and are left out.  Bounds: the workers     *)
(* (sessions), LastStays, MaxRequest commands and MaxFaults failures.      *)
(***************************************************************************)
EXTENDS Integers, Sequences, SequencesExt

CONSTANTS
    Game,         \* copies of Beatblock of one user
    Worker,       \* worker threads; GameOf gives the game of each
    GameOf,
    NoGame,
    Restarts,     \* the requests that are runtime.restart_request
    OutboundCap,  \* MAX_STANDARD_OUTBOUND
    InboundCap,   \* MAX_INBOUND_BACKLOG
    MaxRequest,
    MaxFaults,
    LastStays     \* no game leaves its last session

Request == 1 .. MaxRequest
End == 0                \* runtime.session_end
Hello == -1             \* client.hello
NoMessage == -2
Message == Request \cup {End, Hello}

ASSUME LinkAssumption ==
    /\ GameOf \in [Worker -> Game] /\ NoGame \notin Game
    /\ MaxRequest \in Nat /\ MaxFaults \in Nat /\ Restarts \subseteq Request
    /\ LastStays \in BOOLEAN /\ OutboundCap \in Nat \ {0} /\ InboundCap \in Nat \ {0}

VARIABLES
    session,    \* sessionActive
    pending,    \* pendingRequestId
    outbound, inbound,      \* the games' channels
    stop,       \* bbt_ipc_control holds 'stop'
    life, hello, unsent,    \* the workers: handshakeMessage, pendingSend
    conn, claimed, up, down,\* their transports, and what is under way on them
    runtime, owner,         \* the runtime process and ipc_client_id
    busy, control,          \* control_in_flight and the tasks of the commands
    asked, heard, done, accepted, ended, faults   \* bounds and history

gameVars == <<session, pending, outbound, inbound, stop, asked, accepted>>
workerVars == <<life, hello, unsent>>
wireVars == <<conn, claimed, up, down>>
controlVars == <<busy, control, done>>
runtimeVars == <<runtime, owner, controlVars, heard, ended>>
vars == <<gameVars, workerVars, wireVars, runtimeVars, faults>>

Life == {"unstarted", "running", "stopped"}
(* "broken": the runtime's end is gone; "closed": the worker's is, and what *)
(* it sent can still be read.                                              *)
Connection == {"none", "open", "broken", "closed"}
RuntimeState == {"down", "starting", "up", "stopping"}
ControlState == {"none", "running", "answered"}
Answer == [kind : {"ack", "error"}, of : Request]
Gone == [kind |-> "gone", of |-> NoMessage]   \* runtime.disconnected

WorkersOf(g) == {w \in Worker : GameOf[w] = g}
Serving == runtime \in {"up", "stopping"}
Fault == faults < MaxFaults /\ faults' = faults + 1

Init ==
    /\ session = [g \in Game |-> FALSE] /\ pending = [g \in Game |-> NoMessage]
    /\ outbound = [g \in Game |-> <<>>] /\ inbound = [g \in Game |-> <<>>]
    /\ stop = [g \in Game |-> FALSE]
    /\ life = [w \in Worker |-> "unstarted"] /\ hello = [w \in Worker |-> FALSE]
    /\ unsent = [w \in Worker |-> NoMessage]
    /\ conn = [w \in Worker |-> "none"] /\ claimed = [w \in Worker |-> FALSE]
    /\ up = [w \in Worker |-> <<>>] /\ down = [w \in Worker |-> <<>>]
    /\ runtime = "down" /\ owner = NoGame /\ busy = FALSE
    /\ control = [m \in Request \cup {End} |-> "none"]
    /\ asked = 0 /\ heard = [w \in Worker |-> <<>>] /\ done = {} /\ accepted = {}
    /\ ended = FALSE /\ faults = 0

-----------------------------------------------------------------------------
(* The game's frames: core.lua.                                            *)

Unused(g) == {w \in WorkersOf(g) : life[w] = "unstarted"}

(* startOnlineRuntime clears every channel, the one with 'stop' included.  *)
StartOnlineRuntime(g) ==
    /\ ~session[g] /\ session' = [session EXCEPT ![g] = TRUE]
    /\ Unused(g) # {}
    /\ life' = [life EXCEPT ![CHOOSE w \in Unused(g) : TRUE] = "running"]
    /\ pending' = [pending EXCEPT ![g] = NoMessage]
    /\ outbound' = [outbound EXCEPT ![g] = <<Hello>>]
    /\ inbound' = [inbound EXCEPT ![g] = <<>>]
    /\ stop' = [stop EXCEPT ![g] = FALSE]
    /\ UNCHANGED <<asked, accepted, hello, unsent, wireVars, runtimeVars, faults>>

(* Mutant of Command: the channel takes any number of messages.            *)
CommandUnbounded(g) ==
    /\ session[g] /\ pending[g] = NoMessage /\ asked < MaxRequest
    /\ asked' = asked + 1
    /\ pending' = [pending EXCEPT ![g] = asked + 1]
    /\ outbound' = [outbound EXCEPT ![g] = Append(@, asked + 1)]
    /\ UNCHANGED <<session, inbound, stop, accepted, workerVars, wireVars, runtimeVars, faults>>

(* Only one command is pending; a full channel takes none.                 *)
Command(g) ==
    /\ session[g] /\ pending[g] = NoMessage /\ asked < MaxRequest
    /\ Len(outbound[g]) < OutboundCap
    /\ asked' = asked + 1
    /\ pending' = [pending EXCEPT ![g] = asked + 1]
    /\ outbound' = [outbound EXCEPT ![g] = Append(@, asked + 1)]
    /\ UNCHANGED <<session, inbound, stop, accepted, workerVars, wireVars, runtimeVars, faults>>

ExitOnline(g) ==
    /\ LastStays => Unused(g) # {}
    /\ session[g] /\ session' = [session EXCEPT ![g] = FALSE]
    /\ outbound' = [outbound EXCEPT ![g] = <<End>>]
    /\ pending' = [pending EXCEPT ![g] = NoMessage]
    /\ stop' = [stop EXCEPT ![g] = TRUE]
    /\ UNCHANGED <<inbound, asked, accepted, workerVars, wireVars, runtimeVars, faults>>

(* Mutant of Settles: any answer is taken for the pending command's.       *)
SettlesAny(event, request) == TRUE

(* handleCommand: which events end the pending command.                    *)
Settles(event, request) == event = Gone \/ event.of = request

HandleEvent(g) ==
    LET event == Head(inbound[g]) IN
    /\ session[g] /\ inbound[g] # <<>>
    /\ inbound' = [inbound EXCEPT ![g] = Tail(@)]
    /\ IF pending[g] # NoMessage /\ Settles(event, pending[g])
       THEN /\ pending' = [pending EXCEPT ![g] = NoMessage]
            /\ accepted' = IF event.kind = "ack" THEN accepted \cup {pending[g]} ELSE accepted
       ELSE UNCHANGED <<pending, accepted>>
    /\ UNCHANGED <<session, outbound, stop, asked, workerVars, wireVars, runtimeVars, faults>>

(* The command's deadline or the lost heartbeat.                           *)
GiveUp(g) ==
    /\ session[g] /\ pending[g] # NoMessage
    /\ pending' = [pending EXCEPT ![g] = NoMessage]
    /\ UNCHANGED <<session, outbound, inbound, stop, asked, accepted, workerVars, wireVars,
                   runtimeVars, faults>>

-----------------------------------------------------------------------------
(* The worker: ipc_thread.lua.                                             *)

Works(w) == life[w] = "running"

(* On 'stop' it sends what is queued, if it is connected, and ends.        *)
Stop(w) ==
    LET g == GameOf[w] IN
    /\ Works(w) /\ stop[g] /\ stop' = [stop EXCEPT ![g] = FALSE]
    /\ life' = [life EXCEPT ![w] = "stopped"]
    /\ outbound' = IF conn[w] = "none" THEN outbound ELSE [outbound EXCEPT ![g] = <<>>]
    /\ up' = IF conn[w] = "open" THEN [up EXCEPT ![w] = @ \o outbound[g]] ELSE up
    /\ conn' = [conn EXCEPT ![w] = IF @ = "open" THEN "closed" ELSE "none"]
    /\ down' = [down EXCEPT ![w] = <<>>]
    /\ claimed' = [claimed EXCEPT ![w] = @ /\ conn[w] = "open"]
    /\ hello' = [hello EXCEPT ![w] = FALSE] /\ unsent' = [unsent EXCEPT ![w] = NoMessage]
    /\ UNCHANGED <<session, pending, inbound, asked, accepted, runtimeVars, faults>>

(* launchRuntimeHidden; a second process ends at the instance mutex.       *)
LaunchRuntime(w) ==
    /\ Works(w) /\ conn[w] = "none" /\ runtime = "down"
    /\ runtime' = "starting"
    /\ UNCHANGED <<gameVars, workerVars, wireVars, owner, controlVars, heard, ended, faults>>

(* Mutant of Handshake: a new connection starts with what is unsent.       *)
NoHandshake(w) == [sent |-> <<>>, unsent |-> unsent[w]]

(* A handshake that was sent once goes first on every later connection.    *)
Handshake(w) ==
    IF hello[w] THEN [sent |-> <<Hello>>,
                      unsent |-> IF unsent[w] = Hello THEN NoMessage ELSE unsent[w]]
    ELSE [sent |-> <<>>, unsent |-> unsent[w]]

Connect(w) ==
    /\ Works(w) /\ conn[w] = "none" /\ Serving
    /\ conn' = [conn EXCEPT ![w] = "open"] /\ claimed' = [claimed EXCEPT ![w] = FALSE]
    /\ up' = [up EXCEPT ![w] = Handshake(w).sent] /\ down' = [down EXCEPT ![w] = <<>>]
    /\ unsent' = [unsent EXCEPT ![w] = Handshake(w).unsent]
    /\ UNCHANGED <<gameVars, life, hello, runtimeVars, faults>>

(* nextQueuedMessage: what could not be sent, then the channel.            *)
NextQueued(w) == IF unsent[w] # NoMessage THEN unsent[w] ELSE Head(outbound[GameOf[w]])
HasQueued(w) == unsent[w] # NoMessage \/ outbound[GameOf[w]] # <<>>
Dequeue(w) ==
    LET g == GameOf[w] IN
    /\ HasQueued(w)
    /\ outbound' = IF unsent[w] # NoMessage THEN outbound ELSE [outbound EXCEPT ![g] = Tail(@)]
    /\ hello' = [hello EXCEPT ![w] = @ \/ NextQueued(w) = Hello]

(* Mutant of Send: what was sent on the second try is kept.                *)
SendKeepsUnsent(w) ==
    /\ Works(w) /\ conn[w] = "open" /\ Dequeue(w)
    /\ up' = [up EXCEPT ![w] = Append(@, NextQueued(w))]
    /\ UNCHANGED <<session, pending, inbound, stop, asked, accepted, life, conn, claimed, down,
                   runtimeVars, faults, unsent>>

Send(w) ==
    /\ Works(w) /\ conn[w] = "open" /\ Dequeue(w)
    /\ up' = [up EXCEPT ![w] = Append(@, NextQueued(w))]
    /\ unsent' = [unsent EXCEPT ![w] = NoMessage]
    /\ UNCHANGED <<session, pending, inbound, stop, asked, accepted, life, conn, claimed, down,
                   runtimeVars, faults>>

(* disconnectTransport; pushLocalEvent drops its event at a full channel.  *)
Disconnect(w) ==
    LET g == GameOf[w] IN
    /\ conn' = [conn EXCEPT ![w] = "none"] /\ claimed' = [claimed EXCEPT ![w] = FALSE]
    /\ up' = [up EXCEPT ![w] = <<>>] /\ down' = [down EXCEPT ![w] = <<>>]
    /\ inbound' = IF Len(inbound[g]) < InboundCap THEN [inbound EXCEPT ![g] = Append(@, Gone)]
                  ELSE inbound

(* Mutant of SendFails: the message goes back to the end of the channel.   *)
SendFailsRequeued(w) ==
    LET g == GameOf[w] IN
    /\ Works(w) /\ conn[w] = "broken" /\ HasQueued(w) /\ Disconnect(w)
    /\ hello' = [hello EXCEPT ![w] = @ \/ NextQueued(w) = Hello]
    /\ outbound' = [outbound EXCEPT ![g] = Append(IF unsent[w] # NoMessage THEN @ ELSE Tail(@),
                                                  NextQueued(w))]
    /\ unsent' = [unsent EXCEPT ![w] = NoMessage]
    /\ UNCHANGED <<session, pending, stop, asked, accepted, life, runtimeVars, faults>>

SendFails(w) ==
    /\ Works(w) /\ conn[w] = "broken" /\ Dequeue(w) /\ Disconnect(w)
    /\ unsent' = [unsent EXCEPT ![w] = NextQueued(w)]
    /\ UNCHANGED <<session, pending, stop, asked, accepted, life, runtimeVars, faults>>

(* The bound on the inbound channel leaves events in the pipe.             *)
Receive(w) ==
    LET g == GameOf[w] IN
    /\ Works(w) /\ conn[w] \in {"open", "broken"} /\ down[w] # <<>>
    /\ Len(inbound[g]) < InboundCap
    /\ inbound' = [inbound EXCEPT ![g] = Append(@, Head(down[w]))]
    /\ down' = [down EXCEPT ![w] = Tail(@)]
    /\ UNCHANGED <<session, pending, outbound, stop, asked, accepted, workerVars, conn, claimed,
                   up, runtimeVars, faults>>

ReceiveFails(w) ==
    /\ Works(w) /\ conn[w] = "broken" /\ Disconnect(w)
    /\ UNCHANGED <<session, pending, outbound, stop, asked, accepted, workerVars, runtimeVars, faults>>

-----------------------------------------------------------------------------
(* The runtime: ipc.rs, game_commands.rs, main.rs.                         *)

(* The pipe is served a moment after the process has begun.                *)
StartServing ==
    /\ runtime = "starting" /\ runtime' = "up"
    /\ UNCHANGED <<gameVars, workerVars, wireVars, owner, controlVars, heard, ended, faults>>

(* Every connection is subscribed to the events, claimed or not; one that  *)
(* lags behind loses some.                                                 *)
Subscribed == {w \in Worker : conn[w] = "open"}
Publish(event) ==
    \/ /\ down' = [w \in Worker |->
                      IF w \in Subscribed THEN Append(down[w], event) ELSE down[w]]
       /\ UNCHANGED faults
    \/ \E lagging \in Subscribed :
          /\ down' = [w \in Worker |-> IF w \in Subscribed \ {lagging}
                                       THEN Append(down[w], event) ELSE down[w]]
          /\ Fault

Quiet == UNCHANGED <<down, faults>>

(* Mutant of ClaimIpcClient: whoever says hello last owns the runtime.     *)
ClaimAlways(g) == TRUE

(* claim_ipc_client.                                                       *)
ClaimIpcClient(g) == owner \in {NoGame, g}

(* Mutant of Dispatch: session_end has to wait for its turn as well.       *)
DispatchInTurn(m) ==
    IF busy
    THEN /\ IF m = End THEN Quiet ELSE Publish([kind |-> "error", of |-> m])
         /\ UNCHANGED <<busy, control>>
    ELSE busy' = TRUE /\ control' = [control EXCEPT ![m] = "running"] /\ Quiet

(* accept_client_message on a control command: session_end bypasses busy.  *)
Dispatch(m) ==
    IF m = End
    THEN control' = [control EXCEPT ![m] = "running"] /\ UNCHANGED busy /\ Quiet
    ELSE IF busy
    THEN Publish([kind |-> "error", of |-> m]) /\ UNCHANGED <<busy, control>>
    ELSE busy' = TRUE /\ control' = [control EXCEPT ![m] = "running"] /\ Quiet

Accept(w) ==
    LET m == Head(up[w]) IN
    /\ Serving /\ conn[w] \in {"open", "closed"} /\ up[w] # <<>>
    /\ claimed[w] \/ (m = Hello /\ ClaimIpcClient(GameOf[w]))
    /\ up' = [up EXCEPT ![w] = Tail(@)] /\ claimed' = [claimed EXCEPT ![w] = TRUE]
    /\ owner' = IF claimed[w] THEN owner ELSE GameOf[w]
    /\ ended' = (ended \/ m = End)
    /\ heard' = IF m \in Request THEN [heard EXCEPT ![w] = Append(@, m)] ELSE heard
    /\ IF m = Hello THEN Quiet /\ UNCHANGED <<busy, control>> ELSE Dispatch(m)
    /\ UNCHANGED <<gameVars, workerVars, conn, runtime, done>>

(* A first message that is no hello, or a hello of another game: an error  *)
(* and the end of the connection.                                          *)
Refuse(w) ==
    /\ Serving /\ conn[w] \in {"open", "closed"} /\ up[w] # <<>> /\ ~claimed[w]
    /\ Head(up[w]) # Hello \/ ~ClaimIpcClient(GameOf[w])
    /\ conn' = [conn EXCEPT ![w] = IF @ = "open" THEN "broken" ELSE "none"]
    /\ up' = [up EXCEPT ![w] = <<>>]
    /\ UNCHANGED <<gameVars, workerVars, claimed, down, runtimeVars, faults>>

ReadEnds(w) ==
    /\ Serving /\ conn[w] = "closed" /\ up[w] = <<>>
    /\ conn' = [conn EXCEPT ![w] = "none"] /\ claimed' = [claimed EXCEPT ![w] = FALSE]
    /\ UNCHANGED <<gameVars, workerVars, up, down, runtimeVars, faults>>

(* handle: execute, then the answer; a restart is answered like any other. *)
Execute(m) ==
    /\ control[m] = "running" /\ control' = [control EXCEPT ![m] = "answered"]
    /\ \/ /\ done' = done \cup {m} /\ Publish([kind |-> "ack", of |-> m])
          /\ runtime' = IF m \in Restarts THEN "stopping" ELSE runtime
       \/ UNCHANGED <<done, runtime>> /\ Publish([kind |-> "error", of |-> m])
    /\ UNCHANGED <<gameVars, workerVars, conn, claimed, up, owner, busy, heard, ended>>

(* Closing the room comes first; nobody waits for the answer.              *)
ExecuteSessionEnd ==
    /\ control[End] = "running" /\ control' = [control EXCEPT ![End] = "answered"]
    /\ runtime' = "stopping"
    /\ UNCHANGED <<gameVars, workerVars, wireVars, owner, busy, done, heard, ended, faults>>

(* Mutant of ReleasedBy: every task that ends clears the flag.             *)
ReleasedByAny(m) == FALSE

(* ControlGuard: a task that bypassed the flag does not clear it.          *)
ReleasedBy(m) == IF m = End THEN busy ELSE FALSE

EndControl(m) ==
    /\ control[m] = "answered" /\ control' = [control EXCEPT ![m] = "none"]
    /\ busy' = ReleasedBy(m)
    /\ UNCHANGED <<gameVars, workerVars, wireVars, runtime, owner, done, heard, ended, faults>>

RuntimeGone ==
    /\ runtime' = "down" /\ owner' = NoGame /\ busy' = FALSE /\ ended' = FALSE
    /\ control' = [m \in Request \cup {End} |-> "none"]
    /\ conn' = [w \in Worker |-> CASE conn[w] = "open" -> "broken"
                                   [] conn[w] = "closed" -> "none"
                                   [] OTHER -> conn[w]]
    /\ claimed' = [w \in Worker |-> FALSE] /\ up' = [w \in Worker |-> <<>>]
    /\ UNCHANGED <<gameVars, workerVars, down, done, heard>>

RuntimeExits == runtime = "stopping" /\ RuntimeGone /\ UNCHANGED faults
RuntimeCrashes == runtime # "down" /\ RuntimeGone /\ Fault

PipeBreaks(w) ==
    /\ conn[w] = "open" /\ conn' = [conn EXCEPT ![w] = "broken"] /\ Fault
    /\ claimed' = [claimed EXCEPT ![w] = FALSE] /\ up' = [up EXCEPT ![w] = <<>>]
    /\ UNCHANGED <<gameVars, workerVars, down, runtimeVars>>

-----------------------------------------------------------------------------
User(g) == StartOnlineRuntime(g) \/ Command(g) \/ ExitOnline(g)
Frame(g) == HandleEvent(g) \/ GiveUp(g)
WorkerLoop(w) ==
    \/ Stop(w) \/ LaunchRuntime(w) \/ Connect(w) \/ Send(w) \/ SendFails(w)
    \/ Receive(w) \/ ReceiveFails(w)
Serve(w) == Accept(w) \/ Refuse(w) \/ ReadEnds(w)
Process == StartServing \/ ExecuteSessionEnd \/ RuntimeExits
           \/ \E m \in Request \cup {End} : EndControl(m)

Next ==
    \/ \E g \in Game : User(g) \/ Frame(g)
    \/ \E w \in Worker : WorkerLoop(w) \/ Serve(w) \/ PipeBreaks(w)
    \/ \E r \in Request : Execute(r)
    \/ Process \/ RuntimeCrashes

Spec == Init /\ [][Next]_vars

(* Threads and tasks go on.  Nothing makes a user act, and a command may   *)
(* take for ever.                                                          *)
Fairness ==
    /\ \A w \in Worker : WF_vars(WorkerLoop(w)) /\ WF_vars(Serve(w))
    /\ WF_vars(Process)
FairSpec == Spec /\ Fairness

-----------------------------------------------------------------------------
(* The types of the variables; neither channel of a game overflows, while  *)
(* the game and its worker fill them side by side.                         *)
TypeOK ==
    /\ session \in [Game -> BOOLEAN] /\ pending \in [Game -> Request \cup {NoMessage}]
    /\ outbound \in [Game -> Seq(Message)] /\ inbound \in [Game -> Seq(Answer \cup {Gone})]
    /\ \A g \in Game : Len(outbound[g]) <= OutboundCap /\ Len(inbound[g]) <= InboundCap
    /\ stop \in [Game -> BOOLEAN]
    /\ life \in [Worker -> Life] /\ hello \in [Worker -> BOOLEAN]
    /\ unsent \in [Worker -> Message \cup {NoMessage}]
    /\ conn \in [Worker -> Connection] /\ claimed \in [Worker -> BOOLEAN]
    /\ up \in [Worker -> Seq(Message)] /\ down \in [Worker -> Seq(Answer)]
    /\ runtime \in RuntimeState /\ owner \in Game \cup {NoGame} /\ busy \in BOOLEAN
    /\ control \in [Request \cup {End} -> ControlState]
    /\ asked \in 0 .. MaxRequest /\ heard \in [Worker -> Seq(Request)] /\ done \cup accepted \subseteq Request
    /\ ended \in BOOLEAN /\ faults \in 0 .. MaxFaults

(* No command is heard twice, whatever breaks: what a worker could not     *)
(* send it sends once more, and what it did send it forgets                *)
(* (ipc_thread.lua:262), also when the worker of an earlier session still  *)
(* runs and takes messages from the same channel.                          *)
HeardOnce ==
    /\ \A w \in Worker : IsInjective(heard[w])
    /\ \A v, w \in Worker : v # w => Range(heard[v]) \cap Range(heard[w]) = {}

(* The commands a worker takes are heard in the order they were given,     *)
(* across lost pipes and runtimes.                                         *)
HeardInOrder ==
    \A w \in Worker : \A i, j \in DOMAIN heard[w] : i < j => heard[w][i] <= heard[w][j]

(* A command the game takes for done was done: no late answer to an        *)
(* earlier one and no failure is taken for it (core.lua:967).              *)
AcceptedWereDone == accepted \subseteq done

(* At most one control runs beside session_end, and the busy flag is up    *)
(* exactly while it does, so nothing leaves it set (ipc.rs:258).           *)
BusyAccounted ==
    LET inFlight == {r \in Request : control[r] # "none"} IN
    /\ busy <=> inFlight # {}
    /\ \A r, s \in inFlight : r = s

(* What the game asks for reaches the runtime once and in order and runs   *)
(* alone, and what it takes for done was done.                             *)
CommandsKept == HeardOnce /\ HeardInOrder /\ AcceptedWereDone /\ BusyAccounted

(* A game that stays Online gets hold of a runtime again after every crash *)
(* and lost pipe: each time the handshake comes first (ipc_thread.lua:247).*)
LinkReturns ==
    \A g \in Game : <>[]session[g] => []<>(\E w \in WorkersOf(g) : claimed[w])

(* The runtime ends once it has heard session_end, even behind a command   *)
(* that hangs (ipc.rs:238).                                                *)
SessionEndEnds == ended ~> ~ended

(* Nothing that breaks or hangs stands in the way for good.                *)
LinkRecovers == LinkReturns /\ SessionEndEnds

(* "Stop the Online runtime and return to the main menu?"                  *)
(* (online_state.lua:562).  The code does not keep it: a worker that is    *)
(* not connected when it stops does not send session_end.                  *)
ExitStopsRuntime ==
    \A g \in Game : (stop[g] /\ runtime # "down") ~> (runtime = "down" \/ session[g])

(* "preventing control replies and room snapshots from crossing between    *)
(* simultaneous Beatblock copies" (docs/protocol.md:22).  The code does    *)
(* not keep it: a connection is sent events before it is claimed.          *)
NoCrossing ==
    \A v, w \in Worker : GameOf[v] # GameOf[w] =>
        \A i \in DOMAIN down[w] : down[w][i].of \notin Range(heard[v])
===============================================================================
