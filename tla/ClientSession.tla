---------------------------- MODULE ClientSession ----------------------------
(***************************************************************************)
(* One participant's runtime and its connection to the host: join_room,    *)
(* leave_room, the reconnect task and the handling of network events in    *)
(* AppState (app_state.rs), over NetworkHub::join_inner and spawn_reader   *)
(* (network.rs).  Three tasks of the runtime act on the same fields, each  *)
(* behind a lock of its own: the control the user gave, the task that      *)
(* handles network events, and the reconnect task.  The host is modelled   *)
(* by what it can answer and by when it can end a connection (HostSessions *)
(* says when it does).  Controls come from the game, one at a time (the    *)
(* busy flag of ipc.rs), and at any moment: nothing in the runtime keeps a *)
(* participant that is in a room from asking for a room again.             *)
(***************************************************************************)
EXTENDS Integers, Sequences, FiniteSets

CONSTANTS
    Conn,       \* connections that can be opened: 1 .. n
    NoConn,
    MaxTries    \* reconnect attempts that fit in the 30 s deadline

ASSUME ConnAssumption == Conn \subseteq Nat \ {0} /\ IsFiniteSet(Conn) /\ NoConn \notin Conn
ASSUME TriesAssumption == MaxTries \in Nat \ {0}

VARIABLES
    link,       \* [Conn -> Link], the connection as QUIC has it
    answered,   \* connections whose accepted AuthWelcome is on its way
    roomClosed, \* the host has closed the room
    status,     \* connection_status
    session,    \* local_session_id is some
    request,    \* reconnect_request is some
    server,     \* server_connection, server_writer and the endpoint
    listener,   \* [Conn -> ReaderPc], the spawn_reader tasks
    events,     \* the NetworkEvent channel
    user,       \* the control in progress, with the connection it dials
    task,       \* reconnect_task
    stray,      \* an aborted task has joined and still writes it down
    moved,      \* history: a join began while the wish to return to a room stood
    astray      \* history: connections in use that a join replaced or gave up unclosed

hostVars == <<answered, roomClosed>>
fieldVars == <<status, session, request>>
wireVars == <<link, server, listener, events>>
taskVars == <<task, stray>>
history == <<moved, astray>>
vars == <<hostVars, fieldVars, wireVars, user, taskVars, history>>

(* "removed": closed by the host for a reason the client obeys; "lost":    *)
(* any other end.                                                          *)
Link == {"unused", "open", "lost", "removed"}
ReaderPc == {"none", "running", "ended"}
Status == {"offline", "connecting", "connected", "reconnecting"}
UserPc == {"idle", "connecting", "dialling", "joined", "publishing", "leaving"}
TaskPc == {"none", "waiting", "dialling", "joined", "publishing"}
Event == [kind : {"authenticated", "disconnected"}, conn : Conn]

Idle == [pc |-> "idle", conn |-> NoConn]
NoTask == [pc |-> "none", tries |-> 0, conn |-> NoConn]
Open(c) == link[c] = "open"
Closed(c, why) == [d \in Conn |-> IF d = c /\ Open(d) THEN why ELSE link[d]]
NextConn == {c \in Conn : /\ link[c] = "unused"
                          /\ \A d \in Conn : d < c => link[d] # "unused"}

Init ==
    /\ link = [c \in Conn |-> "unused"] /\ answered = {} /\ roomClosed = FALSE
    /\ status = "offline" /\ session = FALSE /\ request = FALSE
    /\ server = NoConn /\ listener = [c \in Conn |-> "none"] /\ events = <<>>
    /\ user = Idle /\ task = NoTask /\ stray = FALSE /\ moved = FALSE /\ astray = {}

-----------------------------------------------------------------------------
(* The host and the network *)

HostWelcomes(c) ==
    /\ Open(c) /\ c \notin answered /\ ~roomClosed
    /\ answered' = answered \cup {c}
    /\ UNCHANGED <<roomClosed, fieldVars, wireVars, user, taskVars, history>>

(* Refusal, overload, a timeout or the loss of the network; or a kick.     *)
LinkEnds(c, why) ==
    /\ Open(c)
    /\ link' = Closed(c, why)
    /\ UNCHANGED <<hostVars, fieldVars, server, listener, events, user, taskVars, history>>

HostClosesRoom ==
    /\ ~roomClosed
    /\ roomClosed' = TRUE
    /\ link' = [c \in Conn |-> IF Open(c) THEN "removed" ELSE link[c]]
    /\ UNCHANGED <<answered, fieldVars, server, listener, events, user, taskVars, history>>

-----------------------------------------------------------------------------
(* NetworkHub: join_inner and shutdown *)

(* Mutant of Redial: the connection in use is not shut down first.         *)
RedialBeside(c) ==
    /\ c \in NextConn
    /\ link' = [link EXCEPT ![c] = "open"]
    /\ server' = NoConn
    /\ UNCHANGED <<listener, events, astray>>

(* shutdown, then connect: a new endpoint and, if the host can be reached, *)
(* a new connection.                                                       *)
Redial(c) ==
    /\ c \in NextConn
    /\ link' = [Closed(server, "lost") EXCEPT ![c] = "open"]
    /\ server' = NoConn
    /\ UNCHANGED <<listener, events, astray>>

(* A connection in use that is let go of without being closed: its reader  *)
(* holds it, so it lives on.                                               *)
LetGo == astray' = astray \cup ({server} \ {NoConn})

(* The accepted AuthWelcome is read: what is left of join_inner waits for  *)
(* nothing, so it runs even if its task is aborted meanwhile.  It replaces *)
(* the endpoint another join may have stored since this one began.         *)
JoinInner(c) ==
    /\ c \in answered
    /\ LetGo
    /\ server' = c
    /\ listener' = [listener EXCEPT ![c] = "running"]
    /\ events' = Append(events, [kind |-> "authenticated", conn |-> c])
    /\ UNCHANGED link

ListenerReports(c) ==
    /\ listener[c] = "running" /\ ~Open(c)
    /\ listener' = [listener EXCEPT ![c] = "ended"]
    /\ events' = Append(events, [kind |-> "disconnected", conn |-> c])
    /\ UNCHANGED <<hostVars, fieldVars, link, server, user, taskVars, history>>

-----------------------------------------------------------------------------
(* cancel_reconnect: an aborted task stops where it waits, and the join it *)
(* was waiting for is dropped with its connection; between two waits it    *)
(* runs on to the next.                                                    *)

(* Mutant of CancelReconnect: the task is not aborted.                     *)
CancelNothing == UNCHANGED taskVars

CancelReconnect ==
    /\ task' = NoTask
    /\ stray' = (stray \/ task.pc = "joined")

(* Mutant of Ended: a connection the task was dialling stays.              *)
EndedButDialled(c) == {c}

(* The connections that end when the task is aborted and c is shut down.   *)
Ended(c) == {c} \cup (IF task.pc = "dialling" THEN {task.conn} ELSE {})
AllClosed(cs) == [d \in Conn |-> IF d \in cs /\ Open(d) THEN "lost" ELSE link[d]]

StrayConnects ==
    /\ stray
    /\ stray' = FALSE
    /\ session' = TRUE /\ status' = "connected"
    /\ UNCHANGED <<hostVars, request, wireVars, user, task, history>>

-----------------------------------------------------------------------------
(* join_room *)

(* A join does not close the connection of the room the participant is in, *)
(* nor forget its session and its wish to return.                          *)
JoinRoom ==
    /\ user = Idle
    /\ user' = [Idle EXCEPT !.pc = "connecting"]
    /\ CancelReconnect
    /\ link' = AllClosed(Ended(NoConn))
    /\ status' = "connecting"
    /\ moved' = (moved \/ request)
    /\ UNCHANGED <<hostVars, session, request, server, listener, events, astray>>

JoinDials(c) ==
    /\ user.pc = "connecting"
    /\ Redial(c)
    /\ user' = [pc |-> "dialling", conn |-> c]
    /\ UNCHANGED <<hostVars, fieldVars, taskVars, moved>>

JoinWelcomed ==
    /\ user.pc = "dialling" /\ JoinInner(user.conn)
    /\ user' = [user EXCEPT !.pc = "joined"]
    /\ UNCHANGED <<hostVars, fieldVars, taskVars, moved>>

(* reset_offline_state: it says offline and forgets the wish to return.    *)
ResetOffline ==
    /\ user' = Idle
    /\ CancelReconnect
    /\ request' = FALSE /\ session' = FALSE /\ status' = "offline"

(* The password or the name is not valid, or the dial was refused or timed *)
(* out: a connection in use meanwhile is not closed.                       *)
JoinFailed ==
    /\ user.pc \in {"connecting", "dialling"}
    /\ ResetOffline
    /\ link' = AllClosed(Ended(user.conn))
    /\ LetGo
    /\ UNCHANGED <<hostVars, server, listener, events, moved>>

(* The host cannot be reached; shutdown came first.                        *)
JoinUnreached ==
    /\ user.pc = "connecting"
    /\ ResetOffline
    /\ link' = AllClosed(Ended(server))
    /\ server' = NoConn
    /\ UNCHANGED <<hostVars, listener, events, history>>

(* The 12 s of the game's command are over: join_room is dropped where it  *)
(* waits, and what it has set so far stays.                                *)
JoinAbandoned ==
    /\ user.pc \in {"connecting", "dialling"}
    /\ user' = Idle
    /\ link' = Closed(user.conn, "lost")
    /\ UNCHANGED <<hostVars, fieldVars, server, listener, events, taskVars, history>>

JoinConnects ==
    /\ user.pc = "joined"
    /\ user' = [user EXCEPT !.pc = "publishing"]
    /\ request' = TRUE /\ session' = TRUE /\ status' = "connected"
    /\ UNCHANGED <<hostVars, wireVars, taskVars, history>>

(* The first snapshot of the joined room is published, or the 12 s are     *)
(* over.                                                                   *)
JoinRoomDone ==
    /\ user.pc = "publishing"
    /\ user' = Idle
    /\ UNCHANGED <<hostVars, fieldVars, wireVars, taskVars, history>>

(* The connection, the reconnect task and the wish to return end.          *)
EndConnection ==
    /\ CancelReconnect
    /\ link' = AllClosed(Ended(server))
    /\ server' = NoConn
    /\ request' = FALSE
ShowOffline == session' = FALSE /\ status' = "offline"

(* The first snapshot of the joined room cannot be published: the join is  *)
(* undone.                                                                 *)
JoinUndone ==
    /\ user.pc = "publishing"
    /\ user' = Idle
    /\ EndConnection /\ ShowOffline
    /\ UNCHANGED <<hostVars, listener, events, history>>

-----------------------------------------------------------------------------
(* leave_room: the connection and the wish to return end at once; that the *)
(* runtime is offline is said after the renderers and the transfers are    *)
(* stopped.                                                                *)

LeaveRoom ==
    /\ user = Idle
    /\ user' = [Idle EXCEPT !.pc = "leaving"]
    /\ EndConnection
    /\ UNCHANGED <<hostVars, status, session, listener, events, history>>

LeaveRoomDone ==
    /\ user.pc = "leaving"
    /\ user' = Idle
    /\ ShowOffline
    /\ UNCHANGED <<hostVars, request, wireVars, taskVars, history>>

-----------------------------------------------------------------------------
(* handle_network_event on the participant *)

Handles(kind) == /\ events # <<>> /\ Head(events).kind = kind
                 /\ events' = Tail(events)

HandleAuthenticated ==
    /\ Handles("authenticated")
    /\ session' = TRUE /\ status' = "connected"
    /\ UNCHANGED <<hostVars, request, link, server, listener, user, taskVars, history>>

Terminal(c) == link[c] = "removed"

(* Rejected, removed, or the room closed: leave_room.                      *)
HandleRemoval ==
    /\ Handles("disconnected") /\ Terminal(Head(events).conn)
    /\ EndConnection /\ ShowOffline
    /\ UNCHANGED <<hostVars, listener, user, history>>

(* spawn_reconnect: one task at a time, and one that has connected counts  *)
(* until it is finished.                                                   *)
SpawnReconnect ==
    task' = IF task.pc = "none" THEN [pc |-> "waiting", tries |-> MaxTries, conn |-> NoConn]
                                ELSE task

(* A participant that wants to stay in a room that is open comes back.     *)
MayReturn == session /\ request /\ ~roomClosed

HandleDrop ==
    /\ Handles("disconnected") /\ ~Terminal(Head(events).conn)
    /\ IF MayReturn THEN status' = "reconnecting" /\ SpawnReconnect
                    ELSE status' = "offline" /\ UNCHANGED task
    /\ UNCHANGED <<hostVars, session, request, link, server, listener, user, stray, history>>

-----------------------------------------------------------------------------
(* The reconnect task *)

Wanted == status = "reconnecting" /\ request

(* After each delay the task looks whether it is still wanted.             *)
TaskReturns ==
    /\ task.pc = "waiting" /\ task.tries > 0 /\ ~Wanted
    /\ task' = NoTask
    /\ UNCHANGED <<hostVars, fieldVars, wireVars, user, stray, history>>

TaskDials(c) ==
    /\ task.pc = "waiting" /\ task.tries > 0 /\ Wanted
    /\ Redial(c)
    /\ task' = [pc |-> "dialling", tries |-> task.tries - 1, conn |-> c]
    /\ UNCHANGED <<hostVars, fieldVars, user, stray, moved>>

(* Mutants of TaskUnreached: the attempts are not limited; an attempt that *)
(* finds no host does not count.                                           *)
TaskUnreachedAgain ==
    /\ task.pc = "waiting" /\ Wanted
    /\ task' = [task EXCEPT !.tries = @ - 1]
    /\ link' = Closed(server, "lost")
    /\ server' = NoConn
    /\ UNCHANGED <<hostVars, fieldVars, listener, events, user, stray, history>>
TaskUnreachedUncounted ==
    /\ task.pc = "waiting" /\ task.tries > 0 /\ Wanted
    /\ link' = Closed(server, "lost")
    /\ server' = NoConn
    /\ UNCHANGED <<hostVars, fieldVars, listener, events, user, task, stray, history>>

(* The host cannot be reached.                                             *)
TaskUnreached ==
    /\ task.pc = "waiting" /\ task.tries > 0 /\ Wanted
    /\ task' = [task EXCEPT !.tries = @ - 1]
    /\ link' = Closed(server, "lost")
    /\ server' = NoConn
    /\ UNCHANGED <<hostVars, fieldVars, listener, events, user, stray, history>>

TaskWelcomed ==
    /\ task.pc = "dialling" /\ JoinInner(task.conn)
    /\ task' = [task EXCEPT !.pc = "joined"]
    /\ UNCHANGED <<hostVars, fieldVars, user, stray, moved>>

(* Refused, or five seconds have passed: the join is dropped with its      *)
(* connection.                                                             *)
TaskFailed ==
    /\ task.pc = "dialling"
    /\ task' = [task EXCEPT !.pc = "waiting", !.conn = NoConn]
    /\ link' = Closed(task.conn, "lost")
    /\ UNCHANGED <<hostVars, fieldVars, server, listener, events, user, stray, history>>

TaskConnects ==
    /\ task.pc = "joined"
    /\ task' = [task EXCEPT !.pc = "publishing"]
    /\ session' = TRUE /\ status' = "connected"
    /\ UNCHANGED <<hostVars, request, wireVars, user, stray, history>>

(* publish_runtime_snapshot reads the match history and the size of the    *)
(* chart cache; the task is finished only after it.                        *)
TaskPublished ==
    /\ task.pc = "publishing"
    /\ task' = NoTask
    /\ UNCHANGED <<hostVars, fieldVars, wireVars, user, stray, history>>

(* No attempt is left: the task drops its own handle and leaves the room.  *)
TaskGivesUp ==
    /\ task.pc = "waiting" /\ task.tries = 0
    /\ EndConnection /\ ShowOffline
    /\ UNCHANGED <<hostVars, listener, events, user, history>>

-----------------------------------------------------------------------------
Environment ==
    \/ HostClosesRoom
    \/ \E c \in Conn : HostWelcomes(c) \/ LinkEnds(c, "lost") \/ LinkEnds(c, "removed")
Control == \/ JoinRoom \/ JoinWelcomed \/ JoinFailed \/ JoinUnreached \/ JoinAbandoned
           \/ JoinConnects \/ JoinRoomDone \/ JoinUndone
           \/ LeaveRoom \/ LeaveRoomDone
           \/ \E c \in Conn : JoinDials(c)
EventLoop == \/ HandleAuthenticated \/ HandleRemoval \/ HandleDrop
             \/ \E c \in Conn : ListenerReports(c)
TaskStep == \/ TaskReturns \/ TaskUnreached \/ TaskWelcomed \/ TaskFailed
            \/ TaskConnects \/ TaskPublished \/ TaskGivesUp
            \/ \E c \in Conn : TaskDials(c)

Next == Environment \/ Control \/ EventLoop \/ TaskStep \/ StrayConnects

Spec == Init /\ [][Next]_vars

(* The runtime's tasks are scheduled: the event loop takes what is queued, *)
(* the reconnect task's timers fire, a control that has begun ends.  What  *)
(* the user, the host and the network do is left free.                     *)
FairSpec == Spec /\ WF_vars(EventLoop) /\ WF_vars(TaskStep) /\ WF_vars(StrayConnects)
                 /\ WF_vars(JoinAbandoned \/ JoinFailed \/ JoinConnects \/ JoinRoomDone
                            \/ JoinUndone \/ LeaveRoomDone)

-----------------------------------------------------------------------------
(* Every variable keeps its type; the attempts left are never negative.    *)
TypeOK ==
    /\ link \in [Conn -> Link] /\ answered \subseteq Conn /\ roomClosed \in BOOLEAN
    /\ status \in Status /\ session \in BOOLEAN /\ request \in BOOLEAN
    /\ server \in Conn \cup {NoConn}
    /\ listener \in [Conn -> ReaderPc]
    /\ events \in Seq(Event)
    /\ user \in [pc : UserPc, conn : Conn \cup {NoConn}]
    /\ task \in [pc : TaskPc, tries : 0 .. MaxTries, conn : Conn \cup {NoConn}]
    /\ stray \in BOOLEAN /\ moved \in BOOLEAN /\ astray \subseteq Conn

(* A runtime has no two open connections, although a control, the event    *)
(* loop and the reconnect task all may dial and a stale Disconnected can   *)
(* start a reconnect beside a good connection: as long as nobody asks for  *)
(* a room while it still means to return to one, which the code does not   *)
(* rule out and which may cost connections (astray).                       *)
AtMostOneConnection ==
    ~moved => astray = {} /\ \A c, d \in Conn : Open(c) /\ Open(d) => c = d

(* The connection in use, or one that the control or the task is dialling. *)
Holds(c) == \/ c = server
            \/ user.pc = "dialling" /\ c = user.conn
            \/ task.pc = "dialling" /\ c = task.conn

(* Whatever was asked for, a connection that is open is in use or being    *)
(* dialled, unless another join replaced it when both had dialled, or a    *)
(* failed one gave it up.                                                  *)
ConnectionsOwned == \A c \in Conn : Open(c) => Holds(c) \/ c \in astray

Settled == user = Idle /\ events = <<>> /\ task = NoTask /\ ~stray

(* When everything a leave, a removal or a failed join set in motion has   *)
(* run, a participant shown as offline, or one that asked for no room, has *)
(* no connection open but those gone astray: no dial that was under way    *)
(* survives it.                                                            *)
NoConnectionLeftBehind ==
    (Settled /\ (status = "offline" \/ ~request)) => \A c \in Conn : Open(c) => c \in astray

(* The reconnect task never dials for a participant that has left.         *)
NoDialAfterLeaving == ~request => task.pc # "dialling"

(* Every dial belongs to a participant that wants it, and every connection *)
(* to the one attempt that opened it.                                      *)
DialsAccounted == /\ AtMostOneConnection /\ ConnectionsOwned
                  /\ NoConnectionLeftBehind /\ NoDialAfterLeaving

(* A reconnect whose task is at work ends within its attempts: the         *)
(* participant is connected, or offline, or has left.                      *)
RetryEnds ==
    (status = "reconnecting" /\ task.pc \in {"waiting", "dialling"})
        ~> status # "reconnecting"

(* A participant shown as reconnecting is one day connected or offline.    *)
(* The code does not keep this: a lost connection that is reported while   *)
(* the task that opened it has not quite ended starts no other.            *)
ReconnectEnds == status = "reconnecting" ~> status # "reconnecting"

=============================================================================
