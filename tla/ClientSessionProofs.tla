-------------------------- MODULE ClientSessionProofs --------------------------
(***************************************************************************)
(* Proofs about ClientSession for any number of connections and attempts:  *)
(* whatever the user, the event loop and the reconnect task do to the      *)
(* connection at the same time, each one that is open belongs to somebody. *)
(***************************************************************************)
EXTENDS ClientSession, TLAPS

-----------------------------------------------------------------------------
(***************************************************************************)
(* Types, with what a step writes.                                         *)
(***************************************************************************)
Maybe == Conn \cup {NoConn}
Reconnect == [pc : TaskPc, tries : 0 .. MaxTries, conn : Maybe]

LEMMA IdleTyped ==
    /\ Idle \in [pc : UserPc, conn : Maybe] /\ NoTask \in Reconnect
    /\ [pc |-> "waiting", tries |-> MaxTries, conn |-> NoConn] \in Reconnect
  BY TriesAssumption DEF Idle, NoTask, UserPc, TaskPc, Maybe, Reconnect

LEMMA ClosedTyped ==
    ASSUME link \in [Conn -> Link], NEW why \in {"lost", "removed"}, NEW c
    PROVE  Closed(c, why) \in [Conn -> Link]
  BY DEF Closed, Link

LEMMA AllClosedTyped ==
    ASSUME link \in [Conn -> Link], NEW cs
    PROVE  AllClosed(cs) \in [Conn -> Link]
  BY DEF AllClosed, Link

LEMMA Reported ==
    ASSUME events \in Seq(Event), NEW c \in Conn,
           NEW kind \in {"authenticated", "disconnected"}
    PROVE  Append(events, [kind |-> kind, conn |-> c]) \in Seq(Event)
<1>1. [kind |-> kind, conn |-> c] \in Event
  BY DEF Event
<1> QED
  BY <1>1

LEMMA EventTaken ==
    ASSUME events \in Seq(Event), NEW kind, Handles(kind)
    PROVE  events' \in Seq(Event)
  BY DEF Handles

LEMMA RedialTyped ==
    ASSUME TypeOK, NEW c \in Conn, Redial(c)
    PROVE  /\ link' \in [Conn -> Link] /\ server' \in Maybe
           /\ listener' \in [Conn -> ReaderPc] /\ events' \in Seq(Event)
           /\ astray' = astray
<1>1. Closed(server, "lost") \in [Conn -> Link]
  BY ClosedTyped DEF TypeOK
<1> QED
  BY <1>1 DEF Redial, TypeOK, Link, Maybe

LEMMA JoinInnerTyped ==
    ASSUME TypeOK, NEW c, JoinInner(c)
    PROVE  /\ c \in Conn
           /\ link' \in [Conn -> Link] /\ server' \in Maybe
           /\ listener' \in [Conn -> ReaderPc] /\ events' \in Seq(Event)
           /\ astray' \subseteq Conn
<1>1. c \in Conn
  BY DEF JoinInner, TypeOK
<1>2. Append(events, [kind |-> "authenticated", conn |-> c]) \in Seq(Event)
  BY <1>1, Reported DEF TypeOK
<1> QED
  BY <1>1, <1>2 DEF JoinInner, LetGo, TypeOK, ReaderPc, Maybe

LEMMA CancelTyped ==
    ASSUME TypeOK, CancelReconnect
    PROVE  task' \in Reconnect /\ stray' \in BOOLEAN
<1>1. (stray \/ task.pc = "joined") \in BOOLEAN
  OBVIOUS
<1> QED
  BY <1>1, IdleTyped DEF CancelReconnect

LEMMA EndConnectionTyped ==
    ASSUME TypeOK, EndConnection
    PROVE  /\ link' \in [Conn -> Link] /\ server' \in Maybe /\ request' \in BOOLEAN
           /\ task' \in Reconnect /\ stray' \in BOOLEAN
  BY CancelTyped, AllClosedTyped DEF EndConnection, TypeOK, Maybe

LEMMA ResetTyped ==
    ASSUME TypeOK, ResetOffline
    PROVE  /\ user' \in [pc : UserPc, conn : Maybe]
           /\ request' \in BOOLEAN /\ session' \in BOOLEAN /\ status' \in Status
           /\ task' \in Reconnect /\ stray' \in BOOLEAN
  BY CancelTyped, IdleTyped DEF ResetOffline, Status

LEMMA TypeInit == Init => TypeOK
<1>1. Init => Idle \in [pc : UserPc, conn : Maybe] /\ NoTask \in Reconnect
  BY IdleTyped
<1>2. Init => /\ link \in [Conn -> Link] /\ status \in Status
              /\ listener \in [Conn -> ReaderPc] /\ events \in Seq(Event)
  BY DEF Init, Link, Status, ReaderPc
<1> QED
  BY <1>1, <1>2 DEF Init, TypeOK, Maybe, Reconnect

LEMMA TypeNext ==
    ASSUME TypeOK, [Next]_vars
    PROVE  TypeOK'
<1> USE DEF hostVars, fieldVars, taskVars, wireVars, history
<1>0. /\ link \in [Conn -> Link] /\ answered \subseteq Conn /\ roomClosed \in BOOLEAN
      /\ status \in Status /\ session \in BOOLEAN /\ request \in BOOLEAN
      /\ server \in Maybe /\ listener \in [Conn -> ReaderPc] /\ events \in Seq(Event)
      /\ user \in [pc : UserPc, conn : Maybe] /\ task \in Reconnect /\ stray \in BOOLEAN
      /\ moved \in BOOLEAN /\ astray \subseteq Conn
  BY DEF TypeOK, Maybe, Reconnect
<1>s. {"offline", "connecting", "connected", "reconnecting"} \subseteq Status
  BY DEF Status
<1> SUFFICES
        /\ link' \in [Conn -> Link] /\ answered' \subseteq Conn /\ roomClosed' \in BOOLEAN
        /\ status' \in Status /\ session' \in BOOLEAN /\ request' \in BOOLEAN
        /\ server' \in Maybe /\ listener' \in [Conn -> ReaderPc] /\ events' \in Seq(Event)
        /\ user' \in [pc : UserPc, conn : Maybe] /\ task' \in Reconnect /\ stray' \in BOOLEAN
        /\ moved' \in BOOLEAN /\ astray' \subseteq Conn
  BY DEF TypeOK, Maybe, Reconnect
<1>1. CASE HostClosesRoom
  BY <1>1, <1>0 DEF HostClosesRoom, Link
<1>2. ASSUME NEW c \in Conn, HostWelcomes(c) PROVE TypeOK'
  BY <1>2, <1>0 DEF HostWelcomes, TypeOK, Maybe, Reconnect
<1>3. ASSUME NEW c \in Conn, LinkEnds(c, "lost") \/ LinkEnds(c, "removed") PROVE TypeOK'
  BY <1>3, <1>0, ClosedTyped DEF LinkEnds, TypeOK, Maybe, Reconnect
<1>4. CASE JoinRoom
  BY <1>4, <1>0, <1>s, AllClosedTyped, CancelTyped, IdleTyped DEF JoinRoom, UserPc
<1>5. CASE JoinWelcomed
  BY <1>5, <1>0, JoinInnerTyped DEF JoinWelcomed, UserPc
<1>6. CASE JoinFailed \/ JoinUnreached
  BY <1>6, <1>0, AllClosedTyped, ResetTyped DEF JoinFailed, JoinUnreached, LetGo, Maybe
<1>6a. CASE JoinAbandoned
  BY <1>6a, <1>0, ClosedTyped, IdleTyped DEF JoinAbandoned
<1>7. CASE JoinConnects \/ JoinRoomDone
  BY <1>7, <1>0, <1>s, IdleTyped DEF JoinConnects, JoinRoomDone, UserPc
<1>8. CASE JoinUndone
  BY <1>8, <1>0, <1>s, IdleTyped, EndConnectionTyped DEF JoinUndone, ShowOffline
<1>9. CASE LeaveRoom
  BY <1>9, <1>0, IdleTyped, EndConnectionTyped DEF LeaveRoom, UserPc
<1>10. CASE LeaveRoomDone
  BY <1>10, <1>0, <1>s, IdleTyped DEF LeaveRoomDone, ShowOffline
<1>11. ASSUME NEW c \in Conn, JoinDials(c) PROVE TypeOK'
  BY <1>11, <1>0, RedialTyped DEF JoinDials, UserPc, TypeOK, Maybe, Reconnect
<1>12. CASE HandleAuthenticated
  BY <1>12, <1>0, <1>s, EventTaken DEF HandleAuthenticated
<1>13. CASE HandleRemoval
  BY <1>13, <1>0, <1>s, EventTaken, EndConnectionTyped DEF HandleRemoval, ShowOffline
<1>14. CASE HandleDrop
  BY <1>14, <1>0, <1>s, EventTaken, IdleTyped DEF HandleDrop, SpawnReconnect
<1>15. ASSUME NEW c \in Conn, ListenerReports(c) PROVE TypeOK'
  BY <1>15, <1>0, Reported DEF ListenerReports, ReaderPc, TypeOK, Maybe, Reconnect
<1>16. CASE TaskReturns
  BY <1>16, <1>0, IdleTyped DEF TaskReturns
<1>17. CASE TaskUnreached
  <2>1. task.tries - 1 \in 0 .. MaxTries
    BY <1>17, <1>0, TriesAssumption DEF TaskUnreached, Reconnect
  <2> QED
    BY <1>17, <1>0, <2>1, ClosedTyped DEF TaskUnreached, Reconnect, Maybe
<1>18. CASE TaskWelcomed
  BY <1>18, <1>0, JoinInnerTyped DEF TaskWelcomed, Reconnect, TaskPc
<1>19. CASE TaskFailed
  BY <1>19, <1>0, ClosedTyped DEF TaskFailed, Reconnect, TaskPc, Maybe
<1>20. CASE TaskConnects
  BY <1>20, <1>0, <1>s DEF TaskConnects, Reconnect, TaskPc
<1>21. CASE TaskPublished
  BY <1>21, <1>0, IdleTyped DEF TaskPublished
<1>22. CASE TaskGivesUp
  BY <1>22, <1>0, <1>s, EndConnectionTyped DEF TaskGivesUp, ShowOffline
<1>23. ASSUME NEW c \in Conn, TaskDials(c) PROVE TypeOK'
  <2>1. task.tries - 1 \in 0 .. MaxTries
    BY <1>23, <1>0, TriesAssumption DEF TaskDials, Reconnect
  <2> QED
    BY <1>23, <1>0, <2>1, RedialTyped DEF TaskDials, TaskPc, TypeOK, Maybe, Reconnect
<1>24. CASE StrayConnects
  BY <1>24, <1>0, <1>s DEF StrayConnects
<1>25. CASE UNCHANGED vars
  BY <1>25, <1>0 DEF vars
<1> QED
  BY <1>1, <1>2, <1>3, <1>4, <1>5, <1>6, <1>6a, <1>7, <1>8, <1>9, <1>10, <1>11, <1>12, <1>13,
     <1>14, <1>15, <1>16, <1>17, <1>18, <1>19, <1>20, <1>21, <1>22, <1>23, <1>24, <1>25
  DEF Next, Environment, Control, EventLoop, TaskStep, TypeOK, Maybe, Reconnect

(***************************************************************************)
(* In every reachable state the fields of the runtime, its two tasks and   *)
(* the queue of events are well typed, and the attempts left are never     *)
(* negative (app_state.rs, network.rs).                                    *)
(***************************************************************************)
THEOREM ClientTypeCorrect == Spec => []TypeOK
<1>1. TypeOK /\ [Next]_vars => TypeOK'
  BY TypeNext
<1> QED BY <1>1, TypeInit, PTL DEF Spec

-----------------------------------------------------------------------------
(***************************************************************************)
(* Whose a connection is.                                                  *)
(***************************************************************************)
(* As long as nobody asks for a room while it means to return to one, a    *)
(* control on its way in or out and a reconnect are never at work          *)
(* together, nobody dials while a connection is in use, and only one that  *)
(* has just been joined is in use by a runtime that wants none.            *)
OnItsWay == user.pc \in {"connecting", "dialling", "joined", "leaving"}
Alone == ~moved => /\ astray = {}
                   /\ OnItsWay => ~request /\ task.pc = "none"
                   /\ user.pc = "dialling" \/ task.pc = "dialling" => server = NoConn
                   /\ ~request /\ user.pc # "joined" => server = NoConn

(* Who wishes to stay has a session and is not on its way out: a room it   *)
(* asks for again while it is shown as out of it is closed for good.       *)
Wish == /\ request => session
        /\ user.pc = "leaving" => ~request
        /\ request /\ status = "offline" => roomClosed
        /\ task.pc = "dialling" => request

(* A closed room has no connection that was answered; one that nobody      *)
(* wants is only kept until its join is done, unless it went astray.       *)
Shut == /\ \A c \in answered : link[c] # "unused"
        /\ roomClosed => \A c \in Conn : Open(c) => c \notin answered /\ c # server
        /\ ~request /\ user.pc # "joined" =>
              \A c \in Conn : Open(c) => c # server \/ c \in astray

Accounted == ConnectionsOwned /\ Alone /\ Wish /\ Shut

LEMMA AccountedInit == Init => Accounted
  BY ConnAssumption
  DEF Init, Accounted, ConnectionsOwned, Open, OnItsWay, Alone, Wish, Shut, Idle, NoTask

(* What is open after connections were closed was open, and not of them.   *)
LEMMA ClosedOpens ==
    ASSUME link \in [Conn -> Link], NEW c, NEW why \in {"lost", "removed"}, NEW d \in Conn
    PROVE  /\ Closed(c, why)[d] = "open" => Open(d) /\ d # c
           /\ Closed(c, why)[d] = "unused" => link[d] = "unused"
  BY DEF Closed, Open

LEMMA AllClosedOpens ==
    ASSUME link \in [Conn -> Link], NEW cs, NEW d \in Conn
    PROVE  /\ AllClosed(cs)[d] = "open" => Open(d) /\ d \notin cs
           /\ AllClosed(cs)[d] = "unused" => link[d] = "unused"
  BY DEF AllClosed, Open

LEMMA RedialOpens ==
    ASSUME TypeOK, NEW c \in Conn, Redial(c), NEW d \in Conn
    PROVE  /\ link[c] = "unused" /\ c # NoConn /\ server' = NoConn /\ astray' = astray
           /\ link'[d] = "open" => d = c \/ (Open(d) /\ d # server)
           /\ link'[d] = "unused" => link[d] = "unused"
<1>1. Closed(server, "lost") \in [Conn -> Link]
  BY ClosedTyped DEF TypeOK
<1>2. link' = [Closed(server, "lost") EXCEPT ![c] = "open"]
  BY DEF Redial
<1>3. link'[d] = IF d = c THEN "open" ELSE Closed(server, "lost")[d]
  BY <1>1, <1>2
<1> QED
  BY <1>3, ClosedOpens, ConnAssumption DEF Redial, NextConn, TypeOK

LEMMA AccountedNext ==
    ASSUME TypeOK, Accounted, [Next]_vars
    PROVE  Accounted'
<1> USE DEF hostVars, fieldVars, taskVars, wireVars, history, Open, Holds, ConnectionsOwned,
            OnItsWay
<1>0. /\ link \in [Conn -> Link] /\ answered \subseteq Conn /\ server \in Maybe
      /\ NoConn \notin Conn /\ moved \in BOOLEAN /\ astray \subseteq Conn
      /\ request \in BOOLEAN /\ user \in [pc : UserPc, conn : Maybe]
  BY ConnAssumption DEF TypeOK, Maybe
<1>1. CASE HostClosesRoom
  BY <1>1, <1>0 DEF HostClosesRoom, Accounted, Alone, Wish, Shut
<1>2. ASSUME NEW c \in Conn, HostWelcomes(c) PROVE Accounted'
  BY <1>2, <1>0 DEF HostWelcomes, Accounted, Alone, Wish, Shut
<1>3. ASSUME NEW c \in Conn, LinkEnds(c, "lost") \/ LinkEnds(c, "removed") PROVE Accounted'
  BY <1>3, <1>0, ClosedOpens DEF LinkEnds, Accounted, Alone, Wish, Shut
<1>4. CASE JoinRoom
  <2>1. /\ user'.pc = "connecting" /\ task'.pc = "none" /\ status' = "connecting"
        /\ link' = AllClosed(Ended(NoConn))
        /\ (~moved' => ~moved /\ ~request)
        /\ UNCHANGED <<answered, roomClosed, session, request, server, astray>>
    BY <1>4, <1>0 DEF JoinRoom, CancelReconnect, Idle, NoTask
  <2>2. user.pc = "idle"
    BY <1>4 DEF JoinRoom, Idle
  <2>3. ConnectionsOwned'
    BY <2>1, <2>2, <1>0, AllClosedOpens DEF Ended, Accounted
  <2>4. Alone' /\ Wish'
    BY <2>1, <2>2 DEF Accounted, Alone, Wish
  <2>5. Shut'
    BY <2>1, <2>2, <1>0, AllClosedOpens DEF Accounted, Shut
  <2> QED
    BY <2>3, <2>4, <2>5 DEF Accounted
<1>5. CASE JoinWelcomed
  BY <1>5, <1>0 DEF JoinWelcomed, JoinInner, LetGo, TypeOK, Accounted, Alone, Wish, Shut
<1>6. CASE JoinFailed
  <2>1. /\ user'.pc = "idle" /\ task'.pc = "none" /\ status' = "offline" /\ ~request'
        /\ link' = AllClosed(Ended(user.conn)) /\ astray' = astray \cup ({server} \ {NoConn})
        /\ UNCHANGED <<answered, roomClosed, server, moved>>
    BY <1>6 DEF JoinFailed, ResetOffline, LetGo, CancelReconnect, Idle, NoTask
  <2>2. ConnectionsOwned'
    BY <2>1, <1>0, AllClosedOpens DEF Ended, Accounted
  <2>3. Wish' /\ Shut'
    BY <2>1, <1>0, AllClosedOpens DEF Accounted, Wish, Shut
  <2>4. user.pc \in {"connecting", "dialling"}
    BY <1>6 DEF JoinFailed
  <2> QED
    BY <2>1, <2>2, <2>3, <2>4, <1>0 DEF Accounted, Alone
<1>6a. CASE JoinUnreached
  BY <1>6a, <1>0, AllClosedOpens
  DEF JoinUnreached, ResetOffline, CancelReconnect, Ended, Idle, NoTask,
      Accounted, Alone, Wish, Shut
<1>6b. CASE JoinAbandoned
  BY <1>6b, <1>0, ClosedOpens DEF JoinAbandoned, Idle, Accounted, Alone, Wish, Shut
<1>7. CASE JoinConnects
  <2>1. /\ user.pc = "joined" /\ user'.pc = "publishing" /\ request' /\ session'
        /\ status' = "connected"
        /\ UNCHANGED <<answered, roomClosed, link, server, task, moved, astray>>
    BY <1>7, <1>0 DEF JoinConnects
  <2> QED
    BY <2>1 DEF Accounted, Alone, Wish, Shut
<1>7a. CASE JoinRoomDone
  BY <1>7a, <1>0 DEF JoinRoomDone, Idle, Accounted, Alone, Wish, Shut
<1>8. ASSUME EndConnection, ShowOffline, UNCHANGED <<hostVars, user, history>> PROVE Accounted'
  BY <1>8, <1>0, AllClosedOpens
  DEF EndConnection, ShowOffline, CancelReconnect, Ended, NoTask, Accounted, Alone, Wish, Shut
<1>9. CASE JoinUndone
  BY <1>9, <1>0, AllClosedOpens
  DEF JoinUndone, EndConnection, ShowOffline, CancelReconnect, Ended, NoTask, Idle,
      Accounted, Alone, Wish, Shut
<1>10. CASE LeaveRoom
  BY <1>10, <1>0, AllClosedOpens
  DEF LeaveRoom, EndConnection, CancelReconnect, Ended, NoTask, Idle,
      Accounted, Alone, Wish, Shut
<1>11. CASE LeaveRoomDone
  BY <1>11, <1>0 DEF LeaveRoomDone, ShowOffline, Idle, Accounted, Alone, Wish, Shut
<1>12. ASSUME NEW c \in Conn, JoinDials(c) PROVE Accounted'
  BY <1>12, <1>0, RedialOpens DEF JoinDials, Accounted, Alone, Wish, Shut
<1>13. CASE HandleAuthenticated
  BY <1>13, <1>0 DEF HandleAuthenticated, Accounted, Alone, Wish, Shut
<1>14. CASE HandleRemoval
  BY <1>14, <1>8 DEF HandleRemoval
<1>15. CASE HandleDrop
  BY <1>15, <1>0 DEF HandleDrop, SpawnReconnect, MayReturn, Accounted, Alone, Wish, Shut
<1>16. ASSUME NEW c \in Conn, ListenerReports(c) PROVE Accounted'
  BY <1>16, <1>0 DEF ListenerReports, Accounted, Alone, Wish, Shut
<1>17. CASE TaskReturns
  BY <1>17, <1>0 DEF TaskReturns, NoTask, Accounted, Alone, Wish, Shut
<1>18. CASE TaskUnreached
  BY <1>18, <1>0, ClosedOpens DEF TaskUnreached, TypeOK, Accounted, Alone, Wish, Shut
<1>19. CASE TaskWelcomed
  BY <1>19, <1>0 DEF TaskWelcomed, JoinInner, LetGo, TypeOK, Accounted, Alone, Wish, Shut
<1>20. CASE TaskFailed
  BY <1>20, <1>0, ClosedOpens DEF TaskFailed, TypeOK, Accounted, Alone, Wish, Shut
<1>21. CASE TaskConnects
  BY <1>21, <1>0 DEF TaskConnects, TypeOK, Accounted, Alone, Wish, Shut
<1>22. CASE TaskPublished
  BY <1>22, <1>0 DEF TaskPublished, NoTask, Accounted, Alone, Wish, Shut
<1>23. CASE TaskGivesUp
  BY <1>23, <1>8 DEF TaskGivesUp
<1>24. ASSUME NEW c \in Conn, TaskDials(c) PROVE Accounted'
  BY <1>24, <1>0, RedialOpens DEF TaskDials, Wanted, TypeOK, Accounted, Alone, Wish, Shut
<1>25. CASE StrayConnects
  BY <1>25, <1>0 DEF StrayConnects, Accounted, Alone, Wish, Shut
<1>26. CASE UNCHANGED vars
  BY <1>26 DEF vars, Accounted, Alone, Wish, Shut
<1> QED
  BY <1>1, <1>2, <1>3, <1>4, <1>5, <1>6, <1>6a, <1>6b, <1>7, <1>7a, <1>9, <1>10, <1>11, <1>12, <1>13,
     <1>14, <1>15, <1>16, <1>17, <1>18, <1>19, <1>20, <1>21, <1>22, <1>23, <1>24, <1>25, <1>26
  DEF Next, Environment, Control, EventLoop, TaskStep

LEMMA AccountedSuffices == TypeOK /\ Accounted => DialsAccounted
<1> SUFFICES ASSUME TypeOK, Accounted PROVE DialsAccounted
  OBVIOUS
<1> USE DEF Open, Holds
<1>1. AtMostOneConnection
  BY ConnAssumption
  DEF AtMostOneConnection, Accounted, ConnectionsOwned, Alone, OnItsWay
<1>2. NoConnectionLeftBehind
  BY DEF NoConnectionLeftBehind, Settled, Idle, NoTask, Accounted, ConnectionsOwned, Wish, Shut
<1>3. NoDialAfterLeaving
  BY DEF NoDialAfterLeaving, Accounted, Wish
<1> QED
  BY <1>1, <1>2, <1>3 DEF DialsAccounted, Accounted

(***************************************************************************)
(* For any number of connections and attempts: an open connection is in    *)
(* use or being dialled, has gone astray when a join replaced or gave up   *)
(* another's, and none has unless a room was asked for while the wish to   *)
(* return to one stood; until then no two are open.  A participant that    *)
(* has left or failed to join has no other once everything has settled,    *)
(* and no dial of the reconnect task: join_room, leave_room and the        *)
(* reconnect task of app_state.rs.                                         *)
(***************************************************************************)
THEOREM ConnectionsAreOwned == Spec => []DialsAccounted
<1>1. TypeOK /\ Accounted /\ [Next]_vars => (TypeOK /\ Accounted)'
  BY TypeNext, AccountedNext
<1>2. Init => TypeOK /\ Accounted
  BY TypeInit, AccountedInit
<1> QED BY <1>1, <1>2, AccountedSuffices, PTL DEF Spec
================================================================================
