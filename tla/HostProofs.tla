------------------------------- MODULE HostProofs -------------------------------
(***************************************************************************)
(* Proofs about the two halves of the host: HostSessions, for every number *)
(* of sessions and connections and every capacity of the event queue, and  *)
(* EventPipeline, for every number of inputs and faults and every backlog  *)
(* cap.                                                                    *)
(***************************************************************************)
EXTENDS HostSessions, EventPipeline, TLAPS

-----------------------------------------------------------------------------
(***************************************************************************)
(* The inductive invariant.                                                *)
(***************************************************************************)
\* How far a connection has come: its session is chosen in accept_peer, its
\* reader starts once the maps are filled.
Shape ==
    \A c \in Conn :
        /\ sess[c] \in issued \cup {NoSession}
        /\ acc[c] = "none" <=> link[c] = "unused"
        /\ acc[c] = "none" => sess[c] = NoSession /\ reader[c] = "none"
        /\ acc[c] \in {"hello", "welcomed"} => reader[c] = "none"
        /\ acc[c] \in {"welcomed", "spawned", "done"} => sess[c] # NoSession
        /\ acc[c] \in {"spawned", "done"} => reader[c] # "none"
        /\ reader[c] # "none" => sess[c] # NoSession

\* An event is of a connection that has a session, and Authenticated of one
\* whose reader is at work, unless it was overtaken, or whose end is queued
\* behind it.
QueueOK ==
    \A i \in 1 .. Len(queue) :
        LET c == queue[i].conn IN
        /\ sess[c] # NoSession
        /\ queue[i].kind = "authenticated" =>
              \/ reader[c] \in {"running", "stripped"}
              \/ \E j \in 1 .. Len(queue) : j > i /\ queue[j] = Disconnected(c)
              \/ c \in overtaken

\* Between two rooms nobody is in the roster and no connection is open.
RoomDown ==
    ~hosting => /\ \A s \in Session : roster[s] = "absent"
                /\ \A c \in Conn : ~Open(c)
                /\ closing = {}

Uncrowded(s) == ConnsOf(s) \cap crowded = {}

\* One reader at most runs for a session.
OneReader ==
    \A c, d \in Conn :
        c # d /\ sess[c] = sess[d] /\ reader[c] = "running" /\ reader[d] = "running"
        => ~Uncrowded(sess[c])

\* While a connection is being authenticated for a session, no other is open.
NoneBeside ==
    \A c, d \in Conn :
        c # d /\ sess[c] = sess[d] /\ sess[c] # NoSession /\ acc[c] \in {"hello", "welcomed"}
        /\ reader[d] = "running" /\ Open(d)
        => ~Uncrowded(sess[c])

LinkTyped ==
    /\ hosting \in BOOLEAN /\ link \in [Conn -> Link]
    /\ presented \in [Conn -> Session \cup {NoSession}]
    /\ acc \in [Conn -> AcceptPc] /\ sess \in [Conn -> Session \cup {NoSession}]
    /\ reader \in [Conn -> ReaderPc]
RoomTyped ==
    /\ issued \subseteq Session /\ resume \subseteq issued
    /\ entry \in [Session -> Conn \cup {NoConn}]
    /\ roster \in [Session -> RosterState] /\ closing \subseteq Closing
QueueTyped ==
    /\ queue \in Seq(Event) /\ Len(queue) <= QueueCap
    /\ overtaken \subseteq Conn /\ crowded \subseteq Conn
Base == LinkTyped /\ RoomTyped /\ QueueTyped /\ Shape /\ QueueOK /\ RoomDown

LEMMA TypedParts == TypeOK <=> LinkTyped /\ RoomTyped /\ QueueTyped
  BY DEF TypeOK, LinkTyped, RoomTyped, QueueTyped

LEMMA Constants ==
    /\ NoSession \notin Session /\ NoConn \notin Conn /\ QueueCap \in Nat \ {0}
    /\ \A c \in Conn : Authenticated(c) \in Event /\ Disconnected(c) \in Event
    /\ \A c, d \in Conn : Authenticated(c) # Disconnected(d)
  BY NothingAssumption, QueueAssumption DEF Authenticated, Disconnected, Event

\* What an event adds to the queue.
LEMMA Sent ==
    ASSUME NEW event \in Event, queue \in Seq(Event), queue' = Append(queue, event)
    PROVE  /\ queue' \in Seq(Event) /\ Len(queue') = Len(queue) + 1 /\ Len(queue) \in Nat
           /\ queue'[Len(queue')] = event
           /\ \A i \in 1 .. Len(queue) : i \in 1 .. Len(queue') /\ queue'[i] = queue[i]
           /\ \A i \in 1 .. Len(queue') : i \in 1 .. Len(queue) \/ i = Len(queue')
           /\ \A e : Queued(e) => Queued(e)'
           /\ Queued(event)'
<1>1. /\ queue' \in Seq(Event) /\ Len(queue') = Len(queue) + 1 /\ Len(queue) \in Nat
      /\ queue'[Len(queue')] = event
      /\ \A i \in 1 .. Len(queue) : i \in 1 .. Len(queue') /\ queue'[i] = queue[i]
      /\ \A i \in 1 .. Len(queue') : i \in 1 .. Len(queue) \/ i = Len(queue')
      /\ Len(queue') \in 1 .. Len(queue')
  OBVIOUS
<1> QED BY <1>1 DEF Queued

\* What the handler takes from the queue.
LEMMA Taken ==
    ASSUME NEW kind, queue \in Seq(Event), Handles(kind)
    PROVE  /\ queue' \in Seq(Event) /\ Len(queue') = Len(queue) - 1 /\ Len(queue) \in Nat
           /\ Head(queue) = queue[1] /\ 1 \in 1 .. Len(queue) /\ Head(queue) \in Event
           /\ Head(queue).kind = kind
           /\ \A i \in 1 .. Len(queue') : i + 1 \in 1 .. Len(queue) /\ queue'[i] = queue[i + 1]
           /\ \A i \in 1 .. Len(queue) : i # 1 => /\ i - 1 \in 1 .. Len(queue')
                                                  /\ queue'[i - 1] = queue[i]
           /\ \A e : Queued(e) /\ e # Head(queue) => Queued(e)'
<1>1. /\ queue # <<>> /\ queue' = Tail(queue) /\ Head(queue).kind = kind
  BY DEF Handles
<1>2. /\ queue' \in Seq(Event) /\ Len(queue') = Len(queue) - 1 /\ Len(queue) \in Nat
      /\ Head(queue) = queue[1] /\ 1 \in 1 .. Len(queue) /\ Head(queue) \in Event
      /\ \A i \in 1 .. Len(queue') : i + 1 \in 1 .. Len(queue) /\ queue'[i] = queue[i + 1]
      /\ \A i \in 1 .. Len(queue) : i # 1 => /\ i - 1 \in 1 .. Len(queue')
                                             /\ queue'[i - 1] = queue[i]
  BY <1>1
<1> QED BY <1>1, <1>2 DEF Queued

\* An event keeps what QueueOK says of it while its connection goes on.
LEMMA QueueKept ==
    ASSUME QueueTyped, QueueOK, queue' = queue, overtaken \subseteq overtaken',
           \A c \in Conn : /\ sess[c] # NoSession => sess'[c] = sess[c]
                           /\ reader[c] \in {"running", "stripped"} =>
                                  reader'[c] \in {"running", "stripped"}
    PROVE  QueueOK'
<1>1. \A i \in 1 .. Len(queue) : queue[i].conn \in Conn
  <2> SUFFICES ASSUME NEW i \in 1 .. Len(queue) PROVE queue[i].conn \in Conn
    OBVIOUS
  <2>1. queue[i] \in Event
    BY DEF QueueTyped
  <2> QED BY <2>1 DEF Event
<1> QED BY <1>1 DEF QueueOK, Disconnected

LEMMA QueueHandled ==
    ASSUME QueueTyped, QueueOK, NEW kind, Handles(kind), UNCHANGED <<sess, reader, history>>
    PROVE  QueueOK' /\ QueueTyped'
<1>1. queue \in Seq(Event) /\ Len(queue) <= QueueCap /\ UNCHANGED <<overtaken, crowded>>
  BY DEF QueueTyped, history
<1>2. QueueOK'
  <2> SUFFICES ASSUME NEW i \in 1 .. Len(queue')
               PROVE  LET c == queue'[i].conn IN
                      /\ sess[c] # NoSession
                      /\ queue'[i].kind = "authenticated" =>
                            \/ reader[c] \in {"running", "stripped"}
                            \/ \E j \in 1 .. Len(queue') : j > i /\ queue'[j] = Disconnected(c)
                            \/ c \in overtaken
    BY <1>1 DEF QueueOK, Disconnected
  <2> DEFINE c == queue[i + 1].conn
  <2>1. i + 1 \in 1 .. Len(queue) /\ queue'[i] = queue[i + 1] /\ i \in Nat
    BY <1>1, Taken
  <2>2. sess[c] # NoSession
    BY <2>1 DEF QueueOK
  <2>3. ASSUME NEW j \in 1 .. Len(queue), j > i + 1, queue[j] = Disconnected(c)
        PROVE  \E k \in 1 .. Len(queue') : k > i /\ queue'[k] = Disconnected(c)
    <3>1. j - 1 \in 1 .. Len(queue') /\ queue'[j - 1] = Disconnected(c) /\ j - 1 > i
      BY <1>1, <2>1, <2>3, Taken
    <3> QED BY <3>1
  <2>4. queue[i + 1].kind = "authenticated" =>
            \/ reader[c] \in {"running", "stripped"}
            \/ \E j \in 1 .. Len(queue) : j > i + 1 /\ queue[j] = Disconnected(c)
            \/ c \in overtaken
    BY <2>1 DEF QueueOK
  <2> QED BY <2>1, <2>2, <2>3, <2>4
<1>3. QueueTyped'
  <2>1. queue' \in Seq(Event) /\ Len(queue') = Len(queue) - 1 /\ Len(queue) \in Nat
    BY <1>1, Taken
  <2> QED BY <1>1, <2>1, Constants DEF QueueTyped
<1> QED BY <1>2, <1>3

LEMMA BaseAccept ==
    ASSUME Base, NEW c \in Conn,
           (\E t \in Token : Accept(c, t)) \/ CheckResume(c) \/ Welcome(c) \/ CutOff(c) \/ Lose(c)
    PROVE  Base'
<1>0. LinkTyped /\ RoomTyped /\ QueueTyped /\ Shape /\ QueueOK /\ RoomDown
  BY DEF Base
<1>1. ASSUME NEW t \in Token, Accept(c, t) PROVE Base'
  <2>1. t \in Session \cup {NoSession}
    BY <1>0, <1>1 DEF Token, LinkTyped
  <2>2. LinkTyped' /\ RoomTyped' /\ QueueTyped'
    BY <1>0, <1>1, <2>1 DEF Accept, LinkTyped, RoomTyped, QueueTyped, Link, AcceptPc, mapVars,
       roomVars, history
  <2>3. Shape'
    BY <1>0, <1>1 DEF Accept, NextConn, Shape, LinkTyped
  <2>4. QueueOK'
    BY <1>0, <1>1, QueueKept DEF Accept, history
  <2>5. RoomDown'
    BY <1>1 DEF Accept, RoomDown, roomVars
  <2> QED BY <2>2, <2>3, <2>4, <2>5 DEF Base
<1>2. CASE CheckResume(c)
  <2>1. PICK s \in Session : /\ sess' = [sess EXCEPT ![c] = s] /\ issued' \in {issued, issued \cup {s}}
                             /\ s \in issued'
    BY <1>0, <1>2 DEF CheckResume, MayResume, RoomTyped, NextSession
  <2>2. LinkTyped' /\ RoomTyped' /\ QueueTyped'
    BY <1>0, <1>2, <2>1 DEF CheckResume, LinkTyped, RoomTyped, QueueTyped, mapVars,
       roomVars, history
  <2>3. Shape'
    BY <1>0, <1>2, <2>1 DEF CheckResume, Shape, LinkTyped
  <2>4. QueueOK'
    BY <1>0, <1>2, <2>1, QueueKept DEF CheckResume, history, LinkTyped
  <2>5. RoomDown'
    BY <1>0, <1>2 DEF CheckResume, RoomDown, Open, roomVars
  <2> QED BY <2>2, <2>3, <2>4, <2>5 DEF Base
<1>3. CASE Welcome(c)
  <2>1. sess[c] \in issued
    BY <1>0, <1>3 DEF Welcome, Shape
  <2>2. LinkTyped' /\ RoomTyped' /\ QueueTyped'
    BY <1>0, <1>3, <2>1 DEF Welcome, LinkTyped, RoomTyped, QueueTyped, linkVars, AcceptPc,
       roomVars, history
  <2>3. Shape'
    BY <1>0, <1>3 DEF Welcome, Shape, LinkTyped, linkVars
  <2>4. QueueOK'
    BY <1>0, <1>3, QueueKept DEF Welcome, history
  <2>5. RoomDown'
    BY <1>0, <1>3 DEF Welcome, RoomDown, Open, roomVars, linkVars
  <2> QED BY <2>2, <2>3, <2>4, <2>5 DEF Base
<1>4. CASE CutOff(c) \/ Lose(c)
  <2>1. /\ link' = Closed(c) /\ UNCHANGED <<sess, issued, reader, overtaken>>
        /\ acc' = acc \/ (acc[c] # "none" /\ acc' = [acc EXCEPT ![c] = "cut"])
    BY <1>4 DEF CutOff, Lose, acceptVars, history
  <2>2. LinkTyped'
    BY <1>0, <1>4, <2>1 DEF CutOff, Lose, LinkTyped, acceptVars, roomVars, Closed, Link, AcceptPc
  <2>3. RoomTyped' /\ QueueTyped'
    BY <1>0, <1>4 DEF CutOff, Lose, RoomTyped, QueueTyped, acceptVars, mapVars, roomVars, history
  <2>4. Shape'
    BY <1>0, <2>1 DEF Shape, LinkTyped, Closed, Open
  <2>5. QueueOK'
    BY <1>0, <1>4, <2>1, QueueKept DEF CutOff, Lose
  <2>6. RoomDown'
    BY <1>0, <1>4, <2>1 DEF CutOff, Lose, RoomDown, Open, Closed, roomVars
  <2> QED BY <2>2, <2>3, <2>4, <2>5, <2>6 DEF Base
<1> QED BY <1>1, <1>2, <1>3, <1>4

LEMMA BaseReader ==
    ASSUME Base, NEW c \in Conn,
           Connect(c) \/ Announce(c) \/ ReaderStrips(c) \/ ReaderReports(c)
    PROVE  Base'
<1>0. LinkTyped /\ RoomTyped /\ QueueTyped /\ Shape /\ QueueOK /\ RoomDown
  BY DEF Base
<1>1. RoomDown'
  BY <1>0 DEF Connect, Announce, ReaderStrips, ReaderReports, RoomDown, Open, linkVars, roomVars
<1>2. CASE Connect(c)
  <2>1. LinkTyped' /\ RoomTyped' /\ QueueTyped'
    BY <1>0, <1>2 DEF Connect, LinkTyped, RoomTyped, QueueTyped, Crowd, ConnsOf, linkVars,
       roomVars, AcceptPc, ReaderPc
  <2>2. Shape'
    BY <1>0, <1>2 DEF Connect, Shape, LinkTyped, linkVars
  <2>3. QueueOK'
    BY <1>0, <1>2, QueueKept DEF Connect, LinkTyped
  <2> QED BY <1>1, <2>1, <2>2, <2>3 DEF Base
<1>3. CASE ReaderStrips(c)
  <2>1. LinkTyped' /\ RoomTyped' /\ QueueTyped'
    BY <1>0, <1>3 DEF ReaderStrips, StripEntry, LinkTyped, RoomTyped, QueueTyped, linkVars,
       acceptVars, roomVars, history, ReaderPc
  <2>2. Shape'
    BY <1>0, <1>3 DEF ReaderStrips, Shape, LinkTyped, linkVars, acceptVars
  <2>3. QueueOK'
    BY <1>0, <1>3, QueueKept DEF ReaderStrips, LinkTyped, acceptVars, history
  <2> QED BY <1>1, <2>1, <2>2, <2>3 DEF Base
<1>4. CASE Announce(c)
  <2>1. /\ acc[c] = "spawned" /\ queue' = Append(queue, Authenticated(c)) /\ Len(queue) < QueueCap
        /\ overtaken' = IF reader[c] = "ended" THEN overtaken \cup {c} ELSE overtaken
        /\ UNCHANGED <<sess, reader>>
    BY <1>4 DEF Announce, QueueHasRoom
  <2>2. queue \in Seq(Event)
    BY <1>0 DEF QueueTyped
  <2>3. LinkTyped' /\ RoomTyped' /\ QueueTyped'
    <3>1. queue' \in Seq(Event) /\ Len(queue') <= QueueCap
      BY <2>1, <2>2, Sent, Constants
    <3> QED BY <1>0, <1>4, <3>1 DEF Announce, LinkTyped, RoomTyped, QueueTyped, linkVars, mapVars,
            roomVars, AcceptPc
  <2>4. Shape'
    BY <1>0, <1>4 DEF Announce, Shape, LinkTyped, linkVars
  <2>5. QueueOK'
    <3>1. sess[c] # NoSession /\ (reader[c] \in {"running", "stripped"} \/ c \in overtaken')
      BY <1>0, <2>1 DEF Shape, LinkTyped, ReaderPc
    <3>2. /\ Len(queue') = Len(queue) + 1 /\ queue'[Len(queue')] = Authenticated(c)
          /\ \A i \in 1 .. Len(queue) : i \in 1 .. Len(queue') /\ queue'[i] = queue[i]
          /\ \A i \in 1 .. Len(queue') : i \in 1 .. Len(queue) \/ i = Len(queue')
      BY <2>1, <2>2, Sent, Constants
    <3>3. ASSUME NEW i \in 1 .. Len(queue')
          PROVE  LET d == queue'[i].conn IN
                 /\ sess[d] # NoSession
                 /\ queue'[i].kind = "authenticated" =>
                       \/ reader[d] \in {"running", "stripped"}
                       \/ \E j \in 1 .. Len(queue') : j > i /\ queue'[j] = Disconnected(d)
                       \/ d \in overtaken'
      <4>1. CASE i \in 1 .. Len(queue)
        BY <1>0, <2>1, <3>2, <4>1 DEF QueueOK
      <4>2. CASE i = Len(queue')
        BY <3>1, <3>2, <4>2 DEF Authenticated
      <4> QED BY <3>2, <4>1, <4>2
    <3> QED BY <2>1, <3>3 DEF QueueOK, Disconnected
  <2> QED BY <1>1, <2>3, <2>4, <2>5 DEF Base
<1>5. CASE ReaderReports(c)
  <2>1. /\ reader[c] = "stripped" /\ queue' = Append(queue, Disconnected(c))
        /\ Len(queue) < QueueCap /\ reader' = [reader EXCEPT ![c] = "ended"]
        /\ UNCHANGED <<sess, overtaken>>
    BY <1>5 DEF ReaderReports, QueueHasRoom, acceptVars, history
  <2>2. queue \in Seq(Event)
    BY <1>0 DEF QueueTyped
  <2>3. LinkTyped' /\ RoomTyped' /\ QueueTyped'
    <3>1. queue' \in Seq(Event) /\ Len(queue') <= QueueCap
      BY <2>1, <2>2, Sent, Constants
    <3> QED BY <1>0, <1>5, <3>1 DEF ReaderReports, LinkTyped, RoomTyped, QueueTyped, linkVars,
            acceptVars, mapVars, roomVars, history, ReaderPc
  <2>4. Shape'
    BY <1>0, <1>5 DEF ReaderReports, Shape, LinkTyped, linkVars, acceptVars
  <2>5. QueueOK'
    <3>1. sess[c] # NoSession /\ \A d \in Conn : d # c => reader'[d] = reader[d]
      BY <1>0, <2>1 DEF Shape, LinkTyped
    <3>2. /\ Len(queue') = Len(queue) + 1 /\ queue'[Len(queue')] = Disconnected(c)
          /\ \A i \in 1 .. Len(queue) : i \in 1 .. Len(queue') /\ queue'[i] = queue[i]
          /\ \A i \in 1 .. Len(queue') : i \in 1 .. Len(queue) \/ i = Len(queue')
          /\ Len(queue) \in Nat
      BY <2>1, <2>2, Sent, Constants
    <3>3. ASSUME NEW i \in 1 .. Len(queue')
          PROVE  LET d == queue'[i].conn IN
                 /\ sess[d] # NoSession
                 /\ queue'[i].kind = "authenticated" =>
                       \/ reader'[d] \in {"running", "stripped"}
                       \/ \E j \in 1 .. Len(queue') : j > i /\ queue'[j] = Disconnected(d)
                       \/ d \in overtaken
      <4>1. CASE i \in 1 .. Len(queue)
        <5>1. Len(queue') \in 1 .. Len(queue') /\ Len(queue') > i
          BY <3>2, <4>1
        <5>2. queue'[i].conn \in Conn /\ queue'[i] = queue[i]
          <6>1. queue[i] \in Event /\ queue'[i] = queue[i]
            BY <2>2, <3>2, <4>1
          <6> QED BY <6>1 DEF Event
        <5> QED BY <1>0, <3>1, <3>2, <4>1, <5>1, <5>2 DEF QueueOK
      <4>2. CASE i = Len(queue')
        BY <3>1, <3>2, <4>2 DEF Disconnected
      <4> QED BY <3>2, <4>1, <4>2
    <3> QED BY <2>1, <3>3 DEF QueueOK, Disconnected
  <2> QED BY <1>1, <2>3, <2>4, <2>5 DEF Base
<1> QED BY <1>2, <1>3, <1>4, <1>5

LEMMA BaseHost ==
    ASSUME Base,
           \/ \E s \in Session : DropSlowPeer(s) \/ Expire(s) \/ RemovePeer(s)
           \/ \E call \in closing : DisconnectPeer(call)
           \/ CloseRoom \/ StartHost
    PROVE  Base'
<1>0. LinkTyped /\ RoomTyped /\ QueueTyped /\ Shape /\ QueueOK /\ RoomDown
  BY DEF Base
<1>1. UNCHANGED <<acc, sess, reader, issued, queue, overtaken, crowded, presented>>
  BY DEF DropSlowPeer, Expire, RemovePeer, DisconnectPeer, CloseRoom, StartHost, linkVars, acceptVars,
     history
<1>2. QueueTyped' /\ QueueOK'
  BY <1>0, <1>1, QueueKept DEF QueueTyped
<1>3. /\ link' \in [Conn -> Link]
      /\ \A c \in Conn : /\ (link'[c] = "unused") <=> (link[c] = "unused")
                         /\ Open(c)' => Open(c)
  <2>1. link' = link \/ (\E x : link' = Closed(x))
        \/ link' = [c \in Conn |-> IF Open(c) THEN "closed" ELSE link[c]]
    BY DEF DropSlowPeer, Expire, RemovePeer, DisconnectPeer, CloseRoom, StartHost, linkVars
  <2> QED BY <1>0, <2>1 DEF LinkTyped, Closed, Open, Link
<1>4. hosting' \in BOOLEAN
  BY <1>0 DEF DropSlowPeer, Expire, RemovePeer, DisconnectPeer, CloseRoom, StartHost, roomVars, LinkTyped
<1>5. LinkTyped' /\ Shape'
  BY <1>0, <1>1, <1>3, <1>4 DEF LinkTyped, Shape
<1>6. RoomTyped'
  <2>1. ASSUME NEW s \in Session, DropSlowPeer(s) \/ Expire(s) \/ RemovePeer(s) PROVE RoomTyped'
    BY <1>0, <1>1, <2>1 DEF DropSlowPeer, Expire, RemovePeer, RoomTyped, mapVars, roomVars, ToDisconnect,
       Closing, RosterState
  <2>2. ASSUME NEW call \in closing, DisconnectPeer(call) PROVE RoomTyped'
    BY <1>0, <1>1, <2>2 DEF DisconnectPeer, Forgotten, RoomTyped
  <2>3. CASE CloseRoom \/ StartHost
    BY <1>0, <1>1, <2>3 DEF CloseRoom, StartHost, RoomTyped, RosterState
  <2> QED BY <2>1, <2>2, <2>3
<1>7. RoomDown'
  <2>1. CASE CloseRoom
    BY <1>0, <2>1 DEF CloseRoom, RoomDown, Open, LinkTyped
  <2>2. ASSUME NEW call \in closing, DisconnectPeer(call) PROVE RoomDown'
    BY <1>0, <1>3, <2>2 DEF DisconnectPeer, RoomDown
  <2> QED BY <2>1, <2>2 DEF DropSlowPeer, Expire, RemovePeer, StartHost, RoomDown, roomVars
<1> QED BY <1>2, <1>5, <1>6, <1>7 DEF Base

\* A forbidden message leaves one call to disconnect its session, and no more.
LEMMA Forbidden ==
    ASSUME Base, NEW c \in Conn, HandleForbidden(c)
    PROVE  /\ hosting /\ sess[c] \in Session
           /\ closing' = closing \cup {[by |-> "handler", sess |-> sess[c]]}
           /\ UNCHANGED <<link, presented, acc, sess, reader, issued, resume, entry>>
           /\ UNCHANGED <<hosting, roster, queue, overtaken, crowded>>
<1>1. sess[c] # NoSession
  <2>1. CASE reader[c] \in {"running", "stripped"}
    BY <2>1 DEF Base, Shape
  <2>2. CASE Queued(Disconnected(c))
    BY <2>2 DEF Base, QueueOK, Queued, Disconnected
  <2> QED BY <2>1, <2>2 DEF HandleForbidden
<1> QED
  BY <1>1 DEF HandleForbidden, ToDisconnect, Base, LinkTyped, linkVars, acceptVars, mapVars, history

LEMMA BaseForbidden ==
    ASSUME Base, NEW c \in Conn, HandleForbidden(c)
    PROVE  Base'
<1>1. LinkTyped' /\ RoomTyped' /\ Shape' /\ RoomDown'
  BY Forbidden DEF Base, LinkTyped, RoomTyped, Closing, Shape, RoomDown, Open
<1>2. QueueTyped' /\ QueueOK'
  BY Forbidden, QueueKept DEF Base, QueueTyped
<1> QED BY <1>1, <1>2 DEF Base

LEMMA BaseHandler ==
    ASSUME Base, HandleAuthenticated \/ HandleDisconnected \/ HandleLate
    PROVE  Base'
<1>0. LinkTyped /\ RoomTyped /\ QueueTyped /\ Shape /\ QueueOK /\ RoomDown
  BY DEF Base
<1>1. UNCHANGED <<link, presented, acc, sess, reader, issued, resume, entry, hosting, history>>
  BY DEF HandleAuthenticated, HandleDisconnected, HandleLate, linkVars, acceptVars, mapVars, roomVars
<1>2. LinkTyped' /\ Shape'
  BY <1>0, <1>1 DEF LinkTyped, Shape
<1>3. QueueOK' /\ QueueTyped'
  <2>1. PICK kind \in {"authenticated", "disconnected"} : Handles(kind)
    BY DEF HandleAuthenticated, HandleDisconnected, HandleLate
  <2> QED BY <1>0, <1>1, <2>1, QueueHandled
<1>4. sess[Head(queue).conn] \in Session
  <2>1. PICK kind \in {"authenticated", "disconnected"} : Handles(kind)
    BY DEF HandleAuthenticated, HandleDisconnected, HandleLate
  <2>2. Head(queue) = queue[1] /\ 1 \in 1 .. Len(queue) /\ Head(queue) \in Event
    BY <1>0, <2>1, Taken DEF QueueTyped
  <2>3. Head(queue).conn \in Conn /\ sess[Head(queue).conn] # NoSession
    BY <1>0, <2>2 DEF QueueOK, Event
  <2> QED BY <1>0, <2>3 DEF LinkTyped
<1>5. RoomTyped'
  BY <1>0, <1>1, <1>4 DEF HandleAuthenticated, HandleDisconnected, HandleLate, roomVars, RoomTyped,
     ToDisconnect, Dropped, Closing, RosterState
<1>6. RoomDown'
  BY <1>0, <1>1 DEF HandleAuthenticated, HandleDisconnected, HandleLate, roomVars, RoomDown, Open
<1> QED BY <1>2, <1>3, <1>5, <1>6 DEF Base

LEMMA BaseNext == Base /\ [Next]_vars => Base'
<1> SUFFICES ASSUME Base, [Next]_vars PROVE Base'
  OBVIOUS
<1>1. CASE UNCHANGED vars
  BY <1>1 DEF vars, linkVars, acceptVars, mapVars, roomVars, history, Base, LinkTyped, RoomTyped,
     QueueTyped, Shape, QueueOK, RoomDown, Open
<1> QED
  BY <1>1, BaseAccept, BaseReader, BaseHost, BaseForbidden, BaseHandler DEF Next, Transport

LEMMA BaseInit == Init => Base
<1> SUFFICES ASSUME Init PROVE Base
  OBVIOUS
<1>1. LinkTyped
  BY DEF Init, LinkTyped, Link, AcceptPc, ReaderPc
<1>2. RoomTyped
  BY DEF Init, RoomTyped, RosterState
<1>3. QueueTyped /\ QueueOK
  <2>1. queue = <<>> /\ Len(queue) = 0 /\ queue \in Seq(Event)
    BY DEF Init
  <2> QED BY <2>1, Constants DEF Init, QueueTyped, QueueOK
<1>4. Shape /\ RoomDown
  BY DEF Init, Shape, RoomDown
<1> QED BY <1>1, <1>2, <1>3, <1>4 DEF Base

\* The host's event queue never takes more than it holds, and no token maps to
\* a session that was never handed out (network.rs, resume_sessions).
THEOREM HostTypeCorrect == Spec => []TypeOK
<1>1. Base => TypeOK
  BY TypedParts DEF Base
<1> QED BY <1>1, BaseInit, BaseNext, PTL DEF Spec

-----------------------------------------------------------------------------
(***************************************************************************)
(* The resume tokens.                                                      *)
(***************************************************************************)
Owned(s) ==
    \/ roster[s] # "absent"
    \/ \E c \in ConnsOf(s) : acc[c] \in {"welcomed", "spawned", "cut"} \/ Queued(Authenticated(c))
    \/ \E call \in closing : call.sess = s

\* A token keeps its owner while its connections keep their sessions, none of
\* them goes back, and the roster and the pending calls lose nothing of it.
LEMMA StillOwned ==
    ASSUME LinkTyped, NEW s \in Session, Owned(s),
           roster[s] # "absent" => roster'[s] # "absent", closing \subseteq closing',
           \A c \in Conn : /\ sess[c] = s => sess'[c] = s
                           /\ acc[c] \in {"welcomed", "spawned", "cut"} =>
                                 acc'[c] \in {"welcomed", "spawned", "cut"}
                           /\ Queued(Authenticated(c)) => Queued(Authenticated(c))'
    PROVE  Owned(s)'
<1>1. \A c \in ConnsOf(s) : c \in ConnsOf(s)' /\ c \in Conn
  BY DEF ConnsOf
<1> QED BY <1>1 DEF Owned

LEMMA OwnedTransport ==
    ASSUME Base, TokenHasOwner, NEW c \in Conn, Transport(c)
    PROVE  TokenHasOwner'
<1>0. LinkTyped /\ RoomTyped /\ QueueTyped /\ Shape
  BY DEF Base
<1> SUFFICES ASSUME hosting', NEW s \in resume' PROVE Owned(s)'
  BY DEF TokenHasOwner, Owned
<1>1. hosting /\ s \in Session /\ UNCHANGED <<roster, closing>>
  BY <1>0 DEF Transport, Accept, CheckResume, Welcome, Connect, Announce, CutOff, ReaderStrips,
     ReaderReports, Lose, roomVars, mapVars, RoomTyped, LinkTyped
<1>2. s \in resume => Owned(s)
  BY <1>1 DEF TokenHasOwner, Owned
<1>3. CASE Announce(c)
  <2>1. /\ resume' = resume /\ sess' = sess /\ queue' = Append(queue, Authenticated(c))
        /\ acc' = [acc EXCEPT ![c] = "done"]
    BY <1>3 DEF Announce, mapVars
  <2>2. /\ Queued(Authenticated(c))' /\ \A e : Queued(e) => Queued(e)'
    BY <1>0, <2>1, Sent, Constants DEF QueueTyped
  <2>3. CASE sess[c] = s
    <3>1. c \in ConnsOf(s)'
      BY <2>1, <2>3 DEF ConnsOf
    <3> QED BY <2>2, <3>1 DEF Owned
  <2>4. CASE sess[c] # s
    <3>1. \A d \in ConnsOf(s) : d \in ConnsOf(s)' /\ acc'[d] = acc[d]
      BY <1>0, <2>1, <2>4 DEF ConnsOf, LinkTyped
    <3>2. \A d \in ConnsOf(s) : Queued(Authenticated(d)) => Queued(Authenticated(d))'
      BY <2>2
    <3> QED BY <1>1, <1>2, <2>1, <3>1, <3>2 DEF Owned
  <2> QED BY <2>3, <2>4
<1>4. CASE Welcome(c) /\ s = sess[c]
  <2>1. c \in ConnsOf(s)' /\ acc'[c] = "welcomed"
    BY <1>0, <1>4 DEF Welcome, ConnsOf, LinkTyped
  <2> QED BY <2>1 DEF Owned
<1>5. CASE ReaderReports(c)
  <2>1. /\ UNCHANGED <<resume, sess, acc>> /\ queue' = Append(queue, Disconnected(c))
    BY <1>5 DEF ReaderReports, mapVars, acceptVars
  <2>2. \A e : Queued(e) => Queued(e)'
    BY <1>0, <2>1, Sent, Constants DEF QueueTyped
  <2>3. \A d \in Conn : Queued(Authenticated(d)) => Queued(Authenticated(d))'
    BY <2>2
  <2> QED BY <1>0, <1>1, <1>2, <2>1, <2>3, StillOwned
<1>6. CASE \/ \E t \in Token : Accept(c, t)
           \/ CheckResume(c) \/ (Welcome(c) /\ s # sess[c]) \/ Connect(c) \/ CutOff(c)
           \/ ReaderStrips(c) \/ Lose(c)
  <2>1. s \in resume /\ queue' = queue
    BY <1>6 DEF Accept, CheckResume, Welcome, Connect, CutOff, ReaderStrips, Lose, mapVars
  <2>2. \A d \in Conn : sess[d] = s => sess'[d] = s
    BY <1>0, <1>1, <1>6, Constants DEF Accept, CheckResume, Welcome, Connect, CutOff, ReaderStrips,
       Lose, acceptVars, LinkTyped
  <2>3. \A d \in Conn : acc[d] \in {"welcomed", "spawned", "cut"} =>
                            acc'[d] \in {"welcomed", "spawned", "cut"}
    BY <1>0, <1>6 DEF Accept, NextConn, CheckResume, Welcome, Connect, CutOff, ReaderStrips, Lose,
       acceptVars, LinkTyped, Shape
  <2>4. \A d \in Conn : Queued(Authenticated(d)) => Queued(Authenticated(d))'
    BY <2>1 DEF Queued, Authenticated
  <2> QED BY <1>0, <1>1, <1>2, <2>1, <2>2, <2>3, <2>4, StillOwned
<1> QED BY <1>3, <1>4, <1>5, <1>6 DEF Transport

LEMMA OwnedHost ==
    ASSUME Base, TokenHasOwner,
           \/ \E s \in Session : DropSlowPeer(s) \/ Expire(s) \/ RemovePeer(s)
           \/ \E call \in closing : DisconnectPeer(call)
           \/ CloseRoom \/ StartHost \/ UNCHANGED vars
    PROVE  TokenHasOwner'
<1>0. LinkTyped /\ RoomTyped
  BY DEF Base
<1> SUFFICES ASSUME hosting', NEW s \in resume' PROVE Owned(s)'
  BY DEF TokenHasOwner, Owned
<1>1. UNCHANGED <<acc, sess, queue>>
  BY DEF DropSlowPeer, Expire, RemovePeer, DisconnectPeer, CloseRoom, StartHost, linkVars, acceptVars,
     vars
<1>2. ~CloseRoom /\ ~StartHost
  BY DEF CloseRoom, StartHost
<1>3. hosting /\ s \in resume /\ s \in Session
  BY <1>0, <1>2 DEF DropSlowPeer, Expire, RemovePeer, DisconnectPeer, Forgotten, RoomTyped, roomVars,
     mapVars, vars
<1>4. Owned(s)
  BY <1>3 DEF TokenHasOwner, Owned
<1>5. /\ \A c \in ConnsOf(s) : c \in ConnsOf(s)' /\ c \in Conn
      /\ \A c \in Conn : Queued(Authenticated(c)) => Queued(Authenticated(c))'
  BY <1>1 DEF ConnsOf, Queued, Authenticated
<1>6. ASSUME NEW r \in Session, Expire(r) \/ RemovePeer(r) PROVE Owned(s)'
  <2>1. CASE s = r /\ roster'[s] = "absent"
    <3>1. \E call \in closing' : call.sess = s
      <4>1. [by |-> "host", sess |-> s] \in closing'
        BY <1>0, <1>6, <2>1 DEF Expire, RemovePeer, RoomTyped, ToDisconnect
      <4> WITNESS [by |-> "host", sess |-> s] \in closing'
      <4> QED OBVIOUS
    <3> QED BY <3>1 DEF Owned
  <2>2. CASE ~(s = r /\ roster'[s] = "absent")
    <3>1. closing \subseteq closing' /\ (roster[s] # "absent" => roster'[s] # "absent")
      BY <1>0, <1>3, <1>6, <2>2 DEF Expire, RemovePeer, ToDisconnect, RoomTyped
    <3> QED BY <1>0, <1>1, <1>3, <1>4, <1>5, <3>1, StillOwned
  <2> QED BY <2>1, <2>2
<1>7. ASSUME NEW call \in closing, DisconnectPeer(call) PROVE Owned(s)'
  <2>1. call.sess # s /\ roster' = roster /\ closing' = closing \ {call}
    BY <1>7 DEF DisconnectPeer, Forgotten
  <2>2. \A x \in closing : x.sess = s => x \in closing'
    BY <2>1
  <2> QED BY <1>1, <1>4, <1>5, <2>1, <2>2 DEF Owned
<1>8. ASSUME NEW r \in Session, DropSlowPeer(r) PROVE Owned(s)'
  BY <1>0, <1>1, <1>3, <1>4, <1>5, <1>8, StillOwned DEF DropSlowPeer, roomVars
<1>9. CASE UNCHANGED vars
  BY <1>0, <1>1, <1>3, <1>4, <1>5, <1>9, StillOwned DEF vars, roomVars
<1> QED BY <1>2, <1>6, <1>7, <1>8, <1>9

LEMMA OwnedForbidden ==
    ASSUME Base, TokenHasOwner, NEW c \in Conn, HandleForbidden(c)
    PROVE  TokenHasOwner'
<1> SUFFICES ASSUME hosting', NEW s \in resume' PROVE Owned(s)'
  BY DEF TokenHasOwner, Owned
<1>1. s \in Session /\ Owned(s)
  BY Forbidden DEF Base, RoomTyped, TokenHasOwner, Owned
<1> QED BY <1>1, Forbidden, StillOwned DEF Base, Queued, Authenticated

LEMMA OwnedHandler ==
    ASSUME Base, TokenHasOwner, HandleAuthenticated \/ HandleDisconnected \/ HandleLate
    PROVE  TokenHasOwner'
<1>0. LinkTyped /\ RoomTyped /\ QueueTyped /\ QueueOK
  BY DEF Base
<1> SUFFICES ASSUME hosting', NEW s \in resume' PROVE Owned(s)'
  BY DEF TokenHasOwner, Owned
<1>1. UNCHANGED <<acc, sess, resume, hosting>>
  BY DEF HandleAuthenticated, HandleDisconnected, HandleLate, linkVars, acceptVars, mapVars, roomVars
<1>2. s \in Session /\ Owned(s) /\ ~HandleLate
  BY <1>0, <1>1 DEF TokenHasOwner, Owned, RoomTyped, HandleLate
<1>3. CASE HandleAuthenticated
  <2> DEFINE head == Head(queue)
  <2>1. /\ head \in Event /\ head.kind = "authenticated"
        /\ \A e : Queued(e) /\ e # head => Queued(e)'
    BY <1>0, <1>3, Taken DEF HandleAuthenticated, QueueTyped
  <2>2. head = Authenticated(head.conn) /\ head.conn \in Conn
    BY <2>1 DEF Event, Authenticated
  <2>3. /\ closing \subseteq closing'
        /\ \A r \in Session : roster[r] # "absent" => roster'[r] # "absent"
    BY <1>0, <1>3 DEF HandleAuthenticated, ToDisconnect, RoomTyped
  <2>4. CASE sess[head.conn] = s
    <3>1. roster'[s] # "absent" \/ \E call \in closing' : call.sess = s
      <4>1. roster'[s] = "up" \/ [by |-> "handler", sess |-> s] \in closing'
        BY <1>0, <1>2, <1>3, <2>4 DEF HandleAuthenticated, RoomTyped, ToDisconnect
      <4>2. [by |-> "handler", sess |-> s].sess = s
        OBVIOUS
      <4> QED BY <4>1, <4>2
    <3> QED BY <3>1 DEF Owned
  <2>5. CASE sess[head.conn] # s
    <3>1. \A c \in ConnsOf(s) : c \in ConnsOf(s)' /\ Authenticated(c) # head
      BY <1>1, <2>2, <2>5 DEF ConnsOf, Authenticated
    <3>2. \A c \in ConnsOf(s) : Queued(Authenticated(c)) => Queued(Authenticated(c))'
      BY <2>1, <3>1
    <3> QED BY <1>1, <1>2, <2>3, <3>1, <3>2 DEF Owned
  <2> QED BY <2>4, <2>5
<1>4. CASE HandleDisconnected
  <2>1. /\ Head(queue).kind = "disconnected" /\ \A e : Queued(e) /\ e # Head(queue) => Queued(e)'
    BY <1>0, <1>4, Taken DEF HandleDisconnected, QueueTyped
  <2>2. \A c \in Conn : Authenticated(c) # Head(queue)
    BY <2>1 DEF Authenticated
  <2>3. closing' = closing /\ (roster[s] # "absent" => roster'[s] # "absent")
    BY <1>0, <1>2, <1>4 DEF HandleDisconnected, Dropped, RoomTyped
  <2> QED BY <1>0, <1>1, <1>2, <2>1, <2>2, <2>3, StillOwned
<1> QED BY <1>2, <1>3, <1>4

\* No resumable token is left behind by an expiry or a removal, even when a
\* resume checks the token while it is taken away (network.rs
\* disconnect_peer, accept_peer).
THEOREM TokensHaveOwners == Spec => []TokenHasOwner
<1>1. Init => TokenHasOwner
  BY DEF Init, TokenHasOwner
<1>2. Base /\ TokenHasOwner /\ [Next]_vars => TokenHasOwner'
  BY OwnedTransport, OwnedHost, OwnedForbidden, OwnedHandler DEF Next
<1> QED BY <1>1, <1>2, BaseInit, BaseNext, PTL DEF Spec

-----------------------------------------------------------------------------
(***************************************************************************)
(* The connections: what the room, the table of peers and the readers say. *)
(***************************************************************************)
Watched(s) ==
    \E c \in ConnsOf(s) :
        reader[c] \in {"running", "stripped"} \/ Queued(Disconnected(c)) \/ c \in overtaken

\* A participant stays watched while its readers work on, or report their end.
LEMMA StillWatched ==
    ASSUME NEW s \in Session, Watched(s), overtaken \subseteq overtaken',
           \A c \in Conn : /\ sess[c] = s => sess'[c] = s
                           /\ reader[c] \in {"running", "stripped"} =>
                                 \/ reader'[c] \in {"running", "stripped"}
                                 \/ Queued(Disconnected(c))'
                           /\ Queued(Disconnected(c)) => Queued(Disconnected(c))'
    PROVE  Watched(s)'
<1>1. \A c \in ConnsOf(s) : c \in ConnsOf(s)' /\ c \in Conn
  BY DEF ConnsOf
<1> QED BY <1>1 DEF Watched

LEMMA WatchedNext ==
    Base /\ UpHasReader /\ [Next]_vars => UpHasReader'
<1> SUFFICES ASSUME Base, UpHasReader, [Next]_vars, hosting', NEW s \in Session, roster'[s] = "up"
             PROVE  Watched(s)'
  BY DEF UpHasReader, Watched
<1>0. /\ LinkTyped /\ RoomTyped /\ QueueTyped /\ QueueOK /\ RoomDown /\ Shape
      /\ hosting /\ roster[s] = "up" => Watched(s)
  BY DEF Base, UpHasReader, Watched
<1>1. ASSUME NEW c \in Conn, Transport(c) PROVE Watched(s)'
  <2>1. hosting /\ Watched(s)
    BY <1>0, <1>1 DEF Transport, Accept, CheckResume, Welcome, Connect, Announce, CutOff, ReaderStrips,
       ReaderReports, Lose, roomVars
  <2>2. /\ overtaken \subseteq overtaken'
        /\ \A d \in Conn : /\ sess[d] = s => sess'[d] = s
                           /\ reader[d] \in {"running", "stripped"} =>
                                 reader'[d] \in {"running", "stripped"} \/ (d = c /\ ReaderReports(c))
    BY <1>0, <1>1, Constants DEF Transport, Accept, CheckResume, Welcome, Connect, Announce, CutOff,
       ReaderStrips, ReaderReports, Lose, acceptVars, history, LinkTyped, Shape
  <2>3. queue' = queue \/ queue' = Append(queue, Authenticated(c))
        \/ queue' = Append(queue, Disconnected(c))
    BY <1>1 DEF Transport, Accept, CheckResume, Welcome, Connect, Announce, CutOff, ReaderStrips,
       ReaderReports, Lose
  <2>4. \A d \in Conn : Queued(Disconnected(d)) => Queued(Disconnected(d))'
    <3>1. CASE queue' = queue
      BY <3>1 DEF Queued, Disconnected
    <3>2. CASE queue' # queue
      <4>1. \A e : Queued(e) => Queued(e)'
        BY <1>0, <2>3, <3>2, Sent, Constants DEF QueueTyped
      <4> QED BY <4>1 DEF Disconnected
    <3> QED BY <3>1, <3>2
  <2>5. ReaderReports(c) => Queued(Disconnected(c))'
    BY <1>0, Sent, Constants DEF ReaderReports, QueueTyped
  <2>6. \A d \in Conn : reader[d] \in {"running", "stripped"} =>
            reader'[d] \in {"running", "stripped"} \/ Queued(Disconnected(d))'
    BY <2>2, <2>5 DEF Disconnected
  <2> QED BY <2>1, <2>2, <2>4, <2>6, StillWatched
<1>2. CASE HandleAuthenticated
  <2>1. UNCHANGED <<sess, reader, overtaken>> /\ hosting
    BY <1>2 DEF HandleAuthenticated, acceptVars, history
  <2>2. /\ Head(queue) = queue[1] /\ Head(queue) \in Event /\ Head(queue).kind = "authenticated"
        /\ 1 \in 1 .. Len(queue) /\ \A e : Queued(e) /\ e # Head(queue) => Queued(e)'
        /\ \A i \in 1 .. Len(queue) : i # 1 => /\ i - 1 \in 1 .. Len(queue')
                                               /\ queue'[i - 1] = queue[i]
    BY <1>0, <1>2, Taken DEF HandleAuthenticated, QueueTyped
  <2>3. \A d : Disconnected(d) # Head(queue)
    BY <2>2 DEF Disconnected
  <2>4. PICK c \in Conn : c = Head(queue).conn
    BY <2>2 DEF Event
  <2>5. CASE sess[c] = s
    <3>1. /\ sess[c] # NoSession
          /\ \/ reader[c] \in {"running", "stripped"}
             \/ \E j \in 1 .. Len(queue) : j > 1 /\ queue[j] = Disconnected(c)
             \/ c \in overtaken
      BY <1>0, <2>2, <2>4 DEF QueueOK
    <3>2. c \in ConnsOf(s)'
      BY <2>1, <2>5 DEF ConnsOf
    <3>3. ASSUME NEW j \in 1 .. Len(queue), j > 1, queue[j] = Disconnected(c)
          PROVE  Queued(Disconnected(c))'
      <4>1. j - 1 \in 1 .. Len(queue') /\ queue'[j - 1] = Disconnected(c)
        BY <2>2, <3>3
      <4> QED BY <4>1 DEF Queued, Disconnected
    <3> QED BY <2>1, <3>1, <3>2, <3>3 DEF Watched
  <2>6. CASE sess[c] # s
    <3>1. roster'[s] = roster[s]
      BY <1>0, <1>2, <2>6, <2>4 DEF HandleAuthenticated, RoomTyped
    <3> QED BY <1>0, <2>1, <2>2, <2>3, <3>1, StillWatched
  <2> QED BY <2>5, <2>6
<1>3. CASE HandleDisconnected
  <2> DEFINE c == Head(queue).conn
  <2>1. /\ UNCHANGED <<sess, reader, overtaken>> /\ hosting
        /\ roster' = Dropped(sess[c])
    BY <1>3 DEF HandleDisconnected, acceptVars, history
  <2>2. sess[c] # s /\ roster'[s] = roster[s]
    BY <1>0, <2>1 DEF Dropped, RoomTyped
  <2>3. \A e : Queued(e) /\ e # Head(queue) => Queued(e)'
    BY <1>0, <1>3, Taken DEF HandleDisconnected, QueueTyped
  <2>4. \A d \in ConnsOf(s) : Disconnected(d) # Head(queue)
    BY <2>2 DEF ConnsOf, Disconnected
  <2>5. \A d \in ConnsOf(s) : Queued(Disconnected(d)) => Queued(Disconnected(d))'
    BY <2>3, <2>4
  <2>6. ConnsOf(s)' = ConnsOf(s)
    BY <2>1 DEF ConnsOf
  <2> QED BY <1>0, <2>1, <2>2, <2>5, <2>6 DEF Watched
<1>4. CASE \/ \E r \in Session : DropSlowPeer(r) \/ Expire(r) \/ RemovePeer(r)
           \/ \E call \in closing : DisconnectPeer(call)
           \/ CloseRoom \/ StartHost \/ HandleLate \/ UNCHANGED vars
  <2>1. ~CloseRoom /\ ~HandleLate
    BY DEF CloseRoom, HandleLate, roomVars
  <2>2. ~StartHost
    BY <1>0 DEF StartHost, RoomDown
  <2>3. UNCHANGED <<sess, reader, overtaken, queue>>
    BY <1>4, <2>1, <2>2 DEF DropSlowPeer, Expire, RemovePeer, DisconnectPeer, acceptVars, history, vars
  <2>4. hosting /\ roster[s] = "up"
    BY <1>0, <1>4, <2>1, <2>2 DEF DropSlowPeer, Expire, RemovePeer, DisconnectPeer, RoomTyped, roomVars,
       vars
  <2>5. \A c \in Conn : Queued(Disconnected(c)) => Queued(Disconnected(c))'
    BY <2>3 DEF Queued, Disconnected
  <2> QED BY <1>0, <2>3, <2>4, <2>5, StillWatched
<1>5. ASSUME NEW c \in Conn, HandleForbidden(c) PROVE Watched(s)'
  BY <1>0, <1>5, Forbidden, StillWatched DEF Queued, Disconnected
<1> QED BY <1>1, <1>2, <1>3, <1>4, <1>5 DEF Next

\* Which readers run, and for which entry.
Reaching == OneReader /\ NoneBeside /\ OpenIsReachable

\* What cannot disturb the entries: no connection is opened, entered, or given
\* a session, no reader starts, and an entry goes with its connection.
LEMMA StillReaching ==
    ASSUME LinkTyped, RoomTyped, Reaching, sess' = sess, crowded \subseteq crowded',
           \A c \in Conn : /\ reader'[c] = "running" => reader[c] = "running"
                           /\ Open(c)' => Open(c)
                           /\ acc'[c] \in {"hello", "welcomed"} => acc[c] \in {"hello", "welcomed"}
                           /\ reader'[c] = "running" /\ Open(c)' /\ Uncrowded(sess[c]) =>
                                 entry'[sess[c]] = entry[sess[c]]
    PROVE  Reaching'
<1>1. \A s : ConnsOf(s)' = ConnsOf(s) /\ (Uncrowded(s)' => Uncrowded(s))
  BY DEF ConnsOf, Uncrowded
<1>2. OneReader'
  BY <1>1 DEF Reaching, OneReader
<1>3. NoneBeside'
  BY <1>1 DEF Reaching, NoneBeside
<1>4. OpenIsReachable'
  <2> SUFFICES ASSUME NEW c \in Conn, reader'[c] = "running", Open(c)', Uncrowded(sess[c])'
               PROVE  entry'[sess[c]] = c
    BY DEF OpenIsReachable, Uncrowded
  <2> QED BY <1>1 DEF Reaching, OpenIsReachable, Uncrowded
<1> QED BY <1>2, <1>3, <1>4 DEF Reaching

LEMMA ReachingTransport ==
    ASSUME Base, Reaching, NEW c \in Conn, Transport(c)
    PROVE  Reaching'
<1>0. LinkTyped /\ RoomTyped /\ Shape /\ OneReader /\ NoneBeside /\ OpenIsReachable
  BY DEF Base, Reaching
<1>1. ASSUME NEW t \in Token, Accept(c, t) PROVE Reaching'
  <2>1. /\ link' = [link EXCEPT ![c] = "open"] /\ acc' = [acc EXCEPT ![c] = "hello"]
        /\ UNCHANGED <<sess, reader, entry, crowded>> /\ link[c] = "unused"
    BY <1>1 DEF Accept, NextConn, mapVars, history
  <2>2. sess[c] = NoSession /\ reader[c] = "none"
    BY <1>0, <2>1 DEF Shape
  <2>3. \A d \in Conn : /\ d # c => acc'[d] = acc[d] /\ (Open(d)' <=> Open(d))
                        /\ reader[d] = "running" => d # c
    BY <1>0, <2>1, <2>2 DEF LinkTyped, Open
  <2>4. \A s : Uncrowded(s)' = Uncrowded(s)
    BY <2>1 DEF Uncrowded, ConnsOf
  <2>5. OneReader'
    BY <1>0, <2>1, <2>4 DEF OneReader
  <2>6. NoneBeside'
    BY <1>0, <2>1, <2>2, <2>3, <2>4 DEF NoneBeside
  <2>7. OpenIsReachable'
    BY <1>0, <2>1, <2>3 DEF OpenIsReachable, ConnsOf
  <2> QED BY <2>5, <2>6, <2>7 DEF Reaching
<1>2. CASE CheckResume(c)
  <2>1. PICK s \in Session : /\ sess' = [sess EXCEPT ![c] = s]
                             /\ entry[s] = NoConn \/ s \notin issued
    BY <1>0, <1>2 DEF CheckResume, MayResume, AlreadyConnected, RoomTyped, NextSession
  <2>2. UNCHANGED <<link, acc, reader, entry, crowded>> /\ acc[c] = "hello" /\ sess[c] = NoSession
    BY <1>2 DEF CheckResume, mapVars, history
  <2>3. reader[c] = "none" /\ \A d \in Conn : d # c => sess'[d] = sess[d]
    BY <1>0, <2>1, <2>2 DEF Shape, LinkTyped
  <2>4. /\ sess'[c] = s
        /\ \A r \in Session : Uncrowded(r)' => Uncrowded(r)
    BY <1>0, <2>1, <2>2, Constants DEF Uncrowded, ConnsOf, LinkTyped
  <2>5. ASSUME NEW d \in Conn, d # c, sess[d] = s, reader[d] = "running", Open(d), Uncrowded(s)
        PROVE  FALSE
    <3>1. entry[s] = d
      BY <1>0, <2>5 DEF OpenIsReachable, Uncrowded
    <3>2. s \in issued
      BY <1>0, <2>5, Constants DEF Shape
    <3> QED BY <2>1, <3>1, <3>2, Constants
  <2>6. \A d \in Conn : Open(d)' <=> Open(d)
    BY <2>2 DEF Open
  <2>7. \A d \in Conn : reader[d] = "running" => sess[d] \in Session /\ d # c /\ sess'[d] = sess[d]
    BY <1>0, <2>3 DEF Shape, LinkTyped
  <2>8. OneReader'
    BY <1>0, <2>2, <2>4, <2>7 DEF OneReader
  <2>9. NoneBeside'
    <3> SUFFICES ASSUME NEW x \in Conn, NEW d \in Conn, x # d, sess'[x] = sess'[d],
                        sess'[x] # NoSession, acc[x] \in {"hello", "welcomed"},
                        reader[d] = "running", Open(d), Uncrowded(sess[x])'
                 PROVE  FALSE
      BY <2>2, <2>6 DEF NoneBeside
    <3>1. sess[d] \in Session /\ d # c /\ sess'[d] = sess[d]
      BY <2>7
    <3>2. sess'[x] = sess[d]
      BY <3>1
    <3>3. Uncrowded(sess[d])
      BY <2>4, <3>1, <3>2 DEF Uncrowded, ConnsOf
    <3>4. CASE x = c
      BY <2>4, <2>5, <3>1, <3>2, <3>3, <3>4
    <3>5. CASE x # c
      BY <1>0, <2>3, <3>1, <3>2, <3>3, <3>5, Constants DEF NoneBeside
    <3> QED BY <3>4, <3>5
  <2>10. OpenIsReachable'
    <3> SUFFICES ASSUME NEW d \in Conn, reader[d] = "running", Open(d), Uncrowded(sess[d])'
                 PROVE  entry[sess'[d]] = d
      BY <2>2, <2>6 DEF OpenIsReachable, Uncrowded
    <3>1. sess[d] \in Session /\ sess'[d] = sess[d]
      BY <2>7
    <3>2. Uncrowded(sess[d])
      BY <2>4, <3>1 DEF Uncrowded, ConnsOf
    <3> QED BY <1>0, <3>1, <3>2 DEF OpenIsReachable, Uncrowded
  <2> QED BY <2>8, <2>9, <2>10 DEF Reaching
<1>3. CASE Connect(c)
  <2>1. PICK s \in Session : s = sess[c]
    BY <1>0, <1>3 DEF Connect, Shape, LinkTyped
  <2>2. /\ acc[c] = "welcomed" /\ acc' = [acc EXCEPT ![c] = "spawned"]
        /\ entry' = [entry EXCEPT ![s] = c] /\ reader' = [reader EXCEPT ![c] = "running"]
        /\ crowded \subseteq crowded' /\ (Crowd(c) # {} => c \in crowded')
        /\ UNCHANGED <<link, sess>>
    BY <1>3, <2>1 DEF Connect, linkVars
  <2>3. /\ \A r : ConnsOf(r)' = ConnsOf(r) /\ (Uncrowded(r)' => Uncrowded(r))
        /\ \A d \in Conn : /\ Open(d)' <=> Open(d)
                           /\ d # c => reader'[d] = reader[d] /\ acc'[d] = acc[d]
        /\ acc'[c] = "spawned"
    BY <1>0, <2>2 DEF ConnsOf, Uncrowded, Open, LinkTyped
  <2>4. Uncrowded(s)' => Crowd(c) = {}
    BY <2>1, <2>2, <2>3 DEF Uncrowded, ConnsOf
  <2>5. ASSUME NEW d \in Conn, d # c, sess[d] = s, Uncrowded(s)'
        PROVE  acc[d] \notin {"hello", "welcomed"} /\ reader[d] # "running"
    <3>1. ~Unfinished(d)
      BY <2>1, <2>4, <2>5 DEF Crowd, ConnsOf
    <3>2. Uncrowded(s)
      BY <2>3, <2>5
    <3>3. reader[d] = "running" => ~Open(d)
      BY <1>0, <2>1, <2>2, <2>5, <3>2, Constants DEF NoneBeside
    <3> QED BY <3>1, <3>3 DEF Unfinished
  <2>6. ASSUME NEW r, NEW x \in Conn, NEW d \in Conn, x # d, sess[x] = r, sess[d] = r,
               Uncrowded(r)', reader'[x] = "running" \/ acc'[x] \in {"hello", "welcomed"}
        PROVE  d # c
    BY <2>1, <2>3, <2>5, <2>6
  <2>7. OneReader'
    <3> SUFFICES ASSUME NEW r, NEW x \in Conn, NEW d \in Conn, x # d, sess[x] = r, sess[d] = r,
                        reader'[x] = "running", reader'[d] = "running", Uncrowded(r)'
                 PROVE  FALSE
      BY <2>2 DEF OneReader, Uncrowded, ConnsOf
    <3>1. x # c /\ d # c
      BY <2>6
    <3>2. Uncrowded(sess[x])
      BY <2>3
    <3> QED BY <1>0, <2>3, <3>1, <3>2 DEF OneReader
  <2>8. NoneBeside'
    <3> SUFFICES ASSUME NEW r, NEW x \in Conn, NEW d \in Conn, x # d, sess[x] = r, sess[d] = r,
                        r # NoSession, acc'[x] \in {"hello", "welcomed"},
                        reader'[d] = "running", Open(d), Uncrowded(r)'
                 PROVE  FALSE
      BY <2>2, <2>3 DEF NoneBeside, Uncrowded, ConnsOf
    <3>1. x # c /\ d # c
      BY <2>3, <2>6
    <3>2. Uncrowded(sess[x])
      BY <2>3
    <3> QED BY <1>0, <2>3, <3>1, <3>2 DEF NoneBeside
  <2>9. OpenIsReachable'
    <3> SUFFICES ASSUME NEW r, NEW d \in Conn, sess[d] = r, reader'[d] = "running", Open(d),
                        Uncrowded(r)'
                 PROVE  entry'[r] = d
      BY <2>2, <2>3 DEF OpenIsReachable, Uncrowded, ConnsOf
    <3>1. CASE d = c
      BY <1>0, <2>1, <2>2, <3>1 DEF RoomTyped
    <3>2. CASE d # c
      <4>1. r # s /\ reader[d] = "running"
        BY <2>3, <2>5, <3>2
      <4>2. entry[r] = d
        BY <1>0, <2>3, <4>1 DEF OpenIsReachable, Uncrowded
      <4> QED BY <1>0, <2>2, <4>1, <4>2 DEF RoomTyped
    <3> QED BY <3>1, <3>2
  <2> QED BY <2>7, <2>8, <2>9 DEF Reaching
<1>4. CASE ReaderStrips(c)
  <2>1. /\ UNCHANGED <<link, acc, sess, crowded>> /\ reader[c] = "running" /\ ~Open(c)
        /\ reader' = [reader EXCEPT ![c] = "stripped"]
        /\ entry' = [entry EXCEPT ![sess[c]] = NoConn]
    BY <1>4 DEF ReaderStrips, StripEntry, linkVars, acceptVars, history
  <2>2. \A d \in Conn : /\ reader'[d] = "running" => reader[d] = "running" /\ d # c
                        /\ Open(d)' <=> Open(d)
    BY <1>0, <2>1 DEF LinkTyped, Open
  <2>3. ASSUME NEW d \in Conn, reader'[d] = "running", Uncrowded(sess[d])
        PROVE  entry'[sess[d]] = entry[sess[d]]
    <3>1. sess[d] # sess[c]
      BY <1>0, <2>1, <2>2, <2>3 DEF OneReader
    <3> QED BY <1>0, <2>1, <3>1 DEF RoomTyped
  <2> QED BY <1>0, <2>1, <2>2, <2>3, StillReaching DEF Reaching
<1>5. CASE Welcome(c) \/ Announce(c) \/ CutOff(c) \/ ReaderReports(c) \/ Lose(c)
  <2>1. UNCHANGED <<sess, entry, crowded>>
    BY <1>5 DEF Welcome, Announce, CutOff, ReaderReports, Lose, acceptVars, mapVars, history
  <2>2. \A d \in Conn : /\ reader'[d] = "running" => reader[d] = "running"
                        /\ Open(d)' => Open(d)
                        /\ acc'[d] \in {"hello", "welcomed"} => acc[d] \in {"hello", "welcomed"}
    BY <1>0, <1>5 DEF Welcome, Announce, CutOff, ReaderReports, Lose, acceptVars, linkVars, Closed,
       Open, LinkTyped
  <2> QED BY <1>0, <2>1, <2>2, StillReaching DEF Reaching
<1> QED BY <1>1, <1>2, <1>3, <1>4, <1>5 DEF Transport

LEMMA ReachingNext ==
    Base /\ Reaching /\ [Next]_vars => Reaching'
<1> SUFFICES ASSUME Base, Reaching, [Next]_vars PROVE Reaching'
  OBVIOUS
<1>0. LinkTyped /\ RoomTyped /\ Shape /\ RoomDown /\ OneReader /\ NoneBeside /\ OpenIsReachable
  BY DEF Base, Reaching
<1>1. ASSUME ~\E c \in Conn : Transport(c) \/ HandleForbidden(c)
      PROVE  UNCHANGED <<acc, sess, reader, crowded>>
  BY <1>1 DEF Next, DropSlowPeer, Expire, RemovePeer, DisconnectPeer, HandleAuthenticated,
     HandleDisconnected, HandleLate, CloseRoom, StartHost, acceptVars, history, vars
<1>2. ASSUME NEW s \in Session, UNCHANGED <<acc, sess, reader, crowded>>,
             link' = Closed(entry[s]), entry' = [entry EXCEPT ![s] = NoConn]
      PROVE  Reaching'
  <2>1. \A c \in Conn : Open(c)' => Open(c) /\ c # entry[s]
    BY <1>0, <1>2 DEF Closed, Open, LinkTyped
  <2>2. ASSUME NEW c \in Conn, reader[c] = "running", Open(c)', Uncrowded(sess[c])
        PROVE  entry'[sess[c]] = entry[sess[c]]
    <3>1. entry[sess[c]] = c
      BY <1>0, <2>1, <2>2 DEF OpenIsReachable, Uncrowded
    <3>2. sess[c] # s
      BY <2>1, <2>2, <3>1
    <3> QED BY <1>0, <1>2, <3>2 DEF RoomTyped
  <2> QED BY <1>0, <1>2, <2>1, <2>2, StillReaching DEF Reaching
<1>3. CASE CloseRoom \/ StartHost
  <2>1. ~\E c \in Conn : Open(c)'
    BY <1>0, <1>3 DEF CloseRoom, StartHost, RoomDown, Open, LinkTyped, linkVars
  <2>2. UNCHANGED <<acc, sess, reader, crowded>>
    BY <1>3 DEF CloseRoom, StartHost, acceptVars, history
  <2> QED BY <1>0, <2>1, <2>2, StillReaching DEF Reaching
<1>4. ASSUME UNCHANGED <<link, acc, sess, reader, entry, crowded>> PROVE Reaching'
  BY <1>0, <1>4, StillReaching DEF Reaching, Open
<1>5. ASSUME NEW s \in Session, DropSlowPeer(s) PROVE Reaching'
  BY <1>2, <1>5 DEF DropSlowPeer, acceptVars, history
<1>6. ASSUME NEW call \in closing, DisconnectPeer(call) PROVE Reaching'
  <2>1. call.sess \in Session
    BY <1>0 DEF RoomTyped, Closing
  <2> QED BY <1>2, <1>6, <2>1 DEF DisconnectPeer, acceptVars, history
<1>7. CASE \/ \E s \in Session : Expire(s) \/ RemovePeer(s)
           \/ HandleAuthenticated \/ HandleDisconnected \/ HandleLate \/ UNCHANGED vars
  BY <1>4, <1>7 DEF Expire, RemovePeer, HandleAuthenticated, HandleDisconnected, HandleLate, linkVars,
     acceptVars, mapVars, history, vars
<1>8. ASSUME NEW c \in Conn, HandleForbidden(c) PROVE Reaching'
  BY <1>4, <1>8, Forbidden
<1> QED BY <1>3, <1>5, <1>6, <1>7, <1>8, ReachingTransport DEF Next

\* Nobody is connected in the room, the table of peers or the readers and lost
\* to the others, or connected twice (network.rs accept_peer, spawn_reader).
THEOREM ConnectionsStayInStep == Spec => []ConnectionsAgree
<1>1. Init => UpHasReader /\ Reaching
  BY DEF Init, UpHasReader, Reaching, OneReader, NoneBeside, OpenIsReachable
<1>2. UpHasReader /\ Reaching => ConnectionsAgree
  BY DEF ConnectionsAgree, Reaching, OneReader, SessionNotDoubled, Uncrowded
<1> QED BY <1>1, <1>2, BaseInit, BaseNext, WatchedNext, ReachingNext, PTL DEF Spec

-----------------------------------------------------------------------------
(***************************************************************************)
(* EventPipeline: what a publication and a flush leave of the room's       *)
(* changes, for every number of inputs and faults and every backlog cap.   *)
(***************************************************************************)
Batches == BoundedSeq(Events, BacklogCap)

LEMMA BatchIsSeq ==
    ASSUME NEW s
    PROVE  s \in Batches <=> s \in Seq(Events) /\ Len(s) <= BacklogCap
<1>1. ASSUME s \in Batches
      PROVE  s \in Seq(Events) /\ Len(s) <= BacklogCap
  <2>1. PICK m \in 0 .. BacklogCap : s \in [1 .. m -> Events]
    BY <1>1 DEF Batches, BoundedSeq, SeqOf
  <2>2. m \in Nat /\ m <= BacklogCap
    BY BoundsAssumption
  <2> QED
    BY <2>1, <2>2
<1>2. ASSUME s \in Seq(Events), Len(s) <= BacklogCap
      PROVE  s \in Batches
  <2>1. Len(s) \in 0 .. BacklogCap /\ s \in [1 .. Len(s) -> Events]
    BY <1>2, BoundsAssumption
  <2> QED
    BY <2>1 DEF Batches, BoundedSeq, SeqOf
<1> QED
  BY <1>1, <1>2

LEMMA NoBatch == <<>> \in Batches /\ Range(<<>>) = {}
<1>1. <<>> \in Seq(Events) /\ Len(<<>>) = 0 /\ 0 <= BacklogCap
  BY BoundsAssumption
<1>2. Range(<<>>) = {}
  BY DEF Range
<1> QED
  BY <1>1, <1>2, BatchIsSeq

LEMMA Ranges ==
    ASSUME NEW s \in Seq(Events), NEW t \in Seq(Events), NEW e \in Events
    PROVE  /\ Range(Append(s, e)) = Range(s) \cup {e}
           /\ Range(s \o t) = Range(s) \cup Range(t)
           /\ Range(s) \subseteq Events
<1>1. Range(Append(s, e)) = Range(s) \cup {e}
  <2>1. /\ DOMAIN Append(s, e) = 1 .. Len(s) + 1 /\ DOMAIN s = 1 .. Len(s) /\ Len(s) \in Nat
        /\ \A i \in 1 .. Len(s) : Append(s, e)[i] = s[i]
        /\ Append(s, e)[Len(s) + 1] = e
    OBVIOUS
  <2>2. 1 .. Len(s) + 1 = (1 .. Len(s)) \cup {Len(s) + 1}
    BY <2>1
  <2> QED
    BY <2>1, <2>2 DEF Range
<1>2. Range(s \o t) = Range(s) \cup Range(t)
  <2>1. /\ DOMAIN (s \o t) = 1 .. Len(s) + Len(t) /\ DOMAIN s = 1 .. Len(s) /\ DOMAIN t = 1 .. Len(t)
        /\ Len(s) \in Nat /\ Len(t) \in Nat
        /\ \A i \in 1 .. Len(s) + Len(t) : (s \o t)[i] = IF i <= Len(s) THEN s[i] ELSE t[i - Len(s)]
    OBVIOUS
  <2>2. ASSUME NEW i \in 1 .. Len(s) + Len(t)
        PROVE  (s \o t)[i] \in Range(s) \cup Range(t)
    <3>1. CASE i <= Len(s)
      <4>1. i \in 1 .. Len(s) /\ (s \o t)[i] = s[i]
        BY <2>1, <3>1
      <4> QED
        BY <2>1, <4>1 DEF Range
    <3>2. CASE ~(i <= Len(s))
      <4>1. i - Len(s) \in 1 .. Len(t) /\ (s \o t)[i] = t[i - Len(s)]
        BY <2>1, <3>2
      <4> QED
        BY <2>1, <4>1 DEF Range
    <3> QED
      BY <3>1, <3>2
  <2>3. ASSUME NEW i \in 1 .. Len(s)
        PROVE  s[i] \in Range(s \o t)
    <3>1. i \in 1 .. Len(s) + Len(t) /\ (s \o t)[i] = s[i]
      BY <2>1
    <3> QED
      BY <2>1, <3>1 DEF Range
  <2>4. ASSUME NEW i \in 1 .. Len(t)
        PROVE  t[i] \in Range(s \o t)
    <3>1. i + Len(s) \in 1 .. Len(s) + Len(t) /\ ~(i + Len(s) <= Len(s)) /\ (i + Len(s)) - Len(s) = i
      BY <2>1
    <3>2. (s \o t)[i + Len(s)] = t[i]
      BY <2>1, <3>1
    <3> QED
      BY <2>1, <3>1, <3>2 DEF Range
  <2> QED
    BY <2>1, <2>2, <2>3, <2>4 DEF Range
<1>3. Range(s) \subseteq Events
  BY DEF Range
<1> QED
  BY <1>1, <1>2, <1>3

\* What a failed flush puts back fits the cap, and it loses no event it does
\* not name.
LEMMA RequeuedFits ==
    ASSUME NEW batch \in Batches, NEW queued \in Batches
    PROVE  LET again == Requeued(batch, queued)
           IN  /\ again.kept \in Batches /\ again.dropped \subseteq Events
               /\ Range(again.kept) \cup again.dropped = Range(batch) \cup Range(queued)
<1> DEFINE all == batch \o queued
           kept == IF Len(all) > BacklogCap THEN SubSeq(all, 1, BacklogCap) ELSE all
<1>1. batch \in Seq(Events) /\ queued \in Seq(Events)
  BY BatchIsSeq
<1>2. all \in Seq(Events)
  BY <1>1
<1>3. kept \in Seq(Events) /\ Len(kept) <= BacklogCap /\ Range(kept) \subseteq Range(all)
  <2> HIDE DEF all
  <2>1. CASE Len(all) > BacklogCap
    <3>1. /\ kept = SubSeq(all, 1, BacklogCap) /\ BacklogCap \in Nat /\ Len(all) \in Nat
      BY <1>2, <2>1, BoundsAssumption
    <3>2. /\ kept \in Seq(Events) /\ Len(kept) = BacklogCap
          /\ \A i \in 1 .. BacklogCap : kept[i] = all[i] /\ i \in 1 .. Len(all)
      BY <1>2, <2>1, <3>1
    <3>3. DOMAIN kept = 1 .. BacklogCap /\ DOMAIN all = 1 .. Len(all)
      BY <1>2, <3>2
    <3> HIDE DEF kept
    <3>4. \A i \in 1 .. BacklogCap : kept[i] \in Range(all)
      BY <3>2, <3>3 DEF Range
    <3> QED
      BY <3>1, <3>2, <3>3, <3>4 DEF Range
  <2>2. CASE ~(Len(all) > BacklogCap)
    BY <1>2, <2>2, BoundsAssumption
  <2> QED
    BY <2>1, <2>2
<1>4. Range(all) = Range(batch) \cup Range(queued) /\ Range(all) \subseteq Events
  <2>1. CASE Events = {}
    <3>1. batch = <<>> /\ queued = <<>>
      BY <1>1, <2>1
    <3> QED
      BY <3>1 DEF Range
  <2>2. CASE Events # {}
    BY <1>1, <2>2, Ranges
  <2> QED
    BY <2>1, <2>2
<1>5. /\ Requeued(batch, queued).kept = kept
      /\ Requeued(batch, queued).dropped = Range(all) \ Range(kept)
  BY DEF Requeued
<1>6. kept \in Batches
  BY <1>3, BatchIsSeq
<1> HIDE DEF all, kept
<1> QED
  BY <1>3, <1>4, <1>5, <1>6

-----------------------------------------------------------------------------
(***************************************************************************)
(* The room has no more changes than the host was given, those of an event *)
(* about to be applied included; nor are there more events than inputs.    *)
(***************************************************************************)
TaskTyped ==
    /\ task \in [Task -> [pc : TaskPc, rev : Revision, retry : BOOLEAN]]
    /\ room \in Revision /\ peers \in Revision /\ dirty \in BOOLEAN
    /\ inputs \in 0 .. MaxInputs
    /\ room <= inputs /\ (At("network", "apply") => room < inputs)
ConnectionTyped ==
    db \in {"free", "late"} \cup Task \cup Flusher /\ faults \in 0 .. MaxFaults
LogTyped ==
    /\ backlog \in Batches /\ flush \in [Flusher -> [pc : FlushPc, batch : Batches]]
    /\ rows \subseteq Events /\ gone \subseteq Events
    /\ arrived \in 0 .. MaxInputs /\ arrived <= inputs
ExportTyped ==
    /\ pending \in Revision \cup {Nothing} /\ wakeQueued \in BOOLEAN /\ signals \in Nat
    /\ worker \in {"waiting", "window", "writing"}

\* A flusher that neither waits for the connection nor has it carries no
\* batch, and the control that deletes history waits for its flusher.
BatchesHeld ==
    /\ \A f \in Flusher : flush[f].pc \notin {"lock", "commit"} => flush[f].batch = <<>>
    /\ flush["history"].pc # "idle" => At("control", "history")
PipelineBase == TaskTyped /\ ConnectionTyped /\ LogTyped /\ ExportTyped /\ BatchesHeld

Tasks == [Task -> [pc : TaskPc, rev : Revision, retry : BOOLEAN]]

\* What a step of one task leaves of the others.
TaskGoes(t, pc) ==
    task' \in Tasks /\ task'[t].pc = pc /\ \A u \in Task : u # t => task'[u] = task[u]

LEMMA TaskMoves ==
    ASSUME task \in Tasks, NEW t \in Task, NEW pc \in TaskPc,
           \/ Goto(t, pc)
           \/ \E rev \in Revision : task' = [task EXCEPT ![t].pc = pc, ![t].rev = rev]
           \/ \E rev \in Revision, retry \in BOOLEAN :
                 task' = [task EXCEPT ![t] = [pc |-> pc, rev |-> rev, retry |-> retry]]
    PROVE  TaskGoes(t, pc)
<1>1. CASE Goto(t, pc)
  BY <1>1 DEF Goto, Tasks, TaskGoes
<1>2. CASE \E rev \in Revision : task' = [task EXCEPT ![t].pc = pc, ![t].rev = rev]
  BY <1>2 DEF Tasks, TaskGoes
<1>3. CASE \E rev \in Revision, retry \in BOOLEAN :
              task' = [task EXCEPT ![t] = [pc |-> pc, rev |-> rev, retry |-> retry]]
  <2>1. PICK rev \in Revision, retry \in BOOLEAN :
              task' = [task EXCEPT ![t] = [pc |-> pc, rev |-> rev, retry |-> retry]]
    BY <1>3
  <2>2. [pc |-> pc, rev |-> rev, retry |-> retry] \in [pc : TaskPc, rev : Revision, retry : BOOLEAN]
    OBVIOUS
  <2> QED
    BY <2>1, <2>2 DEF Tasks, TaskGoes
<1> QED
  BY <1>1, <1>2, <1>3

LEMMA Pcs ==
    /\ {"idle", "apply", "mark", "history", "sync", "save", "saving", "publish", "wake", "send"}
          \subseteq TaskPc
    /\ {"network", "control", "clock"} = Task /\ {"tick", "history"} = Flusher
    /\ 0 \in Revision /\ MaxInputs \in Nat /\ MaxFaults \in Nat
  BY BoundsAssumption DEF TaskPc, Publishing, Task, Flusher, Revision

\* The steps of a publication touch neither the log nor the flushers.
LEMMA PublishTyped ==
    ASSUME PipelineBase, NEW t \in Task, Publish(t)
    PROVE  /\ TaskTyped' /\ ConnectionTyped' /\ ExportTyped'
           /\ UNCHANGED <<logVars, inputs>>
           /\ At("control", "history") => At("control", "history")'
<1> USE Pcs DEF PipelineBase
<1>0. task \in Tasks /\ task[t] \in [pc : TaskPc, rev : Revision, retry : BOOLEAN]
  BY DEF TaskTyped, Tasks
<1>1. CASE Snapshot(t)
  <2>1. TaskGoes(t, "save")
    BY <1>0, <1>1, TaskMoves DEF Snapshot, Goto, TaskTyped
  <2> QED
    BY <1>0, <1>1, <2>1 DEF Snapshot, TaskGoes, Tasks, TaskTyped,
       ConnectionTyped, ExportTyped, At, dbVars, exportVars, logVars
<1>2. CASE SaveBegins(t)
  <2>1. TaskGoes(t, "saving")
    BY <1>0, <1>2, TaskMoves DEF SaveBegins, Goto, TaskTyped
  <2> QED
    BY <1>0, <1>2, <2>1 DEF SaveBegins, TaskGoes, Tasks, TaskTyped,
       ConnectionTyped, ExportTyped, At, dbVars, exportVars, logVars
<1>3. CASE SaveContended(t)
  <2>1. TaskGoes(t, "idle")
    BY <1>0, <1>3, TaskMoves DEF SaveContended, Unpublished, AtRest, Goto, TaskTyped
  <2> QED
    BY <1>0, <1>3, <2>1 DEF SaveContended, Unpublished, TaskGoes, Tasks, TaskTyped,
       ConnectionTyped, ExportTyped, At, dbVars, exportVars, logVars
<1>4. CASE Saved(t)
  <2>1. TaskGoes(t, "publish")
    BY <1>0, <1>4, TaskMoves DEF Saved, Goto, TaskTyped
  <2> QED
    BY <1>0, <1>4, <2>1 DEF Saved, TaskGoes, Tasks, TaskTyped,
       ConnectionTyped, ExportTyped, At, dbVars, exportVars, logVars
<1>5. CASE SaveFails(t)
  <2>1. TaskGoes(t, "idle")
    BY <1>0, <1>5, TaskMoves DEF SaveFails, Unpublished, AtRest, Goto, TaskTyped
  <2> QED
    BY <1>0, <1>5, <2>1 DEF SaveFails, Unpublished, TaskGoes, Tasks, TaskTyped,
       ConnectionTyped, ExportTyped, At, dbVars, exportVars, logVars
<1>6. CASE SaveTimesOut(t)
  <2>1. TaskGoes(t, "idle")
    BY <1>0, <1>6, TaskMoves DEF SaveTimesOut, Unpublished, AtRest, Goto, TaskTyped
  <2> QED
    BY <1>0, <1>6, <2>1 DEF SaveTimesOut, Unpublished, TaskGoes, Tasks, TaskTyped,
       ConnectionTyped, ExportTyped, At, dbVars, exportVars, logVars
<1>7. CASE PublishExports(t)
  <2>1. TaskGoes(t, "wake")
    BY <1>0, <1>7, TaskMoves DEF PublishExports, Goto, TaskTyped
  <2> QED
    BY <1>0, <1>7, <2>1 DEF PublishExports, TaskGoes, Tasks, TaskTyped,
       ConnectionTyped, ExportTyped, At, dbVars, exportVars, logVars
<1>8. CASE Wake(t)
  <2>1. TaskGoes(t, "send")
    BY <1>0, <1>8, TaskMoves DEF Wake, Goto, TaskTyped
  <2> QED
    BY <1>0, <1>8, <2>1 DEF Wake, TaskGoes, Tasks, TaskTyped,
       ConnectionTyped, ExportTyped, At, dbVars, exportVars, logVars
<1>9. CASE Send(t)
  <2>1. TaskGoes(t, "idle")
    BY <1>0, <1>9, TaskMoves DEF Send, AtRest, Goto, TaskTyped
  <2> QED
    BY <1>0, <1>9, <2>1 DEF Send, TaskGoes, Tasks, TaskTyped,
       ConnectionTyped, ExportTyped, At, dbVars, exportVars, logVars
<1> QED
  BY <1>1, <1>2, <1>3, <1>4, <1>5, <1>6, <1>7, <1>8, <1>9 DEF Publish

\* A step that leaves the log alone keeps what is said of the log.
LEMMA OffTheLog ==
    ASSUME PipelineBase, TaskTyped', ConnectionTyped', ExportTyped', UNCHANGED logVars,
           inputs <= inputs', At("control", "history") => At("control", "history")'
    PROVE  PipelineBase'
<1>1. LogTyped'
  BY DEF PipelineBase, LogTyped, TaskTyped, logVars
<1>2. BatchesHeld'
  BY DEF PipelineBase, BatchesHeld, logVars
<1> QED
  BY <1>1, <1>2 DEF PipelineBase

LEMMA RoomSteps ==
    ASSUME PipelineBase,
           \/ \E t \in Task : Change(t) \/ Publish(t)
           \/ FlushRoomUpdates \/ LateSave \/ LocalRun \/ Run \/ ExportWorker
    PROVE  PipelineBase' /\ UNCHANGED logVars
<1> USE Pcs
<1>0. task \in Tasks /\ 0 \in Revision /\ inputs \in Int /\ inputs <= inputs
  BY DEF PipelineBase, TaskTyped, Tasks
<1>1. ASSUME NEW t \in Task, Change(t)
      PROVE  PipelineBase' /\ UNCHANGED logVars
  <2>1. TaskGoes(t, "sync")
    BY <1>0, <1>1, TaskMoves DEF Change
  <2>2. TaskTyped' /\ inputs <= inputs'
    BY <1>0, <1>1, <2>1 DEF PipelineBase, Change, Input, TaskGoes, Tasks, TaskTyped, Revision, At
  <2>3. At("control", "history") => At("control", "history")'
    BY <1>1, <2>1 DEF Change, Idle, TaskGoes, At
  <2>4. ConnectionTyped' /\ ExportTyped' /\ UNCHANGED logVars
    BY <1>1 DEF PipelineBase, Change, ConnectionTyped, ExportTyped, dbVars, exportVars, logVars
  <2> QED
    BY <2>2, <2>3, <2>4, OffTheLog
<1>2. ASSUME NEW t \in Task, Publish(t)
      PROVE  PipelineBase' /\ UNCHANGED logVars
  BY <1>0, <1>2, PublishTyped, OffTheLog
<1>3. CASE FlushRoomUpdates
  <2>1. TaskGoes("clock", "sync")
    BY <1>0, <1>3, TaskMoves DEF FlushRoomUpdates
  <2>2. TaskTyped' /\ inputs <= inputs'
    BY <1>0, <1>3, <2>1 DEF PipelineBase, FlushRoomUpdates, TaskGoes, Tasks, TaskTyped, At
  <2>3. At("control", "history") => At("control", "history")'
    BY <2>1 DEF TaskGoes, At
  <2>4. ConnectionTyped' /\ ExportTyped' /\ UNCHANGED logVars
    BY <1>3 DEF PipelineBase, FlushRoomUpdates, ConnectionTyped, ExportTyped, dbVars, exportVars,
                logVars
  <2> QED
    BY <2>2, <2>3, <2>4, OffTheLog
<1>4. CASE LateSave
  <2>1. /\ TaskTyped' /\ ConnectionTyped' /\ ExportTyped' /\ UNCHANGED <<task, inputs>>
        /\ UNCHANGED logVars
    BY <1>4 DEF PipelineBase, LateSave, TaskTyped, ConnectionTyped, ExportTyped, changeVars,
                exportVars, logVars, At
  <2> QED
    BY <1>0, <2>1, OffTheLog DEF At
<1>5. CASE LocalRun
  <2>1. TaskGoes("control", "mark")
    BY <1>0, <1>5, TaskMoves DEF LocalRun
  <2>2. TaskTyped' /\ inputs <= inputs'
    BY <1>0, <1>5, <2>1 DEF PipelineBase, LocalRun, Input, TaskGoes, Tasks, TaskTyped, Revision, At
  <2>3. At("control", "history") => At("control", "history")'
    BY <1>5 DEF LocalRun, Idle, At
  <2>4. ConnectionTyped' /\ ExportTyped' /\ UNCHANGED logVars
    BY <1>5 DEF PipelineBase, LocalRun, ConnectionTyped, ExportTyped, dbVars, exportVars, logVars
  <2> QED
    BY <2>2, <2>3, <2>4, OffTheLog
<1>6. CASE ApplyRun
  <2>1. TaskGoes("network", "mark")
    BY <1>0, <1>6, TaskMoves DEF ApplyRun
  <2>2. TaskTyped' /\ inputs <= inputs'
    BY <1>0, <1>6, <2>1 DEF PipelineBase, ApplyRun, TaskGoes, Tasks, TaskTyped, Revision, At
  <2>3. At("control", "history") => At("control", "history")'
    BY <2>1 DEF TaskGoes, At
  <2>4. ConnectionTyped' /\ ExportTyped' /\ UNCHANGED logVars
    BY <1>6 DEF PipelineBase, ApplyRun, ConnectionTyped, ExportTyped, dbVars, exportVars, logVars
  <2> QED
    BY <2>2, <2>3, <2>4, OffTheLog
<1>7. ASSUME NEW t \in Task, MarkRoomDirty(t)
      PROVE  PipelineBase' /\ UNCHANGED logVars
  <2>1. TaskGoes(t, "idle")
    BY <1>0, <1>7, TaskMoves DEF MarkRoomDirty
  <2>2. TaskTyped' /\ inputs <= inputs'
    BY <1>0, <1>7, <2>1 DEF PipelineBase, MarkRoomDirty, TaskGoes, Tasks, TaskTyped, At
  <2>3. At("control", "history") => At("control", "history")'
    BY <1>7, <2>1 DEF MarkRoomDirty, TaskGoes, At
  <2>4. ConnectionTyped' /\ ExportTyped' /\ UNCHANGED logVars
    BY <1>7 DEF PipelineBase, MarkRoomDirty, ConnectionTyped, ExportTyped, dbVars, exportVars,
                logVars
  <2> QED
    BY <2>2, <2>3, <2>4, OffTheLog
<1>8. CASE ExportWorker
  <2>1. TaskTyped' /\ ConnectionTyped' /\ UNCHANGED <<task, inputs>> /\ UNCHANGED logVars
    BY <1>8 DEF PipelineBase, ExportWorker, ExportWoken, ExportWindowCloses, WritePending,
                TaskTyped, ConnectionTyped, changeVars, dbVars, logVars, At
  <2>2. ExportTyped'
    <3>1. CASE ExportWoken
      BY <3>1 DEF PipelineBase, ExportWoken, ExportTyped
    <3>2. CASE ExportWindowCloses
      BY <3>2 DEF PipelineBase, ExportWindowCloses, ExportTyped
    <3>3. CASE WritePending
      BY <3>3 DEF PipelineBase, WritePending, ExportTyped
    <3> QED
      BY <1>8, <3>1, <3>2, <3>3 DEF ExportWorker
  <2> QED
    BY <1>0, <2>1, <2>2, OffTheLog DEF At
<1> QED
  BY <1>1, <1>2, <1>3, <1>4, <1>5, <1>6, <1>7, <1>8 DEF Run

-----------------------------------------------------------------------------
Flushes == [Flusher -> [pc : FlushPc, batch : Batches]]
FlushGoes(f, pc, batch) ==
    /\ flush' \in Flushes /\ flush'[f] = [pc |-> pc, batch |-> batch]
    /\ \A g \in Flusher : g # f => flush'[g] = flush[g]

LEMMA FlushMoves ==
    ASSUME flush \in Flushes, NEW f \in Flusher, NEW pc \in FlushPc, NEW batch \in Batches,
           \/ flush' = [flush EXCEPT ![f] = [pc |-> pc, batch |-> batch]]
           \/ flush' = [flush EXCEPT ![f].pc = pc] /\ batch = flush[f].batch
    PROVE  FlushGoes(f, pc, batch)
<1>1. [pc |-> pc, batch |-> batch] \in [pc : FlushPc, batch : Batches]
  OBVIOUS
<1>2. CASE flush' = [flush EXCEPT ![f] = [pc |-> pc, batch |-> batch]]
  BY <1>1, <1>2 DEF Flushes, FlushGoes
<1>3. CASE flush' = [flush EXCEPT ![f].pc = pc] /\ batch = flush[f].batch
  <2>1. flush[f] \in [pc : FlushPc, batch : Batches]
    BY DEF Flushes
  <2>2. [flush[f] EXCEPT !.pc = pc] = [pc |-> pc, batch |-> batch]
    BY <1>3, <2>1
  <2>3. flush' = [flush EXCEPT ![f] = [pc |-> pc, batch |-> batch]]
    BY <1>3, <2>2 DEF Flushes
  <2> QED
    BY <1>1, <2>3 DEF Flushes, FlushGoes
<1> QED
  BY <1>2, <1>3

\* What the flushers hold, by the one that moves and the other.
LEMMA InFlightMoves ==
    ASSUME NEW f \in Flusher, NEW pc, NEW batch, FlushGoes(f, pc, batch)
    PROVE  \E other :
              /\ UNION {InFlight(g) : g \in Flusher} = InFlight(f) \cup other
              /\ UNION {InFlight(g) : g \in Flusher}' = Range(batch) \cup other
<1> DEFINE other == UNION {InFlight(g) : g \in Flusher \ {f}}
<1>1. UNION {InFlight(g) : g \in Flusher} = InFlight(f) \cup other
  OBVIOUS
<1>2. InFlight(f)' = Range(batch) /\ \A g \in Flusher \ {f} : InFlight(g)' = InFlight(g)
  BY DEF FlushGoes, InFlight
<1>3. UNION {InFlight(g) : g \in Flusher}' = Range(batch) \cup other
  BY <1>2
<1> HIDE DEF other
<1> QED
  BY <1>1, <1>3

\* The control that deletes history returns with its flusher.
LEMMA FlushReturns ==
    ASSUME PipelineBase, NEW f \in Flusher, FlushEnds(f), UNCHANGED <<inputs, room, dirty, peers>>
    PROVE  TaskTyped' /\ (f # "history" => task' = task)
<1>0. task \in Tasks /\ "control" \in Task /\ "control" # "network"
  BY Pcs DEF PipelineBase, TaskTyped, Tasks
<1>1. CASE f = "history"
  <2>1. TaskGoes("control", "idle")
    BY <1>0, <1>1, Pcs, TaskMoves DEF FlushEnds, Goto
  <2>2. At("network", "apply")' => At("network", "apply")
    BY <1>0, <2>1, Pcs DEF TaskGoes, At
  <2> QED
    BY <1>1, <2>1, <2>2 DEF PipelineBase, TaskGoes, Tasks, TaskTyped
<1>2. CASE f # "history"
  BY <1>2 DEF FlushEnds, PipelineBase, TaskTyped, At
<1> QED
  BY <1>1, <1>2

\* A batch that comes back to the backlog.
LEMMA RequeueKeeps ==
    ASSUME PipelineBase, NEW f \in Flusher, Requeue(f), ConnectionTyped'
    PROVE  PipelineBase' /\ (EventsAccounted => EventsAccounted')
<1> DEFINE again == Requeued(flush[f].batch, backlog)
<1>1. flush \in Flushes /\ flush[f] \in [pc : FlushPc, batch : Batches] /\ backlog \in Batches
  BY DEF PipelineBase, LogTyped, Flushes
<1>2. /\ again.kept \in Batches /\ again.dropped \subseteq Events
      /\ Range(again.kept) \cup again.dropped = InFlight(f) \cup Range(backlog)
  BY <1>1, RequeuedFits DEF InFlight
<1>3. /\ backlog' = again.kept /\ gone' = gone \cup again.dropped
      /\ flush' = [flush EXCEPT ![f] = [pc |-> "idle", batch |-> <<>>]]
      /\ FlushEnds(f)
      /\ UNCHANGED <<inputs, room, dirty, peers>> /\ UNCHANGED <<rows, arrived>>
      /\ UNCHANGED <<exportVars>>
  BY DEF Requeue
<1> HIDE DEF again
<1>4. "idle" \in FlushPc /\ <<>> \in Batches
  BY NoBatch DEF FlushPc
<1>5. FlushGoes(f, "idle", <<>>)
  BY <1>1, <1>3, <1>4, FlushMoves
<1>6. TaskTyped' /\ (f # "history" => task' = task)
  BY <1>3, FlushReturns
<1>7. LogTyped'
  BY <1>2, <1>3, <1>5 DEF PipelineBase, LogTyped, FlushGoes, Flushes
<1>8. BatchesHeld'
  BY <1>5, <1>6, Pcs DEF PipelineBase, BatchesHeld, FlushGoes, At
<1>9. ExportTyped'
  BY <1>3 DEF PipelineBase, ExportTyped, exportVars
<1>10. ASSUME EventsAccounted
       PROVE  EventsAccounted'
  <2>1. PICK other :
           /\ UNION {InFlight(g) : g \in Flusher} = InFlight(f) \cup other
           /\ UNION {InFlight(g) : g \in Flusher}' = Range(<<>>) \cup other
    BY <1>5, InFlightMoves
  <2>2. Range(<<>>) = {}
    BY DEF Range
  <2>3. 1 .. arrived' = 1 .. arrived
    BY <1>3
  <2> QED
    BY <1>2, <1>3, <1>10, <2>1, <2>2, <2>3 DEF EventsAccounted
<1> QED
  BY <1>6, <1>7, <1>8, <1>9, <1>10 DEF PipelineBase

LEMMA LogSteps ==
    ASSUME PipelineBase,
           \/ QueueEvent \/ FlushTick \/ DeleteHistory \/ Deleting
           \/ \E f \in Flusher : Flushing(f)
    PROVE  PipelineBase' /\ (EventsAccounted => EventsAccounted')
<1> USE Pcs
<1>0. /\ task \in Tasks /\ flush \in Flushes /\ backlog \in Batches
      /\ inputs \in 0 .. MaxInputs /\ arrived \in 0 .. MaxInputs /\ arrived <= inputs
      /\ rows \subseteq Events /\ gone \subseteq Events
      /\ "tick" \in Flusher /\ "history" \in Flusher /\ "tick" # "history"
      /\ \A f \in Flusher : flush[f] \in [pc : FlushPc, batch : Batches]
      /\ {"idle", "lock", "commit", "delete", "deleting"} = FlushPc /\ <<>> \in Batches
      /\ Range(<<>>) = {}
  BY NoBatch DEF PipelineBase, TaskTyped, Tasks, LogTyped, Flushes, FlushPc
<1>1. CASE QueueEvent
  <2>1. TaskGoes("network", "apply") /\ Idle("network") /\ Input
    BY <1>0, <1>1, TaskMoves DEF QueueEvent
  <2>2. /\ backlog' = Append(backlog, arrived + 1) /\ arrived' = arrived + 1
        /\ Len(backlog) < BacklogCap /\ UNCHANGED <<flush, rows, gone>>
        /\ UNCHANGED <<room, dirty, peers>> /\ UNCHANGED <<dbVars, exportVars>>
    BY <1>1 DEF QueueEvent
  <2>3. TaskTyped'
    BY <1>0, <2>1, <2>2 DEF PipelineBase, Input, TaskGoes, Tasks, TaskTyped, Revision, At
  <2>4. arrived + 1 \in Events /\ arrived' <= inputs' /\ arrived' \in 0 .. MaxInputs
    BY <1>0, <2>1, <2>2 DEF Input, Events
  <2>5. backlog \in Seq(Events) /\ Len(backlog) <= BacklogCap
    BY <1>0, BatchIsSeq
  <2>6. backlog' \in Seq(Events) /\ Len(backlog') <= BacklogCap
    BY <2>2, <2>4, <2>5, BoundsAssumption
  <2>7. backlog' \in Batches /\ Range(backlog') = Range(backlog) \cup {arrived + 1}
    BY <2>2, <2>4, <2>5, <2>6, BatchIsSeq, Ranges
  <2>8. LogTyped'
    BY <2>2, <2>4, <2>7 DEF PipelineBase, LogTyped
  <2>9. BatchesHeld' /\ ConnectionTyped' /\ ExportTyped'
    BY <2>1, <2>2 DEF PipelineBase, BatchesHeld, ConnectionTyped, ExportTyped, TaskGoes, At, dbVars,
                      exportVars
  <2>10. ASSUME EventsAccounted
         PROVE  EventsAccounted'
    <3>1. 1 .. arrived' = (1 .. arrived) \cup {arrived + 1}
      BY <1>0, <2>2
    <3>2. UNION {InFlight(g) : g \in Flusher}' = UNION {InFlight(g) : g \in Flusher}
      BY <2>2 DEF InFlight
    <3> QED
      BY <2>2, <2>7, <2>10, <3>1, <3>2 DEF EventsAccounted
  <2> QED
    BY <2>3, <2>8, <2>9, <2>10 DEF PipelineBase
<1>2. ASSUME NEW f \in Flusher, TakeBacklog(f), flush[f].batch = <<>>,
             TaskTyped', ConnectionTyped', ExportTyped', inputs <= inputs',
             f = "history" => At("control", "history")',
             f # "history" => task' = task
      PROVE  PipelineBase' /\ (EventsAccounted => EventsAccounted')
  <2>1. PICK pc \in FlushPc :
           /\ flush' = [flush EXCEPT ![f] = [pc |-> pc, batch |-> backlog]]
           /\ pc \notin {"lock", "commit"} => backlog = <<>>
    BY <1>0, <1>2 DEF TakeBacklog
  <2>2. FlushGoes(f, pc, backlog)
    BY <1>0, <2>1, FlushMoves
  <2>3. backlog' = <<>> /\ UNCHANGED <<rows, gone, arrived>>
    BY <1>2 DEF TakeBacklog
  <2>4. LogTyped'
    BY <1>0, <1>2, <2>2, <2>3 DEF PipelineBase, LogTyped, FlushGoes, Flushes, TaskTyped
  <2>5. BatchesHeld'
    BY <1>0, <1>2, <2>1, <2>2 DEF PipelineBase, BatchesHeld, FlushGoes, At
  <2>6. ASSUME EventsAccounted
        PROVE  EventsAccounted'
    <3>1. PICK other :
             /\ UNION {InFlight(g) : g \in Flusher} = InFlight(f) \cup other
             /\ UNION {InFlight(g) : g \in Flusher}' = Range(backlog) \cup other
      BY <2>2, InFlightMoves
    <3>2. InFlight(f) = {} /\ 1 .. arrived' = 1 .. arrived
      BY <1>0, <1>2, <2>3 DEF InFlight
    <3> QED
      BY <1>0, <2>3, <2>6, <3>1, <3>2 DEF EventsAccounted
  <2> QED
    BY <1>2, <2>4, <2>5, <2>6 DEF PipelineBase
<1>3. CASE FlushTick
  <2>1. /\ TakeBacklog("tick") /\ flush["tick"].pc = "idle"
        /\ UNCHANGED <<inputs, room, dirty, task, db, faults, peers>> /\ UNCHANGED exportVars
    BY <1>3 DEF FlushTick, changeVars, dbVars
  <2>2. flush["tick"].batch = <<>>
    BY <1>0, <2>1 DEF PipelineBase, BatchesHeld
  <2>3. TaskTyped' /\ ConnectionTyped' /\ ExportTyped' /\ inputs <= inputs'
    BY <1>0, <2>1 DEF PipelineBase, TaskTyped, ConnectionTyped, ExportTyped, At, exportVars
  <2> QED
    BY <1>0, <1>2, <2>1, <2>2, <2>3
<1>4. CASE DeleteHistory
  <2>1. /\ TakeBacklog("history") /\ Idle("control") /\ Input
        /\ UNCHANGED <<room, dirty, peers>> /\ UNCHANGED <<dbVars, exportVars>>
    BY <1>4 DEF DeleteHistory
  <2>2. TaskGoes("control", "history")
    BY <1>0, <1>4, TaskMoves DEF DeleteHistory
  <2>3. flush["history"].batch = <<>>
    BY <1>0, <2>1 DEF PipelineBase, BatchesHeld, Idle, At
  <2>4. TaskTyped' /\ inputs <= inputs'
    BY <1>0, <2>1, <2>2 DEF PipelineBase, Input, TaskGoes, Tasks, TaskTyped, Revision, At
  <2>5. ConnectionTyped' /\ ExportTyped' /\ At("control", "history")'
    BY <2>1, <2>2 DEF PipelineBase, ConnectionTyped, ExportTyped, TaskGoes, At, dbVars, exportVars
  <2> QED
    BY <1>0, <1>2, <2>1, <2>3, <2>4, <2>5
<1>5. ASSUME NEW f \in Flusher, FlushContended(f) \/ FlushFails(f)
      PROVE  PipelineBase' /\ (EventsAccounted => EventsAccounted')
  <2>1. ConnectionTyped' /\ Requeue(f)
    BY <1>5 DEF PipelineBase, FlushContended, FlushFails, ConnectionTyped
  <2> QED
    BY <2>1, RequeueKeeps
<1>6. ASSUME NEW f \in Flusher, NEW pc \in FlushPc, NEW batch \in Batches,
             FlushGoes(f, pc, batch), pc \notin {"lock", "commit"} => batch = <<>>,
             TaskTyped', ConnectionTyped', ExportTyped', inputs' = inputs,
             f = "history" /\ pc # "idle" => task' = task /\ flush[f].pc # "idle",
             f # "history" => task' = task,
             backlog' = backlog, arrived' = arrived, rows' \subseteq Events, gone' \subseteq Events,
             rows' \cup gone' \cup Range(batch) = rows \cup gone \cup InFlight(f)
      PROVE  PipelineBase' /\ (EventsAccounted => EventsAccounted')
  <2>1. LogTyped'
    BY <1>6 DEF PipelineBase, LogTyped, FlushGoes, Flushes
  <2>2. BatchesHeld'
    BY <1>0, <1>6 DEF PipelineBase, BatchesHeld, FlushGoes, At
  <2>3. ASSUME EventsAccounted
        PROVE  EventsAccounted'
    <3>1. PICK other :
             /\ UNION {InFlight(g) : g \in Flusher} = InFlight(f) \cup other
             /\ UNION {InFlight(g) : g \in Flusher}' = Range(batch) \cup other
      <4>1. FlushGoes(f, pc, batch)
        BY <1>6
      <4> QED
        BY <4>1, InFlightMoves
    <3>2. 1 .. arrived' = 1 .. arrived
      BY <1>6
    <3> QED
      BY <1>6, <2>3, <3>1, <3>2 DEF EventsAccounted
  <2> QED
    BY <1>6, <2>1, <2>2, <2>3 DEF PipelineBase
<1>7. ASSUME NEW f \in Flusher, FlushBegins(f)
      PROVE  PipelineBase' /\ (EventsAccounted => EventsAccounted')
  <2>1. /\ FlushGoes(f, "commit", flush[f].batch) /\ flush[f].pc = "lock"
    BY <1>0, <1>7, FlushMoves DEF FlushBegins
  <2>2. TaskTyped' /\ ConnectionTyped' /\ ExportTyped' /\ UNCHANGED <<inputs, task>>
    BY <1>7 DEF PipelineBase, FlushBegins, TaskTyped, ConnectionTyped, ExportTyped, changeVars,
               exportVars, At
  <2>3. UNCHANGED <<backlog, rows, gone, arrived>>
    BY <1>7 DEF FlushBegins
  <2> QED
    BY <1>0, <1>6, <2>1, <2>2, <2>3 DEF InFlight
<1>8. ASSUME NEW f \in Flusher, Flushed(f)
      PROVE  PipelineBase' /\ (EventsAccounted => EventsAccounted')
  <2>1. PICK pc \in FlushPc : /\ flush' = [flush EXCEPT ![f] = [pc |-> pc, batch |-> <<>>]]
                              /\ pc \notin {"lock", "commit"}
    BY <1>0, <1>8 DEF Flushed
  <2>2. FlushGoes(f, pc, <<>>) /\ flush[f].pc = "commit"
    BY <1>0, <1>8, <2>1, FlushMoves DEF Flushed
  <2>3. TaskTyped' /\ ConnectionTyped' /\ ExportTyped' /\ UNCHANGED <<inputs, task>>
    BY <1>8 DEF PipelineBase, Flushed, TaskTyped, ConnectionTyped, ExportTyped, changeVars,
               exportVars, At
  <2>4. UNCHANGED <<backlog, gone, arrived>> /\ rows' = rows \cup InFlight(f)
    BY <1>8 DEF Flushed
  <2>5. InFlight(f) \subseteq Events
    <3>1. flush[f].batch \in Seq(Events)
      BY <1>0, BatchIsSeq
    <3> QED
      BY <3>1 DEF InFlight, Range
  <2> QED
    BY <1>0, <1>6, <2>1, <2>2, <2>3, <2>4, <2>5
<1>9. CASE DeleteBegins
  <2>1. /\ FlushGoes("history", "deleting", <<>>) /\ flush["history"].pc = "delete"
        /\ flush["history"].batch = <<>>
    <3>1. flush["history"].batch = <<>>
      BY <1>0, <1>9 DEF DeleteBegins, PipelineBase, BatchesHeld
    <3> QED
      BY <1>0, <1>9, <3>1, FlushMoves DEF DeleteBegins
  <2>2. TaskTyped' /\ ConnectionTyped' /\ ExportTyped' /\ UNCHANGED <<inputs, task>>
    BY <1>9 DEF PipelineBase, DeleteBegins, TaskTyped, ConnectionTyped, ExportTyped, changeVars,
               exportVars, At
  <2>3. UNCHANGED <<backlog, rows, gone, arrived>>
    BY <1>9 DEF DeleteBegins
  <2> QED
    BY <1>0, <1>6, <2>1, <2>2, <2>3 DEF InFlight
<1>10. CASE DeleteContended \/ Deleted
  <2>1. flush["history"].pc \in {"delete", "deleting"} /\ flush["history"].batch = <<>>
    BY <1>0, <1>10 DEF DeleteContended, Deleted, PipelineBase, BatchesHeld
  <2>2. FlushGoes("history", "idle", <<>>)
    BY <1>0, <1>10, <2>1, FlushMoves DEF DeleteContended, Deleted
  <2>3. TaskTyped'
    BY <1>0, <1>10, FlushReturns DEF DeleteContended, Deleted
  <2>4. ConnectionTyped' /\ ExportTyped' /\ inputs' = inputs
    BY <1>10 DEF PipelineBase, DeleteContended, Deleted, ConnectionTyped, ExportTyped, dbVars, exportVars
  <2>5. /\ UNCHANGED <<backlog, arrived>> /\ rows' \cup gone' = rows \cup gone
        /\ rows' \subseteq Events /\ gone' \subseteq Events
    BY <1>0, <1>10 DEF DeleteContended, Deleted
  <2> QED
    BY <1>0, <1>6, <2>1, <2>2, <2>3, <2>4, <2>5 DEF InFlight
<1> QED
  BY <1>1, <1>3, <1>4, <1>5, <1>7, <1>8, <1>9, <1>10 DEF Flushing, Deleting

LEMMA PipelineBegins == PipelineInit => PipelineBase /\ EventsAccounted
<1> SUFFICES ASSUME PipelineInit
             PROVE  PipelineBase /\ EventsAccounted
  OBVIOUS
<1> USE DEF PipelineInit
<1>1. <<>> \in Batches /\ Range(<<>>) = {}
  BY NoBatch
<1>2. TaskTyped /\ ConnectionTyped /\ ExportTyped
  <2>1. task \in Tasks /\ ~At("network", "apply")
    BY Pcs DEF Tasks, AtRest, At
  <2>2. dirty \in BOOLEAN /\ wakeQueued \in BOOLEAN
    OBVIOUS
  <2>3. /\ room = 0 /\ peers = 0 /\ inputs = 0 /\ faults = 0 /\ signals = 0
        /\ db = "free" /\ pending = Nothing /\ worker = "waiting"
    OBVIOUS
  <2> HIDE DEF PipelineInit
  <2> QED
    BY Pcs, <2>1, <2>2, <2>3 DEF TaskTyped, Tasks, ConnectionTyped, ExportTyped
<1>3. LogTyped /\ BatchesHeld
  BY Pcs, <1>1 DEF LogTyped, BatchesHeld, FlushPc
<1>4. EventsAccounted
  <2>1. \A f \in Flusher : InFlight(f) = {}
    BY <1>1 DEF InFlight
  <2> QED
    BY <1>1, <2>1 DEF EventsAccounted
<1> QED
  BY <1>2, <1>3, <1>4 DEF PipelineBase

LEMMA PipelineSteps ==
    ASSUME PipelineBase, [PipelineNext]_pipelineVars
    PROVE  PipelineBase' /\ (EventsAccounted => EventsAccounted')
<1>1. ASSUME PipelineBase', UNCHANGED logVars
      PROVE  PipelineBase' /\ (EventsAccounted => EventsAccounted')
  BY <1>1 DEF logVars, EventsAccounted, InFlight
<1>2. CASE UNCHANGED pipelineVars
  <2>1. UNCHANGED <<inputs, room, dirty, task, db, faults, peers>> /\ UNCHANGED <<logVars, exportVars>>
    BY <1>2 DEF pipelineVars, changeVars, dbVars
  <2>2. PipelineBase'
    BY <2>1 DEF PipelineBase, TaskTyped, ConnectionTyped, LogTyped, ExportTyped, BatchesHeld,
                logVars, exportVars, At
  <2> QED
    BY <1>1, <2>1, <2>2
<1>3. CASE PipelineNext
  BY <1>1, <1>3, RoomSteps, LogSteps DEF PipelineNext
<1> QED
  BY <1>2, <1>3

(* What the host holds of a publication, of the backlog, of its flushers   *)
(* and of the exports stays well formed, and the backlog within its cap    *)
(* (app_state.rs, storage.rs, exports.rs).                                 *)
THEOREM PipelineTypeCorrect == PipelineSpec => []PipelineTypeOK
<1>1. PipelineInit => PipelineBase
  BY PipelineBegins
<1>2. PipelineBase /\ [PipelineNext]_pipelineVars => PipelineBase'
  BY PipelineSteps
<1>3. PipelineBase => PipelineTypeOK
  BY DEF PipelineBase, PipelineTypeOK, TaskTyped, ConnectionTyped, LogTyped, ExportTyped, Batches
<1> QED
  BY <1>1, <1>2, <1>3, PTL DEF PipelineSpec

(* No run event a peer sent is forgotten: it waits, is being committed, is *)
(* stored, or was dropped by the cap or deleted with its room, whatever    *)
(* transactions fail and however the two flushers overlap (storage.rs:178). *)
THEOREM EventsStayAccounted == PipelineSpec => []EventsAccounted
<1>1. PipelineInit => PipelineBase /\ EventsAccounted
  BY PipelineBegins
<1>2. PipelineBase /\ EventsAccounted /\ [PipelineNext]_pipelineVars
      => (PipelineBase /\ EventsAccounted)'
  BY PipelineSteps
<1> QED
  BY <1>1, <1>2, PTL DEF PipelineSpec
=================================================================================
