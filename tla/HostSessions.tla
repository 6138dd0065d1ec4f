---------------------------- MODULE HostSessions ----------------------------
(***************************************************************************)
(* The host's half of the peer transport (network.rs) and the steps of     *)
(* AppState it feeds: who is connected, who may resume, and when a         *)
(* connection is closed.  Every accepted QUIC connection has a task that   *)
(* authenticates it and, later, a reader task; both run beside the one     *)
(* task that handles network events and beside the host's controls, and    *)
(* they share the maps resume_sessions and peers/peer_connections, each    *)
(* behind its own lock.  A step here is what runs between two awaits that  *)
(* another task can use.                                                   *)
(*                                                                         *)
(* peers and peer_connections are written and removed side by side without *)
(* a network wait between them; one map, entry, stands for both.  What the *)
(* room does with a participant is RoomEngine's; here it is only absent,   *)
(* up (connected), in grace, or stale (grace used up, entry kept).         *)
(***************************************************************************)
EXTENDS Integers, Sequences, FiniteSets

CONSTANTS
    Session,    \* session ids the host can hand out: 1 .. n
    Conn,       \* connections that can be opened: 1 .. m
    NoSession, NoConn,
    QueueCap    \* NETWORK_EVENT_CAPACITY

ASSUME SessionsAssumption ==
    Session \subseteq Nat \ {0} /\ Conn \subseteq Nat \ {0} /\ IsFiniteSet(Session)
ASSUME NothingAssumption == NoSession \notin Session /\ NoConn \notin Conn
ASSUME QueueAssumption == QueueCap \in Nat \ {0}

VARIABLES
    hosting,    \* is_host: the room is open and the endpoint accepts
    link,       \* [Conn -> Link], the connection as QUIC has it
    presented,  \* [Conn -> session the resume token in AuthHello maps to]
    acc,        \* [Conn -> AcceptPc], the accept_peer task
    sess,       \* [Conn -> session id accept_peer gave the connection]
    reader,     \* [Conn -> ReaderPc], the spawn_reader task
    issued,     \* session ids handed out so far
    resume,     \* resume_sessions, by the session each token maps to
    entry,      \* peers and peer_connections
    roster,     \* [Session -> RosterState]
    closing,    \* disconnect_peer(.., false) calls decided on and still to run
    queue,      \* the host's NetworkEvent channel
    overtaken,  \* history: connections reported ended before Authenticated
    crowded     \* history: connections that met an unfinished one, see Crowd

linkVars == <<link, presented>>
acceptVars == <<acc, sess, issued>>
mapVars == <<resume, entry>>
roomVars == <<hosting, roster, closing>>
history == <<overtaken, crowded>>
vars == <<hosting, link, presented, acc, sess, reader, issued, resume, entry,
              roster, closing, queue, history>>

Link == {"unused", "open", "closed"}
AcceptPc == {"none", "hello", "welcomed", "spawned", "done", "cut"}
ReaderPc == {"none", "running", "stripped", "ended"}
RosterState == {"absent", "up", "grace", "stale"}
Event == [kind : {"authenticated", "disconnected"}, conn : Conn]
Closing == [by : {"handler", "host"}, sess : Session]
Authenticated(c) == [kind |-> "authenticated", conn |-> c]
Disconnected(c) == [kind |-> "disconnected", conn |-> c]

Open(c) == link[c] = "open"
Closed(c) == [d \in Conn |-> IF d = c /\ Open(d) THEN "closed" ELSE link[d]]
ConnsOf(s) == {c \in Conn : sess[c] = s}
Queued(event) == \E i \in 1 .. Len(queue) : queue[i] = event
(* Mutant of QueueHasRoom: an unbounded channel. *)
QueueUnbounded == TRUE
QueueHasRoom == Len(queue) < QueueCap

Init ==
    /\ hosting = TRUE
    /\ link = [c \in Conn |-> "unused"]
    /\ presented = [c \in Conn |-> NoSession]
    /\ acc = [c \in Conn |-> "none"]
    /\ sess = [c \in Conn |-> NoSession]
    /\ reader = [c \in Conn |-> "none"]
    /\ issued = {}
    /\ resume = {}
    /\ entry = [s \in Session |-> NoConn]
    /\ roster = [s \in Session |-> "absent"]
    /\ closing = {}
    /\ queue = <<>>
    /\ overtaken = {} /\ crowded = {}

-----------------------------------------------------------------------------
(* accept_peer *)

NextConn == {c \in Conn : /\ link[c] = "unused"
                          /\ \A d \in Conn : d < c => link[d] # "unused"}
NextSession == {s \in Session \ issued : \A t \in Session : t < s => t \in issued}

Welcomed(c) == acc[c] \in {"welcomed", "spawned", "done", "cut"} /\ sess[c] # NoSession
Token == {NoSession} \cup {sess[c] : c \in {d \in Conn : Welcomed(d)}}

(* A peer opens connection c and sends AuthHello, with no resume token or  *)
(* with one it was welcomed with; the endpoint spawns accept_peer.  Nothing*)
(* keeps a peer from dialling again while an older attempt is under way.   *)
Accept(c, t) ==
    /\ hosting /\ c \in NextConn /\ t \in Token
    /\ link' = [link EXCEPT ![c] = "open"]
    /\ presented' = [presented EXCEPT ![c] = t]
    /\ acc' = [acc EXCEPT ![c] = "hello"]
    /\ UNCHANGED <<sess, issued, reader, mapVars, roomVars, queue, history>>

MayResume(c) == presented[c] \in resume
(* Mutant of AlreadyConnected: a resume is granted without a look at it. *)
NeverConnected(c) == FALSE
AlreadyConnected(c) == entry[presented[c]] # NoConn

(* The proof is good and the token maps to a session that is not connected *)
(* or to none: the session is chosen here and registered by the next step. *)
CheckResume(c) ==
    /\ acc[c] = "hello" /\ sess[c] = NoSession
    /\ IF MayResume(c)
       THEN /\ ~AlreadyConnected(c)
            /\ sess' = [sess EXCEPT ![c] = presented[c]]
            /\ UNCHANGED issued
       ELSE \E s \in NextSession : /\ sess' = [sess EXCEPT ![c] = s]
                                   /\ issued' = issued \cup {s}
    /\ presented' = [presented EXCEPT ![c] = NoSession]
    /\ UNCHANGED <<link, acc, reader, mapVars, roomVars, queue, history>>

(* The token maps to the session from now on, and AuthWelcome is written.  *)
Welcome(c) ==
    /\ acc[c] = "hello" /\ sess[c] # NoSession
    /\ acc' = [acc EXCEPT ![c] = "welcomed"]
    /\ resume' = resume \cup {sess[c]}
    /\ UNCHANGED <<linkVars, sess, issued, reader, entry, roomVars, queue, history>>

(* Other connections of c's session that are being authenticated still, or *)
(* that have ended and whose reader has not tidied up: the two ways the    *)
(* entry of a session can come to name the wrong connection.               *)
Unfinished(d) == (acc[d] \in {"hello", "welcomed"}) \/ (reader[d] = "running" /\ ~Open(d))
Crowd(c) == {d \in ConnsOf(sess[c]) \ {c} : Unfinished(d)}

(* The maps are filled and the reader starts; Authenticated is still to be *)
(* sent.                                                                   *)
Connect(c) ==
    /\ acc[c] = "welcomed"
    /\ acc' = [acc EXCEPT ![c] = "spawned"]
    /\ entry' = [entry EXCEPT ![sess[c]] = c]
    /\ reader' = [reader EXCEPT ![c] = "running"]
    /\ crowded' = IF Crowd(c) = {} THEN crowded ELSE crowded \cup Crowd(c) \cup {c}
    /\ UNCHANGED <<linkVars, sess, issued, resume, roomVars, queue, overtaken>>

Announce(c) ==
    /\ acc[c] = "spawned" /\ QueueHasRoom
    /\ acc' = [acc EXCEPT ![c] = "done"]
    /\ queue' = Append(queue, Authenticated(c))
    /\ overtaken' = IF reader[c] = "ended" THEN overtaken \cup {c} ELSE overtaken
    /\ UNCHANGED <<linkVars, sess, issued, reader, mapVars, roomVars, crowded>>

(* accept_peer ends without Authenticated: the password or the build was   *)
(* wrong, the session is already connected, the welcome could not be       *)
(* written, or AUTH_TIMEOUT passed in a wait for a frame or for room in    *)
(* the event queue.                                                        *)
CutOff(c) ==
    /\ \/ acc[c] = "hello" /\ sess[c] = NoSession
       \/ acc[c] = "welcomed"
       \/ acc[c] = "spawned" /\ ~QueueHasRoom
    /\ acc' = [acc EXCEPT ![c] = "cut"]
    /\ link' = Closed(c)
    /\ UNCHANGED <<presented, sess, issued, reader, mapVars, roomVars, queue, history>>

-----------------------------------------------------------------------------
(* spawn_reader, after its connection has ended *)

StripEntry(c) == [entry EXCEPT ![sess[c]] = NoConn]

ReaderStrips(c) ==
    /\ reader[c] = "running" /\ ~Open(c)
    /\ reader' = [reader EXCEPT ![c] = "stripped"]
    /\ entry' = StripEntry(c)
    /\ UNCHANGED <<linkVars, acceptVars, resume, roomVars, queue, history>>

ReaderReports(c) ==
    /\ reader[c] = "stripped" /\ QueueHasRoom
    /\ reader' = [reader EXCEPT ![c] = "ended"]
    /\ queue' = Append(queue, Disconnected(c))
    /\ UNCHANGED <<linkVars, acceptVars, mapVars, roomVars, history>>

(* The network, or the peer's process, ends a connection.                  *)
Lose(c) ==
    /\ Open(c)
    /\ link' = Closed(c)
    /\ UNCHANGED <<presented, acceptVars, reader, mapVars, roomVars, queue, history>>

-----------------------------------------------------------------------------
(* disconnect_peer: tokens first, then the maps, then the connection *)

(* Mutant of Forgotten: disconnect_peer leaves the token. *)
ForgottenLater(s) == resume
Forgotten(s) == resume \ {s}

(* broadcast or send_to found the session's queue full or closed: the      *)
(* connection goes, the token stays.                                       *)
(* Mutant of DropSlowPeer: the entry goes, the connection stays open. *)
DropSlowPeerOpen(s) ==
    /\ hosting /\ entry[s] # NoConn
    /\ entry' = [entry EXCEPT ![s] = NoConn]
    /\ UNCHANGED <<linkVars, acceptVars, reader, resume, roomVars, queue, history>>

DropSlowPeer(s) ==
    /\ hosting /\ entry[s] # NoConn
    /\ link' = Closed(entry[s])
    /\ entry' = [entry EXCEPT ![s] = NoConn]
    /\ UNCHANGED <<presented, acceptVars, reader, resume, roomVars, queue, history>>

(* The same with allow_resume = false, for a session the host decided to   *)
(* be rid of in an earlier step.                                           *)
DisconnectPeer(call) ==
    /\ call \in closing
    /\ closing' = closing \ {call}
    /\ resume' = Forgotten(call.sess)
    /\ link' = Closed(entry[call.sess])
    /\ entry' = [entry EXCEPT ![call.sess] = NoConn]
    /\ UNCHANGED <<presented, acceptVars, reader, hosting, roster, queue, history>>

-----------------------------------------------------------------------------
(* handle_network_event on the host *)

(* One task handles the events: it takes none while it disconnects a peer. *)
HandlerIsFree == \A call \in closing : call.by # "handler"
Handles(kind) ==
    /\ queue # <<>> /\ Head(queue).kind = kind
    /\ HandlerIsFree
    /\ queue' = Tail(queue)
ToDisconnect(by, s) == closing' = closing \cup {[by |-> by, sess |-> s]}

(* request_join_with_id: a session in the roster that is not connected     *)
(* comes back up; one that is connected is refused; a new one may be.      *)
HandleAuthenticated ==
    /\ hosting /\ Handles("authenticated")
    /\ LET s == sess[Head(queue).conn] IN
       \/ /\ roster[s] # "up"
          /\ roster' = [roster EXCEPT ![s] = "up"]
          /\ UNCHANGED closing
       \/ /\ roster[s] \in {"absent", "up"}
          /\ ToDisconnect("handler", s)
          /\ UNCHANGED roster
    /\ UNCHANGED <<linkVars, acceptVars, reader, mapVars, hosting, history>>

(* Mutant of Dropped: a participant that may resume is not marked.         *)
DroppedUnlessResumable(s) ==
    IF s \in resume THEN roster ELSE [roster EXCEPT ![s] = "absent"]
Dropped(s) ==
    IF roster[s] = "absent" THEN roster ELSE [roster EXCEPT ![s] = "grace"]

HandleDisconnected ==
    /\ hosting /\ Handles("disconnected")
    /\ LET s == sess[Head(queue).conn] IN
       roster' = Dropped(s)
    /\ UNCHANGED <<linkVars, acceptVars, reader, mapVars, hosting, closing, history>>

(* A forbidden or oversized message ends the session for good; its roster  *)
(* entry is left to the report of the loss.  queue has no messages: one of *)
(* c may be handled until the end of c has been.                           *)
HandleForbidden(c) ==
    /\ hosting /\ HandlerIsFree
    /\ reader[c] \in {"running", "stripped"} \/ Queued(Disconnected(c))
    /\ ToDisconnect("handler", sess[c])
    /\ UNCHANGED <<linkVars, acceptVars, reader, mapVars, hosting, roster, queue, history>>

(* After the room is closed is_host is false and the events do nothing.    *)
HandleLate ==
    /\ ~hosting /\ \E kind \in {"authenticated", "disconnected"} : Handles(kind)
    /\ UNCHANGED <<linkVars, acceptVars, reader, mapVars, roomVars, history>>

-----------------------------------------------------------------------------
(* The maintenance loop and the host's controls *)

(* The grace period of s is over.  Before a race the entry goes, in a race *)
(* it stays as a DNF, in both the session is to be disconnected; at        *)
(* results nothing happens but that the deadline is gone.                  *)
Expire(s) ==
    /\ hosting /\ roster[s] = "grace"
    /\ \/ /\ roster' = [roster EXCEPT ![s] = "absent"]
          /\ ToDisconnect("host", s)
       \/ /\ roster' = [roster EXCEPT ![s] = "stale"]
          /\ ToDisconnect("host", s)
       \/ /\ roster' = [roster EXCEPT ![s] = "stale"]
          /\ UNCHANGED closing
    /\ UNCHANGED <<linkVars, acceptVars, reader, mapVars, hosting, queue, history>>

(* kick, or the rejection of a pending request.                            *)
RemovePeer(s) ==
    /\ hosting /\ roster[s] # "absent"
    /\ roster' = [roster EXCEPT ![s] = "absent"]
    /\ ToDisconnect("host", s)
    /\ UNCHANGED <<linkVars, acceptVars, reader, mapVars, hosting, queue, history>>

(* close_room or leave_room: the endpoint closes every connection and the  *)
(* maps are cleared.                                                       *)
CloseRoom ==
    /\ hosting
    /\ hosting' = FALSE
    /\ link' = [c \in Conn |-> IF Open(c) THEN "closed" ELSE link[c]]
    /\ entry' = [s \in Session |-> NoConn]
    /\ roster' = [s \in Session |-> "absent"]
    /\ closing' = {}
    /\ UNCHANGED <<presented, acceptVars, reader, resume, queue, history>>

(* start_host forgets the tokens of the room before.  The accept and       *)
(* reader tasks of that room, and the events they sent, may still be       *)
(* there: nothing tells one room's events from another's.                  *)
StartHost ==
    /\ ~hosting
    /\ hosting' = TRUE
    /\ resume' = {}
    /\ entry' = [s \in Session |-> NoConn]
    /\ UNCHANGED <<linkVars, acceptVars, reader, roster, closing, queue, history>>

-----------------------------------------------------------------------------
Transport(c) ==
    \/ \E t \in Token : Accept(c, t)
    \/ CheckResume(c) \/ Welcome(c) \/ Connect(c) \/ Announce(c)
    \/ CutOff(c) \/ ReaderStrips(c) \/ ReaderReports(c) \/ Lose(c)

Next ==
    \/ \E c \in Conn : Transport(c) \/ HandleForbidden(c)
    \/ \E s \in Session : DropSlowPeer(s) \/ Expire(s) \/ RemovePeer(s)
    \/ \E call \in closing : DisconnectPeer(call)
    \/ HandleAuthenticated \/ HandleDisconnected \/ HandleLate \/ CloseRoom \/ StartHost

Spec == Init /\ [][Next]_vars

-----------------------------------------------------------------------------
(* Every variable keeps its type; no token maps to a session never issued  *)
(* and the event channel never exceeds its capacity.                       *)
TypeOK ==
    /\ hosting \in BOOLEAN
    /\ link \in [Conn -> Link]
    /\ presented \in [Conn -> Session \cup {NoSession}]
    /\ acc \in [Conn -> AcceptPc]
    /\ sess \in [Conn -> Session \cup {NoSession}]
    /\ reader \in [Conn -> ReaderPc]
    /\ issued \subseteq Session /\ resume \subseteq issued
    /\ entry \in [Session -> Conn \cup {NoConn}]
    /\ roster \in [Session -> RosterState]
    /\ closing \subseteq Closing
    /\ queue \in Seq(Event) /\ Len(queue) <= QueueCap
    /\ overtaken \subseteq Conn /\ crowded \subseteq Conn

(* A resume token whose participant is not in the roster belongs to an     *)
(* authentication under way or cut off, to a participant about to enter,   *)
(* or to one about to be disconnected for good: expiry and removal leave   *)
(* no resumable token behind, although a resume may be checking the token  *)
(* while it is taken away.                                                 *)
TokenHasOwner ==
    hosting => \A s \in resume :
        \/ roster[s] # "absent"
        \/ \E c \in ConnsOf(s) : acc[c] \in {"welcomed", "spawned", "cut"}
                                 \/ Queued(Authenticated(c))
        \/ \E call \in closing : call.sess = s

(* A participant the room shows as connected has a reader that will report *)
(* its end, or the report is queued: unless the report of a connection     *)
(* overtook its Authenticated, nobody stays connected in the roster after  *)
(* the connection is gone.                                                 *)
UpHasReader ==
    hosting => \A s \in Session : roster[s] = "up" =>
        \E c \in ConnsOf(s) : \/ reader[c] \in {"running", "stripped"}
                             \/ Queued(Disconnected(c))
                             \/ c \in overtaken

(* Two open connections never serve one session, in every session none of  *)
(* whose connections has met an unfinished one.                            *)
SessionNotDoubled ==
    \A c, d \in Conn :
        (c # d /\ sess[c] = sess[d] /\ reader[c] = "running" /\ reader[d] = "running")
        => ~Open(c) \/ ~Open(d) \/ ConnsOf(sess[c]) \cap crowded # {}

(* The host can address, and disconnect, every open connection: its entry  *)
(* is removed only with it, in every session none of whose connections     *)
(* has met an unfinished one.                                              *)
OpenIsReachable ==
    \A c \in Conn :
        (reader[c] = "running" /\ Open(c) /\ ConnsOf(sess[c]) \cap crowded = {})
        => entry[sess[c]] = c

(* What the room, the table of peers and the readers say of a connection   *)
(* agrees: nobody is connected in one of them and lost to the others, or   *)
(* connected twice.                                                        *)
ConnectionsAgree == UpHasReader /\ OpenIsReachable /\ SessionNotDoubled

=============================================================================
