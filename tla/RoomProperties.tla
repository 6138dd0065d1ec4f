--------------------------- MODULE RoomProperties ----------------------------
(***************************************************************************)
(* What the room of RoomEngine keeps.                                      *)
(***************************************************************************)
EXTENDS RoomEngine

Participant ==
    [role : Role \cup {"none"}, admitted : BOOLEAN, connected : BOOLEAN,
     ready : BOOLEAN, verified : BOOLEAN, commentator : BOOLEAN,
     validity : Validity, done : 0 .. MaxHits, missed : 0 .. MaxHits + 1,
     accuracy : 0 .. 100, seq : NoSeq .. MaxSeq, rank : Nat, setTotal : Nat]

PolicyTypes ==
    mode \in {"password_only", "host_approval"} /\ checks \in BOOLEAN /\ settings \in Setting

SetlistEntry == [chart : Chart, completed : BOOLEAN]

SetTypes ==
    /\ chart \in Chart \cup {NoChart} /\ active \in Nat
    /\ setlist \in Seq(SetlistEntry)

RunTypes ==
    /\ finalized \subseteq Session /\ started \subseteq Session
    /\ activeRun \in [Session -> Run \cup {NoRun}]
    /\ retired \in [Session -> Seq(Run)]
    /\ counted \in [Session -> Nat]

NetTypes == deadlines \subseteq Session /\ link \in [Session -> Link]

\* The types of the room's state.
TypeOK ==
    /\ phase \in {"open", "closing", "gone"} /\ lifecycle \in Lifecycle /\ races \in Nat
    /\ part \in [Session -> Participant]
    /\ PolicyTypes /\ SetTypes /\ RunTypes /\ NetTypes

(***************************************************************************)
(* The race                                                                *)
(***************************************************************************)
racing == phase = "open" /\ lifecycle \in Racing

Contract == INSTANCE RaceContract WITH
    Rules <- BOOLEAN \X Setting \X (Chart \cup {NoChart}),
    Closed <- <<>>,
    stage <- IF phase # "open" THEN "closed"
             ELSE IF lifecycle \in Racing THEN "race" ELSE "lobby",
    racers <- IF racing THEN Competitors ELSE {},
    settled <- IF racing THEN finalized \cap Competitors ELSE {},
    total <- [s \in Session |-> IF phase = "open" THEN part[s].setTotal ELSE 0],
    rules <- IF phase = "open" THEN <<checks, settings, chart>> ELSE <<>>

\* The room implements the race contract: whatever order joins, kicks, drops,
\* expiries and run events come in, the roster and rules of a race are frozen,
\* every racer settles once, and the race ends when the last one has.
KeepsContract == Contract!Spec

\* A race in progress has a racer without a final result.  Were it to lose the
\* last one without try_finish_chart, the room would stay in the race for ever.
RaceHasOpenRun ==
    lifecycle \in Racing => Competitors # {} /\ ~(Competitors \subseteq finalized)

\* Outside a race no attempt is left open in an open room, so the run.finished
\* that finish_run accepts in any lifecycle can credit nobody between races.
AttemptsSettled ==
    phase = "open" /\ lifecycle \notin Racing => started \subseteq finalized

\* Run bookkeeping never outlives the participant it belongs to.
RunStateInRoster ==
    /\ started \cup finalized \cup deadlines \subseteq roster
    /\ \A s \in Session \ roster : activeRun[s] = NoRun /\ retired[s] = <<>>

\* The attempt of a racer is never one of those it has replaced.
ActiveNotRetired ==
    \A s \in Session : \A i \in DOMAIN retired[s] : retired[s][i] # activeRun[s]

\* In an open competitive room a valid result has every score event from the
\* first one on: a lost, replayed or reordered event, or a second attempt, shows.
ValidIsGapless ==
    phase = "open" /\ checks => \A s \in Competitors :
        part[s].validity = "valid" => counted[s] = part[s].seq + 1

\* Only a racer whose chart was verified can hold a valid result in a race.
ValidIsVerified ==
    racing => \A s \in Competitors :
        part[s].validity = "valid" => part[s].verified /\ s \in started

\* A valid result is a whole attempt, by a racer whose chart was verified, under
\* a run id that has not been replaced.
ScoresHonest == ValidIsGapless /\ ValidIsVerified /\ ActiveNotRetired

\* In a competitive race an INVALID or DNF racer is never valid again, whether
\* it retries, reconnects, replays old events or is expired meanwhile.
BadVerdictSticks ==
    [][checks /\ racing =>
         \A s \in Competitors : part[s].validity \in {"invalid", "dnf"} =>
             part'[s].validity \in {"invalid", "dnf"}]_vars

(***************************************************************************)
(* The roster and the setlist                                              *)
(***************************************************************************)
\* The host is never without its own seat: no kick, expiry or drop of a peer
\* takes it, so the room always has somebody to run it.
HostPresent ==
    part[Host].admitted /\ part[Host].connected /\ Host \notin deadlines

\* Joins, admissions, role changes and the host's own seat, in any order, keep
\* the roster within the limits of model.rs.
WithinCapacity ==
    /\ Cardinality({s \in roster : RacesIn(part[s].role)}) <= MaxPlayers
    /\ Cardinality({s \in roster : part[s].role = "spectator"}) <= MaxSpectators

\* Commentator access is revoked by whatever takes away its premises.
CommentatorIsSpectator ==
    \A s \in Session : part[s].commentator =>
        s # Host /\ part[s].admitted /\ part[s].role = "spectator"

\* Start is offered as soon as it can be: no mutation that makes the last
\* assigned player ready leaves the room in chart_locked.
AllReadyIsReady ==
    lifecycle = "chart_locked" => ~AllAssignedReady(part)

\* The locked chart is the active entry of the setlist, if there is a setlist,
\* whatever is appended, removed, moved or advanced.
ChartFollowsSetlist ==
    /\ setlist = <<>> => active = 0
    /\ setlist # <<>> => active \in DOMAIN setlist /\ chart = setlist[active].chart

\* Everything before the active entry has been played, nothing after it has.
SetlistInOrder ==
    \A i \in DOMAIN setlist :
        (i < active => setlist[i].completed) /\ (i > active => ~setlist[i].completed)

\* No two participants hold the same rank, old ranks of racers who have become
\* spectators included.
RanksDistinct ==
    \A s, t \in roster : part[s].rank = part[t].rank /\ part[s].rank # 0 => s = t

\* The setlist and the locked chart never part, and the setlist is played in order.
SetlistKept == ChartFollowsSetlist /\ SetlistInOrder

\* The roster stays of one piece through joins, admissions, role changes, kicks,
\* drops and expiries.
RosterKept ==
    /\ RunStateInRoster /\ AllReadyIsReady /\ RanksDistinct
    /\ HostPresent /\ WithinCapacity /\ CommentatorIsSpectator

(***************************************************************************)
(* Liveness, from the maintenance loop alone                               *)
(***************************************************************************)
liveRun(s) == part[s].connected /\ s \in started /\ s \notin finalized

\* Only a connected racer whose game is running can keep a race open: a client
\* that never starts, drops, or drops again after a reconnect cannot strand it.
RaceHeldOnlyByLiveRun ==
    racing ~> (~racing \/ \E s \in Competitors : liveRun(s))

(***************************************************************************)
(* Statements of the documents and comments that the code does not keep    *)
(***************************************************************************)
\* docs/operator-guide.md:123, "Complete valid attempts rank normally": at
\* Results a valid racer is ranked before one that did not finish.
ValidRanksBeforeDnf ==
    lifecycle \in {"results", "set_complete"} =>
        \A s, t \in Competitors :
            part[s].validity = "valid" /\ part[t].validity = "dnf"
                => part[s].rank < part[t].rank

\* docs/protocol.md:54-55, "Reconnect restores the same authenticated
\* participant": a peer that is away is one that may come back.
ReconnectAccepted ==
    \A s \in roster : link[s] = "down" => ~part[s].connected

\* docs/operator-guide.md:127, a DNF "Player remains available for later
\* charts": after a race no entry belongs to a session that cannot return.
NoOrphanEntry ==
    \A s \in roster : lifecycle \in {"results", "set_complete"} => link[s] # "gone"
=============================================================================
