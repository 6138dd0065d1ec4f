------------------------------ MODULE RoomEngine ------------------------------
(***************************************************************************)
(* The authoritative room of a host: companion/src/room.rs, driven the way *)
(* companion/src/app_state.rs drives it.  Every action is one critical     *)
(* section on the RwLock that guards the RoomEngine: a network event taken *)
(* from the single event queue, an event of the host's own game, a host    *)
(* control, or one expiry of the maintenance loop.                         *)
(*                                                                         *)
(* Abstractions.  A session id is an element of Session and a display name *)
(* a natural number (its rank in name order).  Score totals keep the two   *)
(* counters that decide completion and accuracy; accuracies are whole      *)
(* percents.  Deadlines keep who is due, not when.  Everything a handler   *)
(* refuses without changing the room is left out.                          *)
(***************************************************************************)
EXTENDS Integers, Sequences, FiniteSets, SequencesExt

CONSTANTS
    Session,        \* session ids, the host's included
    Host,           \* snapshot.host_session_id
    NameOf,         \* display name of each session, in name order
    Chart, NoChart, \* chart locks, and no lock
    Run, NoRun,     \* run ids, and no run
    Setting,        \* values of the modifier, build and transfer settings
    MaxPlayers, MaxSpectators,
    MaxHits,        \* expected_max_hits of every chart
    RetireLimit,    \* run ids remembered as replaced (32 in the code)
    InitChecks,     \* values of validity_checks_enabled a room is hosted with
    InitMode,       \* admission modes a room is hosted with
    Features,       \* steps in use: "drops" of peers and the host controls
                    \* "roster", "policy", "setlist", "close"
    MaxSeq, MaxSetlist, MaxRaces  \* bounds of an instance

ASSUME SessionAssumption == Host \in Session /\ IsFiniteSet(Session)
ASSUME NameAssumption == NameOf \in [Session -> Nat]
ASSUME NoneAssumption == NoChart \notin Chart /\ NoRun \notin Run
ASSUME LimitAssumption ==
    /\ MaxPlayers \in Nat \ {0} /\ MaxSpectators \in Nat \ {0}
    /\ MaxHits \in Nat \ {0} /\ RetireLimit \in Nat \ {0}
    /\ MaxSeq \in Nat /\ MaxSetlist \in Nat /\ MaxRaces \in Nat
ASSUME OptionAssumption ==
    /\ InitChecks \subseteq BOOLEAN
    /\ InitMode \subseteq {"password_only", "host_approval"}

VARIABLES
    phase,      \* "open"; "closing" once close() ran; "gone" once is_host is false
    lifecycle,  \* snapshot.lifecycle
    mode,       \* snapshot.admission_mode
    checks,     \* snapshot.validity_checks_enabled
    settings,   \* snapshot.modifiers, require_same_game_build, auto_request_...
    chart,      \* snapshot.chart
    setlist,    \* snapshot.setlist
    active,     \* snapshot.current_setlist_index, 1-based, 0 for None
    part,       \* snapshot.participants by session id
    finalized,  \* finalized_runs
    started,    \* started_runs
    activeRun,  \* active_run_ids
    retired,    \* retired_run_ids
    deadlines,  \* keys of disconnect_deadlines
    link,       \* what the transport last did with the session's connection
    counted,    \* history: score events counted in the current attempt
    races       \* bound: races scheduled so far

policyVars == <<mode, checks, settings>>
setVars == <<chart, setlist, active>>
runVars == <<started, activeRun, retired, counted>>
netVars == <<deadlines, link>>
vars == <<phase, lifecycle, policyVars, setVars, part, finalized, runVars,
          netVars, races>>

PreRace == {"forming", "chart_locked", "ready"}
Racing == {"countdown", "playing"}
Lifecycle == PreRace \cup Racing \cup {"results", "set_complete", "closed"}
Role == {"player", "host", "spectator"}
Validity == {"pending", "valid", "invalid", "dnf"}
Link == {"new", "up", "down", "revoked", "gone"}
NoSeq == -1
Totals == [done : 0 .. MaxHits + 1, missed : 0 .. MaxHits + 1]

(***************************************************************************)
(* Participants                                                            *)
(***************************************************************************)
Entry(role, admitted) ==
    [role |-> role, admitted |-> admitted, connected |-> TRUE, ready |-> FALSE,
     verified |-> FALSE, commentator |-> FALSE, validity |-> "pending",
     done |-> 0, missed |-> 0, accuracy |-> 100, seq |-> NoSeq, rank |-> 0,
     setTotal |-> 0]

Absent == [Entry("none", FALSE) EXCEPT !.connected = FALSE]

roster == {s \in Session : part[s].role # "none"}

RacesIn(role) == role \in {"player", "host"}
IsCompetitor(p) == p.admitted /\ RacesIn(p.role)
CompetitorsOf(ps) == {s \in Session : IsCompetitor(ps[s])}
Competitors == CompetitorsOf(part)

NormalizedRole(role) == IF role = "host" THEN "player" ELSE role
RequestedRole == {NormalizedRole(role) : role \in Role}

\* Mutant of Rivals: the host's own seat is not counted.
RivalsButHost(s, role) ==
    {t \in Session \ {s, Host} : IF RacesIn(role) THEN RacesIn(part[t].role)
                                                  ELSE part[t].role = "spectator"}

\* Participants other than s that count against the limit of the role.
Rivals(s, role) ==
    {t \in Session \ {s} : IF RacesIn(role) THEN RacesIn(part[t].role)
                                            ELSE part[t].role = "spectator"}
HasCapacity(s, role) ==
    Cardinality(Rivals(s, role)) < IF RacesIn(role) THEN MaxPlayers
                                                    ELSE MaxSpectators

AllAssignedReady(ps) ==
    LET assigned == {s \in CompetitorsOf(ps) : ps[s].connected}
    IN  assigned # {} /\ \A s \in assigned : ps[s].ready /\ ps[s].verified

\* Mutant of Refreshed: readiness is judged before the change.
RefreshedTooEarly(ps) ==
    IF chart # NoChart /\ lifecycle \in PreRace
    THEN IF AllAssignedReady(part) THEN "ready" ELSE "chart_locked"
    ELSE lifecycle

\* refresh_ready_lifecycle, once the participants are ps.
Refreshed(ps) ==
    IF chart # NoChart /\ lifecycle \in PreRace
    THEN IF AllAssignedReady(ps) THEN "ready" ELSE "chart_locked"
    ELSE lifecycle

ResetForLockedChart(ps) ==
    [s \in Session |->
        [ps[s] EXCEPT !.ready = ps[s].role = "spectator",
                      !.verified = ps[s].role = "spectator",
                      !.validity = "pending"]]

ValidityOrder(v) ==
    CASE v = "valid" -> 3 [] v = "pending" -> 2 [] v = "invalid" -> 1 [] v = "dnf" -> 0

\* s is listed before t: validity, accuracy, progress, then the name.
Precedes(ps, s, t) ==
    LET key(u) == <<ValidityOrder(ps[u].validity), ps[u].accuracy, ps[u].done>>
        differ == {i \in 1 .. 3 : key(s)[i] # key(t)[i]}
    IN  IF differ = {} THEN NameOf[s] < NameOf[t]
        ELSE \E i \in differ : key(s)[i] > key(t)[i] /\ \A j \in differ : i <= j

\* Mutant of Ranked: the ranks of those who do not race are left alone.
RankedOnly(ps) ==
    [s \in Session |->
        [ps[s] EXCEPT !.rank =
            IF IsCompetitor(ps[s])
            THEN 1 + Cardinality({t \in CompetitorsOf(ps) : Precedes(ps, t, s)})
            ELSE @]]

Ranked(ps) ==
    [s \in Session |->
        [ps[s] EXCEPT !.rank =
            IF IsCompetitor(ps[s])
            THEN 1 + Cardinality({t \in CompetitorsOf(ps) : Precedes(ps, t, s)})
            ELSE 0]]

(***************************************************************************)
(* The end of a chart: try_finish_chart on the participants ps and the     *)
(* finalized set fin the caller has just produced.                         *)
(***************************************************************************)
\* Mutant of ChartOver: somebody who left keeps the chart open.
ChartOverIfPresent(ps, fin) ==
    /\ CompetitorsOf(ps) # {} /\ CompetitorsOf(ps) \subseteq fin
    /\ \A s \in CompetitorsOf(ps) : ps[s].connected

\* Mutant of ChartOver: somebody who left is not waited for.
ChartOverForPresent(ps, fin) ==
    /\ CompetitorsOf(ps) # {}
    /\ {s \in CompetitorsOf(ps) : ps[s].connected} \subseteq fin

ChartOver(ps, fin) == CompetitorsOf(ps) # {} /\ CompetitorsOf(ps) \subseteq fin

TryFinishChart(ps, fin) ==
    IF ChartOver(ps, fin)
    THEN /\ lifecycle' = IF active # 0 /\ active >= Len(setlist) /\ setlist # <<>>
                         THEN "set_complete" ELSE "results"
         /\ setlist' = IF active \in DOMAIN setlist
                       THEN [setlist EXCEPT ![active].completed = TRUE] ELSE setlist
    ELSE UNCHANGED <<lifecycle, setlist>>

(***************************************************************************)
(* Init: host_room() with initial_host_room()'s options.                   *)
(***************************************************************************)
Init ==
    /\ phase = "open" /\ lifecycle = "forming"
    /\ mode \in InitMode /\ checks \in InitChecks /\ settings \in Setting
    /\ chart = NoChart /\ setlist = <<>> /\ active = 0
    /\ \E participating \in {TRUE} \cup (IF "roster" \in Features THEN {FALSE} ELSE {}) :
          part = [s \in Session |->
                    IF s # Host THEN Absent
                    ELSE [Entry(IF participating THEN "host" ELSE "spectator", TRUE)
                            EXCEPT !.ready = ~participating,
                                   !.verified = ~participating]]
    /\ finalized = {} /\ started = {}
    /\ activeRun = [s \in Session |-> NoRun]
    /\ retired = [s \in Session |-> <<>>]
    /\ deadlines = {}
    /\ link = [s \in Session |-> "new"]
    /\ counted = [s \in Session |-> 0]
    /\ races = 0

Hosting == phase # "gone"

(***************************************************************************)
(* Transport events of peers.  A peer's link is "up" from Authenticated to *)
(* Disconnected, "down" while its resume token still stands, "revoked"     *)
(* when the host has dropped the connection and the token, "gone" after.   *)
(***************************************************************************)
Revoke(s) ==
    [link EXCEPT ![s] = CASE @ = "up" -> "revoked" [] @ = "down" -> "gone"
                          [] OTHER -> @]

Dialling(s) == Hosting /\ s # Host /\ link[s] \in {"new", "down"}

NameTaken(s) == \E t \in roster : NameOf[t] = NameOf[s]

CanJoin(s, role) ==
    /\ lifecycle \notin Racing \cup {"closed"}
    /\ s \notin roster /\ ~NameTaken(s)
    /\ Cardinality({t \in roster : RacesIn(part[t].role) = RacesIn(role)})
         < IF RacesIn(role) THEN MaxPlayers ELSE MaxSpectators

CanReconnect(s) == lifecycle # "closed" /\ s \in roster /\ ~part[s].connected

Join(s, role) ==
    /\ Dialling(s) /\ CanJoin(s, role)
    /\ part' = [part EXCEPT ![s] = Entry(role, mode = "password_only")]
    /\ link' = [link EXCEPT ![s] = "up"]
    /\ deadlines' = deadlines \ {s}
    /\ UNCHANGED <<phase, lifecycle, policyVars, setVars, finalized, runVars, races>>

Reconnect(s) ==
    /\ Dialling(s) /\ CanReconnect(s)
    /\ part' = [part EXCEPT ![s].connected = TRUE, ![s].ready = FALSE]
    /\ link' = [link EXCEPT ![s] = "up"]
    /\ deadlines' = deadlines \ {s}
    /\ UNCHANGED <<phase, lifecycle, policyVars, setVars, finalized, runVars, races>>

\* request_join_with_id fails: the peer is disconnected without a token.
JoinRefused(s, role) ==
    /\ Dialling(s) /\ ~CanReconnect(s) /\ ~CanJoin(s, role)
    /\ link' = [link EXCEPT ![s] = "revoked"]
    /\ deadlines' = deadlines \ {s}
    /\ UNCHANGED <<phase, lifecycle, policyVars, setVars, part, finalized, runVars,
                   races>>

\* NetworkEvent::Disconnected, room.disconnect().
Disconnect(s) ==
    /\ Hosting
    /\ link[s] = "revoked" \/ (link[s] = "up" /\ "drops" \in Features)
    /\ link' = [link EXCEPT ![s] = IF @ = "up" THEN "down" ELSE "gone"]
    /\ IF s \in roster
       THEN /\ part' = [part EXCEPT ![s].connected = FALSE, ![s].ready = FALSE]
            /\ deadlines' = deadlines \cup {s}
            /\ lifecycle' = Refreshed(part')
       ELSE UNCHANGED <<part, deadlines, lifecycle>>
    /\ UNCHANGED <<phase, policyVars, setVars, finalized, runVars, races>>

(***************************************************************************)
(* Maintenance: expire_due_disconnects and expire_due_unstarted_runs.  The *)
(* session's deadline goes whatever follows.                               *)
(***************************************************************************)
\* Mutant of Forget: the final result stays behind.
ForgetAttempt(s) ==
    /\ started' = started \ {s}
    /\ activeRun' = [activeRun EXCEPT ![s] = NoRun]
    /\ retired' = [retired EXCEPT ![s] = <<>>]
    /\ counted' = [counted EXCEPT ![s] = 0]
    /\ UNCHANGED finalized

\* The run bookkeeping of a participant that leaves the roster.
Forget(s) ==
    /\ started' = started \ {s}
    /\ finalized' = finalized \ {s}
    /\ activeRun' = [activeRun EXCEPT ![s] = NoRun]
    /\ retired' = [retired EXCEPT ![s] = <<>>]
    /\ counted' = [counted EXCEPT ![s] = 0]

\* A racer that stayed away is finalized, as DNF unless it has a worse verdict.
ExpireRacer(s) ==
    LET away == IF part[s].validity \in {"invalid", "dnf"} THEN part[s]
                ELSE [part[s] EXCEPT !.validity = "dnf", !.accuracy = 0]
    IN  /\ lifecycle \in Racing /\ IsCompetitor(part[s]) /\ ~part[s].connected
        /\ finalized' = finalized \cup {s}
        /\ part' = Ranked([part EXCEPT ![s] = away])
        /\ TryFinishChart(part', finalized')
        /\ link' = Revoke(s)
        /\ UNCHANGED <<chart, active, runVars>>

\* Before a race the reservation ends and the entry leaves the roster.
ExpireReservation(s) ==
    /\ lifecycle \in PreRace /\ s \in roster /\ ~part[s].connected
    /\ part' = [part EXCEPT ![s] = Absent]
    /\ Forget(s)
    /\ lifecycle' = Refreshed(part')
    /\ link' = Revoke(s)
    /\ UNCHANGED setVars

\* Otherwise nothing but the deadline goes.
ExpireIdle(s) ==
    /\ ~(lifecycle \in Racing /\ IsCompetitor(part[s]) /\ ~part[s].connected)
    /\ ~(lifecycle \in PreRace /\ s \in roster /\ ~part[s].connected)
    /\ UNCHANGED <<lifecycle, setVars, part, finalized, runVars, link>>

ExpireDisconnect(s) ==
    /\ Hosting /\ s \in deadlines
    /\ deadlines' = deadlines \ {s}
    /\ ExpireRacer(s) \/ ExpireReservation(s) \/ ExpireIdle(s)
    /\ UNCHANGED <<phase, policyVars, races>>

\* Mutant of Unstarted: only those who said they were ready are expected.
UnstartedReady == {s \in Competitors \ (started \cup finalized) : part[s].ready}

Unstarted == Competitors \ (started \cup finalized)

ExpireUnstartedRuns ==
    /\ Hosting /\ lifecycle \in Racing /\ Unstarted # {}
    /\ part' = Ranked([s \in Session |->
                  IF s \in Unstarted
                  THEN [part[s] EXCEPT !.validity = "dnf", !.accuracy = 0]
                  ELSE part[s]])
    /\ finalized' = finalized \cup Unstarted
    /\ TryFinishChart(part', finalized')
    /\ UNCHANGED <<phase, policyVars, chart, active, runVars, netVars, races>>

(***************************************************************************)
(* Host controls over the roster.                                          *)
(***************************************************************************)
HostUses(control) == Hosting /\ control \in Features

\* Mutant of Reseated: commentator access survives the move to a racing role.
ReseatedWithAccess(p, role) == [p EXCEPT !.role = role]

Reseated(p, role) ==
    [p EXCEPT !.role = role, !.commentator = @ /\ role = "spectator"]

Admit(s, role) ==
    /\ HostUses("roster") /\ s \in roster
    /\ lifecycle \notin Racing /\ HasCapacity(s, role)
    /\ part' = [part EXCEPT ![s] = [Reseated(@, role) EXCEPT !.admitted = TRUE,
                                                           !.connected = TRUE]]
    /\ lifecycle' = Refreshed(part')
    /\ UNCHANGED <<phase, policyVars, setVars, finalized, runVars, netVars, races>>

SetRole(s, role) ==
    /\ HostUses("roster") /\ s \in roster \ {Host}
    /\ lifecycle \notin Racing /\ HasCapacity(s, role)
    /\ part' = [part EXCEPT ![s] = [Reseated(@, role) EXCEPT
                                       !.ready = role = "spectator",
                                       !.verified = role = "spectator"]]
    /\ lifecycle' = Refreshed(part')
    /\ UNCHANGED <<phase, policyVars, setVars, finalized, runVars, netVars, races>>

SetHostParticipating(participating) ==
    LET role == IF participating THEN "host" ELSE "spectator"
    IN  /\ HostUses("roster")
        /\ lifecycle \in PreRace /\ HasCapacity(Host, role)
        /\ part' = [part EXCEPT ![Host].role = role,
                                ![Host].ready = ~participating,
                                ![Host].verified = ~participating,
                                ![Host].commentator = FALSE]
        /\ lifecycle' = Refreshed(part')
        /\ UNCHANGED <<phase, policyVars, setVars, finalized, runVars, netVars, races>>

SetCommentatorAccess(s, enabled) ==
    /\ HostUses("roster") /\ s \in roster \ {Host}
    /\ part[s].admitted /\ part[s].role = "spectator"
    /\ part' = [part EXCEPT ![s].commentator = enabled]
    /\ UNCHANGED <<phase, lifecycle, policyVars, setVars, finalized, runVars, netVars,
                   races>>

\* Mutant of MayKick: the host is not spared.
MayKickAnyone(s) == s \in roster /\ ~(part[s].admitted /\ lifecycle \in Racing)

MayKick(s) == s \in roster \ {Host} /\ ~(part[s].admitted /\ lifecycle \in Racing)

\* Also the rejection of a join request, which the application sends here.
Kick(s) ==
    /\ HostUses("roster") /\ MayKick(s)
    /\ part' = [part EXCEPT ![s] = Absent]
    /\ Forget(s)
    /\ deadlines' = deadlines \ {s}
    /\ link' = Revoke(s)
    /\ lifecycle' = Refreshed(part')
    /\ UNCHANGED <<phase, policyVars, setVars, races>>

(***************************************************************************)
(* Host controls over the policy of the race.                              *)
(***************************************************************************)
SetValidityChecks(enabled) ==
    /\ HostUses("policy") /\ lifecycle \in PreRace
    /\ checks' = enabled
    /\ UNCHANGED <<phase, lifecycle, mode, settings, setVars, part, finalized, runVars,
                   netVars, races>>

\* Build matching, modifiers and automatic requests share one guard.
ChangeSetting(value) ==
    /\ HostUses("policy") /\ lifecycle \in PreRace
    /\ settings' = value
    /\ UNCHANGED <<phase, lifecycle, mode, checks, setVars, part, finalized, runVars,
                   netVars, races>>

(***************************************************************************)
(* The chart and the setlist.                                              *)
(***************************************************************************)
SelectChart(c) ==
    /\ chart' = c
    /\ part' = ResetForLockedChart(part)
    /\ lifecycle' = "chart_locked"

LockChart(c) ==
    /\ Hosting /\ lifecycle \notin Racing
    /\ setlist' = <<>> /\ active' = 0
    /\ SelectChart(c)
    /\ UNCHANGED <<phase, policyVars, finalized, runVars, netVars, races>>

AppendChart(c) ==
    LET longer == Append(setlist, [chart |-> c, completed |-> FALSE])
    IN  /\ HostUses("setlist") /\ lifecycle \notin Racing
        /\ Len(setlist) < MaxSetlist
        /\ setlist' = longer
        /\ IF active = 0
           THEN active' = 1 /\ SelectChart(longer[1].chart)
           ELSE /\ lifecycle' = IF lifecycle = "set_complete" THEN "results"
                                                              ELSE lifecycle
                /\ UNCHANGED <<chart, active, part>>
        /\ UNCHANGED <<phase, policyVars, finalized, runVars, netVars, races>>

\* Mutant of ActiveAfterRemoval: the index is not shifted.
ActiveUnshifted(i) == active

ActiveAfterRemoval(i) == IF i < active THEN active - 1 ELSE active

RemoveSetlist(i) ==
    LET shorter == RemoveAt(setlist, i)
        next == IF i <= Len(shorter) THEN i ELSE Len(shorter)
    IN  /\ HostUses("setlist") /\ lifecycle \notin Racing
        /\ i \in DOMAIN setlist
        /\ ~(active = i /\ lifecycle \in {"results", "set_complete"})
        /\ setlist' = shorter
        /\ \/ /\ shorter = <<>>
              /\ active' = 0 /\ chart' = NoChart /\ lifecycle' = "forming"
              /\ UNCHANGED part
           \/ /\ shorter # <<>> /\ active = i
              /\ active' = next
              /\ SelectChart(shorter[next].chart)
           \/ /\ shorter # <<>> /\ active # i
              /\ active' = ActiveAfterRemoval(i)
              /\ UNCHANGED <<lifecycle, chart, part>>
        /\ UNCHANGED <<phase, policyVars, finalized, runVars, netVars, races>>

\* Mutant of Movable: only the active entry itself is protected.
MovableUnlessActive(i) == i # active

Movable(i) == ~setlist[i].completed /\ (active # 0 => i > active)

MoveSetlist(from, to) ==
    /\ HostUses("setlist") /\ lifecycle \notin Racing
    /\ from \in DOMAIN setlist /\ to \in DOMAIN setlist
    /\ Movable(from) /\ Movable(to)
    /\ setlist' = InsertAt(RemoveAt(setlist, from), to, setlist[from])
    /\ UNCHANGED <<phase, lifecycle, policyVars, chart, active, part, finalized,
                   runVars, netVars, races>>

\* The entry is marked completed even when there is nothing to advance to.
AdvanceSetlist ==
    /\ HostUses("setlist") /\ lifecycle = "results" /\ active # 0
    /\ setlist' = [setlist EXCEPT ![active].completed = TRUE]
    /\ IF active < Len(setlist)
       THEN active' = active + 1 /\ SelectChart(setlist[active + 1].chart)
       ELSE UNCHANGED <<active, chart, part, lifecycle>>
    /\ UNCHANGED <<phase, policyVars, finalized, runVars, netVars, races>>

(***************************************************************************)
(* What a session may do itself: the host through its own game, a peer     *)
(* past require_admitted_peer, while its envelopes are still delivered.    *)
(***************************************************************************)
MayAct(s) ==
    /\ Hosting
    /\ s = Host \/ (link[s] \in {"up", "revoked"} /\ part[s].admitted /\ part[s].connected)

SetVerified(s, verified) ==
    /\ MayAct(s) /\ lifecycle \in PreRace
    /\ part' = [part EXCEPT ![s].verified = verified, ![s].ready = @ /\ verified]
    /\ lifecycle' = Refreshed(part')
    /\ UNCHANGED <<phase, policyVars, setVars, finalized, runVars, netVars, races>>

SetReady(s, ready) ==
    /\ MayAct(s) /\ lifecycle \in PreRace
    /\ (part[s].role # "spectator" /\ ready) => part[s].verified
    /\ part' = [part EXCEPT ![s].ready = ready]
    /\ lifecycle' = Refreshed(part')
    /\ UNCHANGED <<phase, policyVars, setVars, finalized, runVars, netVars, races>>

ScheduleStart(force) ==
    /\ Hosting /\ lifecycle \in {"chart_locked", "ready"} /\ chart # NoChart
    /\ \E s \in Competitors : part[s].connected
    /\ force \/ AllAssignedReady(part)
    /\ races < MaxRaces
    /\ races' = races + 1
    /\ lifecycle' = "countdown"
    /\ part' = [s \in Session |->
                  IF ~RacesIn(part[s].role) THEN part[s]
                  ELSE [part[s] EXCEPT !.validity = "pending", !.done = 0,
                           !.missed = 0, !.accuracy = 100, !.rank = 0, !.seq = NoSeq]]
    /\ finalized' = {} /\ started' = {}
    /\ activeRun' = [s \in Session |-> NoRun]
    /\ retired' = [s \in Session |-> <<>>]
    /\ counted' = [s \in Session |-> 0]
    /\ UNCHANGED <<phase, policyVars, setVars, netVars>>

(***************************************************************************)
(* Run events: apply_run_to_room.  An event that start_run or a bound      *)
(* refuses is recorded by reject_run_event.                                *)
(***************************************************************************)
RejectedIn(ps, s) ==
    IF checks /\ lifecycle \in Racing /\ s \notin finalized /\ IsCompetitor(ps[s])
    THEN Ranked([ps EXCEPT ![s].validity = "invalid"])
    ELSE ps

\* Mutant of MayStartRun: the chart need not be verified.
MayStartRunUnverified(s, run) ==
    /\ MayAct(s) /\ lifecycle \in Racing /\ chart # NoChart
    /\ \A i \in DOMAIN retired[s] : retired[s][i] # run
    /\ IsCompetitor(part[s])

MayStartRun(s, run) ==
    /\ MayAct(s) /\ lifecycle \in Racing /\ chart # NoChart
    /\ \A i \in DOMAIN retired[s] : retired[s][i] # run
    /\ IsCompetitor(part[s]) /\ part[s].verified

\* Mutant of NewAttempt: an event of the current run replaces it as well.
AnyAttempt(s, run) == activeRun[s] # NoRun

NewAttempt(s, run) == activeRun[s] \notin {NoRun, run}

\* Mutant of Attempted: a retry is forgiven in every room.
AttemptedAfresh(s, run) ==
    IF NewAttempt(s, run)
    THEN [part[s] EXCEPT !.done = 0, !.missed = 0, !.accuracy = 100, !.rank = 0,
                         !.seq = NoSeq, !.validity = "pending"]
    ELSE part[s]

\* The participant as start_run leaves it.
Attempted(s, run) ==
    IF NewAttempt(s, run)
    THEN [part[s] EXCEPT !.done = 0, !.missed = 0, !.accuracy = 100, !.rank = 0,
                         !.seq = NoSeq,
                         !.validity = IF checks THEN "invalid" ELSE "pending"]
    ELSE part[s]

Retire(ids, run) ==
    Append(IF Len(ids) >= RetireLimit THEN Tail(ids) ELSE ids, run)

\* start_run's effect on everything but the participant.
RecordAttempt(s, run) ==
    /\ activeRun' = [activeRun EXCEPT ![s] = run]
    /\ started' = started \cup {s}
    /\ retired' = IF NewAttempt(s, run)
                  THEN [retired EXCEPT ![s] = Retire(@, activeRun[s])] ELSE retired

CountedBefore(s, run) == IF NewAttempt(s, run) THEN 0 ELSE counted[s]

RunStarted(s, run) ==
    /\ MayStartRun(s, run)
    /\ part' = [part EXCEPT ![s] = Attempted(s, run)]
    /\ RecordAttempt(s, run)
    /\ counted' = [counted EXCEPT ![s] = CountedBefore(s, run)]
    /\ UNCHANGED <<phase, lifecycle, policyVars, setVars, finalized, netVars, races>>

\* Any run event refused before it changes the room: a missing field, a wrong
\* note count, a replaced run id, an unverified sender, a finish without start.
RunEventRefused(s) ==
    /\ MayAct(s)
    /\ part' = RejectedIn(part, s)
    /\ UNCHANGED <<phase, lifecycle, policyVars, setVars, finalized, runVars, netVars,
                   races>>

\* Mutant of Accuracy: the numerator is not clamped at zero.
AccuracyUnclamped(totals) ==
    IF totals.done = 0 THEN 100
    ELSE ((totals.done - totals.missed) * 100) \div totals.done

Accuracy(totals) ==
    IF totals.done = 0 THEN 100
    ELSE IF totals.missed > totals.done THEN 0
    ELSE ((totals.done - totals.missed) * 100) \div totals.done

TotalsAllowed(p, totals) ==
    totals.done \in p.done .. MaxHits /\ totals.missed >= p.missed

\* Mutant of Scored: a gap in the sequence is not noticed.
ScoredWithGaps(p, seq, totals) ==
    [p EXCEPT !.seq = seq, !.done = totals.done, !.missed = totals.missed,
              !.accuracy = Accuracy(totals),
              !.validity = IF @ = "pending" THEN "valid" ELSE @]

Scored(p, seq, totals) ==
    [p EXCEPT !.seq = seq, !.done = totals.done, !.missed = totals.missed,
              !.accuracy = Accuracy(totals),
              !.validity = IF seq # p.seq + 1 /\ checks THEN "invalid"
                           ELSE IF @ = "pending" THEN "valid" ELSE @]

\* A replayed or overtaken score event changes nothing but the attempt.
ScoreStale(s, run, seq) ==
    /\ seq <= Attempted(s, run).seq
    /\ part' = [part EXCEPT ![s] = Attempted(s, run)]
    /\ counted' = [counted EXCEPT ![s] = CountedBefore(s, run)]
    /\ UNCHANGED lifecycle

ScoreRefused(s, run, seq, totals) ==
    /\ seq > Attempted(s, run).seq /\ ~TotalsAllowed(Attempted(s, run), totals)
    /\ part' = RejectedIn([part EXCEPT ![s] = Attempted(s, run)], s)
    /\ counted' = [counted EXCEPT ![s] = CountedBefore(s, run)]
    /\ UNCHANGED lifecycle

ScoreCounted(s, run, seq, totals) ==
    /\ seq > Attempted(s, run).seq /\ TotalsAllowed(Attempted(s, run), totals)
    /\ part' = Ranked([part EXCEPT ![s] = Scored(Attempted(s, run), seq, totals)])
    /\ counted' = [counted EXCEPT ![s] = CountedBefore(s, run) + 1]
    /\ lifecycle' = "playing"

IngestScore(s, run, seq, totals) ==
    /\ MayStartRun(s, run)
    /\ RecordAttempt(s, run)
    /\ \/ ScoreStale(s, run, seq)
       \/ ScoreRefused(s, run, seq, totals)
       \/ ScoreCounted(s, run, seq, totals)
    /\ UNCHANGED <<phase, policyVars, setVars, finalized, netVars, races>>

\* run.invalid of the session's current attempt, or of one never announced.
Invalidate(s, run, dnf) ==
    /\ MayAct(s) /\ lifecycle \in Racing
    /\ ~NewAttempt(s, run) /\ IsCompetitor(part[s])
    /\ checks \/ dnf
    /\ activeRun' = [activeRun EXCEPT ![s] = run]
    /\ started' = started \cup {s}
    /\ part' = Ranked([part EXCEPT ![s].validity = IF dnf THEN "dnf" ELSE "invalid"])
    /\ UNCHANGED <<phase, lifecycle, policyVars, setVars, finalized, retired, counted,
                   netVars, races>>

Finished(p) ==
    IF p.validity = "valid" /\ p.done = MaxHits
    THEN [p EXCEPT !.setTotal = @ + p.accuracy]
    ELSE IF p.validity = "invalid" THEN p
    ELSE [p EXCEPT !.validity = "dnf", !.accuracy = 0]

\* Mutant of MayFinish: a second run.finished is counted again.
MayFinishAgain(s, run) ==
    /\ MayAct(s) /\ IsCompetitor(part[s])
    /\ ~NewAttempt(s, run) /\ s \in started

\* A started run is asked for, a race in progress is not.
MayFinish(s, run) ==
    /\ MayAct(s) /\ IsCompetitor(part[s]) /\ s \notin finalized
    /\ ~NewAttempt(s, run) /\ s \in started

FinishRun(s, run) ==
    /\ MayFinish(s, run)
    /\ part' = [part EXCEPT ![s] = Finished(@)]
    /\ finalized' = finalized \cup {s}
    /\ TryFinishChart(part', finalized')
    /\ UNCHANGED <<phase, policyVars, chart, active, runVars, netVars, races>>

(***************************************************************************)
(* close_room: close() under the lock, then awaits while is_host is still  *)
(* set, then is_host is cleared.                                           *)
(***************************************************************************)
Close ==
    /\ phase = "open" /\ "close" \in Features
    /\ phase' = "closing" /\ lifecycle' = "closed" /\ deadlines' = {}
    /\ UNCHANGED <<policyVars, setVars, part, finalized, runVars, link, races>>

StopHosting ==
    /\ phase = "closing" /\ phase' = "gone"
    /\ UNCHANGED <<lifecycle, policyVars, setVars, part, finalized, runVars, netVars,
                   races>>

-----------------------------------------------------------------------------
Transport(s) ==
    \/ \E role \in RequestedRole : Join(s, role) \/ JoinRefused(s, role)
    \/ Reconnect(s)
    \/ Disconnect(s)

Maintenance == ExpireUnstartedRuns \/ \E s \in Session : ExpireDisconnect(s)

RosterControl ==
    \/ \E s \in Session, role \in RequestedRole : Admit(s, role) \/ SetRole(s, role)
    \/ \E s \in Session : Kick(s)
    \/ \E s \in Session, on \in BOOLEAN : SetCommentatorAccess(s, on)
    \/ \E on \in BOOLEAN : SetHostParticipating(on)

RoomControl ==
    \/ \E on \in BOOLEAN : SetValidityChecks(on) \/ ScheduleStart(on)
    \/ \E value \in Setting : ChangeSetting(value)
    \/ \E c \in Chart : LockChart(c) \/ AppendChart(c)
    \/ \E i \in DOMAIN setlist : RemoveSetlist(i)
    \/ \E i, j \in DOMAIN setlist : MoveSetlist(i, j)
    \/ AdvanceSetlist
    \/ Close
    \/ StopHosting

Preparation(s) == \E on \in BOOLEAN : SetVerified(s, on) \/ SetReady(s, on)

RunEvent(s) ==
    \/ RunEventRefused(s)
    \/ \E run \in Run :
          \/ RunStarted(s, run) \/ FinishRun(s, run)
          \/ \E dnf \in BOOLEAN : Invalidate(s, run, dnf)
          \/ \E seq \in 0 .. MaxSeq, totals \in Totals : IngestScore(s, run, seq, totals)

Next ==
    \/ Maintenance \/ RosterControl \/ RoomControl
    \/ \E s \in Session : Transport(s) \/ Preparation(s) \/ RunEvent(s)

Spec == Init /\ [][Next]_vars

\* The maintenance loop of main.rs scans once a second for as long as the
\* process runs; nothing else in the room is obliged to happen.
Fairness ==
    /\ WF_vars(ExpireUnstartedRuns)
    /\ \A s \in Session : WF_vars(ExpireDisconnect(s))

FairSpec == Spec /\ Fairness
=============================================================================
