------------------------------ MODULE RoomProofs ------------------------------
(***************************************************************************)
(* Proofs about RoomEngine for every roster, name order, limit and chart.  *)
(* First its types and the contract of a race; then the setlist, the       *)
(* results and the roster: for every list the host builds and every race   *)
(* played from it, the locked chart is the active entry, and the entries   *)
(* are played in order; for every order in which score events, retries,    *)
(* drops, reconnects and host controls come in, a valid result is a whole  *)
(* attempt, and the roster stays of one piece.                             *)
(***************************************************************************)
EXTENDS RoomProperties, FiniteSetTheorems, TLAPS

Participants == [Session -> Participant]

-----------------------------------------------------------------------------
(***************************************************************************)
(* What the helpers of the room return.                                    *)
(***************************************************************************)
LEMMA Bounds ==
    /\ MaxHits \in Nat /\ MaxHits + 1 \in Nat /\ MaxSeq \in Nat
    /\ 0 \in Nat /\ 0 \in 0 .. MaxHits /\ 0 \in 0 .. MaxHits + 1
    /\ 0 \in 0 .. 100 /\ 100 \in 0 .. 100
    /\ NoSeq \in NoSeq .. MaxSeq /\ 0 .. MaxSeq \subseteq NoSeq .. MaxSeq
  BY LimitAssumption DEF NoSeq

LEMMA EntryType ==
    ASSUME NEW role \in Role \cup {"none"}, NEW admitted \in BOOLEAN
    PROVE  Entry(role, admitted) \in Participant
  BY Bounds DEF Entry, Participant, Validity

LEMMA AbsentType == Absent \in Participant
<1>1. Entry("none", FALSE) \in Participant
  BY EntryType
<1> QED
  BY <1>1 DEF Absent, Participant

LEMMA RankedType ==
    ASSUME NEW ps \in Participants
    PROVE  Ranked(ps) \in Participants
<1>1. ASSUME NEW s \in Session
      PROVE  Cardinality({t \in CompetitorsOf(ps) : Precedes(ps, t, s)}) \in Nat
  <2>1. {t \in CompetitorsOf(ps) : Precedes(ps, t, s)} \subseteq Session
    BY DEF CompetitorsOf
  <2> QED
    BY <2>1, SessionAssumption, FS_Subset, FS_CardinalityType
<1>2. ASSUME NEW s \in Session, NEW n \in Nat
      PROVE  [ps[s] EXCEPT !.rank = n] \in Participant
  BY DEF Participants, Participant
<1> QED
  BY <1>1, <1>2, Bounds DEF Ranked, Participants

LEMMA ResetType ==
    ASSUME NEW ps \in Participants
    PROVE  ResetForLockedChart(ps) \in Participants
<1>1. ASSUME NEW s \in Session
      PROVE  [ps[s] EXCEPT !.ready = ps[s].role = "spectator",
                           !.verified = ps[s].role = "spectator",
                           !.validity = "pending"] \in Participant
  <2>1. ps[s] \in Participant /\ (ps[s].role = "spectator") \in BOOLEAN
    BY DEF Participants
  <2> QED
    BY <2>1 DEF Participant, Validity
<1> QED
  BY <1>1 DEF ResetForLockedChart, Participants

LEMMA ReseatedType ==
    ASSUME NEW p \in Participant, NEW role \in Role
    PROVE  Reseated(p, role) \in Participant
<1>1. (p.commentator /\ role = "spectator") \in BOOLEAN
  OBVIOUS
<1> QED
  BY <1>1 DEF Reseated, Participant

LEMMA AccuracyType ==
    ASSUME NEW totals, totals.done \in 0 .. MaxHits, totals.missed \in 0 .. MaxHits + 1
    PROVE  Accuracy(totals) \in 0 .. 100
<1> DEFINE done == totals.done
           missed == totals.missed
           score == (done - missed) * 100
<1>1. CASE done = 0 \/ missed > done
  BY <1>1, Bounds DEF Accuracy
<1>2. CASE done # 0 /\ ~(missed > done)
  <2>1. done \in Nat \ {0} /\ missed \in Nat
    BY <1>2, Bounds
  <2>2. score \in 0 .. 100 * done
    BY <2>1, <1>2
  <2>3. score \div done \in 0 .. 100
    <3> HIDE DEF score, done
    <3> QED
      BY <2>1, <2>2
  <2> QED
    BY <2>3, <1>2 DEF Accuracy
<1> QED
  BY <1>1, <1>2

LEMMA AttemptedType ==
    ASSUME TypeOK, NEW s \in Session, NEW run \in Run
    PROVE  Attempted(s, run) \in Participant
<1>1. part[s] \in Participant /\ (IF checks THEN "invalid" ELSE "pending") \in Validity
  BY DEF TypeOK, Validity
<1>2. ASSUME NEW v \in Validity
      PROVE  [part[s] EXCEPT !.done = 0, !.missed = 0, !.accuracy = 100, !.rank = 0,
                             !.seq = NoSeq, !.validity = v] \in Participant
  BY <1>1, Bounds DEF Participant
<1> QED
  BY <1>1, <1>2 DEF Attempted

LEMMA ScoredType ==
    ASSUME NEW p \in Participant, NEW seq \in 0 .. MaxSeq, NEW totals \in Totals,
           TotalsAllowed(p, totals)
    PROVE  Scored(p, seq, totals) \in Participant
<1>1. /\ totals.done \in 0 .. MaxHits /\ totals.missed \in 0 .. MaxHits + 1
      /\ seq \in NoSeq .. MaxSeq
  BY Bounds DEF TotalsAllowed, Totals, Participant
<1>2. Accuracy(totals) \in 0 .. 100
  BY <1>1, AccuracyType
<1>3. \A v \in Validity : (IF seq # p.seq + 1 /\ checks THEN "invalid"
                           ELSE IF v = "pending" THEN "valid" ELSE v) \in Validity
  BY DEF Validity
<1> QED
  BY <1>1, <1>2, <1>3 DEF Scored, Participant

LEMMA FinishedType ==
    ASSUME NEW p \in Participant
    PROVE  Finished(p) \in Participant
<1>1. [p EXCEPT !.setTotal = @ + p.accuracy] \in Participant
  <2>1. p.setTotal + p.accuracy \in Nat
    BY DEF Participant
  <2> QED
    BY <2>1 DEF Participant
<1>2. [p EXCEPT !.validity = "dnf", !.accuracy = 0] \in Participant
  BY Bounds DEF Participant, Validity
<1>3. Finished(p) \in {p, [p EXCEPT !.setTotal = @ + p.accuracy],
                       [p EXCEPT !.validity = "dnf", !.accuracy = 0]}
  BY DEF Finished
<1> QED
  BY <1>1, <1>2, <1>3

LEMMA RefreshedType ==
    ASSUME TypeOK, NEW ps
    PROVE  Refreshed(ps) \in Lifecycle
  BY DEF Refreshed, TypeOK, Lifecycle, PreRace

LEMMA RevokeType ==
    ASSUME TypeOK, NEW s \in Session
    PROVE  Revoke(s) \in [Session -> Link]
<1>1. (CASE link[s] = "up" -> "revoked" [] link[s] = "down" -> "gone"
         [] OTHER -> link[s]) \in Link
  BY DEF TypeOK, NetTypes, Link
<1> QED
  BY <1>1 DEF Revoke, TypeOK, NetTypes

LEMMA ForgetType ==
    ASSUME TypeOK, NEW s \in Session, Forget(s)
    PROVE  RunTypes'
<1>1. <<>> \in Seq(Run) /\ 0 \in Nat
  OBVIOUS
<1> QED
  BY <1>1 DEF Forget, TypeOK, RunTypes

LEMMA EditedSeq ==
    ASSUME NEW S, NEW seq \in Seq(S), NEW i \in DOMAIN seq, NEW e \in S
    PROVE  [seq EXCEPT ![i] = e] \in Seq(S)
  OBVIOUS

LEMMA CompletedEntry ==
    ASSUME TypeOK, NEW i \in DOMAIN setlist
    PROVE  [setlist EXCEPT ![i].completed = TRUE] \in Seq(SetlistEntry)
<1>1. setlist \in Seq(SetlistEntry)
  BY DEF TypeOK, SetTypes
<1>2. setlist[i] \in SetlistEntry
  BY <1>1
<1>3. [setlist[i] EXCEPT !.completed = TRUE] \in SetlistEntry
  BY <1>2 DEF SetlistEntry
<1> QED
  BY <1>1, <1>3, EditedSeq

LEMMA FinishChartType ==
    ASSUME TypeOK, NEW ps, NEW fin, TryFinishChart(ps, fin)
    PROVE  lifecycle' \in Lifecycle /\ setlist' \in Seq(SetlistEntry)
  BY CompletedEntry DEF TryFinishChart, TypeOK, SetTypes, Lifecycle, Racing, PreRace

LEMMA RecordType ==
    ASSUME TypeOK, NEW s \in Session, NEW run \in Run, RecordAttempt(s, run)
    PROVE  /\ started' \subseteq Session
           /\ activeRun' \in [Session -> Run \cup {NoRun}]
           /\ retired' \in [Session -> Seq(Run)]
           /\ CountedBefore(s, run) \in Nat
<1>1. ASSUME NewAttempt(s, run)
      PROVE  Retire(retired[s], activeRun[s]) \in Seq(Run)
  <2>1. retired[s] \in Seq(Run) /\ activeRun[s] \in Run /\ RetireLimit \in Nat \ {0}
    BY <1>1, LimitAssumption DEF NewAttempt, TypeOK, RunTypes
  <2> QED
    BY <2>1 DEF Retire
<1> QED
  BY <1>1, Bounds DEF RecordAttempt, CountedBefore, TypeOK, RunTypes

LEMMA SelectType ==
    ASSUME TypeOK, NEW c \in Chart, SelectChart(c)
    PROVE  chart' \in Chart \cup {NoChart} /\ part' \in Participants /\ lifecycle' \in Lifecycle
  BY ResetType DEF SelectChart, TypeOK, Participants, Lifecycle, PreRace

-----------------------------------------------------------------------------
(***************************************************************************)
(* Type correctness, one step for each action.                             *)
(***************************************************************************)
LEMMA TypeInit == Init => TypeOK
<1> SUFFICES ASSUME Init
             PROVE  TypeOK
  OBVIOUS
<1>1. part \in Participants
  <2>1. PICK on \in BOOLEAN :
           part = [s \in Session |->
                     IF s # Host THEN Absent
                     ELSE [Entry(IF on THEN "host" ELSE "spectator", TRUE)
                             EXCEPT !.ready = ~on, !.verified = ~on]]
    BY DEF Init
  <2>2. Entry(IF on THEN "host" ELSE "spectator", TRUE) \in Participant
    BY EntryType DEF Role
  <2>3. [Entry(IF on THEN "host" ELSE "spectator", TRUE)
           EXCEPT !.ready = ~on, !.verified = ~on] \in Participant
    BY <2>2 DEF Participant
  <2> QED
    BY <2>1, <2>3, AbsentType DEF Participants
<1>2. RunTypes /\ NetTypes
  BY Bounds DEF Init, RunTypes, NetTypes, Link
<1>3. PolicyTypes /\ SetTypes
  BY OptionAssumption DEF Init, PolicyTypes, SetTypes
<1> QED
  BY <1>1, <1>2, <1>3, Bounds DEF Init, TypeOK, Participants, Lifecycle, PreRace

\* The variables a transport event changes.
LEMMA TypeTransport ==
    ASSUME TypeOK, NEW s \in Session, Transport(s)
    PROVE  TypeOK'
<1> USE DEF policyVars, setVars, runVars, netVars
<1>1. ASSUME NEW role \in RequestedRole, Join(s, role)
      PROVE  TypeOK'
  <2>1. Entry(role, mode = "password_only") \in Participant
    BY EntryType DEF RequestedRole, NormalizedRole, Role
  <2>2. part' \in Participants
    BY <1>1, <2>1 DEF Join, TypeOK, Participants
  <2>3. NetTypes'
    BY <1>1 DEF Join, TypeOK, NetTypes, Link
  <2> QED
    BY <1>1, <2>2, <2>3 DEF Join, TypeOK, Participants, PolicyTypes, SetTypes, RunTypes
<1>2. ASSUME NEW role \in RequestedRole, JoinRefused(s, role)
      PROVE  TypeOK'
  <2>1. NetTypes'
    BY <1>2 DEF JoinRefused, TypeOK, NetTypes, Link
  <2> QED
    BY <1>2, <2>1 DEF JoinRefused, TypeOK, PolicyTypes, SetTypes, RunTypes
<1>3. ASSUME Reconnect(s)
      PROVE  TypeOK'
  <2>1. part' \in Participants
    <3>1. part[s] \in Participant
      BY DEF TypeOK
    <3>2. [part[s] EXCEPT !.connected = TRUE, !.ready = FALSE] \in Participant
      BY <3>1 DEF Participant
    <3>3. part' = [part EXCEPT ![s] = [part[s] EXCEPT !.connected = TRUE, !.ready = FALSE]]
      BY <1>3 DEF Reconnect, TypeOK
    <3> QED
      BY <3>2, <3>3 DEF TypeOK, Participants
  <2>2. NetTypes'
    BY <1>3 DEF Reconnect, TypeOK, NetTypes, Link
  <2> QED
    BY <1>3, <2>1, <2>2 DEF Reconnect, TypeOK, Participants, PolicyTypes, SetTypes, RunTypes
<1>4. ASSUME Disconnect(s)
      PROVE  TypeOK'
  <2>1. part' \in Participants
    <3>1. part[s] \in Participant
      BY DEF TypeOK
    <3>2. [part[s] EXCEPT !.connected = FALSE, !.ready = FALSE] \in Participant
      BY <3>1 DEF Participant
    <3>3. part' \in {part, [part EXCEPT ![s] = [part[s] EXCEPT !.connected = FALSE,
                                                             !.ready = FALSE]]}
      BY <1>4 DEF Disconnect, TypeOK
    <3> QED
      BY <3>2, <3>3 DEF TypeOK, Participants
  <2>2. NetTypes'
    BY <1>4 DEF Disconnect, TypeOK, NetTypes, Link
  <2>3. lifecycle' \in Lifecycle
    BY <1>4, RefreshedType DEF Disconnect, TypeOK
  <2> QED
    BY <1>4, <2>1, <2>2, <2>3
    DEF Disconnect, TypeOK, Participants, PolicyTypes, SetTypes, RunTypes
<1> QED
  BY <1>1, <1>2, <1>3, <1>4 DEF Transport

\* Expiries: a racer settled as DNF, a reservation given up, or neither.
LEMMA TypeMaintenance ==
    ASSUME TypeOK, Maintenance
    PROVE  TypeOK'
<1> USE DEF policyVars, setVars, runVars, netVars
<1>1. ASSUME NEW s \in Session
      PROVE  [part[s] EXCEPT !.validity = "dnf", !.accuracy = 0] \in Participant
  <2>1. part[s] \in Participant
    BY DEF TypeOK
  <2> QED
    BY <2>1, Bounds DEF Participant, Validity
<1>2. ASSUME ExpireUnstartedRuns
      PROVE  TypeOK'
  <2> DEFINE ps == [s \in Session |->
                      IF s \in Unstarted
                      THEN [part[s] EXCEPT !.validity = "dnf", !.accuracy = 0]
                      ELSE part[s]]
  <2>1. ps \in Participants
    BY <1>1 DEF TypeOK, Participants
  <2>2. part' \in Participants
    BY <1>2, <2>1, RankedType DEF ExpireUnstartedRuns
  <2>3. lifecycle' \in Lifecycle /\ setlist' \in Seq(SetlistEntry)
    BY <1>2, FinishChartType DEF ExpireUnstartedRuns
  <2>4. Unstarted \subseteq Session
    BY DEF Unstarted, Competitors, CompetitorsOf
  <2> QED
    BY <1>2, <2>2, <2>3, <2>4
    DEF ExpireUnstartedRuns, TypeOK, Participants, PolicyTypes, SetTypes, RunTypes, NetTypes
<1>3. ASSUME NEW s \in Session, ExpireDisconnect(s), ExpireRacer(s)
      PROVE  TypeOK'
  <2> DEFINE away == IF part[s].validity \in {"invalid", "dnf"} THEN part[s]
                     ELSE [part[s] EXCEPT !.validity = "dnf", !.accuracy = 0]
             ps == [part EXCEPT ![s] = away]
  <2>1. ps \in Participants
    BY <1>1 DEF TypeOK, Participants
  <2>2. part' = Ranked(ps)
    BY <1>3 DEF ExpireRacer
  <2>3. part' \in Participants
    <3> HIDE DEF ps
    <3> QED
      BY <2>1, <2>2, RankedType
  <2>4. lifecycle' \in Lifecycle /\ setlist' \in Seq(SetlistEntry)
    BY <1>3, FinishChartType DEF ExpireRacer
  <2>5. link' \in [Session -> Link]
    BY <1>3, RevokeType DEF ExpireRacer
  <2> QED
    BY <1>3, <2>3, <2>4, <2>5
    DEF ExpireDisconnect, ExpireRacer, TypeOK, Participants, PolicyTypes, SetTypes,
        RunTypes, NetTypes
<1>4. ASSUME NEW s \in Session, ExpireDisconnect(s), ExpireReservation(s)
      PROVE  TypeOK'
  <2>1. part' \in Participants
    BY <1>4, AbsentType DEF ExpireReservation, TypeOK, Participants
  <2>2. RunTypes'
    BY <1>4, ForgetType DEF ExpireReservation
  <2>3. lifecycle' \in Lifecycle
    BY <1>4, RefreshedType DEF ExpireReservation
  <2>4. link' \in [Session -> Link]
    BY <1>4, RevokeType DEF ExpireReservation
  <2> QED
    BY <1>4, <2>1, <2>2, <2>3, <2>4
    DEF ExpireDisconnect, ExpireReservation, TypeOK, Participants, PolicyTypes, SetTypes,
        NetTypes
<1>5. ASSUME NEW s \in Session, ExpireDisconnect(s), ExpireIdle(s)
      PROVE  TypeOK'
  BY <1>5 DEF ExpireDisconnect, ExpireIdle, TypeOK, PolicyTypes, SetTypes, RunTypes, NetTypes
<1> QED
  BY <1>2, <1>3, <1>4, <1>5 DEF Maintenance, ExpireDisconnect

\* Host controls over who takes part, and as what.
LEMMA TypeRoster ==
    ASSUME TypeOK, RosterControl
    PROVE  TypeOK'
<1> USE DEF policyVars, setVars, runVars, netVars, HostUses
<1>1. ASSUME NEW s \in Session, NEW p \in Participant, part' = [part EXCEPT ![s] = p]
      PROVE  part' \in Participants
  BY <1>1 DEF TypeOK, Participants
<1>2. \A s \in Session : part[s] \in Participant
  BY DEF TypeOK
<1>3. RequestedRole \subseteq Role /\ {"host", "spectator"} \subseteq Role
  BY DEF RequestedRole, NormalizedRole, Role
<1>4. ASSUME NEW s \in Session, NEW role \in Role, Admit(s, role)
      PROVE  TypeOK'
  <2> DEFINE p == [Reseated(part[s], role) EXCEPT !.admitted = TRUE, !.connected = TRUE]
  <2>1. Reseated(part[s], role) \in Participant
    BY <1>2, ReseatedType
  <2>2. p \in Participant
    BY <2>1 DEF Participant
  <2>3. part' \in Participants
    BY <1>1, <1>4, <2>2 DEF Admit
  <2>4. lifecycle' \in Lifecycle
    BY <1>4, RefreshedType DEF Admit
  <2> QED
    BY <1>4, <2>3, <2>4
    DEF Admit, TypeOK, Participants, PolicyTypes, SetTypes, RunTypes, NetTypes
<1>5. ASSUME NEW s \in Session, NEW role \in Role, SetRole(s, role)
      PROVE  TypeOK'
  <2> DEFINE p == [Reseated(part[s], role) EXCEPT !.ready = role = "spectator",
                                                  !.verified = role = "spectator"]
  <2>1. Reseated(part[s], role) \in Participant /\ (role = "spectator") \in BOOLEAN
    BY <1>2, ReseatedType
  <2>2. p \in Participant
    BY <2>1 DEF Participant
  <2>3. part' \in Participants
    BY <1>1, <1>5, <2>2 DEF SetRole
  <2>4. lifecycle' \in Lifecycle
    BY <1>5, RefreshedType DEF SetRole
  <2> QED
    BY <1>5, <2>3, <2>4
    DEF SetRole, TypeOK, Participants, PolicyTypes, SetTypes, RunTypes, NetTypes
<1>6. ASSUME NEW on \in BOOLEAN, SetHostParticipating(on)
      PROVE  TypeOK'
  <2> DEFINE role == IF on THEN "host" ELSE "spectator"
             p == [part[Host] EXCEPT !.role = role, !.ready = ~on, !.verified = ~on,
                                     !.commentator = FALSE]
  <2>1. role \in Role /\ part[Host] \in Participant
    BY <1>2, <1>3, SessionAssumption
  <2>2. p \in Participant
    <3> HIDE DEF role
    <3> QED
      BY <2>1 DEF Participant
  <2>3. part' = [part EXCEPT ![Host] = p]
    BY <1>6 DEF SetHostParticipating, TypeOK
  <2>4. part' \in Participants
    BY <1>1, <2>2, <2>3, SessionAssumption
  <2>5. lifecycle' \in Lifecycle
    BY <1>6, RefreshedType DEF SetHostParticipating
  <2> QED
    BY <1>6, <2>4, <2>5
    DEF SetHostParticipating, TypeOK, Participants, PolicyTypes, SetTypes, RunTypes, NetTypes
<1>7. ASSUME NEW s \in Session, NEW on \in BOOLEAN, SetCommentatorAccess(s, on)
      PROVE  TypeOK'
  <2>1. [part[s] EXCEPT !.commentator = on] \in Participant
    BY <1>2 DEF Participant
  <2>2. part' \in Participants
    BY <1>1, <1>7, <2>1 DEF SetCommentatorAccess
  <2> QED
    BY <1>7, <2>2
    DEF SetCommentatorAccess, TypeOK, Participants, PolicyTypes, SetTypes, RunTypes, NetTypes
<1>8. ASSUME NEW s \in Session, Kick(s)
      PROVE  TypeOK'
  <2>1. part' \in Participants
    BY <1>1, <1>8, AbsentType DEF Kick
  <2>2. RunTypes'
    BY <1>8, ForgetType DEF Kick
  <2>3. lifecycle' \in Lifecycle /\ link' \in [Session -> Link]
    BY <1>8, RefreshedType, RevokeType DEF Kick
  <2> QED
    BY <1>8, <2>1, <2>2, <2>3
    DEF Kick, TypeOK, Participants, PolicyTypes, SetTypes, NetTypes
<1> QED
  BY <1>3, <1>4, <1>5, <1>6, <1>7, <1>8 DEF RosterControl

\* Removing and inserting keep the entries of a setlist.
LEMMA EditedSetlist ==
    ASSUME NEW S, NEW seq \in Seq(S), NEW i \in DOMAIN seq, NEW e \in S
    PROVE  /\ RemoveAt(seq, i) \in Seq(S)
           /\ \A j \in DOMAIN seq : InsertAt(RemoveAt(seq, i), j, e) \in Seq(S)
<1>1. RemoveAt(seq, i) \in Seq(S) /\ Len(RemoveAt(seq, i)) = Len(seq) - 1
  BY DEF RemoveAt
<1>2. ASSUME NEW other \in Seq(S), NEW j \in DOMAIN seq, Len(other) = Len(seq) - 1
      PROVE  InsertAt(other, j, e) \in Seq(S)
  BY <1>2 DEF InsertAt
<1> QED
  BY <1>1, <1>2

\* Host controls over the policy, the setlist and the race.
LEMMA TypeControl ==
    ASSUME TypeOK, RoomControl
    PROVE  TypeOK'
<1> USE DEF policyVars, setVars, runVars, netVars, HostUses
<1>1. setlist \in Seq(SetlistEntry) /\ active \in Nat
  BY DEF TypeOK, SetTypes
<1>2. ASSUME NEW on \in BOOLEAN, SetValidityChecks(on)
      PROVE  TypeOK'
  BY <1>2 DEF SetValidityChecks, TypeOK, PolicyTypes, SetTypes, RunTypes, NetTypes
<1>3. ASSUME NEW value \in Setting, ChangeSetting(value)
      PROVE  TypeOK'
  BY <1>3 DEF ChangeSetting, TypeOK, PolicyTypes, SetTypes, RunTypes, NetTypes
<1>4. ASSUME NEW on \in BOOLEAN, ScheduleStart(on)
      PROVE  TypeOK'
  <2>1. ASSUME NEW s \in Session
        PROVE  [part[s] EXCEPT !.validity = "pending", !.done = 0, !.missed = 0,
                  !.accuracy = 100, !.rank = 0, !.seq = NoSeq] \in Participant
    <3>1. part[s] \in Participant
      BY DEF TypeOK
    <3> QED
      BY <3>1, Bounds DEF Participant, Validity
  <2>2. part' \in Participants
    BY <1>4, <2>1 DEF ScheduleStart, TypeOK, Participants
  <2>3. /\ finalized' = {} /\ started' = {}
        /\ activeRun' = [s \in Session |-> NoRun]
        /\ retired' = [s \in Session |-> <<>>]
        /\ counted' = [s \in Session |-> 0]
        /\ lifecycle' = "countdown" /\ races' = races + 1
    BY <1>4 DEF ScheduleStart
  <2>4. RunTypes'
    BY <2>3, Bounds DEF RunTypes
  <2>5. lifecycle' \in Lifecycle /\ races' \in Nat
    BY <2>3 DEF TypeOK, Lifecycle, Racing
  <2> QED
    BY <1>4, <2>2, <2>4, <2>5
    DEF ScheduleStart, TypeOK, Participants, PolicyTypes, SetTypes, NetTypes
<1>5. ASSUME NEW c \in Chart, LockChart(c)
      PROVE  TypeOK'
  BY <1>5, SelectType
  DEF LockChart, TypeOK, Participants, PolicyTypes, SetTypes, RunTypes, NetTypes
<1>6. ASSUME NEW c \in Chart, AppendChart(c)
      PROVE  TypeOK'
  <2> DEFINE longer == Append(setlist, [chart |-> c, completed |-> FALSE])
  <2>1. [chart |-> c, completed |-> FALSE] \in SetlistEntry
    BY DEF SetlistEntry
  <2>2. longer \in Seq(SetlistEntry) /\ longer[1] \in SetlistEntry
    BY <1>1, <2>1
  <2>3. longer[1].chart \in Chart
    BY <2>2 DEF SetlistEntry
  <2>4. /\ chart' \in Chart \cup {NoChart} /\ active' \in Nat
        /\ part' \in Participants /\ lifecycle' \in Lifecycle
    <3>1. CASE active = 0
      BY <1>6, <2>3, <3>1, SelectType DEF AppendChart
    <3>2. CASE active # 0
      BY <1>6, <3>2 DEF AppendChart, TypeOK, Participants, SetTypes, Lifecycle
    <3> QED
      BY <3>1, <3>2
  <2> QED
    BY <1>6, <2>2, <2>4
    DEF AppendChart, TypeOK, Participants, PolicyTypes, SetTypes, RunTypes, NetTypes
<1>7. ASSUME NEW i \in DOMAIN setlist, RemoveSetlist(i)
      PROVE  TypeOK'
  <2> DEFINE shorter == RemoveAt(setlist, i)
             next == IF i <= Len(shorter) THEN i ELSE Len(shorter)
  <2>1. PICK e \in SetlistEntry : TRUE
    BY <1>1
  <2>2. shorter \in Seq(SetlistEntry) /\ i \in Nat \ {0}
    BY <1>1, <2>1, EditedSetlist
  <2>3. ASSUME shorter # <<>>
        PROVE  next \in Nat /\ shorter[next].chart \in Chart
    <3>1. next \in DOMAIN shorter /\ next \in Nat
      <4> HIDE DEF shorter
      <4> QED
        BY <2>2, <2>3
    <3>2. shorter[next] \in SetlistEntry
      <4> HIDE DEF shorter, next
      <4> QED
        BY <2>2, <3>1
    <3> QED
      BY <3>1, <3>2 DEF SetlistEntry
  <2>4. /\ chart' \in Chart \cup {NoChart} /\ active' \in Nat
        /\ part' \in Participants /\ lifecycle' \in Lifecycle
    <3>1. CASE shorter = <<>>
      BY <1>7, <3>1 DEF RemoveSetlist, TypeOK, Participants, Lifecycle, PreRace
    <3>2. CASE shorter # <<>> /\ active = i
      BY <1>7, <2>3, <3>2, SelectType DEF RemoveSetlist
    <3>3. CASE shorter # <<>> /\ active # i
      BY <1>1, <1>7, <2>2, <3>3
      DEF RemoveSetlist, ActiveAfterRemoval, TypeOK, Participants, SetTypes
    <3> QED
      BY <3>1, <3>2, <3>3
  <2> QED
    BY <1>7, <2>2, <2>4
    DEF RemoveSetlist, TypeOK, Participants, PolicyTypes, SetTypes, RunTypes, NetTypes
<1>8. ASSUME NEW i \in DOMAIN setlist, NEW j \in DOMAIN setlist, MoveSetlist(i, j)
      PROVE  TypeOK'
  <2>1. setlist[i] \in SetlistEntry
    BY <1>1
  <2>2. setlist' \in Seq(SetlistEntry)
    BY <1>1, <1>8, <2>1, EditedSetlist DEF MoveSetlist
  <2> QED
    BY <1>8, <2>2 DEF MoveSetlist, TypeOK, PolicyTypes, SetTypes, RunTypes, NetTypes
<1>9. ASSUME AdvanceSetlist
      PROVE  TypeOK'
  <2>1. setlist' \in Seq(SetlistEntry)
    <3>1. CASE active \in DOMAIN setlist
      BY <1>9, <3>1, CompletedEntry DEF AdvanceSetlist
    <3>2. CASE active \notin DOMAIN setlist
      <4>1. \A e : [setlist EXCEPT ![active] = e] = setlist
        BY <1>1, <3>2
      <4> QED
        BY <1>1, <1>9, <4>1 DEF AdvanceSetlist
    <3> QED
      BY <3>1, <3>2
  <2>2. CASE active < Len(setlist)
    <3>1. setlist[active + 1] \in SetlistEntry
      BY <1>1, <2>2
    <3>2. setlist[active + 1].chart \in Chart /\ active' \in Nat
      BY <1>1, <1>9, <2>2, <3>1 DEF AdvanceSetlist, SetlistEntry
    <3>3. /\ chart' \in Chart \cup {NoChart}
          /\ part' \in Participants /\ lifecycle' \in Lifecycle
      BY <1>9, <2>2, <3>2, SelectType DEF AdvanceSetlist
    <3> QED
      BY <1>9, <2>1, <3>2, <3>3
      DEF AdvanceSetlist, TypeOK, Participants, PolicyTypes, SetTypes, RunTypes, NetTypes
  <2>3. CASE ~(active < Len(setlist))
    BY <1>9, <2>1, <2>3
    DEF AdvanceSetlist, TypeOK, PolicyTypes, SetTypes, RunTypes, NetTypes
  <2> QED
    BY <2>2, <2>3
<1>10. ASSUME Close \/ StopHosting
       PROVE  TypeOK'
  BY <1>10 DEF Close, StopHosting, TypeOK, PolicyTypes, SetTypes, RunTypes, NetTypes, Lifecycle
<1> QED
  BY <1>2, <1>3, <1>4, <1>5, <1>6, <1>7, <1>8, <1>9, <1>10 DEF RoomControl

\* What players do themselves: reports, readiness and run events.
LEMMA TypeRejected ==
    ASSUME TypeOK, NEW s \in Session, NEW ps \in Participants
    PROVE  RejectedIn(ps, s) \in Participants
<1>1. [ps[s] EXCEPT !.validity = "invalid"] \in Participant
  <2>1. ps[s] \in Participant
    BY DEF Participants
  <2> QED
    BY <2>1 DEF Participant, Validity
<1>2. [ps EXCEPT ![s].validity = "invalid"] \in Participants
  BY <1>1 DEF Participants
<1> QED
  BY <1>2, RankedType DEF RejectedIn

LEMMA TypePreparation ==
    ASSUME TypeOK, NEW s \in Session, Preparation(s)
    PROVE  TypeOK'
<1> USE DEF policyVars, setVars, runVars, netVars
<1>1. part[s] \in Participant
  BY DEF TypeOK
<1>2. ASSUME NEW on \in BOOLEAN, SetVerified(s, on)
      PROVE  TypeOK'
  <2>1. (part[s].ready /\ on) \in BOOLEAN
    OBVIOUS
  <2>2. [part[s] EXCEPT !.verified = on, !.ready = part[s].ready /\ on] \in Participant
    BY <1>1, <2>1 DEF Participant
  <2>3. part' = [part EXCEPT ![s] =
                   [part[s] EXCEPT !.verified = on, !.ready = part[s].ready /\ on]]
    BY <1>2 DEF SetVerified, TypeOK
  <2>4. part' \in Participants
    BY <2>2, <2>3 DEF TypeOK, Participants
  <2>5. lifecycle' \in Lifecycle
    BY <1>2, RefreshedType DEF SetVerified
  <2> QED
    BY <1>2, <2>4, <2>5
    DEF SetVerified, TypeOK, Participants, PolicyTypes, SetTypes, RunTypes, NetTypes
<1>3. ASSUME NEW on \in BOOLEAN, SetReady(s, on)
      PROVE  TypeOK'
  <2>1. [part[s] EXCEPT !.ready = on] \in Participant
    BY <1>1 DEF Participant
  <2>2. part' \in Participants
    BY <1>3, <2>1 DEF SetReady, TypeOK, Participants
  <2>3. lifecycle' \in Lifecycle
    BY <1>3, RefreshedType DEF SetReady
  <2> QED
    BY <1>3, <2>2, <2>3
    DEF SetReady, TypeOK, Participants, PolicyTypes, SetTypes, RunTypes, NetTypes
<1> QED
  BY <1>2, <1>3 DEF Preparation

LEMMA TypeScore ==
    ASSUME TypeOK, NEW s \in Session, NEW run \in Run, NEW seq \in 0 .. MaxSeq,
           NEW totals \in Totals, IngestScore(s, run, seq, totals)
    PROVE  TypeOK'
<1> USE DEF policyVars, setVars, netVars
<1> DEFINE p == Attempted(s, run)
           ps == [part EXCEPT ![s] = p]
<1>1. p \in Participant
  BY AttemptedType
<1>2. ps \in Participants
  BY <1>1 DEF TypeOK, Participants
<1>3. CountedBefore(s, run) \in Nat /\ CountedBefore(s, run) + 1 \in Nat
  BY RecordType DEF IngestScore
<1>4. /\ part' \in Participants /\ counted' \in [Session -> Nat]
      /\ lifecycle' \in Lifecycle
  <2>1. CASE ScoreStale(s, run, seq)
    BY <1>2, <1>3, <2>1 DEF ScoreStale, TypeOK, RunTypes
  <2>2. CASE ScoreRefused(s, run, seq, totals)
    BY <1>2, <1>3, <2>2, TypeRejected DEF ScoreRefused, TypeOK, RunTypes
  <2>3. CASE ScoreCounted(s, run, seq, totals)
    <3>1. Scored(p, seq, totals) \in Participant
      BY <1>1, <2>3, ScoredType DEF ScoreCounted
    <3>2. [part EXCEPT ![s] = Scored(p, seq, totals)] \in Participants
      BY <3>1 DEF TypeOK, Participants
    <3>3. part' \in Participants
      BY <2>3, <3>2, RankedType DEF ScoreCounted
    <3> QED
      BY <1>3, <2>3, <3>3 DEF ScoreCounted, TypeOK, RunTypes, Lifecycle, Racing
  <2> QED
    BY <2>1, <2>2, <2>3 DEF IngestScore
<1>5. /\ started' \subseteq Session
      /\ activeRun' \in [Session -> Run \cup {NoRun}]
      /\ retired' \in [Session -> Seq(Run)]
  BY RecordType DEF IngestScore
<1> HIDE DEF p, ps
<1> QED
  BY <1>4, <1>5
  DEF IngestScore, TypeOK, Participants, PolicyTypes, SetTypes, RunTypes, NetTypes

LEMMA TypeRun ==
    ASSUME TypeOK, NEW s \in Session, RunEvent(s)
    PROVE  TypeOK'
<1> USE DEF policyVars, setVars, runVars, netVars
<1>1. part[s] \in Participant /\ part \in Participants
  BY DEF TypeOK, Participants
<1>2. ASSUME RunEventRefused(s)
      PROVE  TypeOK'
  <2>1. part' \in Participants
    BY <1>1, <1>2, TypeRejected DEF RunEventRefused
  <2> QED
    BY <1>2, <2>1
    DEF RunEventRefused, TypeOK, Participants, PolicyTypes, SetTypes, RunTypes, NetTypes
<1>3. ASSUME NEW run \in Run, RunStarted(s, run)
      PROVE  TypeOK'
  <2>1. part' \in Participants
    BY <1>1, <1>3, AttemptedType DEF RunStarted, Participants
  <2>2. RunTypes'
    BY <1>3, RecordType DEF RunStarted, TypeOK, RunTypes
  <2> QED
    BY <1>3, <2>1, <2>2
    DEF RunStarted, TypeOK, Participants, PolicyTypes, SetTypes, NetTypes
<1>4. ASSUME NEW run \in Run, FinishRun(s, run)
      PROVE  TypeOK'
  <2>1. part' \in Participants
    BY <1>1, <1>4, FinishedType DEF FinishRun, Participants
  <2>2. lifecycle' \in Lifecycle /\ setlist' \in Seq(SetlistEntry)
    BY <1>4, FinishChartType DEF FinishRun
  <2> QED
    BY <1>4, <2>1, <2>2
    DEF FinishRun, TypeOK, Participants, PolicyTypes, SetTypes, RunTypes, NetTypes
<1>5. ASSUME NEW run \in Run, NEW dnf \in BOOLEAN, Invalidate(s, run, dnf)
      PROVE  TypeOK'
  <2> DEFINE verdict == IF dnf THEN "dnf" ELSE "invalid"
             ps == [part EXCEPT ![s].validity = verdict]
  <2>1. [part[s] EXCEPT !.validity = verdict] \in Participant
    <3>1. verdict \in Validity
      BY DEF Validity
    <3> HIDE DEF verdict
    <3> QED
      BY <1>1, <3>1 DEF Participant
  <2>2. ps \in Participants
    BY <1>1, <2>1 DEF Participants
  <2>3. part' = Ranked(ps)
    BY <1>5 DEF Invalidate
  <2>4. part' \in Participants
    <3> HIDE DEF ps
    <3> QED
      BY <2>2, <2>3, RankedType
  <2> QED
    BY <1>5, <2>4
    DEF Invalidate, TypeOK, Participants, PolicyTypes, SetTypes, RunTypes, NetTypes
<1> QED
  BY <1>2, <1>3, <1>4, <1>5, TypeScore DEF RunEvent

LEMMA TypeNext == TypeOK /\ [Next]_vars => TypeOK'
<1> SUFFICES ASSUME TypeOK, [Next]_vars
             PROVE  TypeOK'
  OBVIOUS
<1>1. CASE Next
  BY <1>1, TypeMaintenance, TypeRoster, TypeControl, TypeTransport, TypePreparation, TypeRun
  DEF Next
<1>2. CASE UNCHANGED vars
  BY <1>2 DEF vars, policyVars, setVars, runVars, netVars, TypeOK, PolicyTypes, SetTypes,
              RunTypes, NetTypes
<1> QED
  BY <1>1, <1>2

\* Every state of every room is well typed; in particular accuracies stay
\* percentages and ranks are numbers whatever scores the clients send.
THEOREM TypeCorrect == Spec => []TypeOK
  BY TypeInit, TypeNext, PTL DEF Spec

-----------------------------------------------------------------------------
(***************************************************************************)
(* Who competes.  Only admission, roles and departures change it.          *)
(***************************************************************************)
LEMMA CompetitorsAreSessions ==
    ASSUME NEW ps
    PROVE  CompetitorsOf(ps) \subseteq Session
  BY DEF CompetitorsOf

SameSeats(ps, qs) ==
    \A s \in Session : ps[s].role = qs[s].role /\ ps[s].admitted = qs[s].admitted

LEMMA SameCompetitors ==
    ASSUME NEW ps, NEW qs, SameSeats(ps, qs)
    PROVE  CompetitorsOf(ps) = CompetitorsOf(qs)
  BY DEF SameSeats, CompetitorsOf, IsCompetitor

LEMMA RankedSeats ==
    ASSUME NEW ps \in Participants
    PROVE  SameSeats(Ranked(ps), ps)
  BY DEF SameSeats, Ranked, Participants, Participant

LEMMA RejectedSeats ==
    ASSUME NEW ps \in Participants, NEW s \in Session, TypeOK
    PROVE  SameSeats(RejectedIn(ps, s), ps)
<1> DEFINE qs == [ps EXCEPT ![s].validity = "invalid"]
<1>1. [ps[s] EXCEPT !.validity = "invalid"] \in Participant
  <2>1. ps[s] \in Participant
    BY DEF Participants
  <2> QED
    BY <2>1 DEF Participant, Validity
<1>2. qs \in Participants
  BY <1>1 DEF Participants
<1>3. SameSeats(qs, ps)
  BY DEF SameSeats, Participants, Participant
<1>4. SameSeats(Ranked(qs), qs)
  <2> HIDE DEF qs
  <2> QED
    BY <1>2, RankedSeats
<1> QED
  BY <1>3, <1>4 DEF RejectedIn, SameSeats

LEMMA EditedSeats ==
    ASSUME TypeOK, NEW s \in Session, NEW p, p.role = part[s].role, p.admitted = part[s].admitted
    PROVE  SameSeats([part EXCEPT ![s] = p], part)
  BY DEF SameSeats, TypeOK

LEMMA RefreshedRacing ==
    ASSUME NEW ps
    PROVE  Refreshed(ps) \in Racing <=> lifecycle \in Racing
  BY DEF Refreshed, Racing, PreRace

-----------------------------------------------------------------------------
(***************************************************************************)
(* The end of a race.  RaceOK is inductive: the two invariants need each   *)
(* other's roster, and StartedCompete says whose attempts are open.        *)
(***************************************************************************)
StartedCompete == lifecycle \in Racing => started \subseteq Competitors

RaceOK == RaceHasOpenRun /\ AttemptsSettled /\ StartedCompete

\* A step that leaves the roster, the final results and the stage as they are.
LEMMA RaceKept ==
    ASSUME TypeOK, RaceOK,
           SameSeats(part', part), finalized' = finalized,
           lifecycle' \in Racing <=> lifecycle \in Racing,
           phase' = "open" => phase = "open",
           started' = started \/ (lifecycle \in Racing /\ started' \subseteq Competitors)
    PROVE  RaceOK'
<1>1. Competitors' = Competitors
  BY SameCompetitors DEF Competitors
<1> QED
  BY <1>1 DEF RaceOK, RaceHasOpenRun, AttemptsSettled, StartedCompete

\* A step outside races that forgets at most one session's attempt.
LEMMA RaceIdle ==
    ASSUME RaceOK, lifecycle \notin Racing, lifecycle' \notin Racing,
           phase' = "open" => phase = "open",
           NEW gone, started' = started \ gone, finalized' = finalized \ gone
    PROVE  RaceOK'
  BY DEF RaceOK, RaceHasOpenRun, AttemptsSettled, StartedCompete

\* A step that settles racers and then closes the chart if they were the last.
LEMMA RaceSettles ==
    ASSUME TypeOK, RaceOK,
           SameSeats(part', part), phase' = phase, started' = started,
           finalized \subseteq finalized',
           TryFinishChart(part', finalized')
    PROVE  RaceOK'
<1>1. Competitors' = Competitors /\ CompetitorsOf(part') = Competitors
  BY SameCompetitors DEF Competitors
<1>2. CASE ChartOver(part', finalized')
  <2>1. lifecycle' \notin Racing /\ Competitors \subseteq finalized'
    BY <1>1, <1>2 DEF TryFinishChart, ChartOver, Racing
  <2>2. phase' = "open" => started' \subseteq finalized'
    BY <2>1 DEF RaceOK, AttemptsSettled, StartedCompete
  <2> QED
    BY <2>1, <2>2 DEF RaceOK, RaceHasOpenRun, AttemptsSettled, StartedCompete
<1>3. CASE ~ChartOver(part', finalized')
  <2>1. lifecycle' = lifecycle
    BY <1>3 DEF TryFinishChart
  <2>2. lifecycle \in Racing => Competitors # {} /\ ~(Competitors \subseteq finalized')
    BY <1>1, <1>3 DEF ChartOver, RaceOK, RaceHasOpenRun
  <2> QED
    BY <1>1, <2>1, <2>2 DEF RaceOK, RaceHasOpenRun, AttemptsSettled, StartedCompete
<1> QED
  BY <1>2, <1>3

LEMMA RaceInit == Init => RaceOK
  BY DEF Init, RaceOK, RaceHasOpenRun, AttemptsSettled, StartedCompete, Racing

LEMMA RaceTransport ==
    ASSUME TypeOK, RaceOK, NEW s \in Session, Transport(s)
    PROVE  RaceOK'
<1> USE DEF runVars
<1>1. SameSeats(part, part)
  BY DEF SameSeats
<1>2. ASSUME NEW role \in RequestedRole, Join(s, role)
      PROVE  RaceOK'
  <2>1. lifecycle \notin Racing /\ lifecycle' = lifecycle
    BY <1>2 DEF Join, CanJoin
  <2> QED
    BY <1>2, <2>1, RaceIdle DEF Join
<1>3. ASSUME NEW role \in RequestedRole, JoinRefused(s, role)
      PROVE  RaceOK'
  BY <1>1, <1>3, RaceKept DEF JoinRefused
<1>4. ASSUME Reconnect(s)
      PROVE  RaceOK'
  <2>1. SameSeats(part', part)
    BY <1>4 DEF Reconnect, SameSeats, TypeOK, Participant
  <2> QED
    BY <1>4, <2>1, RaceKept DEF Reconnect
<1>5. ASSUME Disconnect(s)
      PROVE  RaceOK'
  <2>1. SameSeats(part', part)
    BY <1>5 DEF Disconnect, SameSeats, TypeOK, Participant
  <2>2. lifecycle' \in Racing <=> lifecycle \in Racing
    BY <1>5, RefreshedRacing DEF Disconnect
  <2> QED
    BY <1>5, <2>1, <2>2, RaceKept DEF Disconnect
<1> QED
  BY <1>2, <1>3, <1>4, <1>5 DEF Transport

LEMMA RaceMaintenance ==
    ASSUME TypeOK, RaceOK, Maintenance
    PROVE  RaceOK'
<1> USE DEF runVars
<1>1. ASSUME ExpireUnstartedRuns
      PROVE  RaceOK'
  <2> DEFINE ps == [s \in Session |->
                      IF s \in Unstarted
                      THEN [part[s] EXCEPT !.validity = "dnf", !.accuracy = 0]
                      ELSE part[s]]
  <2>1. SameSeats(ps, part)
    BY DEF SameSeats, TypeOK, Participant
  <2>2. ps \in Participants
    <3>1. ASSUME NEW s \in Session
          PROVE  [part[s] EXCEPT !.validity = "dnf", !.accuracy = 0] \in Participant
      <4>1. part[s] \in Participant
        BY DEF TypeOK
      <4> QED
        BY <4>1, Bounds DEF Participant, Validity
    <3> QED
      BY <3>1 DEF TypeOK, Participants
  <2>3. part' = Ranked(ps)
    BY <1>1 DEF ExpireUnstartedRuns
  <2>4. SameSeats(part', part)
    <3>1. SameSeats(part', ps)
      <4> HIDE DEF ps
      <4> QED
        BY <2>2, <2>3, RankedSeats
    <3> QED
      BY <2>1, <3>1 DEF SameSeats
  <2> QED
    BY <1>1, <2>4, RaceSettles DEF ExpireUnstartedRuns
<1>2. ASSUME NEW s \in Session, ExpireDisconnect(s), ExpireRacer(s)
      PROVE  RaceOK'
  <2> DEFINE away == IF part[s].validity \in {"invalid", "dnf"} THEN part[s]
                     ELSE [part[s] EXCEPT !.validity = "dnf", !.accuracy = 0]
             ps == [part EXCEPT ![s] = away]
  <2>1. part[s] \in Participant
    BY DEF TypeOK
  <2>2. away \in Participant /\ away.role = part[s].role /\ away.admitted = part[s].admitted
    BY <2>1, Bounds DEF Participant, Validity
  <2>3. ps \in Participants /\ SameSeats(ps, part)
    <3> HIDE DEF away
    <3> QED
      BY <2>2, EditedSeats DEF TypeOK, Participants
  <2>4. part' = Ranked(ps)
    BY <1>2 DEF ExpireRacer
  <2>5. SameSeats(part', part)
    <3>1. SameSeats(part', ps)
      <4> HIDE DEF ps
      <4> QED
        BY <2>3, <2>4, RankedSeats
    <3> QED
      BY <2>3, <3>1 DEF SameSeats
  <2> QED
    BY <1>2, <2>5, RaceSettles DEF ExpireDisconnect, ExpireRacer
<1>3. ASSUME NEW s \in Session, ExpireDisconnect(s), ExpireReservation(s)
      PROVE  RaceOK'
  <2>1. lifecycle \notin Racing
    BY <1>3 DEF ExpireReservation, PreRace, Racing
  <2>2. lifecycle' \notin Racing
    BY <1>3, <2>1, RefreshedRacing DEF ExpireReservation
  <2> QED
    BY <1>3, <2>1, <2>2, RaceIdle DEF ExpireDisconnect, ExpireReservation, Forget
<1>4. ASSUME NEW s \in Session, ExpireDisconnect(s), ExpireIdle(s)
      PROVE  RaceOK'
  <2>1. SameSeats(part', part)
    BY <1>4 DEF ExpireIdle, SameSeats
  <2> QED
    BY <1>4, <2>1, RaceKept DEF ExpireDisconnect, ExpireIdle
<1> QED
  BY <1>1, <1>2, <1>3, <1>4 DEF Maintenance, ExpireDisconnect

LEMMA RaceRoster ==
    ASSUME TypeOK, RaceOK, RosterControl
    PROVE  RaceOK'
<1> USE DEF runVars, HostUses
<1>1. ASSUME NEW s \in Session, NEW role \in RequestedRole, Admit(s, role) \/ SetRole(s, role)
      PROVE  RaceOK'
  <2>1. lifecycle \notin Racing
    BY <1>1 DEF Admit, SetRole
  <2>2. lifecycle' \notin Racing
    BY <1>1, <2>1, RefreshedRacing DEF Admit, SetRole
  <2>3. started' = started \ {} /\ finalized' = finalized \ {} /\ phase' = phase
    BY <1>1 DEF Admit, SetRole
  <2> QED
    BY <2>1, <2>2, <2>3, RaceIdle
<1>2. ASSUME NEW on \in BOOLEAN, SetHostParticipating(on)
      PROVE  RaceOK'
  <2>1. lifecycle \notin Racing
    BY <1>2 DEF SetHostParticipating, PreRace, Racing
  <2>2. lifecycle' \notin Racing
    BY <1>2, <2>1, RefreshedRacing DEF SetHostParticipating
  <2> QED
    BY <1>2, <2>1, <2>2, RaceIdle DEF SetHostParticipating
<1>3. ASSUME NEW s \in Session, NEW on \in BOOLEAN, SetCommentatorAccess(s, on)
      PROVE  RaceOK'
  <2>1. SameSeats(part', part)
    BY <1>3 DEF SetCommentatorAccess, SameSeats, TypeOK, Participant
  <2> QED
    BY <1>3, <2>1, RaceKept DEF SetCommentatorAccess
<1>4. ASSUME NEW s \in Session, Kick(s)
      PROVE  RaceOK'
  <2>1. lifecycle' \in Racing <=> lifecycle \in Racing
    BY <1>4, RefreshedRacing DEF Kick
  <2>2. CASE lifecycle \in Racing
    <3>1. ~part[s].admitted
      BY <1>4, <2>2 DEF Kick, MayKick
    <3>2. Competitors' = Competitors
      BY <1>4, <3>1
      DEF Kick, Competitors, CompetitorsOf, IsCompetitor, Absent, Entry, TypeOK
    <3> QED
      BY <1>4, <2>1, <2>2, <3>2
      DEF Kick, Forget, RaceOK, RaceHasOpenRun, AttemptsSettled, StartedCompete
  <2>3. CASE lifecycle \notin Racing
    BY <1>4, <2>1, <2>3, RaceIdle DEF Kick, Forget
  <2> QED
    BY <2>2, <2>3
<1> QED
  BY <1>1, <1>2, <1>3, <1>4 DEF RosterControl

LEMMA RaceControl ==
    ASSUME TypeOK, RaceOK, RoomControl
    PROVE  RaceOK'
<1> USE DEF runVars, HostUses
<1>1. ASSUME NEW c \in Chart, LockChart(c) \/ AppendChart(c)
      PROVE  RaceOK'
  <2>1. lifecycle \notin Racing /\ lifecycle' \notin Racing
    BY <1>1 DEF LockChart, AppendChart, SelectChart, Racing
  <2> QED
    BY <1>1, <2>1, RaceIdle DEF LockChart, AppendChart
<1>2. ASSUME NEW i \in DOMAIN setlist, RemoveSetlist(i)
      PROVE  RaceOK'
  <2>1. lifecycle \notin Racing /\ lifecycle' \notin Racing
    BY <1>2 DEF RemoveSetlist, SelectChart, Racing
  <2> QED
    BY <1>2, <2>1, RaceIdle DEF RemoveSetlist
<1>3. ASSUME NEW i \in DOMAIN setlist, NEW j \in DOMAIN setlist, MoveSetlist(i, j)
      PROVE  RaceOK'
  BY <1>3, RaceIdle DEF MoveSetlist
<1>4. ASSUME AdvanceSetlist
      PROVE  RaceOK'
  <2>1. lifecycle \notin Racing /\ lifecycle' \notin Racing
    BY <1>4 DEF AdvanceSetlist, SelectChart, Racing
  <2> QED
    BY <1>4, <2>1, RaceIdle DEF AdvanceSetlist
<1>5. ASSUME NEW on \in BOOLEAN, ScheduleStart(on)
      PROVE  RaceOK'
  <2>1. SameSeats(part', part)
    <3>1. part' = [s \in Session |->
                     IF ~RacesIn(part[s].role) THEN part[s]
                     ELSE [part[s] EXCEPT !.validity = "pending", !.done = 0, !.missed = 0,
                              !.accuracy = 100, !.rank = 0, !.seq = NoSeq]]
      BY <1>5 DEF ScheduleStart
    <3> QED
      BY ZenonT(60), <3>1 DEF SameSeats, TypeOK, Participant
  <2>2. Competitors' = Competitors /\ Competitors # {}
    BY <1>5, <2>1, SameCompetitors DEF ScheduleStart, Competitors
  <2>3. finalized' = {} /\ started' = {} /\ lifecycle' \in Racing
    BY <1>5 DEF ScheduleStart, Racing
  <2> QED
    BY <2>2, <2>3 DEF RaceOK, RaceHasOpenRun, AttemptsSettled, StartedCompete
<1>6. ASSUME NEW on \in BOOLEAN, SetValidityChecks(on)
      PROVE  RaceOK'
  <2>1. SameSeats(part', part)
    BY <1>6 DEF SetValidityChecks, SameSeats
  <2> QED
    BY <1>6, <2>1, RaceKept DEF SetValidityChecks
<1>7. ASSUME NEW value \in Setting, ChangeSetting(value)
      PROVE  RaceOK'
  <2>1. SameSeats(part', part)
    BY <1>7 DEF ChangeSetting, SameSeats
  <2> QED
    BY <1>7, <2>1, RaceKept DEF ChangeSetting
<1>8. ASSUME Close
      PROVE  RaceOK'
  BY <1>8 DEF Close, RaceOK, RaceHasOpenRun, AttemptsSettled, StartedCompete, Racing
<1>9. ASSUME StopHosting
      PROVE  RaceOK'
  <2>1. SameSeats(part', part)
    BY <1>9 DEF StopHosting, SameSeats
  <2> QED
    BY <1>9, <2>1, RaceKept DEF StopHosting
<1> QED
  BY <1>1, <1>2, <1>3, <1>4, <1>5, <1>6, <1>7, <1>8, <1>9 DEF RoomControl

LEMMA RacePreparation ==
    ASSUME TypeOK, RaceOK, NEW s \in Session, Preparation(s)
    PROVE  RaceOK'
<1> USE DEF runVars
<1>1. ASSUME NEW on \in BOOLEAN, SetVerified(s, on) \/ SetReady(s, on)
      PROVE  RaceOK'
  <2>1. lifecycle \notin Racing
    BY <1>1 DEF SetVerified, SetReady, PreRace, Racing
  <2>2. lifecycle' \notin Racing
    BY <1>1, <2>1, RefreshedRacing DEF SetVerified, SetReady
  <2>3. started' = started \ {} /\ finalized' = finalized \ {} /\ phase' = phase
    BY <1>1 DEF SetVerified, SetReady
  <2> QED
    BY <2>1, <2>2, <2>3, RaceIdle
<1> QED
  BY <1>1 DEF Preparation

LEMMA AttemptedSeats ==
    ASSUME TypeOK, NEW s \in Session, NEW run \in Run
    PROVE  /\ Attempted(s, run).role = part[s].role
           /\ Attempted(s, run).admitted = part[s].admitted
<1>1. part[s] \in Participant
  BY DEF TypeOK
<1> QED
  BY <1>1 DEF Attempted, Participant

LEMMA RaceRun ==
    ASSUME TypeOK, RaceOK, NEW s \in Session, RunEvent(s)
    PROVE  RaceOK'
<1> USE DEF runVars
<1>1. part \in Participants /\ part[s] \in Participant
  BY DEF TypeOK, Participants
<1>2. ASSUME RunEventRefused(s)
      PROVE  RaceOK'
  <2>1. SameSeats(part', part)
    BY <1>1, <1>2, RejectedSeats DEF RunEventRefused
  <2> QED
    BY <1>2, <2>1, RaceKept DEF RunEventRefused
<1>3. ASSUME NEW run \in Run, MayStartRun(s, run), RecordAttempt(s, run)
      PROVE  lifecycle \in Racing /\ started' \subseteq Competitors
  BY <1>3 DEF MayStartRun, RecordAttempt, RaceOK, StartedCompete, Competitors, CompetitorsOf
<1>4. ASSUME NEW run \in Run, RunStarted(s, run)
      PROVE  RaceOK'
  <2>1. SameSeats(part', part)
    BY <1>4, AttemptedSeats, EditedSeats DEF RunStarted
  <2> QED
    BY <1>3, <1>4, <2>1, RaceKept DEF RunStarted
<1>5. ASSUME NEW run \in Run, NEW seq \in 0 .. MaxSeq, NEW totals \in Totals,
             IngestScore(s, run, seq, totals)
      PROVE  RaceOK'
  <2> DEFINE p == Attempted(s, run)
             ps == [part EXCEPT ![s] = p]
  <2>1. p \in Participant /\ p.role = part[s].role /\ p.admitted = part[s].admitted
    BY AttemptedType, AttemptedSeats
  <2>2. ps \in Participants /\ SameSeats(ps, part)
    <3> HIDE DEF p
    <3> QED
      BY <1>1, <2>1, EditedSeats DEF Participants
  <2>3. lifecycle \in Racing /\ started' \subseteq Competitors
    BY <1>3, <1>5 DEF IngestScore
  <2>4. lifecycle' \in Racing
    BY <1>5, <2>3 DEF IngestScore, ScoreStale, ScoreRefused, ScoreCounted, Racing
  <2>5. SameSeats(part', part)
    <3>1. CASE ScoreStale(s, run, seq)
      BY <2>2, <3>1 DEF ScoreStale
    <3>2. CASE ScoreRefused(s, run, seq, totals)
      BY <2>2, <3>2, RejectedSeats DEF ScoreRefused, SameSeats
    <3>3. CASE ScoreCounted(s, run, seq, totals)
      <4> DEFINE q == Scored(p, seq, totals)
      <4>1. q \in Participant
        BY <2>1, <3>3, ScoredType DEF ScoreCounted
      <4>2. q.role = part[s].role /\ q.admitted = part[s].admitted
        <5> HIDE DEF p
        <5> QED
          BY <2>1 DEF Scored, Participant
      <4>3. /\ [part EXCEPT ![s] = q] \in Participants
            /\ SameSeats([part EXCEPT ![s] = q], part)
        <5> HIDE DEF q
        <5> QED
          BY <1>1, <4>1, <4>2, EditedSeats DEF Participants
      <4>4. part' = Ranked([part EXCEPT ![s] = q])
        BY <3>3 DEF ScoreCounted
      <4> HIDE DEF q
      <4> QED
        BY <4>3, <4>4, RankedSeats DEF SameSeats
    <3> QED
      BY <1>5, <3>1, <3>2, <3>3 DEF IngestScore
  <2> QED
    BY <1>5, <2>3, <2>4, <2>5, RaceKept DEF IngestScore
<1>6. ASSUME NEW run \in Run, NEW dnf \in BOOLEAN, Invalidate(s, run, dnf)
      PROVE  RaceOK'
  <2> DEFINE verdict == IF dnf THEN "dnf" ELSE "invalid"
             p == [part[s] EXCEPT !.validity = verdict]
             ps == [part EXCEPT ![s] = p]
  <2>1. p \in Participant /\ p.role = part[s].role /\ p.admitted = part[s].admitted
    <3>1. verdict \in Validity
      BY DEF Validity
    <3> HIDE DEF verdict
    <3> QED
      BY <1>1, <3>1 DEF Participant
  <2>2. ps \in Participants /\ SameSeats(ps, part)
    <3> HIDE DEF p
    <3> QED
      BY <1>1, <2>1, EditedSeats DEF Participants
  <2>3. part' = Ranked(ps)
    BY <1>6 DEF Invalidate
  <2>4. SameSeats(part', part)
    <3> HIDE DEF ps
    <3> QED
      BY <2>2, <2>3, RankedSeats DEF SameSeats
  <2>5. lifecycle \in Racing /\ started' \subseteq Competitors
    BY <1>6 DEF Invalidate, RaceOK, StartedCompete, Competitors, CompetitorsOf
  <2> QED
    BY <1>6, <2>4, <2>5, RaceKept DEF Invalidate
<1>7. ASSUME NEW run \in Run, FinishRun(s, run)
      PROVE  RaceOK'
  <2>1. Finished(part[s]).role = part[s].role /\ Finished(part[s]).admitted = part[s].admitted
    BY <1>1 DEF Finished, Participant
  <2>2. SameSeats(part', part)
    BY <1>7, <2>1, EditedSeats DEF FinishRun
  <2> QED
    BY <1>7, <2>2, RaceSettles DEF FinishRun
<1> QED
  BY <1>2, <1>4, <1>5, <1>6, <1>7 DEF RunEvent

LEMMA RaceNext == TypeOK /\ RaceOK /\ [Next]_vars => RaceOK'
<1> SUFFICES ASSUME TypeOK, RaceOK, [Next]_vars
             PROVE  RaceOK'
  OBVIOUS
<1>1. CASE Next
  BY <1>1, RaceMaintenance, RaceRoster, RaceControl, RaceTransport, RacePreparation, RaceRun
  DEF Next
<1>2. CASE UNCHANGED vars
  <2>1. SameSeats(part', part)
    BY <1>2 DEF vars, SameSeats
  <2> QED
    BY <1>2, <2>1, RaceKept DEF vars, runVars
<1> QED
  BY <1>1, <1>2

LEMMA RaceInvariant == Spec => []RaceOK
<1>1. Init => TypeOK /\ RaceOK
  BY TypeInit, RaceInit
<1>2. TypeOK /\ RaceOK /\ [Next]_vars => (TypeOK /\ RaceOK)'
  BY TypeNext, RaceNext
<1> QED
  BY <1>1, <1>2, PTL DEF Spec

\* No race is ever stranded: while one is in progress there is a racer whose
\* final result is still to come, so that somebody's run.finished or an expiry
\* will end it, whatever joins, kicks, drops and retries have happened.
THEOREM RaceNeverStranded == Spec => []RaceHasOpenRun
  BY RaceInvariant, PTL DEF RaceOK

\* Between races no attempt is left open, so that the run.finished finish_run
\* accepts in any lifecycle can neither credit nor settle anybody late.
THEOREM NoOpenAttempt == Spec => []AttemptsSettled
  BY RaceInvariant, PTL DEF RaceOK

-----------------------------------------------------------------------------
(***************************************************************************)
(* The room implements RaceContract: every step of a room is a step of the *)
(* contract or leaves all that the contract speaks of as it is.            *)
(***************************************************************************)

\* A participant who was never admitted has no points.
PaidWereAdmitted ==
    phase = "open" => \A s \in Session : ~part[s].admitted => part[s].setTotal = 0

\* Nobody loses a place it was admitted to without its points.
PlacesKept ==
    \A s \in Session : part'[s].setTotal = 0 \/ (part[s].admitted => part'[s].admitted)

SameRules == checks' = checks /\ settings' = settings /\ chart' = chart

SameLedger(ps, qs) ==
    SameSeats(ps, qs) /\ \A s \in Session : ps[s].setTotal = qs[s].setTotal

-----------------------------------------------------------------------------
(***************************************************************************)
(* What a step of an open room does to a race.                             *)
(***************************************************************************)
Prepares ==
    /\ lifecycle \notin Racing /\ lifecycle' \notin Racing
    /\ \A s \in Session : part'[s].setTotal \in {0, part[s].setTotal}
    /\ PlacesKept

Begins ==
    /\ lifecycle \notin Racing /\ lifecycle' \in Racing
    /\ SameLedger(part', part) /\ SameRules
    /\ finalized' = {} /\ Competitors # {}

Settles ==
    /\ lifecycle \in Racing /\ (lifecycle' \in Racing \/ Competitors \subseteq finalized')
    /\ Competitors' = Competitors /\ SameRules
    /\ finalized \cap Competitors \subseteq finalized'
    /\ \A s \in Session :
          IF s \in Competitors /\ s \in finalized' /\ s \notin finalized
          THEN part'[s].setTotal >= part[s].setTotal
          ELSE part'[s].setTotal = part[s].setTotal
    /\ PlacesKept

Promised == phase' = "open" => phase = "open" /\ (Prepares \/ Begins \/ Settles)

LEMMA PromiseKept ==
    ASSUME TypeOK, TypeOK', RaceOK, RaceOK', Promised
    PROVE  [Contract!Next]_(Contract!vars)
<1>1. CASE phase # "open" /\ phase' # "open"
  BY <1>1 DEF Contract!vars, racing
<1>2. CASE phase = "open" /\ phase' # "open"
  <2>1. Contract!Close
    BY <1>2 DEF Contract!Close, Contract!Zero, racing
  <2> QED
    BY <2>1 DEF Contract!Next
<1>3. CASE phase' = "open" /\ Prepares
  <2>1. phase = "open" /\ lifecycle \notin Racing /\ lifecycle' \notin Racing
    BY <1>3 DEF Promised, Prepares
  <2>2. <<checks, settings, chart>>' \in BOOLEAN \X Setting \X (Chart \cup {NoChart})
    BY DEF TypeOK, PolicyTypes, SetTypes
  <2>3. Contract!Prepare
    BY <1>3, <2>1, <2>2 DEF Contract!Prepare, racing, Prepares
  <2> QED
    BY <2>3 DEF Contract!Next
<1>4. CASE phase' = "open" /\ Begins
  <2>1. phase = "open" /\ lifecycle \notin Racing /\ lifecycle' \in Racing
    BY <1>4 DEF Promised, Begins
  <2>2. Competitors' = Competitors /\ Competitors # {} /\ Competitors \subseteq Session
    BY <1>4, SameCompetitors, CompetitorsAreSessions DEF Begins, SameLedger, Competitors
  <2>4. \A s \in Session : part'[s].setTotal = part[s].setTotal
    BY <1>4 DEF Begins, SameLedger
  <2>5. finalized' = {} /\ SameRules
    BY <1>4 DEF Begins
  <2>6. /\ (IF racing THEN Competitors ELSE {})' = Competitors
        /\ (IF racing THEN finalized \cap Competitors ELSE {})' = {}
        /\ Competitors \subseteq Session /\ Competitors # {}
    BY <1>4, <2>1, <2>2, <2>5 DEF racing
  <2>7. /\ (IF phase # "open" THEN "closed" ELSE IF lifecycle \in Racing THEN "race" ELSE "lobby")
             = "lobby"
        /\ (IF phase # "open" THEN "closed" ELSE IF lifecycle \in Racing THEN "race" ELSE "lobby")'
             = "race"
    BY <1>4, <2>1
  <2>8. /\ [s \in Session |-> IF phase = "open" THEN part[s].setTotal ELSE 0]'
             = [s \in Session |-> IF phase = "open" THEN part[s].setTotal ELSE 0]
        /\ (IF phase = "open" THEN <<checks, settings, chart>> ELSE <<>>)'
             = IF phase = "open" THEN <<checks, settings, chart>> ELSE <<>>
    BY <1>4, <2>1, <2>4, <2>5 DEF Begins, SameLedger, SameRules
  <2>3. Contract!Begin
    BY <2>6, <2>7, <2>8 DEF Contract!Begin
  <2> QED
    BY <2>3 DEF Contract!Next
<1>5. CASE phase' = "open" /\ Settles
  <2>1. phase = "open" /\ lifecycle \in Racing /\ ~(Competitors \subseteq finalized)
    BY <1>5 DEF Promised, Settles, RaceOK, RaceHasOpenRun
  <2>2. CASE lifecycle' \in Racing
    <3>1. ~(Competitors \subseteq finalized')
      BY <1>5, <2>2 DEF Settles, RaceOK, RaceHasOpenRun
    <3>2. CASE finalized' \cap Competitors = finalized \cap Competitors
      <4>1. [s \in Session |-> part[s].setTotal]' = [s \in Session |-> part[s].setTotal]
        BY <1>5, <3>2 DEF Settles
      <4> QED
        BY <1>5, <2>1, <2>2, <3>2, <4>1 DEF Contract!vars, racing, Settles, SameRules
    <3>3. CASE finalized' \cap Competitors # finalized \cap Competitors
      <4>1. Contract!Settle
        BY <1>5, <2>1, <2>2, <3>1, <3>3
        DEF Contract!Settle, Contract!Pays, racing, Settles, SameRules
      <4> QED
        BY <4>1 DEF Contract!Next
    <3> QED
      BY <3>2, <3>3
  <2>3. CASE lifecycle' \notin Racing
    <3>1. Contract!Finish
      BY <1>5, <2>1, <2>3 DEF Contract!Finish, Contract!Pays, racing, Settles, SameRules
    <3> QED
      BY <3>1 DEF Contract!Next
  <2> QED
    BY <2>2, <2>3
<1> QED
  BY <1>1, <1>2, <1>3, <1>4, <1>5 DEF Promised

LEMMA PaidKept ==
    ASSUME PaidWereAdmitted, Promised
    PROVE  PaidWereAdmitted'
<1> SUFFICES ASSUME phase' = "open", NEW s \in Session, ~part'[s].admitted
             PROVE  part'[s].setTotal = 0
  BY DEF PaidWereAdmitted
<1>1. phase = "open" /\ (Prepares \/ Begins \/ Settles)
  BY DEF Promised
<1>2. CASE Begins
  BY <1>1, <1>2 DEF Begins, SameLedger, SameSeats, PaidWereAdmitted
<1>3. CASE Prepares
  BY <1>1, <1>3 DEF Prepares, PlacesKept, PaidWereAdmitted
<1>4. CASE Settles
  <2>1. CASE part'[s].setTotal = part[s].setTotal
    BY <1>1, <1>4, <2>1 DEF Settles, PlacesKept, PaidWereAdmitted
  <2>2. CASE s \in Competitors
    <3>1. part[s].admitted
      BY <2>2 DEF Competitors, CompetitorsOf, IsCompetitor
    <3> QED
      BY <1>4, <3>1 DEF Settles, PlacesKept
  <2> QED
    BY <1>4, <2>1, <2>2 DEF Settles
<1> QED
  BY <1>1, <1>2, <1>3, <1>4

-----------------------------------------------------------------------------
(***************************************************************************)
(* The kinds of steps                                                      *)
(***************************************************************************)
\* One that leaves the roster, the totals and the final results alone.
LEMMA Quiet ==
    ASSUME SameLedger(part', part), finalized' = finalized,
           phase' = "open" => phase = "open",
           lifecycle' \in Racing <=> lifecycle \in Racing,
           lifecycle \in Racing => SameRules
    PROVE  Promised
<1>1. Competitors' = Competitors
  BY SameCompetitors DEF SameLedger, Competitors
<1>2. PlacesKept
  BY DEF SameLedger, SameSeats, PlacesKept
<1>3. CASE lifecycle \in Racing
  BY <1>1, <1>2, <1>3 DEF Promised, Settles, SameLedger
<1>4. CASE lifecycle \notin Racing
  BY <1>2, <1>4 DEF Promised, Prepares, SameLedger
<1> QED
  BY <1>3, <1>4

\* One outside races that changes one participant.
LEMMA Reseats ==
    ASSUME TypeOK, NEW s \in Session, NEW p, part' = [part EXCEPT ![s] = p],
           \/ p.setTotal = 0
           \/ p.setTotal = part[s].setTotal /\ (part[s].admitted => p.admitted),
           phase' = "open" => phase = "open",
           lifecycle \notin Racing, lifecycle' \notin Racing
    PROVE  Promised
<1>1. part'[s] = p /\ \A t \in Session \ {s} : part'[t] = part[t]
  BY DEF TypeOK
<1> QED
  BY <1>1 DEF Promised, Prepares, PlacesKept

\* One that settles racers, and the race with the last of them.
LEMMA Settlement ==
    ASSUME TypeOK, SameSeats(part', part), lifecycle \in Racing, SameRules,
           phase' = phase, finalized \subseteq finalized',
           TryFinishChart(part', finalized'),
           \A s \in Session :
              IF s \in Competitors /\ s \in finalized' /\ s \notin finalized
              THEN part'[s].setTotal >= part[s].setTotal
              ELSE part'[s].setTotal = part[s].setTotal
    PROVE  Promised
<1>1. Competitors' = Competitors /\ CompetitorsOf(part') = Competitors
  BY SameCompetitors DEF Competitors
<1>2. lifecycle' \in Racing \/ Competitors \subseteq finalized'
  BY <1>1 DEF TryFinishChart, ChartOver
<1>3. PlacesKept
  BY DEF SameSeats, PlacesKept
<1> QED
  BY <1>1, <1>2, <1>3 DEF Promised, Settles

LEMMA RankedLedger ==
    ASSUME NEW ps \in Participants
    PROVE  SameLedger(Ranked(ps), ps)
  BY RankedSeats DEF SameLedger, Ranked, Participants, Participant

LEMMA EditedLedger ==
    ASSUME TypeOK, NEW s \in Session, NEW p, p.role = part[s].role,
           p.admitted = part[s].admitted, p.setTotal = part[s].setTotal
    PROVE  SameLedger([part EXCEPT ![s] = p], part)
  BY EditedSeats DEF SameLedger, TypeOK

LEMMA RejectedLedger ==
    ASSUME TypeOK, NEW ps \in Participants, NEW s \in Session
    PROVE  SameLedger(RejectedIn(ps, s), ps)
<1> DEFINE qs == [ps EXCEPT ![s].validity = "invalid"]
<1>1. [ps[s] EXCEPT !.validity = "invalid"] \in Participant
  <2>1. ps[s] \in Participant
    BY DEF Participants
  <2> QED
    BY <2>1 DEF Participant, Validity
<1>2. qs \in Participants /\ \A t \in Session : qs[t].setTotal = ps[t].setTotal
  BY <1>1 DEF Participants, Participant
<1>3. \A t \in Session : Ranked(qs)[t].setTotal = ps[t].setTotal
  <2> HIDE DEF qs
  <2> QED
    BY SMTT(60), <1>2, RankedLedger DEF SameLedger
<1> QED
  BY <1>3, RejectedSeats DEF RejectedIn, SameLedger

LEMMA ResetLedger ==
    ASSUME TypeOK
    PROVE  SameLedger(ResetForLockedChart(part), part)
  BY ZenonT(60) DEF SameLedger, SameSeats, ResetForLockedChart, TypeOK, Participant

LEMMA Itself == SameLedger(part, part)
  BY DEF SameLedger, SameSeats

-----------------------------------------------------------------------------
(***************************************************************************)
(* Every action                                                            *)
(***************************************************************************)
LEMMA PromiseTransport ==
    ASSUME TypeOK, NEW s \in Session, Transport(s)
    PROVE  Promised
<1> USE DEF policyVars, setVars, SameRules
<1>1. ASSUME NEW role \in RequestedRole, Join(s, role)
      PROVE  Promised
  <2>1. lifecycle \notin Racing /\ lifecycle' = lifecycle /\ phase' = phase
    BY <1>1 DEF Join, CanJoin
  <2> DEFINE p == Entry(role, mode = "password_only")
  <2>2. part' = [part EXCEPT ![s] = p] /\ p.setTotal = 0
    BY <1>1 DEF Join, Entry
  <2> HIDE DEF p
  <2> QED
    BY <2>1, <2>2, Reseats
<1>2. ASSUME NEW role \in RequestedRole, JoinRefused(s, role)
      PROVE  Promised
  <2>1. SameLedger(part', part)
    BY <1>2, Itself DEF JoinRefused
  <2> QED
    BY <1>2, <2>1, Quiet DEF JoinRefused
<1>3. ASSUME Reconnect(s)
      PROVE  Promised
  <2>1. SameLedger(part', part)
    BY <1>3 DEF Reconnect, SameLedger, SameSeats, TypeOK, Participant
  <2> QED
    BY <1>3, <2>1, Quiet DEF Reconnect
<1>4. ASSUME Disconnect(s)
      PROVE  Promised
  <2>1. SameLedger(part', part)
    BY <1>4 DEF Disconnect, SameLedger, SameSeats, TypeOK, Participant
  <2>2. lifecycle' \in Racing <=> lifecycle \in Racing
    BY <1>4, RefreshedRacing DEF Disconnect
  <2> QED
    BY <1>4, <2>1, <2>2, Quiet DEF Disconnect
<1> QED
  BY <1>1, <1>2, <1>3, <1>4 DEF Transport

LEMMA PromiseMaintenance ==
    ASSUME TypeOK, Maintenance
    PROVE  Promised
<1> USE DEF policyVars, setVars, SameRules
<1>1. \A s \in Session : part[s] \in Participant /\ part[s].setTotal \in Nat
  BY DEF TypeOK, Participant
<1>2. ASSUME ExpireUnstartedRuns
      PROVE  Promised
  <2> DEFINE ps == [s \in Session |->
                      IF s \in Unstarted
                      THEN [part[s] EXCEPT !.validity = "dnf", !.accuracy = 0]
                      ELSE part[s]]
  <2>1. ASSUME NEW s \in Session
        PROVE  [part[s] EXCEPT !.validity = "dnf", !.accuracy = 0] \in Participant
    <3>1. part[s] \in Participant
      BY <1>1
    <3> QED
      BY <3>1, Bounds DEF Participant, Validity
  <2>2. ps \in Participants /\ SameLedger(ps, part)
    BY <1>1, <2>1 DEF Participants, Participant, SameLedger, SameSeats
  <2>3. part' = Ranked(ps)
    BY <1>2 DEF ExpireUnstartedRuns
  <2>4. SameLedger(part', part)
    <3> HIDE DEF ps
    <3> QED
      BY <2>2, <2>3, RankedLedger DEF SameLedger, SameSeats
  <2>5. \A s \in Session : /\ part'[s].setTotal = part[s].setTotal
                            /\ part'[s].setTotal >= part[s].setTotal
    BY <1>1, <2>4 DEF SameLedger
  <2>6. finalized \subseteq finalized' /\ lifecycle \in Racing /\ phase' = phase /\ SameRules
        /\ TryFinishChart(part', finalized') /\ SameSeats(part', part)
    BY <1>2, <2>4 DEF ExpireUnstartedRuns, SameLedger
  <2> QED
    BY <2>5, <2>6, Settlement
<1>3. ASSUME NEW s \in Session, ExpireDisconnect(s), ExpireRacer(s)
      PROVE  Promised
  <2> DEFINE away == IF part[s].validity \in {"invalid", "dnf"} THEN part[s]
                     ELSE [part[s] EXCEPT !.validity = "dnf", !.accuracy = 0]
             ps == [part EXCEPT ![s] = away]
  <2>1. /\ away \in Participant /\ away.role = part[s].role
        /\ away.admitted = part[s].admitted /\ away.setTotal = part[s].setTotal
    <3>1. part[s] \in Participant
      BY <1>1
    <3> QED
      BY <3>1, Bounds DEF Participant, Validity
  <2>2. ps \in Participants /\ SameLedger(ps, part)
    <3> HIDE DEF away
    <3> QED
      BY <2>1, EditedLedger DEF TypeOK, Participants
  <2>3. part' = Ranked(ps)
    BY <1>3 DEF ExpireRacer
  <2>4. SameLedger(part', part)
    <3> HIDE DEF ps
    <3> QED
      BY <2>2, <2>3, RankedLedger DEF SameLedger, SameSeats
  <2>5. \A t \in Session : /\ part'[t].setTotal = part[t].setTotal
                            /\ part'[t].setTotal >= part[t].setTotal
    BY <1>1, <2>4 DEF SameLedger
  <2>6. finalized \subseteq finalized' /\ lifecycle \in Racing /\ phase' = phase /\ SameRules
        /\ TryFinishChart(part', finalized') /\ SameSeats(part', part)
    BY <1>3, <2>4 DEF ExpireDisconnect, ExpireRacer, SameLedger
  <2> QED
    BY <2>5, <2>6, Settlement
<1>4. ASSUME NEW s \in Session, ExpireDisconnect(s), ExpireReservation(s)
      PROVE  Promised
  <2>1. lifecycle \notin Racing
    BY <1>4 DEF ExpireReservation, PreRace, Racing
  <2>2. lifecycle' \notin Racing
    BY <1>4, <2>1, RefreshedRacing DEF ExpireReservation
  <2>3. part' = [part EXCEPT ![s] = Absent] /\ Absent.setTotal = 0 /\ phase' = phase
    BY <1>4 DEF ExpireDisconnect, ExpireReservation, Absent, Entry
  <2> QED
    BY <2>1, <2>2, <2>3, Reseats
<1>5. ASSUME NEW s \in Session, ExpireDisconnect(s), ExpireIdle(s)
      PROVE  Promised
  <2>1. SameLedger(part', part)
    BY <1>5, Itself DEF ExpireIdle
  <2> QED
    BY <1>5, <2>1, Quiet DEF ExpireDisconnect, ExpireIdle
<1> QED
  BY <1>2, <1>3, <1>4, <1>5 DEF Maintenance, ExpireDisconnect

LEMMA PromiseRoster ==
    ASSUME TypeOK, PaidWereAdmitted, RosterControl
    PROVE  Promised
<1> USE DEF policyVars, setVars, SameRules, HostUses
<1>1. \A s \in Session : part[s] \in Participant
  BY DEF TypeOK
<1>2. ASSUME NEW s \in Session, NEW role \in RequestedRole, Admit(s, role) \/ SetRole(s, role)
      PROVE  Promised
  <2>1. lifecycle \notin Racing /\ lifecycle' \notin Racing /\ phase' = phase
    BY <1>2, RefreshedRacing DEF Admit, SetRole
  <2>2. Reseated(part[s], role) \in Participant
    BY <1>1, ReseatedType DEF RequestedRole, NormalizedRole, Role
  <2>3. /\ Reseated(part[s], role).setTotal = part[s].setTotal
        /\ Reseated(part[s], role).admitted = part[s].admitted
    BY <1>1 DEF Reseated, Participant
  <2> DEFINE p == [Reseated(part[s], role) EXCEPT !.admitted = TRUE, !.connected = TRUE]
             q == [Reseated(part[s], role) EXCEPT !.ready = role = "spectator",
                                                  !.verified = role = "spectator"]
  <2>4. p.setTotal = part[s].setTotal /\ p.admitted
    BY <2>2, <2>3 DEF Participant
  <2>5. q.setTotal = part[s].setTotal /\ q.admitted = part[s].admitted
    BY <2>2, <2>3 DEF Participant
  <2>6. part' = [part EXCEPT ![s] = p] \/ part' = [part EXCEPT ![s] = q]
    BY <1>2 DEF Admit, SetRole, TypeOK
  <2> HIDE DEF p, q
  <2> QED
    BY <2>1, <2>4, <2>5, <2>6, Reseats
<1>3. ASSUME NEW on \in BOOLEAN, SetHostParticipating(on)
      PROVE  Promised
  <2>1. lifecycle \notin Racing /\ lifecycle' \notin Racing /\ phase' = phase
    BY <1>3, RefreshedRacing DEF SetHostParticipating, PreRace, Racing
  <2> DEFINE p == [part[Host] EXCEPT !.role = IF on THEN "host" ELSE "spectator",
                                     !.ready = ~on, !.verified = ~on, !.commentator = FALSE]
  <2>2. p.setTotal = part[Host].setTotal /\ p.admitted = part[Host].admitted /\ Host \in Session
    BY <1>1, SessionAssumption DEF Participant
  <2>3. part' = [part EXCEPT ![Host] = p]
    BY <1>3, <2>2 DEF SetHostParticipating, TypeOK
  <2> HIDE DEF p
  <2> QED
    BY <2>1, <2>2, <2>3, Reseats
<1>4. ASSUME NEW s \in Session, NEW on \in BOOLEAN, SetCommentatorAccess(s, on)
      PROVE  Promised
  <2>1. SameLedger(part', part)
    BY <1>4 DEF SetCommentatorAccess, SameLedger, SameSeats, TypeOK, Participant
  <2> QED
    BY <1>4, <2>1, Quiet DEF SetCommentatorAccess
<1>5. ASSUME NEW s \in Session, Kick(s)
      PROVE  Promised
  <2>1. (lifecycle' \in Racing <=> lifecycle \in Racing) /\ phase' = phase
    BY <1>5, RefreshedRacing DEF Kick
  <2>2. part' = [part EXCEPT ![s] = Absent] /\ finalized' = finalized \ {s}
    BY <1>5 DEF Kick, Forget
  <2>3. Absent.setTotal = 0 /\ Absent.role = "none"
    BY DEF Absent, Entry
  <2>4. CASE lifecycle \in Racing /\ phase = "open"
    <3>1. ~part[s].admitted /\ part[s].setTotal = 0
      BY <1>5, <2>4 DEF Kick, MayKick, PaidWereAdmitted
    <3>2. Competitors' = Competitors
      BY <1>5, <3>1
      DEF Kick, Competitors, CompetitorsOf, IsCompetitor, Absent, Entry, TypeOK
    <3>3. s \notin Competitors
      BY <3>1 DEF Competitors, CompetitorsOf, IsCompetitor
    <3>4. /\ \A t \in Session : part'[t].setTotal = part[t].setTotal
          /\ PlacesKept
      BY <2>2, <2>3, <3>1 DEF PlacesKept, TypeOK
    <3> QED
      BY <1>5, <2>1, <2>2, <2>4, <3>2, <3>3, <3>4 DEF Promised, Settles, Kick
  <2>5. CASE lifecycle \notin Racing
    BY <2>1, <2>2, <2>3, <2>5, Reseats
  <2> QED
    BY <2>1, <2>4, <2>5 DEF Promised
<1> QED
  BY <1>2, <1>3, <1>4, <1>5 DEF RosterControl

LEMMA PromiseControl ==
    ASSUME TypeOK, RoomControl
    PROVE  Promised
<1> USE DEF policyVars, setVars, HostUses
<1>1. ASSUME lifecycle \notin Racing, lifecycle' \notin Racing, finalized' = finalized,
             phase' = phase, part' = part \/ part' = ResetForLockedChart(part)
      PROVE  Promised
  <2>1. SameLedger(part', part)
    BY <1>1, Itself, ResetLedger
  <2> QED
    BY <1>1, <2>1, Quiet
<1>2. ASSUME NEW c \in Chart, LockChart(c) \/ AppendChart(c)
      PROVE  Promised
  <2>1. /\ lifecycle \notin Racing /\ lifecycle' \notin Racing
        /\ finalized' = finalized /\ phase' = phase
        /\ part' = part \/ part' = ResetForLockedChart(part)
    BY <1>2 DEF LockChart, AppendChart, SelectChart, Racing
  <2> QED
    BY <1>1, <2>1
<1>3. ASSUME NEW i \in DOMAIN setlist, RemoveSetlist(i)
      PROVE  Promised
  <2>1. /\ lifecycle \notin Racing /\ lifecycle' \notin Racing
        /\ finalized' = finalized /\ phase' = phase
        /\ part' = part \/ part' = ResetForLockedChart(part)
    BY <1>3 DEF RemoveSetlist, SelectChart, Racing
  <2> QED
    BY <1>1, <2>1
<1>4. ASSUME NEW i \in DOMAIN setlist, NEW j \in DOMAIN setlist, MoveSetlist(i, j)
      PROVE  Promised
  BY <1>1, <1>4 DEF MoveSetlist
<1>5. ASSUME AdvanceSetlist
      PROVE  Promised
  <2>1. /\ lifecycle \notin Racing /\ lifecycle' \notin Racing
        /\ finalized' = finalized /\ phase' = phase
        /\ part' = part \/ part' = ResetForLockedChart(part)
    BY <1>5 DEF AdvanceSetlist, SelectChart, Racing
  <2> QED
    BY <1>1, <2>1
<1>6. ASSUME NEW on \in BOOLEAN, ScheduleStart(on)
      PROVE  Promised
  <2>1. part' = [s \in Session |->
                   IF ~RacesIn(part[s].role) THEN part[s]
                   ELSE [part[s] EXCEPT !.validity = "pending", !.done = 0, !.missed = 0,
                            !.accuracy = 100, !.rank = 0, !.seq = NoSeq]]
    BY <1>6 DEF ScheduleStart
  <2>2. SameLedger(part', part)
    <3>1. ASSUME NEW s \in Session
          PROVE  /\ part'[s].role = part[s].role /\ part'[s].admitted = part[s].admitted
                 /\ part'[s].setTotal = part[s].setTotal
      <4>1. part[s] \in Participant
        BY DEF TypeOK
      <4>2. part'[s] = IF ~RacesIn(part[s].role) THEN part[s]
                       ELSE [part[s] EXCEPT !.validity = "pending", !.done = 0, !.missed = 0,
                                !.accuracy = 100, !.rank = 0, !.seq = NoSeq]
        BY <2>1
      <4> QED
        BY <4>1, <4>2 DEF Participant
    <3> QED
      BY <3>1 DEF SameLedger, SameSeats
  <2>3. /\ lifecycle \notin Racing /\ lifecycle' \in Racing /\ finalized' = {}
        /\ Competitors # {} /\ phase' = phase /\ SameRules
    BY <1>6 DEF ScheduleStart, Racing, SameRules
  <2> QED
    BY <2>2, <2>3 DEF Promised, Begins
<1>7. ASSUME (\E on \in BOOLEAN : SetValidityChecks(on)) \/ \E value \in Setting : ChangeSetting(value)
      PROVE  Promised
  <2>1. /\ lifecycle \notin Racing /\ lifecycle' \notin Racing
        /\ finalized' = finalized /\ phase' = phase /\ part' = part
    BY <1>7 DEF SetValidityChecks, ChangeSetting, PreRace, Racing
  <2> QED
    BY <1>1, <2>1
<1>8. ASSUME Close \/ StopHosting
      PROVE  Promised
  BY <1>8 DEF Close, StopHosting, Promised
<1> QED
  BY <1>2, <1>3, <1>4, <1>5, <1>6, <1>7, <1>8 DEF RoomControl

LEMMA PromisePreparation ==
    ASSUME TypeOK, NEW s \in Session, Preparation(s)
    PROVE  Promised
<1>1. ASSUME NEW on \in BOOLEAN, SetVerified(s, on) \/ SetReady(s, on)
      PROVE  Promised
  <2>1. lifecycle \notin Racing /\ lifecycle' \notin Racing /\ phase' = phase
        /\ finalized' = finalized
    BY <1>1, RefreshedRacing DEF SetVerified, SetReady, PreRace, Racing
  <2>2. SameLedger(part', part)
    BY <1>1 DEF SetVerified, SetReady, SameLedger, SameSeats, TypeOK, Participant
  <2> QED
    BY <2>1, <2>2, Quiet
<1> QED
  BY <1>1 DEF Preparation

LEMMA AttemptedLedger ==
    ASSUME TypeOK, NEW s \in Session, NEW run \in Run
    PROVE  /\ Attempted(s, run) \in Participant
           /\ Attempted(s, run).setTotal = part[s].setTotal
           /\ [part EXCEPT ![s] = Attempted(s, run)] \in Participants
           /\ SameLedger([part EXCEPT ![s] = Attempted(s, run)], part)
<1> DEFINE p == Attempted(s, run)
<1>1. part[s] \in Participant /\ part \in Participants
  BY DEF TypeOK, Participants
<1>2. p.setTotal = part[s].setTotal
  BY <1>1 DEF Attempted, Participant
<1>3. p \in Participant /\ p.role = part[s].role /\ p.admitted = part[s].admitted
  BY AttemptedType, AttemptedSeats
<1> HIDE DEF p
<1>4. [part EXCEPT ![s] = p] \in Participants /\ SameLedger([part EXCEPT ![s] = p], part)
  BY <1>1, <1>2, <1>3, EditedLedger DEF Participants
<1> QED
  BY <1>2, <1>3, <1>4 DEF p

LEMMA PromiseRun ==
    ASSUME TypeOK, RaceOK, NEW s \in Session, RunEvent(s)
    PROVE  Promised
<1> USE DEF policyVars, setVars
<1>1. part \in Participants /\ part[s] \in Participant
  BY DEF TypeOK, Participants
<1>2. ASSUME RunEventRefused(s)
      PROVE  Promised
  <2>1. SameLedger(part', part)
    BY <1>1, <1>2, RejectedLedger DEF RunEventRefused
  <2> QED
    BY <1>2, <2>1, Quiet DEF RunEventRefused, SameRules
<1>3. ASSUME NEW run \in Run, RunStarted(s, run)
      PROVE  Promised
  <2>1. SameLedger(part', part)
    BY <1>3, AttemptedLedger DEF RunStarted
  <2> QED
    BY <1>3, <2>1, Quiet DEF RunStarted, SameRules
<1>4. ASSUME NEW run \in Run, NEW seq \in 0 .. MaxSeq, NEW totals \in Totals,
             IngestScore(s, run, seq, totals)
      PROVE  Promised
  <2> DEFINE p == Attempted(s, run)
             ps == [part EXCEPT ![s] = p]
  <2>1. p \in Participant /\ ps \in Participants /\ SameLedger(ps, part)
    BY AttemptedLedger
  <2>2. lifecycle \in Racing /\ lifecycle' \in Racing
    BY <1>4 DEF IngestScore, MayStartRun, ScoreStale, ScoreRefused, ScoreCounted, Racing
  <2>3. SameLedger(part', part)
    <3>1. CASE ScoreStale(s, run, seq)
      BY <2>1, <3>1 DEF ScoreStale
    <3>2. CASE ScoreRefused(s, run, seq, totals)
      <4>1. part' = RejectedIn(ps, s)
        BY <3>2 DEF ScoreRefused
      <4> HIDE DEF ps
      <4> QED
        BY <2>1, <4>1, RejectedLedger DEF SameLedger, SameSeats
    <3>3. CASE ScoreCounted(s, run, seq, totals)
      <4> DEFINE q == Scored(p, seq, totals)
      <4>1. q \in Participant
        BY <2>1, <3>3, ScoredType DEF ScoreCounted
      <4>2. /\ q.role = part[s].role /\ q.admitted = part[s].admitted
            /\ q.setTotal = part[s].setTotal
        <5>1. /\ p.role = part[s].role /\ p.admitted = part[s].admitted
              /\ p.setTotal = part[s].setTotal
          BY AttemptedSeats, AttemptedLedger
        <5> HIDE DEF p
        <5> QED
          BY <2>1, <5>1 DEF Scored, Participant
      <4>3. /\ [part EXCEPT ![s] = q] \in Participants
            /\ SameLedger([part EXCEPT ![s] = q], part)
        <5> HIDE DEF q
        <5> QED
          BY <1>1, <4>1, <4>2, EditedLedger DEF Participants
      <4>4. part' = Ranked([part EXCEPT ![s] = q])
        BY <3>3 DEF ScoreCounted
      <4> HIDE DEF q
      <4> QED
        BY <4>3, <4>4, RankedLedger DEF SameLedger, SameSeats
    <3> QED
      BY <1>4, <3>1, <3>2, <3>3 DEF IngestScore
  <2>4. finalized' = finalized /\ phase' = phase /\ SameRules
    BY <1>4 DEF IngestScore, SameRules
  <2> QED
    BY <2>2, <2>3, <2>4, Quiet
<1>5. ASSUME NEW run \in Run, NEW dnf \in BOOLEAN, Invalidate(s, run, dnf)
      PROVE  Promised
  <2> DEFINE verdict == IF dnf THEN "dnf" ELSE "invalid"
             p == [part[s] EXCEPT !.validity = verdict]
             ps == [part EXCEPT ![s] = p]
  <2>1. /\ p \in Participant /\ p.role = part[s].role
        /\ p.admitted = part[s].admitted /\ p.setTotal = part[s].setTotal
    <3>1. verdict \in Validity
      BY DEF Validity
    <3> HIDE DEF verdict
    <3> QED
      BY <1>1, <3>1 DEF Participant
  <2>2. ps \in Participants /\ SameLedger(ps, part)
    <3> HIDE DEF p
    <3> QED
      BY <1>1, <2>1, EditedLedger DEF Participants
  <2>3. part' = Ranked(ps)
    BY <1>5 DEF Invalidate
  <2>4. SameLedger(part', part)
    <3> HIDE DEF ps
    <3> QED
      BY <2>2, <2>3, RankedLedger DEF SameLedger, SameSeats
  <2> QED
    BY <1>5, <2>4, Quiet DEF Invalidate, SameRules
<1>6. ASSUME NEW run \in Run, FinishRun(s, run)
      PROVE  Promised
  <2>1. CASE phase = "open"
    <3>1. lifecycle \in Racing
      BY <1>6, <2>1 DEF FinishRun, MayFinish, RaceOK, AttemptsSettled
    <3>2. /\ Finished(part[s]).role = part[s].role
          /\ Finished(part[s]).admitted = part[s].admitted
          /\ Finished(part[s]).setTotal >= part[s].setTotal
      <4>1. /\ part[s].setTotal \in Nat /\ part[s].accuracy \in Nat
        BY <1>1 DEF Participant
      <4> QED
        BY <1>1, <4>1 DEF Finished, Participant
    <3>3. part' = [part EXCEPT ![s] = Finished(part[s])] /\ finalized' = finalized \cup {s}
      BY <1>6 DEF FinishRun
    <3>4. SameSeats(part', part)
      BY <3>2, <3>3, EditedSeats
    <3>5. s \in Competitors /\ s \notin finalized
      BY <1>6 DEF FinishRun, MayFinish, Competitors, CompetitorsOf
    <3>6. \A t \in Session :
             IF t \in Competitors /\ t \in finalized' /\ t \notin finalized
             THEN part'[t].setTotal >= part[t].setTotal
             ELSE part'[t].setTotal = part[t].setTotal
      <4>1. part'[s] = Finished(part[s]) /\ \A t \in Session \ {s} : part'[t] = part[t]
        BY <3>3 DEF TypeOK
      <4>2. \A t \in Session \ {s} : t \in finalized' => t \in finalized
        BY <3>3
      <4> QED
        BY <3>2, <3>3, <3>5, <4>1, <4>2
    <3> QED
      BY <1>6, <3>1, <3>3, <3>4, <3>6, Settlement DEF FinishRun, SameRules
  <2>2. CASE phase # "open"
    BY <1>6, <2>2 DEF FinishRun, Promised
  <2> QED
    BY <2>1, <2>2
<1> QED
  BY <1>2, <1>3, <1>4, <1>5, <1>6 DEF RunEvent

LEMMA PromiseNext ==
    ASSUME TypeOK, RaceOK, PaidWereAdmitted, [Next]_vars
    PROVE  Promised
<1>1. CASE Next
  BY <1>1, PromiseMaintenance, PromiseRoster, PromiseControl, PromiseTransport,
     PromisePreparation, PromiseRun
  DEF Next
<1>2. CASE UNCHANGED vars
  BY <1>2, Itself, Quiet DEF vars, policyVars, setVars, SameRules
<1> QED
  BY <1>1, <1>2

-----------------------------------------------------------------------------
LEMMA ContractInit == Init => PaidWereAdmitted /\ Contract!Init
<1> SUFFICES ASSUME Init
             PROVE  PaidWereAdmitted /\ Contract!Init
  OBVIOUS
<1>1. /\ phase = "open" /\ lifecycle = "forming" /\ lifecycle \notin Racing
      /\ \A s \in Session : part[s].setTotal = 0
  BY DEF Init, Racing, Absent, Entry
<1>2. <<checks, settings, chart>> \in BOOLEAN \X Setting \X (Chart \cup {NoChart})
  BY TypeInit DEF TypeOK, PolicyTypes, SetTypes
<1> QED
  BY <1>1, <1>2 DEF PaidWereAdmitted, Contract!Init, Contract!Zero, racing

\* The room implements the contract of a race: its roster and rules are frozen,
\* every racer is settled exactly once, points are only given to a racer who is
\* settled, and the race ends with the last one, in any room, with any number of
\* participants and whatever they and the network do.
THEOREM RoomKeepsContract == Spec => KeepsContract
<1>1. Init => TypeOK /\ RaceOK /\ PaidWereAdmitted /\ Contract!Init
  BY TypeInit, RaceInit, ContractInit
<1>2. TypeOK /\ RaceOK /\ PaidWereAdmitted /\ [Next]_vars
        => /\ (TypeOK /\ RaceOK /\ PaidWereAdmitted)'
           /\ [Contract!Next]_(Contract!vars)
  <2> SUFFICES ASSUME TypeOK, RaceOK, PaidWereAdmitted, [Next]_vars
               PROVE  /\ (TypeOK /\ RaceOK /\ PaidWereAdmitted)'
                      /\ [Contract!Next]_(Contract!vars)
    OBVIOUS
  <2>1. TypeOK' /\ RaceOK'
    BY TypeNext, RaceNext
  <2>2. Promised
    BY PromiseNext
  <2> QED
    BY <2>1, <2>2, PaidKept, PromiseKept
<1> QED
  BY <1>1, <1>2, PTL DEF Spec, KeepsContract, Contract!Spec

-----------------------------------------------------------------------------
(***************************************************************************)
(* Where the entries of an edited list come from.                          *)
(***************************************************************************)
LEMMA Joined ==
    ASSUME NEW S, NEW s \in Seq(S), NEW t \in Seq(S)
    PROVE  /\ s \o t \in Seq(S) /\ Len(s \o t) = Len(s) + Len(t)
           /\ \A j \in 1 .. Len(s) + Len(t) :
                 (s \o t)[j] = IF j <= Len(s) THEN s[j] ELSE t[j - Len(s)]
  OBVIOUS

LEMMA Removed ==
    ASSUME NEW S, NEW seq \in Seq(S), NEW i \in DOMAIN seq
    PROVE  /\ RemoveAt(seq, i) \in Seq(S) /\ Len(RemoveAt(seq, i)) = Len(seq) - 1
           /\ \A j \in 1 .. Len(seq) - 1 :
                 RemoveAt(seq, i)[j] = IF j < i THEN seq[j] ELSE seq[j + 1]
<1> DEFINE front == SubSeq(seq, 1, i - 1)
           back == SubSeq(seq, i + 1, Len(seq))
<1>1. i \in 1 .. Len(seq) /\ Len(seq) \in Nat
  OBVIOUS
<1>2. /\ front \in Seq(S) /\ Len(front) = i - 1
      /\ \A j \in 1 .. i - 1 : front[j] = seq[j]
  BY <1>1
<1>3. /\ back \in Seq(S) /\ Len(back) = Len(seq) - i
      /\ \A j \in 1 .. Len(seq) - i : back[j] = seq[i + j]
  BY <1>1
<1>4. RemoveAt(seq, i) = front \o back
  BY DEF RemoveAt
<1> HIDE DEF front, back
<1>5. /\ front \o back \in Seq(S) /\ Len(front \o back) = Len(seq) - 1
      /\ \A j \in 1 .. i - 1 : (front \o back)[j] = seq[j]
      /\ \A j \in i .. Len(seq) - 1 : (front \o back)[j] = back[j - (i - 1)]
  BY SMTT(30), <1>1, <1>2, <1>3
<1>6. ASSUME NEW j \in i .. Len(seq) - 1
      PROVE  (front \o back)[j] = seq[j + 1]
  <2>1. j - (i - 1) \in 1 .. Len(seq) - i /\ i + (j - (i - 1)) = j + 1
    BY <1>1
  <2> QED
    BY <1>3, <1>5, <2>1
<1>7. ASSUME NEW j \in 1 .. Len(seq) - 1
      PROVE  (front \o back)[j] = IF j < i THEN seq[j] ELSE seq[j + 1]
  <2>1. j < i => j \in 1 .. i - 1
    BY <1>1
  <2>2. ~(j < i) => j \in i .. Len(seq) - 1
    BY <1>1
  <2> QED
    BY <1>5, <1>6, <2>1, <2>2
<1> QED
  BY <1>4, <1>5, <1>7

LEMMA Inserted ==
    ASSUME NEW S, NEW seq \in Seq(S), NEW i \in 1 .. Len(seq) + 1, NEW e \in S
    PROVE  /\ InsertAt(seq, i, e) \in Seq(S) /\ Len(InsertAt(seq, i, e)) = Len(seq) + 1
           /\ \A j \in 1 .. Len(seq) + 1 :
                 InsertAt(seq, i, e)[j] = IF j < i THEN seq[j]
                                          ELSE IF j = i THEN e ELSE seq[j - 1]
<1> DEFINE front == SubSeq(seq, 1, i - 1)
           back == SubSeq(seq, i, Len(seq))
<1>1. Len(seq) \in Nat
  OBVIOUS
<1>2. /\ front \in Seq(S) /\ Len(front) = i - 1
      /\ \A j \in 1 .. i - 1 : front[j] = seq[j]
  BY <1>1
<1>3. /\ back \in Seq(S) /\ Len(back) = Len(seq) + 1 - i
      /\ \A j \in 1 .. Len(seq) + 1 - i : back[j] = seq[i + j - 1]
  BY <1>1
<1>4. InsertAt(seq, i, e) = (front \o <<e>>) \o back
  BY DEF InsertAt
<1> HIDE DEF front, back
<1>5. /\ front \o <<e>> \in Seq(S) /\ Len(front \o <<e>>) = i
      /\ \A j \in 1 .. i - 1 : (front \o <<e>>)[j] = seq[j]
      /\ (front \o <<e>>)[i] = e
  BY <1>1, <1>2
<1> DEFINE head == front \o <<e>>
<1> HIDE DEF head
<1>6. /\ head \in Seq(S) /\ Len(head) = i /\ head[i] = e
      /\ \A j \in 1 .. i - 1 : head[j] = seq[j]
  BY <1>5 DEF head
<1>7. /\ head \o back \in Seq(S) /\ Len(head \o back) = Len(seq) + 1
      /\ \A j \in 1 .. i : (head \o back)[j] = head[j]
      /\ \A j \in i + 1 .. Len(seq) + 1 : (head \o back)[j] = back[j - i]
  <2>1. i \in Nat /\ Len(back) \in Nat /\ i + Len(back) = Len(seq) + 1
    BY <1>1, <1>3
  <2>2. /\ head \o back \in Seq(S) /\ Len(head \o back) = i + Len(back)
        /\ \A j \in 1 .. i + Len(back) :
              (head \o back)[j] = IF j <= i THEN head[j] ELSE back[j - i]
    <3>1. head \in Seq(S) /\ back \in Seq(S) /\ Len(head) = i
      BY <1>3, <1>6
    <3> QED
      BY <3>1, Joined
  <2> QED
    BY <1>1, <2>1, <2>2
<1>8. ASSUME NEW j \in i + 1 .. Len(seq) + 1
      PROVE  (head \o back)[j] = seq[j - 1]
  <2>1. j - i \in 1 .. Len(seq) + 1 - i /\ i + (j - i) - 1 = j - 1
    BY <1>1
  <2> QED
    BY <1>3, <1>7, <2>1
<1>9. ASSUME NEW j \in 1 .. Len(seq) + 1
      PROVE  (head \o back)[j] = IF j < i THEN seq[j] ELSE IF j = i THEN e ELSE seq[j - 1]
  <2>1. j < i => j \in 1 .. i - 1 /\ j \in 1 .. i
    BY <1>1
  <2>2. j = i => j \in 1 .. i
    BY <1>1
  <2>3. ~(j < i) /\ j # i => j \in i + 1 .. Len(seq) + 1
    BY <1>1
  <2> QED
    BY <1>6, <1>7, <1>8, <2>1, <2>2, <2>3
<1>10. InsertAt(seq, i, e) = head \o back
  BY <1>4 DEF head
<1> QED
  BY <1>7, <1>9, <1>10

\* An entry that is moved within the part of a list after position n leaves the
\* first n entries where they are and mixes none of them into that part.
LEMMA Moved ==
    ASSUME NEW S, NEW seq \in Seq(S), NEW i \in DOMAIN seq, NEW j \in DOMAIN seq,
           NEW n \in Nat, n < i, n < j
    PROVE  LET new == InsertAt(RemoveAt(seq, i), j, seq[i]) IN
           /\ new \in Seq(S) /\ Len(new) = Len(seq)
           /\ \A k \in 1 .. n : new[k] = seq[k]
           /\ \A k \in DOMAIN new : k > n => \E m \in DOMAIN seq : m > n /\ new[k] = seq[m]
<1> DEFINE short == RemoveAt(seq, i)
           new == InsertAt(short, j, seq[i])
<1>1. /\ short \in Seq(S) /\ Len(short) = Len(seq) - 1
      /\ \A k \in 1 .. Len(seq) - 1 : short[k] = IF k < i THEN seq[k] ELSE seq[k + 1]
  BY Removed
<1>2. seq[i] \in S /\ j \in 1 .. Len(short) + 1 /\ i \in 1 .. Len(seq) /\ Len(seq) \in Nat
  BY <1>1
<1>3. /\ new \in Seq(S) /\ Len(new) = Len(seq)
      /\ \A k \in 1 .. Len(seq) :
            new[k] = IF k < j THEN short[k] ELSE IF k = j THEN seq[i] ELSE short[k - 1]
  <2> HIDE DEF short
  <2>0. ASSUME NEW e \in S, NEW m \in 1 .. Len(short) + 1
        PROVE  /\ InsertAt(short, m, e) \in Seq(S)
               /\ Len(InsertAt(short, m, e)) = Len(short) + 1
               /\ \A k \in 1 .. Len(short) + 1 :
                     InsertAt(short, m, e)[k] = IF k < m THEN short[k]
                                                ELSE IF k = m THEN e ELSE short[k - 1]
    BY <1>1, Inserted
  <2>1. /\ new \in Seq(S) /\ Len(new) = Len(short) + 1
        /\ \A k \in 1 .. Len(short) + 1 :
              new[k] = IF k < j THEN short[k] ELSE IF k = j THEN seq[i] ELSE short[k - 1]
    BY <1>2, <2>0
  <2> QED
    BY <1>1, <1>2, <2>1
<1> HIDE DEF short, new
<1>4. ASSUME NEW k \in 1 .. n
      PROVE  new[k] = seq[k]
  <2>1. k \in 1 .. Len(seq) - 1 /\ k < i /\ k < j
    BY <1>1, <1>2
  <2>2. new[k] = short[k]
    BY <1>2, <1>3, <2>1
  <2> QED
    BY <1>1, <2>1, <2>2
<1>5. ASSUME NEW k \in DOMAIN new, k > n
      PROVE  \E m \in DOMAIN seq : m > n /\ new[k] = seq[m]
  <2>0. k \in 1 .. Len(seq) /\ DOMAIN seq = 1 .. Len(seq)
    BY <1>3
  <2>1. CASE k = j
    BY <1>2, <1>3, <2>0, <2>1
  <2>2. CASE k < j
    <3>1. new[k] = IF k < i THEN seq[k] ELSE seq[k + 1]
      BY <1>1, <1>2, <1>3, <2>0, <2>2
    <3>2. k \in DOMAIN seq /\ k + 1 \in DOMAIN seq /\ k + 1 > n
      BY <1>2, <1>5, <2>0, <2>2
    <3> QED
      BY <1>5, <3>1, <3>2
  <2>3. CASE k > j
    <3>1. new[k] = IF k - 1 < i THEN seq[k - 1] ELSE seq[k]
      BY <1>1, <1>2, <1>3, <2>0, <2>3
    <3>2. k \in DOMAIN seq /\ k - 1 \in DOMAIN seq /\ k - 1 > n
      BY <1>2, <1>5, <2>0, <2>3
    <3> QED
      BY <1>5, <3>1, <3>2
  <2> QED
    BY <1>2, <2>0, <2>1, <2>2, <2>3
<1> QED
  BY <1>3, <1>4, <1>5 DEF short, new

-----------------------------------------------------------------------------
(***************************************************************************)
(* Every action keeps the setlist.                                         *)
(***************************************************************************)
LEMMA SetlistInit == Init => SetlistKept
  BY DEF Init, SetlistKept, ChartFollowsSetlist, SetlistInOrder

LEMMA SetlistUnchanged ==
    ASSUME SetlistKept, setVars' = setVars
    PROVE  SetlistKept'
  BY DEF setVars, SetlistKept, ChartFollowsSetlist, SetlistInOrder

\* The active entry is marked as played, and stays the active one.
LEMMA SetlistCompleted ==
    ASSUME TypeOK, SetlistKept, active' = active, chart' = chart,
           setlist' = IF active \in DOMAIN setlist
                      THEN [setlist EXCEPT ![active].completed = TRUE] ELSE setlist
    PROVE  SetlistKept'
<1>1. setlist \in Seq(SetlistEntry) /\ active \in Nat
  BY DEF TypeOK, SetTypes
<1>2. CASE active \in DOMAIN setlist
  <2>1. DOMAIN setlist' = DOMAIN setlist /\ setlist' # <<>> /\ setlist # <<>>
    BY <1>1, <1>2
  <2>2. \A i \in DOMAIN setlist : i # active => setlist'[i] = setlist[i]
    BY <1>1, <1>2
  <2>3. setlist'[active].chart = setlist[active].chart
    <3>1. setlist[active] \in SetlistEntry
      BY <1>1, <1>2
    <3> QED
      BY <1>1, <1>2, <3>1 DEF SetlistEntry
  <2>4. \A i \in DOMAIN setlist : i < active \/ i > active => i # active
    BY <1>1
  <2> QED
    BY <1>2, <2>1, <2>2, <2>3, <2>4 DEF SetlistKept, ChartFollowsSetlist, SetlistInOrder
<1>3. CASE active \notin DOMAIN setlist
  BY <1>3, SetlistUnchanged DEF setVars
<1> QED
  BY <1>2, <1>3

LEMMA SetlistFinish ==
    ASSUME TypeOK, SetlistKept, NEW ps, NEW fin, TryFinishChart(ps, fin),
           active' = active, chart' = chart
    PROVE  SetlistKept'
<1>1. CASE ChartOver(ps, fin)
  BY <1>1, SetlistCompleted DEF TryFinishChart
<1>2. CASE ~ChartOver(ps, fin)
  BY <1>2, SetlistUnchanged DEF TryFinishChart, setVars
<1> QED
  BY <1>1, <1>2

LEMMA SetlistAppend ==
    ASSUME TypeOK, SetlistKept, NEW c \in Chart, AppendChart(c)
    PROVE  SetlistKept'
<1> DEFINE e == [chart |-> c, completed |-> FALSE]
<1>1. setlist \in Seq(SetlistEntry) /\ active \in Nat /\ e \in SetlistEntry
  BY DEF TypeOK, SetTypes, SetlistEntry
<1>2. /\ setlist' = Append(setlist, e) /\ setlist' # <<>>
      /\ DOMAIN setlist' = 1 .. Len(setlist) + 1
      /\ \A i \in 1 .. Len(setlist) : setlist'[i] = setlist[i]
      /\ setlist'[Len(setlist) + 1] = e
  BY <1>1 DEF AppendChart
<1>3. ~e.completed
  OBVIOUS
<1> HIDE DEF e
<1>4. CASE active = 0
  <2>1. setlist = <<>> /\ Len(setlist) = 0
    BY <1>1, <1>4 DEF SetlistKept, ChartFollowsSetlist
  <2>2. active' = 1 /\ chart' = setlist'[1].chart
    BY <1>2, <1>4 DEF AppendChart, SelectChart, e
  <2>3. DOMAIN setlist' = 1 .. 1
    BY <1>2, <2>1
  <2> QED
    BY <1>2, <2>2, <2>3 DEF SetlistKept, ChartFollowsSetlist, SetlistInOrder
<1>5. CASE active # 0
  <2>1. active' = active /\ chart' = chart
    BY <1>5 DEF AppendChart
  <2>2. active \in 1 .. Len(setlist) /\ chart = setlist[active].chart
    BY <1>1, <1>5 DEF SetlistKept, ChartFollowsSetlist
  <2>3. ChartFollowsSetlist'
    BY <1>1, <1>2, <2>1, <2>2 DEF ChartFollowsSetlist
  <2>4. ASSUME NEW i \in 1 .. Len(setlist) + 1
        PROVE  /\ i < active => setlist'[i].completed
               /\ i > active => ~setlist'[i].completed
    <3>1. CASE i \in 1 .. Len(setlist)
      BY <1>1, <1>2, <3>1 DEF SetlistKept, SetlistInOrder
    <3>2. CASE i = Len(setlist) + 1
      BY <1>1, <1>2, <1>3, <2>2, <3>2
    <3> QED
      BY <1>1, <3>1, <3>2
  <2> QED
    BY <1>2, <2>1, <2>3, <2>4 DEF SetlistKept, SetlistInOrder
<1> QED
  BY <1>4, <1>5

LEMMA SetlistRemove ==
    ASSUME TypeOK, SetlistKept, NEW i \in DOMAIN setlist, RemoveSetlist(i)
    PROVE  SetlistKept'
<1> DEFINE shorter == RemoveAt(setlist, i)
           next == IF i <= Len(shorter) THEN i ELSE Len(shorter)
<1>1. setlist \in Seq(SetlistEntry) /\ active \in Nat
  BY DEF TypeOK, SetTypes
<1>2. /\ shorter \in Seq(SetlistEntry) /\ Len(shorter) = Len(setlist) - 1
      /\ \A j \in 1 .. Len(setlist) - 1 :
            shorter[j] = IF j < i THEN setlist[j] ELSE setlist[j + 1]
  BY <1>1, Removed
<1>3. i \in 1 .. Len(setlist) /\ Len(setlist) \in Nat /\ setlist # <<>>
  BY <1>1
<1>4. active \in 1 .. Len(setlist) /\ chart = setlist[active].chart
  BY <1>1, <1>3 DEF SetlistKept, ChartFollowsSetlist
<1>5. \A j \in 1 .. Len(setlist) : /\ j < active => setlist[j].completed
                                   /\ j > active => ~setlist[j].completed
  BY <1>1 DEF SetlistKept, SetlistInOrder
<1>6. setlist' = shorter
  BY DEF RemoveSetlist
<1>7. CASE shorter = <<>>
  <2>1. active' = 0
    BY <1>7 DEF RemoveSetlist
  <2> QED
    BY <1>6, <1>7, <2>1 DEF SetlistKept, ChartFollowsSetlist, SetlistInOrder
<1>8. CASE shorter # <<>> /\ active = i
  <2>1. active' = next /\ chart' = shorter[next].chart
    BY <1>8 DEF RemoveSetlist, SelectChart
  <2> HIDE DEF shorter
  <2>2. next \in 1 .. Len(shorter) /\ DOMAIN shorter = 1 .. Len(shorter)
    BY <1>2, <1>3, <1>8
  <2>3. \A j \in 1 .. Len(shorter) : /\ j < next => shorter[j].completed
                                     /\ j > next => ~shorter[j].completed
    BY <1>2, <1>3, <1>5, <1>8
  <2> HIDE DEF next
  <2> QED
    BY <1>6, <1>8, <2>1, <2>2, <2>3 DEF SetlistKept, ChartFollowsSetlist, SetlistInOrder
<1>9. CASE shorter # <<>> /\ active # i
  <2>1. active' = (IF i < active THEN active - 1 ELSE active) /\ chart' = chart
    BY <1>9 DEF RemoveSetlist, ActiveAfterRemoval
  <2> HIDE DEF shorter
  <2>2. active' \in 1 .. Len(shorter) /\ DOMAIN shorter = 1 .. Len(shorter)
    BY <1>2, <1>3, <1>4, <1>9, <2>1
  <2>3. shorter[active'] = setlist[active]
    BY <1>2, <1>3, <1>4, <1>9, <2>1, <2>2
  <2>4. \A j \in 1 .. Len(shorter) : /\ j < active' => shorter[j].completed
                                     /\ j > active' => ~shorter[j].completed
    BY <1>2, <1>3, <1>4, <1>5, <1>9, <2>1
  <2> QED
    BY <1>4, <1>6, <1>9, <2>1, <2>2, <2>3, <2>4
    DEF SetlistKept, ChartFollowsSetlist, SetlistInOrder
<1> QED
  BY <1>7, <1>8, <1>9

LEMMA SetlistMove ==
    ASSUME TypeOK, SetlistKept, NEW i \in DOMAIN setlist, NEW j \in DOMAIN setlist,
           MoveSetlist(i, j)
    PROVE  SetlistKept'
<1>1. setlist \in Seq(SetlistEntry) /\ active \in Nat
  BY DEF TypeOK, SetTypes
<1>2. active \in 1 .. Len(setlist) /\ chart = setlist[active].chart
  BY <1>1 DEF SetlistKept, ChartFollowsSetlist
<1>3. active < i /\ active < j /\ active' = active /\ chart' = chart
  BY <1>1, <1>2 DEF MoveSetlist, Movable
<1>4. /\ setlist' \in Seq(SetlistEntry) /\ Len(setlist') = Len(setlist)
      /\ \A k \in 1 .. active : setlist'[k] = setlist[k]
      /\ \A k \in DOMAIN setlist' :
            k > active => \E m \in DOMAIN setlist : m > active /\ setlist'[k] = setlist[m]
  <2>1. setlist' = InsertAt(RemoveAt(setlist, i), j, setlist[i])
    BY DEF MoveSetlist
  <2> QED
    BY ZenonT(60), <1>1, <1>3, <2>1, Moved
<1>5. DOMAIN setlist' = 1 .. Len(setlist) /\ setlist' # <<>>
  BY <1>1, <1>2, <1>4
<1>6. ChartFollowsSetlist'
  BY SMTT(30), <1>2, <1>3, <1>4, <1>5 DEF ChartFollowsSetlist
<1>7. ASSUME NEW k \in DOMAIN setlist'
      PROVE  /\ k < active => setlist'[k].completed
             /\ k > active => ~setlist'[k].completed
  <2>1. k < active => k \in 1 .. active /\ k \in DOMAIN setlist
    BY <1>1, <1>5
  <2> QED
    BY <1>4, <2>1 DEF SetlistKept, SetlistInOrder
<1> QED
  BY <1>3, <1>6, <1>7 DEF SetlistKept, SetlistInOrder

LEMMA SetlistAdvance ==
    ASSUME TypeOK, SetlistKept, AdvanceSetlist
    PROVE  SetlistKept'
<1>1. setlist \in Seq(SetlistEntry) /\ active \in 1 .. Len(setlist)
  BY DEF TypeOK, SetTypes, AdvanceSetlist, SetlistKept, ChartFollowsSetlist
<1>2. setlist' = [setlist EXCEPT ![active].completed = TRUE] /\ active \in DOMAIN setlist
  BY <1>1 DEF AdvanceSetlist
<1>3. CASE active < Len(setlist)
  <2>1. active' = active + 1 /\ chart' = setlist[active + 1].chart
    BY <1>3 DEF AdvanceSetlist, SelectChart
  <2>2. /\ DOMAIN setlist' = 1 .. Len(setlist)
        /\ \A i \in DOMAIN setlist : i # active => setlist'[i] = setlist[i]
        /\ setlist'[active].completed = TRUE
    <3>1. setlist[active] \in SetlistEntry
      BY <1>1
    <3> QED
      BY <1>1, <1>2, <3>1 DEF SetlistEntry
  <2>3. ChartFollowsSetlist'
    BY <1>1, <1>3, <2>1, <2>2 DEF ChartFollowsSetlist
  <2>4. ASSUME NEW i \in 1 .. Len(setlist)
        PROVE  /\ i < active + 1 => setlist'[i].completed
               /\ i > active + 1 => ~setlist'[i].completed
    <3>1. CASE i = active
      BY <1>1, <2>2, <3>1
    <3>2. CASE i # active
      BY <1>1, <2>2, <3>2 DEF SetlistKept, SetlistInOrder
    <3> QED
      BY <3>1, <3>2
  <2> QED
    BY <2>1, <2>2, <2>3, <2>4 DEF SetlistKept, SetlistInOrder
<1>4. CASE ~(active < Len(setlist))
  BY <1>2, <1>4, SetlistCompleted DEF AdvanceSetlist
<1> QED
  BY <1>3, <1>4

LEMMA SetlistControl ==
    ASSUME TypeOK, SetlistKept, RoomControl
    PROVE  SetlistKept'
<1>1. ASSUME NEW on \in BOOLEAN, SetValidityChecks(on) \/ ScheduleStart(on)
      PROVE  SetlistKept'
  BY <1>1, SetlistUnchanged DEF SetValidityChecks, ScheduleStart
<1>2. ASSUME NEW value \in Setting, ChangeSetting(value)
      PROVE  SetlistKept'
  BY <1>2, SetlistUnchanged DEF ChangeSetting
<1>3. ASSUME NEW c \in Chart, LockChart(c)
      PROVE  SetlistKept'
  BY <1>3 DEF LockChart, SetlistKept, ChartFollowsSetlist, SetlistInOrder
<1>4. ASSUME Close \/ StopHosting
      PROVE  SetlistKept'
  BY <1>4, SetlistUnchanged DEF Close, StopHosting
<1> QED
  BY <1>1, <1>2, <1>3, <1>4, SetlistAppend, SetlistRemove, SetlistMove, SetlistAdvance
  DEF RoomControl

LEMMA SetlistNext == TypeOK /\ SetlistKept /\ [Next]_vars => SetlistKept'
<1> SUFFICES ASSUME TypeOK, SetlistKept, [Next]_vars
             PROVE  SetlistKept'
  OBVIOUS
<1>1. ASSUME Maintenance
      PROVE  SetlistKept'
  <2>1. ASSUME ExpireUnstartedRuns
        PROVE  SetlistKept'
    BY <2>1, SetlistFinish DEF ExpireUnstartedRuns
  <2>2. ASSUME NEW s \in Session, ExpireDisconnect(s)
        PROVE  SetlistKept'
    BY SMTT(60), <2>2, SetlistFinish, SetlistUnchanged
    DEF ExpireDisconnect, ExpireRacer, ExpireReservation, ExpireIdle
  <2> QED
    BY <1>1, <2>1, <2>2 DEF Maintenance
<1>2. ASSUME RosterControl
      PROVE  SetlistKept'
  BY <1>2, SetlistUnchanged
  DEF RosterControl, Admit, SetRole, Kick, SetCommentatorAccess, SetHostParticipating
<1>3. ASSUME NEW s \in Session, Transport(s)
      PROVE  SetlistKept'
  BY <1>3, SetlistUnchanged DEF Transport, Join, JoinRefused, Reconnect, Disconnect
<1>4. ASSUME NEW s \in Session, Preparation(s)
      PROVE  SetlistKept'
  BY <1>4, SetlistUnchanged DEF Preparation, SetVerified, SetReady
<1>5. ASSUME NEW s \in Session, RunEvent(s)
      PROVE  SetlistKept'
  <2>1. ASSUME NEW run \in Run, FinishRun(s, run)
        PROVE  SetlistKept'
    BY <2>1, SetlistFinish DEF FinishRun
  <2>2. ASSUME NEW run \in Run, NEW seq \in 0 .. MaxSeq, NEW totals \in Totals,
               IngestScore(s, run, seq, totals)
        PROVE  SetlistKept'
    BY <2>2, SetlistUnchanged DEF IngestScore
  <2> QED
    BY <1>5, <2>1, <2>2, SetlistUnchanged
    DEF RunEvent, RunEventRefused, RunStarted, Invalidate
<1>6. CASE UNCHANGED vars
  BY <1>6, SetlistUnchanged DEF vars
<1> QED
  BY <1>1, <1>2, <1>3, <1>4, <1>5, <1>6, SetlistControl DEF Next

\* Whatever the host appends, removes, moves, advances or locks, and however the
\* races end, the room's chart is the active entry of the setlist, everything
\* before it has been played and nothing after it has.
THEOREM SetlistStaysInOrder == Spec => []SetlistKept
<1>1. Init => TypeOK /\ SetlistKept
  BY TypeInit, SetlistInit
<1>2. TypeOK /\ SetlistKept /\ [Next]_vars => (TypeOK /\ SetlistKept)'
  BY TypeNext, SetlistNext
<1> QED
  BY <1>1, <1>2, PTL DEF Spec

-----------------------------------------------------------------------------
(***************************************************************************)
(* The inductive invariant.  Clean says of one session what ScoresHonest   *)
(* says of a valid result, and in addition that before a race nobody holds *)
(* one and that the gapless prefix is known before the first event makes   *)
(* the attempt valid.  FreshRun keeps the ids that were replaced.          *)
(***************************************************************************)
Gapless(s) == counted[s] = part[s].seq + 1

Clean(s) ==
    phase = "open" =>
      /\ part[s].validity = "valid" =>
           /\ lifecycle \notin PreRace
           /\ checks => Gapless(s)
           /\ lifecycle \in Racing => part[s].verified /\ s \in started
      /\ part[s].validity = "pending" /\ checks /\ lifecycle \in Racing
         /\ RacesIn(part[s].role) => Gapless(s)

FreshRun(s) ==
    /\ \A i \in DOMAIN retired[s] : retired[s][i] # activeRun[s]
    /\ activeRun[s] = NoRun => retired[s] = <<>>

OpenStage == phase = "open" => lifecycle # "closed"

ScoreOK == OpenStage /\ \A s \in Session : Clean(s) /\ FreshRun(s)

-----------------------------------------------------------------------------
(***************************************************************************)
(* What a step does to one session.                                        *)
(***************************************************************************)
\* A step that neither begins a race nor opens the lobby again.
SameStage == /\ phase' = "open" => phase = "open"
             /\ lifecycle' \in PreRace => lifecycle \in PreRace
             /\ lifecycle' \in Racing => lifecycle \in Racing
             /\ lifecycle' = "closed" => lifecycle = "closed"

Same(p, q) == /\ p.validity = q.validity /\ p.seq = q.seq
              /\ p.role = q.role /\ p.verified = q.verified

LEMMA RefreshedStage ==
    ASSUME NEW ps, lifecycle' = Refreshed(ps), phase' = phase
    PROVE  SameStage
  BY DEF SameStage, Refreshed, PreRace, Racing

LEMMA FinishedStage ==
    ASSUME NEW ps, NEW fin, TryFinishChart(ps, fin), phase' = phase
    PROVE  SameStage
  BY DEF SameStage, TryFinishChart, PreRace, Racing

\* The step leaves the session's result alone; outside a race its role and its
\* verification may change.
LEMMA ResultKept ==
    ASSUME NEW t \in Session, Clean(t), SameStage, checks' = checks,
           counted'[t] = counted[t],
           part'[t].validity = part[t].validity, part'[t].seq = part[t].seq,
           lifecycle' \in Racing =>
              /\ Same(part'[t], part[t])
              /\ t \in started => t \in started'
    PROVE  Clean(t)'
  BY DEF Clean, SameStage, Same, Gapless

LEMMA ResultLost ==
    ASSUME NEW t \in Session,
           \/ part'[t].validity \notin {"valid", "pending"}
           \/ /\ part'[t].validity = "pending"
              /\ lifecycle' \notin Racing \/ ~RacesIn(part'[t].role)
    PROVE  Clean(t)'
  BY DEF Clean

LEMMA RankedSame ==
    ASSUME NEW ps \in Participants, NEW t \in Session
    PROVE  Same(Ranked(ps)[t], ps[t])
<1>1. ps[t] \in Participant
  BY DEF Participants
<1> QED
  BY <1>1 DEF Same, Ranked, Participant

LEMMA RejectedSame ==
    ASSUME NEW ps \in Participants, NEW s \in Session, NEW t \in Session
    PROVE  \/ Same(RejectedIn(ps, s)[t], ps[t])
           \/ t = s /\ RejectedIn(ps, s)[t].validity = "invalid"
<1> DEFINE qs == [ps EXCEPT ![s].validity = "invalid"]
<1>1. ps[s] \in Participant /\ ps[t] \in Participant
  BY DEF Participants
<1>2. [ps[s] EXCEPT !.validity = "invalid"] \in Participant
  BY <1>1 DEF Participant, Validity
<1>3. /\ qs \in Participants
      /\ IF t = s THEN qs[t].validity = "invalid" ELSE qs[t] = ps[t]
  BY <1>1, <1>2 DEF Participants, Participant
<1>4. Same(Ranked(qs)[t], qs[t])
  <2> HIDE DEF qs
  <2> QED
    BY <1>3, RankedSame
<1>5. RejectedIn(ps, s) = ps \/ RejectedIn(ps, s) = Ranked(qs)
  BY DEF RejectedIn
<1> HIDE DEF qs
<1> QED
  BY <1>3, <1>4, <1>5 DEF Same

\* The attempts of every session stay as they are.
LEMMA RunsKept ==
    ASSUME ScoreOK, activeRun' = activeRun, retired' = retired, OpenStage',
           \A t \in Session : Clean(t)'
    PROVE  ScoreOK'
  BY DEF ScoreOK, FreshRun

LEMMA StillOpen ==
    ASSUME ScoreOK, SameStage
    PROVE  OpenStage'
  BY DEF ScoreOK, OpenStage, SameStage

\* One session leaves; the others are not touched.
LEMMA SeatLost ==
    ASSUME TypeOK, ScoreOK, NEW s \in Session, Forget(s), SameStage, checks' = checks,
           part' = [part EXCEPT ![s] = Absent]
    PROVE  ScoreOK'
<1>1. ASSUME NEW t \in Session, t # s
      PROVE  Clean(t)' /\ FreshRun(t)'
  <2>1. part'[t] = part[t] /\ counted'[t] = counted[t]
    BY <1>1 DEF Forget, TypeOK, RunTypes
  <2>2. Clean(t)'
    BY <1>1, <2>1, ResultKept DEF ScoreOK, Forget, Same
  <2>3. FreshRun(t)'
    BY <1>1 DEF ScoreOK, FreshRun, Forget, TypeOK, RunTypes
  <2> QED
    BY <2>2, <2>3
<1>2. Clean(s)'
  <2>1. part'[s].validity = "pending" /\ ~RacesIn(part'[s].role)
    BY DEF TypeOK, Absent, Entry, RacesIn
  <2> QED
    BY <2>1, ResultLost
<1>3. FreshRun(s)'
  BY DEF FreshRun, Forget, TypeOK, RunTypes
<1> QED
  BY <1>1, <1>2, <1>3, StillOpen DEF ScoreOK

\* One session is edited outside the race; its result is not.
LEMMA SeatEdited ==
    ASSUME TypeOK, ScoreOK, NEW s \in Session, NEW p,
           part' = [part EXCEPT ![s] = p],
           p.validity = part[s].validity, p.seq = part[s].seq,
           lifecycle' \in Racing => Same(p, part[s]),
           SameStage, checks' = checks, runVars' = runVars
    PROVE  ScoreOK'
<1>1. ASSUME NEW t \in Session
      PROVE  Clean(t)'
  <2>1. CASE t = s
    BY <2>1, ResultKept DEF ScoreOK, runVars, TypeOK
  <2>2. CASE t # s
    BY <2>2, ResultKept DEF ScoreOK, runVars, TypeOK, Same
  <2> QED
    BY <2>1, <2>2
<1> QED
  BY <1>1, RunsKept, StillOpen DEF runVars

\* A step that takes results away at most.
LEMMA ResultsSettled ==
    ASSUME TypeOK, ScoreOK, SameStage, checks' = checks, runVars' = runVars,
           \A t \in Session : \/ Same(part'[t], part[t])
                              \/ part'[t].validity \in {"invalid", "dnf"}
    PROVE  ScoreOK'
<1>1. ASSUME NEW t \in Session
      PROVE  Clean(t)'
  BY ResultKept, ResultLost DEF ScoreOK, runVars, Same
<1> QED
  BY <1>1, RunsKept, StillOpen DEF runVars

\* The chart is locked: every result is taken back.
LEMMA ResultsReset ==
    ASSUME TypeOK, ScoreOK, NEW c, SelectChart(c), runVars' = runVars
    PROVE  ScoreOK'
<1>1. ASSUME NEW t \in Session
      PROVE  Clean(t)'
  <2>1. part'[t].validity = "pending"
    <3>1. part[t] \in Participant
      BY DEF TypeOK
    <3> QED
      BY <3>1 DEF SelectChart, ResetForLockedChart, Participant
  <2> QED
    BY <2>1, ResultLost DEF SelectChart, Racing
<1>2. OpenStage'
  BY DEF SelectChart, OpenStage
<1> QED
  BY <1>1, <1>2, RunsKept DEF runVars

\* Participants, results and attempts are not touched.
LEMMA ResultsIdle ==
    ASSUME ScoreOK, SameStage, part' = part, checks' = checks, runVars' = runVars
    PROVE  ScoreOK'
<1>1. ASSUME NEW t \in Session
      PROVE  Clean(t)'
  BY ResultKept DEF ScoreOK, runVars, Same
<1> QED
  BY <1>1, RunsKept, StillOpen DEF runVars

-----------------------------------------------------------------------------
(***************************************************************************)
(* Every action keeps the results honest.                                  *)
(***************************************************************************)
LEMMA ScoreInit == Init => ScoreOK
<1> SUFFICES ASSUME Init
             PROVE  ScoreOK
  OBVIOUS
<1>1. ASSUME NEW s \in Session
      PROVE  part[s].validity = "pending"
  <2>1. PICK participating \in BOOLEAN :
            part = [t \in Session |->
                      IF t # Host THEN Absent
                      ELSE [Entry(IF participating THEN "host" ELSE "spectator", TRUE)
                              EXCEPT !.ready = ~participating, !.verified = ~participating]]
    BY DEF Init
  <2> QED
    BY <2>1 DEF Absent, Entry
<1>2. ASSUME NEW s \in Session
      PROVE  Clean(s) /\ FreshRun(s)
  <2>1. lifecycle \notin Racing /\ retired[s] = <<>>
    BY DEF Init, Racing
  <2>2. Clean(s)
    BY <1>1, <2>1 DEF Clean
  <2>3. FreshRun(s)
    BY <2>1 DEF FreshRun
  <2> QED
    BY <2>2, <2>3
<1>3. OpenStage
  BY DEF Init, OpenStage
<1> QED
  BY <1>2, <1>3 DEF ScoreOK

LEMMA ScoreTransport ==
    ASSUME TypeOK, ScoreOK, NEW s \in Session, Transport(s)
    PROVE  ScoreOK'
<1> USE DEF policyVars
<1>1. part[s] \in Participant
  BY DEF TypeOK
<1>2. ASSUME NEW role \in RequestedRole, Join(s, role)
      PROVE  ScoreOK'
  <2>1. lifecycle' = lifecycle /\ lifecycle \notin Racing /\ SameStage
    BY <1>2 DEF Join, CanJoin, SameStage
  <2>2. ASSUME NEW t \in Session
        PROVE  Clean(t)'
    <3>1. CASE t = s
      <4>1. part'[t].validity = "pending"
        BY <1>2, <3>1 DEF Join, TypeOK, Entry
      <4> QED
        BY <2>1, <4>1, ResultLost
    <3>2. CASE t # s
      BY <1>2, <2>1, <3>2, ResultKept DEF ScoreOK, Join, runVars, TypeOK
    <3> QED
      BY <3>1, <3>2
  <2> QED
    BY <1>2, <2>1, <2>2, RunsKept, StillOpen DEF Join, runVars
<1>3. ASSUME NEW role \in RequestedRole, JoinRefused(s, role)
      PROVE  ScoreOK'
  BY <1>3, ResultsIdle DEF JoinRefused, SameStage
<1>4. ASSUME Reconnect(s)
      PROVE  ScoreOK'
  <2> DEFINE p == [part[s] EXCEPT !.connected = TRUE, !.ready = FALSE]
  <2>1. Same(p, part[s])
    BY <1>1 DEF Same, Participant
  <2>2. part' = [part EXCEPT ![s] = p]
    BY <1>4 DEF Reconnect, TypeOK
  <2> HIDE DEF p
  <2> QED
    BY <1>4, <2>1, <2>2, SeatEdited DEF Reconnect, SameStage, Same
<1>5. ASSUME Disconnect(s)
      PROVE  ScoreOK'
  <2> DEFINE p == [part[s] EXCEPT !.connected = FALSE, !.ready = FALSE]
  <2>1. Same(p, part[s])
    BY <1>1 DEF Same, Participant
  <2>2. CASE s \in roster
    <3>1. part' = [part EXCEPT ![s] = p]
      BY <1>5, <2>2 DEF Disconnect, TypeOK
    <3>2. SameStage
      BY <1>5, <2>2, RefreshedStage DEF Disconnect
    <3> HIDE DEF p
    <3> QED
      BY <1>5, <2>1, <3>1, <3>2, SeatEdited DEF Disconnect, Same
  <2>3. CASE s \notin roster
    BY <1>5, <2>3, ResultsIdle DEF Disconnect, SameStage
  <2> QED
    BY <2>2, <2>3
<1> QED
  BY <1>2, <1>3, <1>4, <1>5 DEF Transport

LEMMA ScoreMaintenance ==
    ASSUME TypeOK, ScoreOK, Maintenance
    PROVE  ScoreOK'
<1> USE DEF policyVars
<1>1. ASSUME ExpireUnstartedRuns
      PROVE  ScoreOK'
  <2> DEFINE ps == [s \in Session |->
                      IF s \in Unstarted
                      THEN [part[s] EXCEPT !.validity = "dnf", !.accuracy = 0]
                      ELSE part[s]]
  <2>1. ps \in Participants
    <3>1. ASSUME NEW s \in Session
          PROVE  [part[s] EXCEPT !.validity = "dnf", !.accuracy = 0] \in Participant
      <4>1. part[s] \in Participant
        BY DEF TypeOK
      <4> QED
        BY <4>1, Bounds DEF Participant, Validity
    <3> QED
      BY <3>1 DEF TypeOK, Participants
  <2>2. ASSUME NEW t \in Session
        PROVE  Same(ps[t], part[t]) \/ ps[t].validity = "dnf"
    <3>1. part[t] \in Participant
      BY DEF TypeOK
    <3> QED
      BY <3>1 DEF Same, Participant
  <2>3. part' = Ranked(ps)
    BY <1>1 DEF ExpireUnstartedRuns
  <2> HIDE DEF ps
  <2>4. ASSUME NEW t \in Session
        PROVE  Same(part'[t], part[t]) \/ part'[t].validity = "dnf"
    BY <2>1, <2>2, <2>3, RankedSame DEF Same
  <2>5. SameStage
    BY <1>1, FinishedStage DEF ExpireUnstartedRuns
  <2> QED
    BY <1>1, <2>4, <2>5, ResultsSettled DEF ExpireUnstartedRuns
<1>2. ASSUME NEW s \in Session, ExpireDisconnect(s), ExpireRacer(s)
      PROVE  ScoreOK'
  <2> DEFINE away == IF part[s].validity \in {"invalid", "dnf"} THEN part[s]
                     ELSE [part[s] EXCEPT !.validity = "dnf", !.accuracy = 0]
             ps == [part EXCEPT ![s] = away]
  <2>1. part[s] \in Participant
    BY DEF TypeOK
  <2>2. away \in Participant /\ away.validity \in {"invalid", "dnf"}
    BY <2>1, Bounds DEF Participant, Validity
  <2>3. /\ ps \in Participants
        /\ \A t \in Session : ps[t] = IF t = s THEN away ELSE part[t]
    <3> HIDE DEF away
    <3> QED
      BY <2>2 DEF TypeOK, Participants
  <2>4. part' = Ranked(ps)
    BY <1>2 DEF ExpireRacer
  <2> HIDE DEF ps, away
  <2>5. ASSUME NEW t \in Session
        PROVE  Same(part'[t], part[t]) \/ part'[t].validity \in {"invalid", "dnf"}
    BY <2>2, <2>3, <2>4, RankedSame DEF Same
  <2>6. SameStage
    BY <1>2, FinishedStage DEF ExpireDisconnect, ExpireRacer
  <2> QED
    BY <1>2, <2>5, <2>6, ResultsSettled DEF ExpireDisconnect, ExpireRacer
<1>3. ASSUME NEW s \in Session, ExpireDisconnect(s), ExpireReservation(s)
      PROVE  ScoreOK'
  BY <1>3, RefreshedStage, SeatLost DEF ExpireDisconnect, ExpireReservation
<1>4. ASSUME NEW s \in Session, ExpireDisconnect(s), ExpireIdle(s)
      PROVE  ScoreOK'
  BY <1>4, ResultsIdle DEF ExpireDisconnect, ExpireIdle, SameStage
<1> QED
  BY <1>1, <1>2, <1>3, <1>4 DEF Maintenance, ExpireDisconnect

LEMMA ScoreRoster ==
    ASSUME TypeOK, ScoreOK, RosterControl
    PROVE  ScoreOK'
<1> USE DEF policyVars, HostUses
<1>1. \A s \in Session : part[s] \in Participant
  BY DEF TypeOK
<1>2. ASSUME NEW s \in Session, NEW role \in RequestedRole, Admit(s, role)
      PROVE  ScoreOK'
  <2> DEFINE p == [Reseated(part[s], role) EXCEPT !.admitted = TRUE, !.connected = TRUE]
  <2>1. p.validity = part[s].validity /\ p.seq = part[s].seq
    BY <1>1 DEF Reseated, Participant
  <2>2. part' = [part EXCEPT ![s] = p] /\ SameStage /\ lifecycle' \notin Racing
    BY <1>2, RefreshedStage, RefreshedRacing DEF Admit
  <2> HIDE DEF p
  <2> QED
    BY <1>2, <2>1, <2>2, SeatEdited DEF Admit
<1>3. ASSUME NEW s \in Session, NEW role \in RequestedRole, SetRole(s, role)
      PROVE  ScoreOK'
  <2> DEFINE p == [Reseated(part[s], role) EXCEPT !.ready = role = "spectator",
                                                  !.verified = role = "spectator"]
  <2>1. p.validity = part[s].validity /\ p.seq = part[s].seq
    BY <1>1 DEF Reseated, Participant
  <2>2. part' = [part EXCEPT ![s] = p] /\ SameStage /\ lifecycle' \notin Racing
    BY <1>3, RefreshedStage, RefreshedRacing DEF SetRole
  <2> HIDE DEF p
  <2> QED
    BY <1>3, <2>1, <2>2, SeatEdited DEF SetRole
<1>4. ASSUME NEW on \in BOOLEAN, SetHostParticipating(on)
      PROVE  ScoreOK'
  <2> DEFINE p == [part[Host] EXCEPT !.role = IF on THEN "host" ELSE "spectator",
                       !.ready = ~on, !.verified = ~on, !.commentator = FALSE]
  <2>1. Host \in Session
    BY SessionAssumption
  <2>2. p.validity = part[Host].validity /\ p.seq = part[Host].seq
    BY <1>1, <2>1 DEF Participant
  <2>3. part' = [part EXCEPT ![Host] = p]
    BY <1>4, <2>1 DEF SetHostParticipating, TypeOK
  <2>4. SameStage /\ lifecycle' \notin Racing
    BY <1>4, RefreshedStage, RefreshedRacing DEF SetHostParticipating, PreRace, Racing
  <2> HIDE DEF p
  <2> QED
    BY <1>4, <2>1, <2>2, <2>3, <2>4, SeatEdited DEF SetHostParticipating
<1>5. ASSUME NEW s \in Session, NEW on \in BOOLEAN, SetCommentatorAccess(s, on)
      PROVE  ScoreOK'
  <2> DEFINE p == [part[s] EXCEPT !.commentator = on]
  <2>1. Same(p, part[s])
    BY <1>1 DEF Same, Participant
  <2>2. part' = [part EXCEPT ![s] = p] /\ SameStage
    BY <1>5 DEF SetCommentatorAccess, SameStage
  <2> HIDE DEF p
  <2> QED
    BY <1>5, <2>1, <2>2, SeatEdited DEF SetCommentatorAccess, Same
<1>6. ASSUME NEW s \in Session, Kick(s)
      PROVE  ScoreOK'
  BY <1>6, RefreshedStage, SeatLost DEF Kick
<1> QED
  BY <1>2, <1>3, <1>4, <1>5, <1>6 DEF RosterControl

LEMMA ScoreControl ==
    ASSUME TypeOK, SetlistKept, ScoreOK, RoomControl
    PROVE  ScoreOK'
<1> USE DEF policyVars, setVars, HostUses
<1>1. \A s \in Session : part[s] \in Participant
  BY DEF TypeOK
<1>2. ASSUME NEW on \in BOOLEAN, SetValidityChecks(on)
      PROVE  ScoreOK'
  <2>1. lifecycle \notin Racing /\ lifecycle \in PreRace
    BY <1>2 DEF SetValidityChecks, PreRace, Racing
  <2>2. ASSUME NEW t \in Session
        PROVE  Clean(t)'
    BY <1>2, <2>1 DEF SetValidityChecks, ScoreOK, Clean
  <2>3. OpenStage'
    BY <1>2 DEF SetValidityChecks, ScoreOK, OpenStage
  <2> QED
    BY <1>2, <2>2, <2>3, RunsKept DEF SetValidityChecks, runVars
<1>3. ASSUME NEW on \in BOOLEAN, ScheduleStart(on)
      PROVE  ScoreOK'
  <2>1. lifecycle \in PreRace /\ lifecycle' \notin PreRace /\ phase' = phase
    BY <1>3 DEF ScheduleStart, PreRace
  <2>2. ASSUME NEW t \in Session
        PROVE  Clean(t)'
    <3>1. CASE ~RacesIn(part[t].role)
      <4>1. part'[t] = part[t]
        BY <1>3, <3>1 DEF ScheduleStart
      <4>2. phase' = "open" => part'[t].validity # "valid"
        BY <2>1, <4>1 DEF ScoreOK, Clean
      <4> QED
        BY <3>1, <4>1, <4>2 DEF Clean
    <3>2. CASE RacesIn(part[t].role)
      <4>1. part'[t] = [part[t] EXCEPT !.validity = "pending", !.done = 0, !.missed = 0,
                          !.accuracy = 100, !.rank = 0, !.seq = NoSeq]
        BY <1>3, <3>2 DEF ScheduleStart
      <4>2. part'[t].validity = "pending" /\ part'[t].seq = NoSeq
        <5>1. part[t] \in Participant
          BY <1>1
        <5> QED
          BY <4>1, <5>1 DEF Participant
      <4>3. counted'[t] = 0
        BY <1>3 DEF ScheduleStart
      <4>4. NoSeq + 1 = 0
        BY DEF NoSeq
      <4> QED
        BY <4>2, <4>3, <4>4 DEF Clean, Gapless
    <3> QED
      BY <3>1, <3>2
  <2>3. ASSUME NEW t \in Session
        PROVE  FreshRun(t)'
    <3>1. retired'[t] = <<>>
      BY <1>3 DEF ScheduleStart
    <3> QED
      BY <3>1 DEF FreshRun
  <2>4. OpenStage'
    BY <1>3 DEF ScheduleStart, OpenStage
  <2> QED
    BY <2>2, <2>3, <2>4 DEF ScoreOK
<1>4. ASSUME NEW value \in Setting, ChangeSetting(value)
      PROVE  ScoreOK'
  BY <1>4, ResultsIdle DEF ChangeSetting, SameStage
<1>5. ASSUME NEW c \in Chart, LockChart(c)
      PROVE  ScoreOK'
  BY <1>5, ResultsReset DEF LockChart
<1>6. ASSUME NEW c \in Chart, AppendChart(c)
      PROVE  ScoreOK'
  <2>1. CASE active = 0
    BY <1>6, <2>1, ResultsReset DEF AppendChart
  <2>2. CASE active # 0
    <3>1. SameStage
      BY <1>6, <2>2 DEF AppendChart, SameStage, PreRace, Racing
    <3> QED
      BY <1>6, <2>2, <3>1, ResultsIdle DEF AppendChart
  <2> QED
    BY <2>1, <2>2
<1>7. ASSUME NEW i \in DOMAIN setlist, RemoveSetlist(i)
      PROVE  ScoreOK'
  <2> DEFINE shorter == RemoveAt(setlist, i)
             next == IF i <= Len(shorter) THEN i ELSE Len(shorter)
  <2>1. CASE shorter = <<>>
    <3>1. setlist \in Seq(SetlistEntry) /\ active \in Nat
      BY DEF TypeOK, SetTypes
    <3>2. i = 1 /\ active \in DOMAIN setlist /\ DOMAIN setlist = 1 .. 1
      <4>1. Len(shorter) = Len(setlist) - 1 /\ Len(shorter) = 0
        BY <2>1, <3>1, Removed
      <4>2. setlist # <<>>
        BY <3>1
      <4> QED
        BY <3>1, <4>1, <4>2 DEF SetlistKept, ChartFollowsSetlist
    <3>3. active = i
      BY <3>2
    <3>4. lifecycle \in PreRace \cup {"closed"}
      BY <1>7, <3>3 DEF RemoveSetlist, TypeOK, Lifecycle
    <3>5. phase' = phase /\ part' = part /\ lifecycle' = "forming" /\ checks' = checks
      BY <1>7, <2>1 DEF RemoveSetlist
    <3>6. ASSUME NEW t \in Session
          PROVE  Clean(t)'
      BY <3>4, <3>5 DEF ScoreOK, OpenStage, Clean, PreRace, Racing
    <3>7. OpenStage'
      BY <3>5 DEF OpenStage
    <3> QED
      BY <1>7, <3>6, <3>7, RunsKept DEF RemoveSetlist, runVars
  <2>2. CASE shorter # <<>> /\ active = i
    BY <1>7, <2>2, ResultsReset DEF RemoveSetlist
  <2>3. CASE shorter # <<>> /\ active # i
    BY <1>7, <2>3, ResultsIdle DEF RemoveSetlist, SameStage
  <2> QED
    BY <2>1, <2>2, <2>3
<1>8. ASSUME NEW i \in DOMAIN setlist, NEW j \in DOMAIN setlist, MoveSetlist(i, j)
      PROVE  ScoreOK'
  BY <1>8, ResultsIdle DEF MoveSetlist, SameStage
<1>9. ASSUME AdvanceSetlist
      PROVE  ScoreOK'
  <2>1. CASE active < Len(setlist)
    BY <1>9, <2>1, ResultsReset DEF AdvanceSetlist
  <2>2. CASE ~(active < Len(setlist))
    BY <1>9, <2>2, ResultsIdle DEF AdvanceSetlist, SameStage
  <2> QED
    BY <2>1, <2>2
<1>10. ASSUME Close \/ StopHosting
       PROVE  ScoreOK'
  <2>1. phase' # "open" /\ runVars' = runVars
    BY <1>10 DEF Close, StopHosting
  <2> QED
    BY <2>1, RunsKept DEF runVars, Clean, OpenStage
<1> QED
  BY <1>2, <1>3, <1>4, <1>5, <1>6, <1>7, <1>8, <1>9, <1>10 DEF RoomControl

LEMMA ScorePreparation ==
    ASSUME TypeOK, ScoreOK, NEW s \in Session, Preparation(s)
    PROVE  ScoreOK'
<1> USE DEF policyVars
<1>1. part[s] \in Participant
  BY DEF TypeOK
<1>2. ASSUME NEW on \in BOOLEAN, SetVerified(s, on)
      PROVE  ScoreOK'
  <2> DEFINE p == [part[s] EXCEPT !.verified = on, !.ready = part[s].ready /\ on]
  <2>1. p.validity = part[s].validity /\ p.seq = part[s].seq
    BY <1>1 DEF Participant
  <2>2. part' = [part EXCEPT ![s] = p]
    BY <1>2 DEF SetVerified, TypeOK
  <2>3. SameStage /\ lifecycle' \notin Racing
    BY <1>2, RefreshedStage, RefreshedRacing DEF SetVerified, PreRace, Racing
  <2> HIDE DEF p
  <2> QED
    BY <1>2, <2>1, <2>2, <2>3, SeatEdited DEF SetVerified
<1>3. ASSUME NEW on \in BOOLEAN, SetReady(s, on)
      PROVE  ScoreOK'
  <2> DEFINE p == [part[s] EXCEPT !.ready = on]
  <2>1. p.validity = part[s].validity /\ p.seq = part[s].seq
    BY <1>1 DEF Participant
  <2>2. part' = [part EXCEPT ![s] = p]
    BY <1>3 DEF SetReady
  <2>3. SameStage /\ lifecycle' \notin Racing
    BY <1>3, RefreshedStage, RefreshedRacing DEF SetReady, PreRace, Racing
  <2> HIDE DEF p
  <2> QED
    BY <1>3, <2>1, <2>2, <2>3, SeatEdited DEF SetReady
<1> QED
  BY <1>2, <1>3 DEF Preparation

-----------------------------------------------------------------------------
(***************************************************************************)
(* Run events.                                                             *)
(***************************************************************************)
LEMMA RetiredIds ==
    ASSUME NEW ids \in Seq(Run), NEW old \in Run, NEW run,
           \A i \in DOMAIN ids : ids[i] # run, old # run
    PROVE  \A i \in DOMAIN Retire(ids, old) : Retire(ids, old)[i] # run
<1> DEFINE kept == IF Len(ids) >= RetireLimit THEN Tail(ids) ELSE ids
<1>1. RetireLimit \in Nat \ {0}
  BY LimitAssumption
<1>2. kept \in Seq(Run) /\ \A i \in DOMAIN kept : kept[i] # run
  <2>1. CASE Len(ids) >= RetireLimit
    <3>1. ids # <<>> /\ kept = Tail(ids)
      BY <1>1, <2>1
    <3>2. /\ Tail(ids) \in Seq(Run) /\ Len(Tail(ids)) = Len(ids) - 1
          /\ \A i \in 1 .. Len(ids) - 1 : Tail(ids)[i] = ids[i + 1]
      BY <3>1
    <3>3. \A i \in 1 .. Len(ids) - 1 : i + 1 \in DOMAIN ids
      OBVIOUS
    <3>4. DOMAIN Tail(ids) = 1 .. Len(ids) - 1
      BY <3>2
    <3> QED
      BY <3>1, <3>2, <3>3, <3>4
  <2>2. CASE ~(Len(ids) >= RetireLimit)
    BY <2>2
  <2> QED
    BY SMTT(30), <2>1, <2>2
<1> HIDE DEF kept
<1>3. \A i \in DOMAIN Append(kept, old) : Append(kept, old)[i] # run
  BY <1>2
<1> QED
  BY <1>3 DEF Retire, kept

\* The new attempt's id is not among those it replaces.
LEMMA AttemptFresh ==
    ASSUME TypeOK, ScoreOK, NEW s \in Session, NEW run \in Run,
           MayStartRun(s, run), RecordAttempt(s, run)
    PROVE  \A t \in Session : FreshRun(t)'
<1>1. /\ activeRun' = [activeRun EXCEPT ![s] = run] /\ run # NoRun
      /\ activeRun \in [Session -> Run \cup {NoRun}] /\ retired \in [Session -> Seq(Run)]
  BY NoneAssumption DEF RecordAttempt, TypeOK, RunTypes
<1>2. \A i \in DOMAIN retired[s] : retired[s][i] # run
  BY DEF MayStartRun
<1>3. ASSUME NEW t \in Session, t # s
      PROVE  FreshRun(t)'
  <2>1. activeRun'[t] = activeRun[t] /\ retired'[t] = retired[t]
    BY <1>1, <1>3 DEF RecordAttempt
  <2> QED
    BY <2>1 DEF ScoreOK, FreshRun
<1>4. FreshRun(s)'
  <2>1. activeRun'[s] = run
    BY <1>1
  <2>2. CASE NewAttempt(s, run)
    <3>1. retired'[s] = Retire(retired[s], activeRun[s])
      BY <1>1, <2>2 DEF RecordAttempt
    <3>2. retired[s] \in Seq(Run) /\ activeRun[s] \in Run /\ activeRun[s] # run
      BY <1>1, <2>2 DEF NewAttempt
    <3>3. \A i \in DOMAIN retired'[s] : retired'[s][i] # run
      BY <1>2, <3>1, <3>2, RetiredIds
    <3> QED
      BY <1>1, <2>1, <3>3 DEF FreshRun
  <2>3. CASE ~NewAttempt(s, run)
    BY <1>1, <1>2, <2>1, <2>3 DEF RecordAttempt, FreshRun
  <2> QED
    BY <2>2, <2>3
<1> QED
  BY <1>3, <1>4

\* As long as the attempt can still be valid, every score event so far counted.
LEMMA AttemptedClean ==
    ASSUME TypeOK, ScoreOK, NEW s \in Session, NEW run \in Run, MayStartRun(s, run)
    PROVE  /\ Attempted(s, run) \in Participant
           /\ Attempted(s, run).verified
           /\ phase = "open" /\ checks /\ Attempted(s, run).validity \in {"valid", "pending"}
                => CountedBefore(s, run) = Attempted(s, run).seq + 1
<1>1. part[s] \in Participant /\ part[s].verified /\ RacesIn(part[s].role)
  BY DEF TypeOK, MayStartRun, IsCompetitor
<1>2. lifecycle \in Racing
  BY DEF MayStartRun
<1>3. CASE NewAttempt(s, run)
  <2>1. Attempted(s, run).verified /\ (checks => Attempted(s, run).validity = "invalid")
    BY <1>1, <1>3 DEF Attempted, Participant
  <2> QED
    BY <2>1, AttemptedType
<1>4. CASE ~NewAttempt(s, run)
  <2>1. Attempted(s, run) = part[s] /\ CountedBefore(s, run) = counted[s]
    BY <1>4 DEF Attempted, CountedBefore
  <2> QED
    BY <1>1, <1>2, <2>1 DEF ScoreOK, Clean, Gapless
<1> QED
  BY <1>3, <1>4

\* One racer's result changes, together with its count of events.
LEMMA ResultChanged ==
    ASSUME TypeOK, ScoreOK, NEW s \in Session, SameStage, checks' = checks,
           \A t \in Session \ {s} : /\ Same(part'[t], part[t])
                                    /\ counted'[t] = counted[t],
           started \subseteq started',
           s \in started', lifecycle' \in Racing, part'[s].verified,
           checks /\ part'[s].validity \in {"valid", "pending"} /\ phase = "open"
             => counted'[s] = part'[s].seq + 1
    PROVE  \A t \in Session : Clean(t)'
<1>1. ASSUME NEW t \in Session \ {s}
      PROVE  Clean(t)'
  BY ResultKept DEF ScoreOK, Same
<1>2. Clean(s)'
  BY DEF Clean, Gapless, SameStage, PreRace, Racing
<1> QED
  BY <1>1, <1>2

LEMMA ScoreIngest ==
    ASSUME TypeOK, ScoreOK, NEW s \in Session, NEW run \in Run, NEW seq \in 0 .. MaxSeq,
           NEW totals \in Totals, IngestScore(s, run, seq, totals)
    PROVE  ScoreOK'
<1> DEFINE p == Attempted(s, run)
           n == CountedBefore(s, run)
           ps == [part EXCEPT ![s] = p]
<1>1. MayStartRun(s, run) /\ RecordAttempt(s, run)
  BY DEF IngestScore
<1>2. /\ p \in Participant /\ p.verified
      /\ phase = "open" /\ checks /\ p.validity \in {"valid", "pending"} => n = p.seq + 1
  BY <1>1, AttemptedClean
<1>3. part \in Participants /\ counted \in [Session -> Nat]
  BY DEF TypeOK, Participants, RunTypes
<1>4. /\ ps \in Participants /\ ps[s] = p
      /\ \A t \in Session \ {s} : ps[t] = part[t]
  <2> HIDE DEF p
  <2> QED
    BY <1>2, <1>3 DEF Participants
<1>5. SameStage /\ lifecycle' \in Racing /\ checks' = checks
  <2>1. lifecycle \in Racing /\ phase' = phase /\ checks' = checks
    BY <1>1 DEF MayStartRun, IngestScore, policyVars
  <2>2. lifecycle' \in Racing
    BY <2>1 DEF IngestScore, ScoreStale, ScoreRefused, ScoreCounted, Racing
  <2> QED
    BY <2>1, <2>2 DEF SameStage, PreRace, Racing
<1>6. started \subseteq started' /\ s \in started'
  BY <1>1 DEF RecordAttempt
<1> HIDE DEF ps, n
<1>7. \A t \in Session \ {s} : Same(part'[t], part[t]) /\ counted'[t] = counted[t]
  <2>1. CASE ScoreStale(s, run, seq)
    BY <1>3, <1>4, <2>1 DEF ScoreStale, Same, ps
  <2>2. CASE ScoreRefused(s, run, seq, totals)
    <3>1. part' = RejectedIn(ps, s) /\ counted' = [counted EXCEPT ![s] = n]
      BY <2>2 DEF ScoreRefused, ps, n
    <3> QED
      BY <1>3, <1>4, <3>1, RejectedSame DEF Same
  <2>3. CASE ScoreCounted(s, run, seq, totals)
    <3> DEFINE q == Scored(p, seq, totals)
               qs == [part EXCEPT ![s] = q]
    <3>1. q \in Participant
      BY <1>2, <2>3, ScoredType DEF ScoreCounted
    <3>2. qs \in Participants /\ \A t \in Session \ {s} : qs[t] = part[t]
      <4> HIDE DEF q
      <4> QED
        BY <1>3, <3>1 DEF Participants
    <3>3. part' = Ranked(qs) /\ counted' = [counted EXCEPT ![s] = n + 1]
      BY <2>3 DEF ScoreCounted, n
    <3> HIDE DEF qs
    <3> QED
      BY <1>3, <3>2, <3>3, RankedSame DEF Same
  <2> QED
    BY <2>1, <2>2, <2>3 DEF IngestScore
<1>8. /\ part'[s].verified
      /\ phase = "open" /\ checks /\ part'[s].validity \in {"valid", "pending"}
           => counted'[s] = part'[s].seq + 1
  <2>1. CASE ScoreStale(s, run, seq)
    <3>1. part'[s] = p /\ counted'[s] = n
      BY <1>3, <1>4, <2>1 DEF ScoreStale, ps, n
    <3> HIDE DEF p
    <3> QED
      BY <1>2, <3>1
  <2>2. CASE ScoreRefused(s, run, seq, totals)
    <3>1. part' = RejectedIn(ps, s) /\ counted'[s] = n
      BY <1>3, <2>2 DEF ScoreRefused, ps, n
    <3>2. part'[s].verified = p.verified
      <4>1. \/ Same(part'[s], ps[s])
            \/ part' = Ranked([ps EXCEPT ![s].validity = "invalid"])
        BY <1>4, <3>1 DEF RejectedIn, Same
      <4>2. /\ [ps EXCEPT ![s].validity = "invalid"] \in Participants
            /\ [ps EXCEPT ![s].validity = "invalid"][s].verified = ps[s].verified
        <5>1. [ps[s] EXCEPT !.validity = "invalid"] \in Participant
          BY <1>4 DEF Participants, Participant, Validity
        <5> QED
          BY <1>4, <5>1 DEF Participants, Participant
      <4> HIDE DEF p
      <4> QED
        BY ZenonT(60), <1>4, <4>1, <4>2, RankedSame DEF Same
    <3>3. Same(part'[s], p) \/ part'[s].validity = "invalid"
      BY <1>4, <3>1, RejectedSame
    <3> HIDE DEF p
    <3> QED
      BY <1>2, <3>1, <3>2, <3>3 DEF Same
  <2>3. CASE ScoreCounted(s, run, seq, totals)
    <3> DEFINE q == Scored(p, seq, totals)
               qs == [part EXCEPT ![s] = q]
    <3>1. q \in Participant
      BY <1>2, <2>3, ScoredType DEF ScoreCounted
    <3>2. qs \in Participants /\ qs[s] = q
      <4> HIDE DEF q
      <4> QED
        BY <1>3, <3>1 DEF Participants
    <3>3. part' = Ranked(qs) /\ counted'[s] = n + 1
      BY <1>3, <2>3 DEF ScoreCounted, n
    <3>4. Same(part'[s], q)
      <4> HIDE DEF q, qs
      <4> QED
        BY <3>2, <3>3, RankedSame
    <3>5. /\ q.verified = p.verified /\ q.seq = seq
          /\ q.validity = IF seq # p.seq + 1 /\ checks THEN "invalid"
                          ELSE IF p.validity = "pending" THEN "valid" ELSE p.validity
      <4> HIDE DEF p
      <4> QED
        BY <1>2 DEF Scored, Participant
    <3> HIDE DEF p, q
    <3> QED
      BY <1>2, <3>3, <3>4, <3>5 DEF Same
  <2> QED
    BY <2>1, <2>2, <2>3 DEF IngestScore
<1>9. \A t \in Session : Clean(t)'
  BY <1>5, <1>6, <1>7, <1>8, ResultChanged
<1>10. \A t \in Session : FreshRun(t)'
  BY <1>1, AttemptFresh
<1> QED
  BY <1>5, <1>9, <1>10, StillOpen DEF ScoreOK

LEMMA ScoreRun ==
    ASSUME TypeOK, ScoreOK, NEW s \in Session, RunEvent(s)
    PROVE  ScoreOK'
<1> USE DEF policyVars
<1>1. part \in Participants /\ part[s] \in Participant
  BY DEF TypeOK, Participants
<1>2. ASSUME RunEventRefused(s)
      PROVE  ScoreOK'
  <2>1. SameStage
    BY <1>2 DEF RunEventRefused, SameStage
  <2>2. \A t \in Session : Same(part'[t], part[t]) \/ part'[t].validity \in {"invalid", "dnf"}
    BY <1>1, <1>2, RejectedSame DEF RunEventRefused
  <2> QED
    BY <1>2, <2>1, <2>2, ResultsSettled DEF RunEventRefused
<1>3. ASSUME NEW run \in Run, RunStarted(s, run)
      PROVE  ScoreOK'
  <2>1. MayStartRun(s, run) /\ RecordAttempt(s, run)
    BY <1>3 DEF RunStarted
  <2>2. lifecycle' \in Racing /\ SameStage /\ checks' = checks
    BY <1>3, <2>1 DEF RunStarted, MayStartRun, SameStage
  <2>3. /\ part'[s] = Attempted(s, run) /\ counted'[s] = CountedBefore(s, run)
        /\ \A t \in Session \ {s} : Same(part'[t], part[t]) /\ counted'[t] = counted[t]
    BY <1>1, <1>3 DEF RunStarted, Participants, TypeOK, RunTypes, Same
  <2>4. started \subseteq started' /\ s \in started'
    BY <2>1 DEF RecordAttempt
  <2>5. \A t \in Session : Clean(t)'
    BY <2>1, <2>2, <2>3, <2>4, AttemptedClean, ResultChanged
  <2> QED
    BY <2>1, <2>2, <2>5, AttemptFresh, StillOpen DEF ScoreOK
<1>4. ASSUME NEW run \in Run, NEW dnf \in BOOLEAN, Invalidate(s, run, dnf)
      PROVE  ScoreOK'
  <2> DEFINE verdict == IF dnf THEN "dnf" ELSE "invalid"
             p == [part[s] EXCEPT !.validity = verdict]
             ps == [part EXCEPT ![s] = p]
  <2>1. verdict \in {"invalid", "dnf"}
    OBVIOUS
  <2>2. p \in Participant /\ p.validity = verdict
    <3> HIDE DEF verdict
    <3> QED
      BY <1>1, <2>1 DEF Participant, Validity
  <2>3. /\ ps \in Participants
        /\ \A t \in Session : ps[t] = IF t = s THEN p ELSE part[t]
    <3> HIDE DEF p
    <3> QED
      BY <1>1, <2>2 DEF Participants
  <2>4. part' = Ranked(ps)
    BY <1>4 DEF Invalidate
  <2>5. SameStage /\ checks' = checks /\ counted' = counted /\ started \subseteq started'
    BY <1>4 DEF Invalidate, SameStage
  <2> HIDE DEF verdict, p, ps
  <2>6. ASSUME NEW t \in Session
        PROVE  Clean(t)'
    <3>1. Same(part'[t], part[t]) \/ part'[t].validity \in {"invalid", "dnf"}
      BY <2>1, <2>2, <2>3, <2>4, RankedSame DEF Same
    <3>2. CASE Same(part'[t], part[t])
      BY <2>5, <3>2, ResultKept DEF ScoreOK, Same
    <3>3. CASE part'[t].validity \in {"invalid", "dnf"}
      BY <3>3, ResultLost
    <3> QED
      BY <3>1, <3>2, <3>3
  <2>7. ASSUME NEW t \in Session
        PROVE  FreshRun(t)'
    <3>1. /\ retired' = retired /\ activeRun' = [activeRun EXCEPT ![s] = run]
          /\ activeRun \in [Session -> Run \cup {NoRun}] /\ run # NoRun
          /\ activeRun[s] \in {NoRun, run}
      BY <1>4, NoneAssumption DEF Invalidate, NewAttempt, TypeOK, RunTypes
    <3>2. CASE t = s
      BY <3>1, <3>2 DEF ScoreOK, FreshRun
    <3>3. CASE t # s
      BY <3>1, <3>3 DEF ScoreOK, FreshRun
    <3> QED
      BY <3>2, <3>3
  <2> QED
    BY <2>5, <2>6, <2>7, StillOpen DEF ScoreOK
<1>5. ASSUME NEW run \in Run, FinishRun(s, run)
      PROVE  ScoreOK'
  <2>1. SameStage
    BY <1>5, FinishedStage DEF FinishRun
  <2>2. Same(Finished(part[s]), part[s]) \/ Finished(part[s]).validity \in {"invalid", "dnf"}
    BY <1>1 DEF Finished, Same, Participant
  <2>3. \A t \in Session : Same(part'[t], part[t]) \/ part'[t].validity \in {"invalid", "dnf"}
    BY <1>1, <1>5, <2>2 DEF FinishRun, Participants, Same
  <2> QED
    BY <1>5, <2>1, <2>3, ResultsSettled DEF FinishRun
<1> QED
  BY <1>2, <1>3, <1>4, <1>5, ScoreIngest DEF RunEvent

LEMMA ScoreNext == TypeOK /\ SetlistKept /\ ScoreOK /\ [Next]_vars => ScoreOK'
<1> SUFFICES ASSUME TypeOK, SetlistKept, ScoreOK, [Next]_vars
             PROVE  ScoreOK'
  OBVIOUS
<1>1. CASE Next
  BY <1>1, ScoreMaintenance, ScoreRoster, ScoreControl, ScoreTransport,
     ScorePreparation, ScoreRun
  DEF Next
<1>2. CASE UNCHANGED vars
  BY <1>2, ResultsIdle DEF vars, policyVars, SameStage
<1> QED
  BY <1>1, <1>2

\* In an open competitive room a valid result counts every score event of its
\* attempt from the first one on, its racer's chart was verified when the race
\* began, and its run id has not been replaced: whatever retries, replays, gaps,
\* drops, reconnects and changes of the room's policy went before.
THEOREM ResultsAreHonest == Spec => []ScoresHonest
<1>1. Init => TypeOK /\ SetlistKept /\ ScoreOK
  BY TypeInit, SetlistInit, ScoreInit
<1>2. TypeOK /\ SetlistKept /\ ScoreOK /\ [Next]_vars => (TypeOK /\ SetlistKept /\ ScoreOK)'
  BY TypeNext, SetlistNext, ScoreNext
<1>3. ScoreOK => ScoresHonest
  <2> SUFFICES ASSUME ScoreOK
               PROVE  ScoresHonest
    OBVIOUS
  <2>1. Competitors \subseteq Session
    BY CompetitorsAreSessions DEF Competitors
  <2> QED
    BY <2>1 DEF ScoreOK, Clean, FreshRun, Gapless, ScoresHonest, ValidIsGapless,
                ValidIsVerified, ActiveNotRetired, racing
<1> QED
  BY <1>1, <1>2, <1>3, PTL DEF Spec

-----------------------------------------------------------------------------
(***************************************************************************)
(* Bad verdicts                                                            *)
(***************************************************************************)
Bad == {"invalid", "dnf"}

VerdictsKept ==
    checks /\ racing =>
        \A s \in Competitors : part[s].validity \in Bad => part'[s].validity \in Bad

\* A step outside a race, or one that leaves verdicts alone or makes them bad.
LEMMA VerdictKept ==
    ASSUME checks /\ racing =>
              \A t \in Session : \/ part'[t].validity = part[t].validity
                                 \/ part'[t].validity \in Bad
                                 \/ ~IsCompetitor(part[t])
    PROVE  VerdictsKept
  BY DEF VerdictsKept, Competitors, CompetitorsOf

LEMMA VerdictSeats ==
    ASSUME TypeOK, \/ Maintenance \/ RosterControl \/ RoomControl
                   \/ \E s \in Session : Transport(s) \/ Preparation(s)
    PROVE  VerdictsKept
<1> USE DEF policyVars, setVars, HostUses
<1>1. /\ \A s \in Session : part[s] \in Participant
      /\ part \in Participants
  BY DEF TypeOK, Participants
<1>2. ASSUME part' = part \/ lifecycle \notin Racing
      PROVE  VerdictsKept
  BY <1>2, VerdictKept DEF racing
<1>3. ASSUME NEW s \in Session, Transport(s)
      PROVE  VerdictsKept
  <2>1. CASE Reconnect(s) \/ Disconnect(s)
    <3>1. \/ part' = part
          \/ part' = [part EXCEPT ![s].connected = FALSE, ![s].ready = FALSE]
          \/ part' = [part EXCEPT ![s].connected = TRUE, ![s].ready = FALSE]
      BY <2>1 DEF Reconnect, Disconnect
    <3>2. ASSUME NEW t \in Session
          PROVE  part'[t].validity = part[t].validity
      BY <1>1, <3>1 DEF Participant, Participants
    <3> QED
      BY <3>2, VerdictKept
  <2>2. CASE \E role \in RequestedRole : Join(s, role) \/ JoinRefused(s, role)
    BY <1>2, <2>2 DEF Join, CanJoin, JoinRefused
  <2> QED
    BY <1>3, <2>1, <2>2 DEF Transport
<1>4. ASSUME NEW s \in Session, Preparation(s)
      PROVE  VerdictsKept
  BY SMTT(30), <1>2, <1>4 DEF Preparation, SetVerified, SetReady, PreRace, Racing
<1>5. ASSUME RoomControl
      PROVE  VerdictsKept
  BY <1>2, <1>5
  DEF RoomControl, SetValidityChecks, ScheduleStart, ChangeSetting, LockChart, AppendChart,
      RemoveSetlist, MoveSetlist, AdvanceSetlist, Close, StopHosting, PreRace, Racing
<1>6. ASSUME RosterControl
      PROVE  VerdictsKept
  <2>1. ASSUME NEW s \in Session, NEW on \in BOOLEAN, SetCommentatorAccess(s, on)
        PROVE  VerdictsKept
    <3>1. \A t \in Session : part'[t].validity = part[t].validity
      BY <1>1, <2>1 DEF SetCommentatorAccess, Participant
    <3> QED
      BY <3>1, VerdictKept
  <2>2. ASSUME NEW s \in Session, Kick(s)
        PROVE  VerdictsKept
    <3>1. CASE lifecycle \notin Racing
      BY <1>2, <3>1
    <3>2. CASE lifecycle \in Racing
      <4>1. ~IsCompetitor(part[s]) /\ \A t \in Session \ {s} : part'[t] = part[t]
        BY <1>1, <2>2, <3>2 DEF Kick, MayKick, IsCompetitor, Participants
      <4> QED
        BY <4>1, VerdictKept
    <3> QED
      BY <3>1, <3>2
  <2> QED
    BY <1>2, <1>6, <2>1, <2>2
    DEF RosterControl, Admit, SetRole, SetHostParticipating, PreRace, Racing
<1>7. ASSUME ExpireUnstartedRuns
      PROVE  VerdictsKept
  <2> DEFINE ps == [s \in Session |->
                      IF s \in Unstarted
                      THEN [part[s] EXCEPT !.validity = "dnf", !.accuracy = 0]
                      ELSE part[s]]
  <2>1. ASSUME NEW s \in Session
        PROVE  /\ [part[s] EXCEPT !.validity = "dnf", !.accuracy = 0] \in Participant
               /\ [part[s] EXCEPT !.validity = "dnf", !.accuracy = 0].validity = "dnf"
    <3>1. part[s] \in Participant
      BY <1>1
    <3> QED
      BY <3>1, Bounds DEF Participant, Validity
  <2>2. ps \in Participants
    BY <1>1, <2>1 DEF Participants
  <2>3. \A t \in Session : ps[t].validity = part[t].validity \/ ps[t].validity \in Bad
    BY <2>1 DEF Bad
  <2>4. part' = Ranked(ps)
    BY <1>7 DEF ExpireUnstartedRuns
  <2>5. \A t \in Session : part'[t].validity = ps[t].validity
    <3> HIDE DEF ps
    <3> QED
      BY <2>2, <2>4, RankedSame DEF Same
  <2> QED
    BY <2>3, <2>5, VerdictKept
<1>8. ASSUME NEW s \in Session, ExpireDisconnect(s)
      PROVE  VerdictsKept
  <2>1. CASE ExpireRacer(s)
    <3> DEFINE away == IF part[s].validity \in {"invalid", "dnf"} THEN part[s]
                       ELSE [part[s] EXCEPT !.validity = "dnf", !.accuracy = 0]
               ps == [part EXCEPT ![s] = away]
    <3>1. away \in Participant /\ away.validity \in Bad
      <4>1. part[s] \in Participant
        BY <1>1
      <4> QED
        BY <4>1, Bounds DEF Participant, Validity, Bad
    <3>2. /\ ps \in Participants
          /\ \A t \in Session : ps[t].validity = part[t].validity \/ ps[t].validity \in Bad
      <4> HIDE DEF away
      <4> QED
        BY <1>1, <3>1 DEF Participants
    <3>3. part' = Ranked(ps)
      BY <2>1 DEF ExpireRacer
    <3>4. \A t \in Session : part'[t].validity = ps[t].validity
      <4> HIDE DEF ps
      <4> QED
        BY <3>2, <3>3, RankedSame DEF Same
    <3> QED
      BY <3>2, <3>4, VerdictKept
  <2>2. CASE ExpireReservation(s) \/ ExpireIdle(s)
    BY <1>2, <2>2 DEF ExpireReservation, ExpireIdle, PreRace, Racing
  <2> QED
    BY <1>8, <2>1, <2>2 DEF ExpireDisconnect
<1> QED
  BY <1>3, <1>4, <1>5, <1>6, <1>7, <1>8 DEF Maintenance

LEMMA VerdictRun ==
    ASSUME TypeOK, NEW s \in Session, RunEvent(s)
    PROVE  VerdictsKept
<1>1. part \in Participants /\ \A t \in Session : part[t] \in Participant
  BY DEF TypeOK, Participants
<1>2. ASSUME NEW p \in Participant, p.validity = part[s].validity \/ p.validity \in Bad
      PROVE  /\ [part EXCEPT ![s] = p] \in Participants
             /\ \A t \in Session : LET q == [part EXCEPT ![s] = p][t]
                                   IN  q.validity = part[t].validity \/ q.validity \in Bad
  BY <1>1, <1>2 DEF Participants
<1>3. ASSUME NEW run \in Run, checks
      PROVE  /\ Attempted(s, run) \in Participant
             /\ Attempted(s, run).validity = part[s].validity \/ Attempted(s, run).validity \in Bad
  BY ZenonT(60), <1>1, <1>3, AttemptedType DEF Attempted, Bad, Participant
<1>4. CASE RunEventRefused(s)
  BY <1>1, <1>4, RejectedSame, VerdictKept DEF RunEventRefused, Same, Bad
<1>5. ASSUME NEW run \in Run, RunStarted(s, run)
      PROVE  VerdictsKept
  <2> SUFFICES ASSUME checks
               PROVE  VerdictsKept
    BY DEF VerdictsKept
  <2>1. part' = [part EXCEPT ![s] = Attempted(s, run)]
    BY <1>5 DEF RunStarted
  <2> QED
    BY <1>2, <1>3, <2>1, VerdictKept
<1>6. ASSUME NEW run \in Run, NEW seq \in 0 .. MaxSeq, NEW totals \in Totals,
             IngestScore(s, run, seq, totals)
      PROVE  VerdictsKept
  <2> SUFFICES ASSUME checks
               PROVE  VerdictsKept
    BY DEF VerdictsKept
  <2> DEFINE p == Attempted(s, run)
             ps == [part EXCEPT ![s] = p]
             q == Scored(p, seq, totals)
             qs == [part EXCEPT ![s] = q]
  <2>1. p \in Participant /\ (p.validity = part[s].validity \/ p.validity \in Bad)
    BY <1>3
  <2>2. /\ ps \in Participants
        /\ \A t \in Session : ps[t].validity = part[t].validity \/ ps[t].validity \in Bad
    <3> HIDE DEF p
    <3> QED
      BY <1>2, <2>1
  <2>3. CASE ScoreStale(s, run, seq)
    BY <2>2, <2>3, VerdictKept DEF ScoreStale
  <2>4. CASE ScoreRefused(s, run, seq, totals)
    <3>1. part' = RejectedIn(ps, s)
      BY <2>4 DEF ScoreRefused
    <3> HIDE DEF ps
    <3>2. \A t \in Session : part'[t].validity = ps[t].validity \/ part'[t].validity \in Bad
      BY <2>2, <3>1, RejectedSame DEF Same, Bad
    <3> QED
      BY <2>2, <3>2, VerdictKept
  <2>5. CASE ScoreCounted(s, run, seq, totals)
    <3>1. q \in Participant
      BY <2>1, <2>5, ScoredType DEF ScoreCounted
    <3>2. part[s].validity \in Bad => q.validity \in Bad
      <4> HIDE DEF p
      <4>1. part[s].validity \in Bad => p.validity \in Bad
        BY <2>1
      <4>2. q.validity = IF seq # p.seq + 1 /\ checks THEN "invalid"
                         ELSE IF p.validity = "pending" THEN "valid" ELSE p.validity
        BY <2>1 DEF Scored, Participant
      <4> QED
        BY <4>1, <4>2 DEF Bad
    <3> HIDE DEF q
    <3>3. /\ qs \in Participants /\ qs[s] = q
          /\ \A t \in Session \ {s} : qs[t] = part[t]
      BY <1>1, <3>1 DEF Participants
    <3>4. part' = Ranked(qs)
      BY <2>5 DEF ScoreCounted, q
    <3> HIDE DEF qs
    <3>5. \A t \in Session : part'[t].validity = qs[t].validity
      BY <3>3, <3>4, RankedSame DEF Same
    <3> QED
      BY <3>2, <3>3, <3>5 DEF VerdictsKept, Competitors, CompetitorsOf
  <2> QED
    BY <1>6, <2>3, <2>4, <2>5 DEF IngestScore
<1>7. ASSUME NEW run \in Run, NEW dnf \in BOOLEAN, Invalidate(s, run, dnf)
      PROVE  VerdictsKept
  <2> DEFINE verdict == IF dnf THEN "dnf" ELSE "invalid"
             p == [part[s] EXCEPT !.validity = verdict]
             ps == [part EXCEPT ![s] = p]
  <2>1. p \in Participant /\ p.validity \in Bad
    <3>1. verdict \in Validity /\ verdict \in Bad
      BY DEF Validity, Bad
    <3> HIDE DEF verdict
    <3> QED
      BY <1>1, <3>1 DEF Participant
  <2>2. /\ ps \in Participants
        /\ \A t \in Session : ps[t].validity = part[t].validity \/ ps[t].validity \in Bad
    <3> HIDE DEF p
    <3> QED
      BY <1>2, <2>1
  <2>3. part' = Ranked(ps)
    BY <1>7 DEF Invalidate
  <2> HIDE DEF ps
  <2>4. \A t \in Session : part'[t].validity = ps[t].validity
    BY <2>2, <2>3, RankedSame DEF Same
  <2> QED
    BY <2>2, <2>4, VerdictKept
<1>8. ASSUME NEW run \in Run, FinishRun(s, run)
      PROVE  VerdictsKept
  <2> DEFINE p == Finished(part[s])
  <2>1. p.validity = part[s].validity \/ p.validity \in Bad
    BY <1>1 DEF Finished, Participant, Bad
  <2>2. part' = [part EXCEPT ![s] = p]
    BY <1>8 DEF FinishRun
  <2> HIDE DEF p
  <2>3. \A t \in Session : part'[t].validity = part[t].validity \/ part'[t].validity \in Bad
    BY <1>1, <2>1, <2>2 DEF Participants
  <2> QED
    BY <2>3, VerdictKept
<1> QED
  BY <1>4, <1>5, <1>6, <1>7, <1>8 DEF RunEvent

\* In a competitive race an invalid or DNF verdict stays one, for any racers,
\* retries, replays, reconnects and expiries.
THEOREM VerdictsStick == Spec => BadVerdictSticks
<1>1. TypeOK /\ [Next]_vars =>
         [checks /\ racing =>
            \A s \in Competitors : part[s].validity \in {"invalid", "dnf"} =>
                part'[s].validity \in {"invalid", "dnf"}]_vars
  <2> SUFFICES ASSUME TypeOK, Next
               PROVE  VerdictsKept
    BY DEF VerdictsKept, Bad
  <2> QED
    BY VerdictSeats, VerdictRun DEF Next
<1> QED
  BY <1>1, TypeCorrect, PTL DEF Spec, BadVerdictSticks

-----------------------------------------------------------------------------
(***************************************************************************)
(* Ranks.  The order of the standings is strict and total where no two     *)
(* racers share a name, so that no two are preceded by as many.            *)
(***************************************************************************)
Order(ps, s) == ValidityOrder(ps[s].validity)

LEMMA OrderType ==
    ASSUME NEW ps \in Participants, NEW s \in Session
    PROVE  Order(ps, s) \in Int /\ ps[s].accuracy \in Int /\ ps[s].done \in Int
  BY Bounds DEF Order, ValidityOrder, Participants, Participant, Validity

LEMMA PrecedesIs ==
    ASSUME NEW ps \in Participants, NEW s \in Session, NEW t \in Session
    PROVE  Precedes(ps, s, t) <=>
               \/ Order(ps, s) > Order(ps, t)
               \/ /\ Order(ps, s) = Order(ps, t)
                  /\ \/ ps[s].accuracy > ps[t].accuracy
                     \/ /\ ps[s].accuracy = ps[t].accuracy
                        /\ \/ ps[s].done > ps[t].done
                           \/ ps[s].done = ps[t].done /\ NameOf[s] < NameOf[t]
<1> DEFINE key(u) == <<ValidityOrder(ps[u].validity), ps[u].accuracy, ps[u].done>>
           differ == {i \in 1 .. 3 : key(s)[i] # key(t)[i]}
<1>1. \A u : key(u)[1] = Order(ps, u) /\ key(u)[2] = ps[u].accuracy /\ key(u)[3] = ps[u].done
  BY DEF Order
<1>2. \A i \in 1 .. 3 : i = 1 \/ i = 2 \/ i = 3
  OBVIOUS
<1>3. Precedes(ps, s, t) <=>
          IF differ = {} THEN NameOf[s] < NameOf[t]
          ELSE \E i \in differ : key(s)[i] > key(t)[i] /\ \A j \in differ : i <= j
  BY DEF Precedes
<1>4. /\ 1 \in differ <=> Order(ps, s) # Order(ps, t)
      /\ 2 \in differ <=> ps[s].accuracy # ps[t].accuracy
      /\ 3 \in differ <=> ps[s].done # ps[t].done
      /\ differ \subseteq {1, 2, 3}
  BY <1>1, <1>2
<1> HIDE DEF key, differ
<1>5. CASE 1 \in differ
  <2>1. \A i \in differ : (\A j \in differ : i <= j) <=> i = 1
    BY <1>4, <1>5
  <2>2. Precedes(ps, s, t) <=> key(s)[1] > key(t)[1]
    BY <1>3, <1>5, <2>1
  <2> QED BY <1>1, <1>4, <1>5, <2>2, OrderType
<1>6. CASE 1 \notin differ /\ 2 \in differ
  <2>1. \A i \in differ : (\A j \in differ : i <= j) <=> i = 2
    BY <1>4, <1>6
  <2>2. Precedes(ps, s, t) <=> key(s)[2] > key(t)[2]
    BY <1>3, <1>6, <2>1
  <2> QED BY <1>1, <1>4, <1>6, <2>2, OrderType
<1>7. CASE differ = {3}
  <2>1. Precedes(ps, s, t) <=> key(s)[3] > key(t)[3]
    BY <1>3, <1>7
  <2> QED BY <1>1, <1>4, <1>7, <2>1, OrderType
<1>8. CASE differ = {}
  BY <1>3, <1>4, <1>8, OrderType
<1> QED BY <1>4, <1>5, <1>6, <1>7, <1>8

LEMMA PrecedesOrders ==
    ASSUME NEW ps \in Participants
    PROVE  \A s, t \in Session :
               /\ ~Precedes(ps, s, s)
               /\ NameOf[s] # NameOf[t] => Precedes(ps, s, t) \/ Precedes(ps, t, s)
               /\ \A u \in Session :
                     Precedes(ps, u, s) /\ Precedes(ps, s, t) => Precedes(ps, u, t)
<1>1. \A s \in Session : NameOf[s] \in Int
  BY NameAssumption
<1> QED BY <1>1, PrecedesIs, OrderType

NamesDiffer(ps) ==
    \A s, t \in Session :
        ps[s].role # "none" /\ ps[t].role # "none" /\ NameOf[s] = NameOf[t] => s = t

RanksDiffer(ps) ==
    \A s, t \in Session : ps[s].rank = ps[t].rank /\ ps[s].rank # 0 => s = t

\* Ranking gives no rank twice, and none to those who do not compete.
LEMMA RankedApart ==
    ASSUME NEW ps \in Participants, NamesDiffer(ps)
    PROVE  RanksDiffer(Ranked(ps))
<1> DEFINE Ahead(s) == {t \in CompetitorsOf(ps) : Precedes(ps, t, s)}
<1>1. \A s \in Session : /\ IsFiniteSet(Ahead(s)) /\ Cardinality(Ahead(s)) \in Nat
                         /\ Ahead(s) \subseteq Session
  <2>1. \A s \in Session : Ahead(s) \in SUBSET Session
    BY DEF CompetitorsOf
  <2> QED BY <2>1, SessionAssumption, FS_Subset, FS_CardinalityType
<1>2. \A s \in Session : Ranked(ps)[s].rank =
          IF s \in CompetitorsOf(ps) THEN 1 + Cardinality(Ahead(s)) ELSE 0
  BY DEF Ranked, Participants, Participant, CompetitorsOf
<1>3. ASSUME NEW s \in CompetitorsOf(ps), NEW t \in CompetitorsOf(ps), Precedes(ps, s, t)
      PROVE  Cardinality(Ahead(s)) < Cardinality(Ahead(t))
  <2>1. s \in Session /\ t \in Session
    BY DEF CompetitorsOf
  <2>2. Ahead(s) \subseteq Ahead(t)
    BY <1>3, <2>1, PrecedesOrders DEF CompetitorsOf
  <2>3. s \in Ahead(t) /\ s \notin Ahead(s)
    BY <1>3, <2>1, PrecedesOrders
  <2> HIDE DEF Ahead
  <2>4. /\ Cardinality(Ahead(s)) <= Cardinality(Ahead(t))
        /\ Cardinality(Ahead(s)) # Cardinality(Ahead(t))
    BY <1>1, <2>1, <2>2, <2>3, FS_Subset
  <2> QED BY <1>1, <2>1, <2>4
<1>4. ASSUME NEW s \in Session, NEW t \in Session, s # t,
             Ranked(ps)[s].rank = Ranked(ps)[t].rank, Ranked(ps)[s].rank # 0
      PROVE  FALSE
  <2> HIDE DEF Ahead
  <2>1. s \in CompetitorsOf(ps) /\ t \in CompetitorsOf(ps)
        /\ Cardinality(Ahead(s)) = Cardinality(Ahead(t))
    BY <1>1, <1>2, <1>4
  <2>2. NameOf[s] # NameOf[t]
    BY <1>4, <2>1 DEF NamesDiffer, CompetitorsOf, IsCompetitor, RacesIn
  <2>3. Precedes(ps, s, t) \/ Precedes(ps, t, s)
    BY <2>2, PrecedesOrders
  <2>4. Cardinality(Ahead(s)) \in Nat /\ Cardinality(Ahead(t)) \in Nat
    BY <1>1
  <2> QED BY <1>3, <2>1, <2>3, <2>4
<1> QED BY <1>4 DEF RanksDiffer

-----------------------------------------------------------------------------
(***************************************************************************)
(* What a race leaves alone: who is seated, connected, ready and verified. *)
(***************************************************************************)
Stands(p, q) ==
    /\ p.role = q.role /\ p.admitted = q.admitted /\ p.connected = q.connected
    /\ p.commentator = q.commentator /\ p.ready = q.ready /\ p.verified = q.verified
Stand(ps, qs) == \A s \in Session : Stands(ps[s], qs[s])

\* A participant who left the race, or begins it anew, has no rank.
Demotes(p, q) == Stands(p, q) /\ p.rank \in {0, q.rank}

LEMMA StandSelf == Stand(part, part)
  BY DEF Stand, Stands

LEMMA RankedStands ==
    ASSUME NEW ps \in Participants
    PROVE  Stand(Ranked(ps), ps)
  BY DEF Stand, Stands, Ranked, Participants, Participant

LEMMA EditedStands ==
    ASSUME NEW ps \in Participants, NEW s \in Session, NEW p \in Participant, Stands(p, ps[s])
    PROVE  [ps EXCEPT ![s] = p] \in Participants /\ Stand([ps EXCEPT ![s] = p], ps)
  BY DEF Stand, Stands, Participants

LEMMA AttemptedStands ==
    ASSUME TypeOK, NEW s \in Session, NEW run \in Run
    PROVE  Demotes(Attempted(s, run), part[s])
<1>1. part[s] \in Participant
  BY DEF TypeOK
<1> QED BY <1>1 DEF Attempted, Demotes, Stands, Participant

LEMMA ScoredStands ==
    ASSUME NEW p \in Participant, NEW seq, NEW totals
    PROVE  Stands(Scored(p, seq, totals), p)
  BY DEF Scored, Stands, Participant

LEMMA FinishedStands ==
    ASSUME NEW p \in Participant
    PROVE  Demotes(Finished(p), p)
  BY DEF Finished, Demotes, Stands, Participant

LEMMA VerdictStands ==
    ASSUME NEW p \in Participant, NEW v \in Validity
    PROVE  /\ [p EXCEPT !.validity = v] \in Participant
           /\ [p EXCEPT !.validity = v, !.accuracy = 0] \in Participant
           /\ Stands([p EXCEPT !.validity = v], p)
           /\ Stands([p EXCEPT !.validity = v, !.accuracy = 0], p)
  BY Bounds DEF Stands, Participant

\* A step of a race leaves the standings apart: it ranks everybody, or takes
\* some ranks away.
RanksStep ==
    \/ \E ps \in Participants : part' = Ranked(ps) /\ Stand(ps, part)
    \/ \A s \in Session : Demotes(part'[s], part[s])
RaceStep == Stand(part', part) /\ RanksStep

LEMMA RankedStep ==
    ASSUME NEW ps \in Participants, Stand(ps, part), part' = Ranked(ps)
    PROVE  RaceStep
<1>1. Stand(part', ps)
  BY RankedStands
<1> QED BY <1>1 DEF RaceStep, RanksStep, Stand, Stands

LEMMA DemotedStep ==
    ASSUME TypeOK, NEW s \in Session, NEW p, Demotes(p, part[s]), part' = [part EXCEPT ![s] = p]
    PROVE  RaceStep
<1>1. \A t \in Session : Demotes(part'[t], part[t])
  BY DEF TypeOK, Demotes, Stands
<1> QED BY <1>1 DEF RaceStep, RanksStep, Stand, Demotes

LEMMA SameStep ==
    ASSUME part' = part
    PROVE  RaceStep
  BY DEF RaceStep, RanksStep, Stand, Demotes, Stands

LEMMA RejectedStep ==
    ASSUME TypeOK, NEW s \in Session, NEW p \in Participant, Demotes(p, part[s]),
           part' = RejectedIn([part EXCEPT ![s] = p], s)
    PROVE  RaceStep
<1> DEFINE ps == [part EXCEPT ![s] = p]
           qs == [ps EXCEPT ![s].validity = "invalid"]
<1>1. part \in Participants
  BY DEF TypeOK, Participants
<1>2. ps \in Participants /\ Stand(ps, part) /\ ps[s] = p
  BY <1>1, EditedStands DEF Demotes, Participants
<1>3. CASE part' = ps
  BY <1>3, DemotedStep
<1>4. CASE part' = Ranked(qs)
  <2>1. "invalid" \in Validity
    BY DEF Validity
  <2>2. /\ [p EXCEPT !.validity = "invalid"] \in Participant
        /\ Stands([p EXCEPT !.validity = "invalid"], p)
    BY <2>1, VerdictStands
  <2>3. qs = [ps EXCEPT ![s] = [p EXCEPT !.validity = "invalid"]]
    BY <1>2
  <2> HIDE DEF ps, qs
  <2>4. qs \in Participants /\ Stand(qs, ps)
    BY <1>2, <2>2, <2>3, EditedStands
  <2>5. Stand(qs, part)
    BY <1>2, <2>4 DEF Stand, Stands
  <2> QED BY <1>4, <2>4, <2>5, RankedStep
<1> QED BY <1>3, <1>4 DEF RejectedIn

\* The steps of a race are run events, expiries of racers and its start.
LEMMA RunStep ==
    ASSUME TypeOK, NEW s \in Session, RunEvent(s)
    PROVE  RaceStep
<1>1. part \in Participants /\ part[s] \in Participant
  BY DEF TypeOK, Participants
<1>2. Demotes(part[s], part[s])
  BY DEF Demotes, Stands
<1>3. CASE RunEventRefused(s)
  <2>1. [part EXCEPT ![s] = part[s]] = part
    BY <1>1 DEF Participants
  <2> QED BY <1>1, <1>2, <1>3, <2>1, RejectedStep DEF RunEventRefused
<1>4. ASSUME NEW run \in Run, RunStarted(s, run) PROVE RaceStep
  BY <1>4, AttemptedStands, DemotedStep DEF RunStarted
<1>5. ASSUME NEW run \in Run, FinishRun(s, run) PROVE RaceStep
  BY <1>1, <1>5, FinishedStands, DemotedStep DEF FinishRun
<1>6. ASSUME NEW run \in Run, NEW dnf \in BOOLEAN, Invalidate(s, run, dnf) PROVE RaceStep
  <2> DEFINE p == [part[s] EXCEPT !.validity = IF dnf THEN "dnf" ELSE "invalid"]
  <2>1. p \in Participant /\ Stands(p, part[s])
    <3>1. (IF dnf THEN "dnf" ELSE "invalid") \in Validity
      BY DEF Validity
    <3> QED BY <1>1, <3>1, VerdictStands
  <2>2. part' = Ranked([part EXCEPT ![s] = p])
    BY <1>6 DEF Invalidate
  <2> HIDE DEF p
  <2> QED BY <1>1, <2>1, <2>2, EditedStands, RankedStep
<1>7. ASSUME NEW run \in Run, NEW seq \in 0 .. MaxSeq, NEW totals \in Totals,
             IngestScore(s, run, seq, totals)
      PROVE  RaceStep
  <2> DEFINE p == Attempted(s, run)
             q == Scored(p, seq, totals)
  <2>1. p \in Participant /\ Demotes(p, part[s])
    BY AttemptedType, AttemptedStands
  <2>2. CASE ScoreStale(s, run, seq)
    BY <2>1, <2>2, DemotedStep DEF ScoreStale
  <2>3. CASE ScoreRefused(s, run, seq, totals)
    BY <2>1, <2>3, RejectedStep DEF ScoreRefused
  <2>4. CASE ScoreCounted(s, run, seq, totals)
    <3>1. q \in Participant /\ Stands(q, p) /\ part' = Ranked([part EXCEPT ![s] = q])
      BY <2>1, <2>4, ScoredType, ScoredStands DEF ScoreCounted
    <3>2. Stands(q, part[s])
      BY <2>1, <3>1 DEF Stands, Demotes
    <3> HIDE DEF p, q
    <3> QED BY <1>1, <3>1, <3>2, EditedStands, RankedStep
  <2> QED BY <1>7, <2>2, <2>3, <2>4 DEF IngestScore
<1> QED BY <1>3, <1>4, <1>5, <1>6, <1>7 DEF RunEvent

LEMMA ExpiryStep ==
    ASSUME TypeOK, ExpireUnstartedRuns \/ \E s \in Session : ExpireRacer(s)
    PROVE  RaceStep
<1>1. part \in Participants /\ "dnf" \in Validity
  BY DEF TypeOK, Participants, Validity
<1>2. CASE ExpireUnstartedRuns
  <2> DEFINE ps == [s \in Session |-> IF s \in Unstarted
                                      THEN [part[s] EXCEPT !.validity = "dnf", !.accuracy = 0]
                                      ELSE part[s]]
  <2>1. \A s \in Session : ps[s] \in Participant /\ Stands(ps[s], part[s])
    BY <1>1, VerdictStands DEF Participants, Stands
  <2>2. ps \in Participants /\ Stand(ps, part)
    BY <2>1 DEF Participants, Stand
  <2>3. part' = Ranked(ps)
    BY <1>2 DEF ExpireUnstartedRuns
  <2> HIDE DEF ps
  <2> QED BY <2>2, <2>3, RankedStep
<1>3. ASSUME NEW s \in Session, ExpireRacer(s) PROVE RaceStep
  <2> DEFINE away == IF part[s].validity \in {"invalid", "dnf"} THEN part[s]
                     ELSE [part[s] EXCEPT !.validity = "dnf", !.accuracy = 0]
  <2>1. away \in Participant /\ Stands(away, part[s])
    BY <1>1, VerdictStands DEF Participants, Stands
  <2>2. part' = Ranked([part EXCEPT ![s] = away])
    BY <1>3 DEF ExpireRacer
  <2> HIDE DEF away
  <2> QED BY <1>1, <2>1, <2>2, EditedStands, RankedStep
<1> QED BY <1>2, <1>3

LEMMA StartStep ==
    ASSUME TypeOK, NEW on \in BOOLEAN, ScheduleStart(on)
    PROVE  RaceStep
<1>1. part' = [s \in Session |->
                 IF ~RacesIn(part[s].role) THEN part[s]
                 ELSE [part[s] EXCEPT !.validity = "pending", !.done = 0, !.missed = 0,
                          !.accuracy = 100, !.rank = 0, !.seq = NoSeq]]
  BY DEF ScheduleStart
<1>2. \A s \in Session : part[s] \in Participant
  BY DEF TypeOK
<1>3. ASSUME NEW s \in Session PROVE Demotes(part'[s], part[s])
  <2> DEFINE p == [part[s] EXCEPT !.validity = "pending", !.done = 0, !.missed = 0,
                                  !.accuracy = 100, !.rank = 0, !.seq = NoSeq]
  <2>1. Demotes(p, part[s]) /\ Demotes(part[s], part[s])
    BY <1>2 DEF Demotes, Stands, Participant
  <2>2. part'[s] = p \/ part'[s] = part[s]
    BY <1>1
  <2> HIDE DEF p
  <2> QED BY <2>1, <2>2
<1> QED BY <1>3 DEF RaceStep, RanksStep, Stand, Demotes

-----------------------------------------------------------------------------
(***************************************************************************)
(* The seats.                                                              *)
(***************************************************************************)
\* Names in the roster differ, since a join under a name that is taken is
\* refused; and the host has no connection the transport could end.
Seated ==
    /\ RunStateInRoster /\ HostPresent /\ WithinCapacity /\ CommentatorIsSpectator
    /\ NamesDiffer(part) /\ link[Host] = "new"
    /\ \A s \in Session : part[s].admitted => part[s].role # "none"

\* The limit of the racing seats, or of the spectators'.
Seats(role) == IF RacesIn(role) THEN MaxPlayers ELSE MaxSpectators
Holders(role) ==
    {s \in roster : IF RacesIn(role) THEN RacesIn(part[s].role) ELSE part[s].role = "spectator"}

LEMMA CapacityIs == WithinCapacity <=> \A role \in Role : Cardinality(Holders(role)) <= Seats(role)
<1>1. /\ "player" \in Role /\ "spectator" \in Role /\ RacesIn("player") /\ ~RacesIn("spectator")
  BY DEF Role, RacesIn
<1> QED BY <1>1 DEF WithinCapacity, Holders, Seats

LEMMA CapacityNext ==
    ASSUME \A role \in Role : Cardinality(Holders(role)') <= Seats(role)
    PROVE  WithinCapacity'
<1>1. /\ "player" \in Role /\ "spectator" \in Role /\ RacesIn("player") /\ ~RacesIn("spectator")
  BY DEF Role, RacesIn
<1> QED BY <1>1 DEF WithinCapacity, Holders, Seats

\* Fewer holders keep the limit, and one more does where there was room.
LEMMA FewerHolders ==
    ASSUME WithinCapacity, NEW role \in Role, Holders(role)' \subseteq Holders(role)
    PROVE  Cardinality(Holders(role)') <= Seats(role)
<1>1. Holders(role) \in SUBSET Session
  BY DEF Holders, roster
<1>2. IsFiniteSet(Holders(role)) /\ Cardinality(Holders(role)) \in Nat
  BY <1>1, SessionAssumption, FS_Subset, FS_CardinalityType
<1>3. /\ Holders(role)' \in SUBSET Holders(role)
      /\ Cardinality(Holders(role)') <= Cardinality(Holders(role))
      /\ Cardinality(Holders(role)') \in Nat
  BY <1>2, FS_Subset, FS_CardinalityType
<1>4. Cardinality(Holders(role)) <= Seats(role) /\ Seats(role) \in Nat
  BY CapacityIs, LimitAssumption DEF Seats
<1> QED BY <1>2, <1>3, <1>4

LEMMA OneMoreHolder ==
    ASSUME NEW role \in Role, NEW s \in Session, NEW others \in SUBSET Session,
           Cardinality(others) < Seats(role), Holders(role)' \subseteq others \cup {s}
    PROVE  Cardinality(Holders(role)') <= Seats(role)
<1>1. IsFiniteSet(others) /\ Cardinality(others) \in Nat
  BY SessionAssumption, FS_Subset, FS_CardinalityType
<1>2. /\ IsFiniteSet(others \cup {s})
      /\ Cardinality(others \cup {s}) <= Cardinality(others) + 1
      /\ Cardinality(others \cup {s}) \in Nat
  BY <1>1, FS_AddElement, FS_CardinalityType
<1>3. Holders(role)' \in SUBSET (others \cup {s})
  OBVIOUS
<1>4. /\ Cardinality(Holders(role)') <= Cardinality(others \cup {s})
      /\ Cardinality(Holders(role)') \in Nat
  BY <1>2, <1>3, FS_Subset, FS_CardinalityType
<1>5. Seats(role) \in Nat
  BY LimitAssumption DEF Seats
<1> QED BY <1>1, <1>2, <1>4, <1>5

\* A step that moves nobody, and starts or settles only the runs of racers.
LEMMA SeatedStand ==
    ASSUME TypeOK, Seated, link'[Host] = link[Host],
           \A s \in Session : /\ part'[s].role = part[s].role
                              /\ part'[s].admitted = part[s].admitted
                              /\ part'[s].connected = part[s].connected
                              /\ part'[s].commentator = part[s].commentator,
           deadlines' \subseteq deadlines,
           started' \cup finalized' \subseteq started \cup finalized \cup Competitors,
           \A s \in Session \ roster : /\ activeRun'[s] \in {activeRun[s], NoRun}
                                       /\ retired'[s] \in {retired[s], <<>>}
    PROVE  Seated'
<1>1. roster' = roster /\ \A role \in Role : Holders(role)' = Holders(role)
  BY DEF roster, Holders
<1>2. Competitors \subseteq roster
  BY DEF Competitors, CompetitorsOf, IsCompetitor, RacesIn, roster
<1>3. RunStateInRoster'
  BY <1>1, <1>2 DEF Seated, RunStateInRoster
<1>4. WithinCapacity'
  <2>1. ASSUME NEW role \in Role PROVE Holders(role)' \subseteq Holders(role)
    BY <1>1
  <2>2. \A role \in Role : Cardinality(Holders(role)') <= Seats(role)
    BY <2>1, FewerHolders DEF Seated
  <2> QED BY <2>2, CapacityNext
<1>5. HostPresent' /\ CommentatorIsSpectator'
  BY SessionAssumption DEF Seated, HostPresent, CommentatorIsSpectator
<1>6. NamesDiffer(part)' /\ (\A s \in Session : part[s].admitted => part[s].role # "none")'
  BY DEF Seated, NamesDiffer
<1> QED BY <1>3, <1>4, <1>5, <1>6 DEF Seated

\* A step that changes the entry of a participant, or adds one.
LEMMA SeatedEdit ==
    ASSUME TypeOK, Seated, NEW s \in Session, NEW p \in Participant,
           part' = [part EXCEPT ![s] = p], link'[Host] = link[Host],
           p.role # "none",
           s \in roster \/ ~NameTaken(s),
           s = Host => p.admitted /\ p.connected,
           p.commentator => s # Host /\ p.admitted /\ p.role = "spectator",
           \/ s \in roster /\ p.role = part[s].role
           \/ Cardinality(Rivals(s, p.role)) < Seats(p.role),
           deadlines' \subseteq deadlines \/ (s # Host /\ deadlines' \subseteq deadlines \cup {s}),
           UNCHANGED <<started, finalized, activeRun, retired>>
    PROVE  Seated'
<1>1. /\ part'[s] = p /\ \A t \in Session : t # s => part'[t] = part[t]
      /\ roster' = roster \cup {s}
  BY DEF TypeOK, roster
<1>2. RunStateInRoster'
  BY <1>1 DEF Seated, RunStateInRoster
<1>3. HostPresent' /\ CommentatorIsSpectator'
  BY <1>1, SessionAssumption DEF Seated, HostPresent, CommentatorIsSpectator
<1>4. NamesDiffer(part)'
  BY <1>1 DEF Seated, NamesDiffer, NameTaken, roster
<1>5. ASSUME NEW role \in Role PROVE Cardinality(Holders(role)') <= Seats(role)
  <2>1. p.role \in Role
    BY DEF Participant
  <2>2. CASE s \notin Holders(role)'
    <3>1. Holders(role)' \subseteq Holders(role)
      BY <1>1, <2>2 DEF Holders
    <3> QED BY <3>1, FewerHolders DEF Seated
  <2>3. CASE s \in roster /\ p.role = part[s].role
    <3>1. Holders(role)' \subseteq Holders(role)
      BY <1>1, <2>3 DEF Holders
    <3> QED BY <3>1, FewerHolders DEF Seated
  <2>4. CASE s \in Holders(role)' /\ Cardinality(Rivals(s, p.role)) < Seats(p.role)
    <3>1. RacesIn(role) <=> RacesIn(p.role)
      BY <1>1, <2>1, <2>4 DEF Holders, Role, RacesIn
    <3>2. Seats(role) = Seats(p.role) /\ Rivals(s, role) = Rivals(s, p.role)
      BY <3>1 DEF Seats, Rivals
    <3>3. Holders(role)' \subseteq Rivals(s, role) \cup {s} /\ Rivals(s, role) \subseteq Session
      BY <1>1 DEF Holders, Rivals, roster
    <3> QED BY <2>4, <3>2, <3>3, OneMoreHolder
  <2> QED BY <2>2, <2>3, <2>4
<1>6. WithinCapacity'
  BY <1>5, CapacityNext
<1>7. (\A t \in Session : part[t].admitted => part[t].role # "none")'
  BY <1>1 DEF Seated
<1> QED BY <1>2, <1>3, <1>4, <1>6, <1>7 DEF Seated

\* A step that takes a participant out of the roster.
LEMMA SeatedLeave ==
    ASSUME TypeOK, Seated, NEW s \in Session \ {Host},
           part' = [part EXCEPT ![s] = Absent], link'[Host] = link[Host],
           Forget(s), deadlines' = deadlines \ {s}
    PROVE  Seated'
<1>1. /\ part'[s] = Absent /\ Absent.role = "none" /\ Absent.commentator = FALSE
      /\ Absent.admitted = FALSE
      /\ \A t \in Session : t # s => part'[t] = part[t]
      /\ roster' = roster \ {s}
  BY DEF TypeOK, roster, Absent, Entry
<1>2. RunStateInRoster'
  BY <1>1 DEF Seated, RunStateInRoster, Forget, TypeOK, RunTypes
<1>3. HostPresent' /\ CommentatorIsSpectator'
  BY <1>1, SessionAssumption DEF Seated, HostPresent, CommentatorIsSpectator
<1>4. NamesDiffer(part)'
  BY <1>1 DEF Seated, NamesDiffer
<1>5. ASSUME NEW role \in Role PROVE Cardinality(Holders(role)') <= Seats(role)
  <2>1. Holders(role)' \subseteq Holders(role)
    BY <1>1 DEF Holders
  <2> QED BY <2>1, FewerHolders DEF Seated
<1>6. WithinCapacity'
  BY <1>5, CapacityNext
<1>7. (\A t \in Session : part[t].admitted => part[t].role # "none")'
  BY <1>1 DEF Seated
<1> QED BY <1>2, <1>3, <1>4, <1>6, <1>7 DEF Seated

-----------------------------------------------------------------------------
(***************************************************************************)
(* When a start is offered.                                                *)
(***************************************************************************)
Offerable == {"chart_locked", "ready"}

\* A room that could start has a chart.
Offered == AllReadyIsReady /\ (lifecycle \in Offerable => chart # NoChart)

LEMMA OfferedAway ==
    ASSUME lifecycle' \notin Offerable
    PROVE  Offered'
  BY DEF Offered, AllReadyIsReady, Offerable

LEMMA OfferedRefreshed ==
    ASSUME Offered, chart' = chart, lifecycle' = Refreshed(part')
    PROVE  Offered'
  BY DEF Offered, AllReadyIsReady, Refreshed, Offerable, PreRace

\* Nobody becomes ready by a step that judges nobody.
LEMMA OfferedKept ==
    ASSUME Offered, chart' = chart, lifecycle' = lifecycle,
           AllAssignedReady(part') => AllAssignedReady(part)
    PROVE  Offered'
  BY DEF Offered, AllReadyIsReady

LEMMA OfferedStand ==
    ASSUME Offered, Stand(part', part),
           (chart' = chart /\ lifecycle' = lifecycle) \/ lifecycle' \notin Offerable
    PROVE  Offered'
<1>1. CompetitorsOf(part') = CompetitorsOf(part)
  BY DEF Stand, Stands, CompetitorsOf, IsCompetitor
<1>2. {s \in CompetitorsOf(part') : part'[s].connected} = {s \in CompetitorsOf(part) : part[s].connected}
  BY <1>1, CompetitorsAreSessions DEF Stand, Stands
<1>3. AllAssignedReady(part') => AllAssignedReady(part)
  BY <1>2, CompetitorsAreSessions DEF AllAssignedReady, Stand, Stands
<1> QED BY <1>3, OfferedKept, OfferedAway

\* A chart is locked: every racer is to get ready again.
LEMMA OfferedSelect ==
    ASSUME TypeOK, NEW c \in Chart, SelectChart(c)
    PROVE  Offered'
<1>1. \A s \in Session : part[s].role # "spectator" => part'[s].ready = FALSE
  BY DEF SelectChart, ResetForLockedChart, TypeOK, Participant
<1>2. \A s \in Session : part'[s].role = part[s].role
  BY DEF SelectChart, ResetForLockedChart, TypeOK, Participant
<1>3. ~AllAssignedReady(part')
  BY <1>1, <1>2 DEF AllAssignedReady, CompetitorsOf, IsCompetitor, RacesIn
<1> QED BY <1>3, NoneAssumption DEF SelectChart, Offered, AllReadyIsReady

-----------------------------------------------------------------------------
(***************************************************************************)
(* The roster, action by action.                                           *)
(***************************************************************************)
RosterOK == Seated /\ Offered /\ RanksDiffer(part)

LEMMA RanksTaken ==
    ASSUME RanksDiffer(part), \A s \in Session : part'[s].rank \in {0, part[s].rank}
    PROVE  RanksDiffer(part')
  BY DEF RanksDiffer

LEMMA RanksStepped ==
    ASSUME Seated, RanksDiffer(part), RaceStep
    PROVE  RanksDiffer(part')
<1>1. ASSUME NEW ps \in Participants, part' = Ranked(ps), Stand(ps, part)
      PROVE  RanksDiffer(part')
  <2>1. NamesDiffer(ps)
    BY <1>1 DEF Seated, NamesDiffer, Stand, Stands
  <2> QED BY <1>1, <2>1, RankedApart
<1>2. ASSUME \A s \in Session : Demotes(part'[s], part[s])
      PROVE  RanksDiffer(part')
  BY <1>2, RanksTaken DEF Demotes
<1> QED BY <1>1, <1>2 DEF RaceStep, RanksStep

\* A step of a race, or one that leaves the participants alone.
LEMMA RosterStepped ==
    ASSUME TypeOK, RosterOK, RaceStep, link'[Host] = link[Host],
           (chart' = chart /\ lifecycle' = lifecycle) \/ lifecycle' \notin Offerable,
           deadlines' \subseteq deadlines,
           started' \cup finalized' \subseteq started \cup finalized \cup Competitors,
           \A s \in Session \ roster : /\ activeRun'[s] \in {activeRun[s], NoRun}
                                       /\ retired'[s] \in {retired[s], <<>>}
    PROVE  RosterOK'
<1>1. Seated'
  BY SeatedStand DEF RosterOK, RaceStep, Stand, Stands
<1>2. Offered'
  BY OfferedStand DEF RosterOK, RaceStep
<1>3. RanksDiffer(part')
  BY RanksStepped DEF RosterOK
<1> QED BY <1>1, <1>2, <1>3 DEF RosterOK

LEMMA RosterEdited ==
    ASSUME TypeOK, RosterOK, NEW s \in Session, NEW p \in Participant,
           part' = [part EXCEPT ![s] = p], link'[Host] = link[Host],
           p.role # "none", p.rank \in {0, part[s].rank},
           s \in roster \/ ~NameTaken(s),
           s = Host => p.admitted /\ p.connected,
           p.commentator => s # Host /\ p.admitted /\ p.role = "spectator",
           \/ s \in roster /\ p.role = part[s].role
           \/ Cardinality(Rivals(s, p.role)) < Seats(p.role),
           deadlines' \subseteq deadlines \/ (s # Host /\ deadlines' \subseteq deadlines \cup {s}),
           UNCHANGED <<chart, started, finalized, activeRun, retired>>,
           \/ lifecycle' = Refreshed(part')
           \/ lifecycle' = lifecycle /\ (AllAssignedReady(part') => AllAssignedReady(part))
    PROVE  RosterOK'
<1>1. Seated'
  BY SeatedEdit DEF RosterOK
<1>2. Offered'
  BY OfferedRefreshed, OfferedKept DEF RosterOK
<1>3. RanksDiffer(part')
  BY RanksTaken DEF RosterOK, TypeOK
<1> QED BY <1>1, <1>2, <1>3 DEF RosterOK

LEMMA RosterLeft ==
    ASSUME TypeOK, RosterOK, NEW s \in Session \ {Host},
           part' = [part EXCEPT ![s] = Absent], link'[Host] = link[Host],
           Forget(s), deadlines' = deadlines \ {s}, chart' = chart, lifecycle' = Refreshed(part')
    PROVE  RosterOK'
<1>1. Seated'
  BY SeatedLeave DEF RosterOK
<1>2. Offered'
  BY OfferedRefreshed DEF RosterOK
<1>3. Absent.rank = 0
  BY DEF Absent, Entry
<1>4. RanksDiffer(part')
  BY <1>3, RanksTaken DEF RosterOK, TypeOK
<1> QED BY <1>1, <1>2, <1>4 DEF RosterOK

LEMMA RosterInit == Init => RosterOK
<1> SUFFICES ASSUME Init PROVE RosterOK
  OBVIOUS
<1>1. PICK on \in BOOLEAN :
         part = [s \in Session |->
                   IF s # Host THEN Absent
                   ELSE [Entry(IF on THEN "host" ELSE "spectator", TRUE)
                           EXCEPT !.ready = ~on, !.verified = ~on]]
  BY DEF Init
<1>2. /\ \A s \in Session : s # Host =>
             part[s].role = "none" /\ ~part[s].commentator /\ ~part[s].admitted
      /\ \A s \in Session : part[s].rank = 0
      /\ part[Host].admitted /\ part[Host].connected /\ part[Host].role \in {"host", "spectator"}
      /\ ~part[Host].commentator
  BY <1>1, SessionAssumption DEF Absent, Entry
<1>3. RunStateInRoster /\ HostPresent /\ CommentatorIsSpectator /\ link[Host] = "new"
      /\ \A s \in Session : part[s].admitted => part[s].role # "none"
  BY <1>2, SessionAssumption DEF Init, RunStateInRoster, HostPresent, CommentatorIsSpectator
<1>4. WithinCapacity
  <2>1. /\ IsFiniteSet({Host}) /\ Cardinality({Host}) = 1
        /\ {s \in roster : RacesIn(part[s].role)} \in SUBSET {Host}
        /\ {s \in roster : part[s].role = "spectator"} \in SUBSET {Host}
    BY <1>2, FS_Singleton DEF roster
  <2>2. /\ Cardinality({s \in roster : RacesIn(part[s].role)}) \in Nat
        /\ Cardinality({s \in roster : RacesIn(part[s].role)}) <= 1
        /\ Cardinality({s \in roster : part[s].role = "spectator"}) \in Nat
        /\ Cardinality({s \in roster : part[s].role = "spectator"}) <= 1
    BY <2>1, FS_Subset, FS_CardinalityType
  <2> QED BY <2>2, LimitAssumption DEF WithinCapacity
<1>5. NamesDiffer(part) /\ RanksDiffer(part)
  BY <1>2 DEF NamesDiffer, RanksDiffer
<1>6. Offered
  BY DEF Init, Offered, AllReadyIsReady, Offerable
<1> QED BY <1>3, <1>4, <1>5, <1>6 DEF RosterOK, Seated

\* Nobody becomes ready by connecting, and who does not compete is not judged.
LEMMA Unready ==
    ASSUME TypeOK, NEW s \in Session, NEW p \in Participant, part' = [part EXCEPT ![s] = p],
           IsCompetitor(p) => p.connected /\ ~p.ready,
           ~IsCompetitor(p) => ~IsCompetitor(part[s])
    PROVE  AllAssignedReady(part') => AllAssignedReady(part)
<1> DEFINE assigned(ps) == {t \in CompetitorsOf(ps) : ps[t].connected}
<1>1. part'[s] = p /\ \A t \in Session : t # s => part'[t] = part[t]
  BY DEF TypeOK
<1>2. CASE IsCompetitor(p)
  <2>1. s \in assigned(part') /\ ~part'[s].ready
    BY <1>1, <1>2 DEF CompetitorsOf
  <2> QED BY <2>1 DEF AllAssignedReady
<1>3. CASE ~IsCompetitor(p)
  <2>1. CompetitorsOf(part') = CompetitorsOf(part) /\ s \notin CompetitorsOf(part)
    BY <1>1, <1>3 DEF CompetitorsOf
  <2>2. \A t \in CompetitorsOf(part) : part'[t] = part[t]
    BY <1>1, <2>1 DEF CompetitorsOf
  <2> QED BY <2>1, <2>2 DEF AllAssignedReady
<1> QED BY <1>2, <1>3

LEMMA RosterSelected ==
    ASSUME TypeOK, RosterOK, NEW c \in Chart, SelectChart(c),
           UNCHANGED <<finalized, runVars, netVars>>
    PROVE  RosterOK'
<1>1. ASSUME NEW s \in Session
      PROVE  /\ part'[s].role = part[s].role /\ part'[s].admitted = part[s].admitted
             /\ part'[s].connected = part[s].connected
             /\ part'[s].commentator = part[s].commentator /\ part'[s].rank = part[s].rank
  <2>1. part[s] \in Participant
    BY DEF TypeOK
  <2>2. part'[s] = [part[s] EXCEPT !.ready = part[s].role = "spectator",
                                   !.verified = part[s].role = "spectator",
                                   !.validity = "pending"]
    BY DEF SelectChart, ResetForLockedChart
  <2> QED BY <2>1, <2>2 DEF Participant
<1>2. Seated'
  BY <1>1, SeatedStand DEF RosterOK, runVars, netVars
<1>3. Offered'
  BY OfferedSelect
<1>4. RanksDiffer(part')
  BY <1>1, RanksTaken DEF RosterOK
<1> QED BY <1>2, <1>3, <1>4 DEF RosterOK

-----------------------------------------------------------------------------
\* A revocation leaves the host alone, which has no connection.
LEMMA RevokeHost ==
    ASSUME TypeOK, RosterOK, NEW s \in Session
    PROVE  Revoke(s)[Host] = link[Host]
<1>1. link[Host] = "new" /\ link \in [Session -> Link]
  BY DEF RosterOK, Seated, TypeOK, NetTypes
<1> QED BY <1>1, SessionAssumption DEF Revoke

LEMMA RosterTransport ==
    ASSUME TypeOK, RosterOK, NEW s \in Session, Transport(s)
    PROVE  RosterOK'
<1> USE DEF policyVars, setVars, runVars
<1>1. part[s] \in Participant /\ link \in [Session -> Link] /\ link[Host] = "new"
  BY DEF TypeOK, NetTypes, RosterOK, Seated
<1>2. ASSUME NEW role \in RequestedRole, Join(s, role)
      PROVE  RosterOK'
  <2> DEFINE p == Entry(role, mode = "password_only")
             counts == {t \in roster : RacesIn(part[t].role) = RacesIn(role)}
  <2>1. role \in Role /\ role # "none"
    BY DEF RequestedRole, NormalizedRole, Role
  <2>2. /\ p \in Participant /\ p.role = role /\ p.rank = 0 /\ p.connected /\ ~p.ready
        /\ ~p.commentator
    BY <2>1, EntryType DEF Entry
  <2>3. s # Host /\ part' = [part EXCEPT ![s] = p] /\ s \notin roster /\ ~NameTaken(s)
        /\ Cardinality(counts) < Seats(role)
    BY <1>2 DEF Join, Dialling, CanJoin, Seats
  <2>4. Cardinality(Rivals(s, role)) < Seats(role)
    <3>1. counts \in SUBSET Session /\ Rivals(s, role) \in SUBSET counts
      BY DEF Rivals, roster, RacesIn
    <3>2. /\ IsFiniteSet(counts) /\ Cardinality(counts) \in Nat
          /\ Cardinality(Rivals(s, role)) <= Cardinality(counts)
          /\ Cardinality(Rivals(s, role)) \in Nat
      BY <3>1, SessionAssumption, FS_Subset, FS_CardinalityType
    <3>3. Seats(role) \in Nat
      BY LimitAssumption DEF Seats
    <3> QED BY <2>3, <3>2, <3>3
  <2>5. ~IsCompetitor(part[s])
    BY <2>3 DEF roster, IsCompetitor, RacesIn
  <2>6. AllAssignedReady(part') => AllAssignedReady(part)
    BY <2>2, <2>3, <2>5, Unready
  <2>7. link'[Host] = link[Host] /\ deadlines' \subseteq deadlines /\ lifecycle' = lifecycle
        /\ UNCHANGED <<chart, started, finalized, activeRun, retired>>
    BY <1>1, <1>2, <2>3 DEF Join
  <2> HIDE DEF p, counts
  <2> QED BY <2>1, <2>2, <2>3, <2>4, <2>6, <2>7, RosterEdited
<1>3. ASSUME NEW role \in RequestedRole, JoinRefused(s, role)
      PROVE  RosterOK'
  <2>1. link'[Host] = link[Host] /\ deadlines' \subseteq deadlines
    BY <1>1, <1>3 DEF JoinRefused, Dialling
  <2> QED BY <1>3, <2>1, SameStep, RosterStepped DEF JoinRefused
<1>4. ASSUME Reconnect(s)
      PROVE  RosterOK'
  <2> DEFINE p == [part[s] EXCEPT !.connected = TRUE, !.ready = FALSE]
  <2>1. /\ p \in Participant /\ p.role = part[s].role /\ p.admitted = part[s].admitted
        /\ p.rank = part[s].rank /\ p.commentator = part[s].commentator
        /\ p.connected /\ ~p.ready
    BY <1>1 DEF Participant
  <2>2. part' = [part EXCEPT ![s] = p] /\ s # Host /\ s \in roster
    BY <1>4 DEF Reconnect, Dialling, CanReconnect, TypeOK
  <2>3. AllAssignedReady(part') => AllAssignedReady(part)
    BY <2>1, <2>2, Unready DEF IsCompetitor
  <2>4. link'[Host] = link[Host] /\ deadlines' \subseteq deadlines /\ lifecycle' = lifecycle
        /\ UNCHANGED <<chart, started, finalized, activeRun, retired>>
    BY <1>1, <1>4, <2>2 DEF Reconnect
  <2>5. p.role # "none" /\ (p.commentator => s # Host /\ p.admitted /\ p.role = "spectator")
    BY <2>1, <2>2 DEF roster, RosterOK, Seated, CommentatorIsSpectator
  <2> HIDE DEF p
  <2> QED BY <2>1, <2>2, <2>3, <2>4, <2>5, RosterEdited
<1>5. ASSUME Disconnect(s)
      PROVE  RosterOK'
  <2>1. s # Host /\ link'[Host] = link[Host]
    BY <1>1, <1>5, SessionAssumption DEF Disconnect
  <2>2. CASE s \in roster
    <3> DEFINE p == [part[s] EXCEPT !.connected = FALSE, !.ready = FALSE]
    <3>1. /\ p \in Participant /\ p.role = part[s].role /\ p.admitted = part[s].admitted
          /\ p.rank = part[s].rank /\ p.commentator = part[s].commentator
      BY <1>1 DEF Participant
    <3>2. /\ part' = [part EXCEPT ![s] = p] /\ lifecycle' = Refreshed(part')
          /\ deadlines' = deadlines \cup {s}
          /\ UNCHANGED <<chart, started, finalized, activeRun, retired>>
      BY <1>5, <2>2 DEF Disconnect, TypeOK
    <3>3. p.role # "none" /\ (p.commentator => s # Host /\ p.admitted /\ p.role = "spectator")
      BY <2>2, <3>1 DEF roster, RosterOK, Seated, CommentatorIsSpectator
    <3> HIDE DEF p
    <3> QED BY <2>1, <2>2, <3>1, <3>2, <3>3, RosterEdited
  <2>3. CASE s \notin roster
    BY <1>5, <2>1, <2>3, SameStep, RosterStepped DEF Disconnect
  <2> QED BY <2>2, <2>3
<1> QED BY <1>2, <1>3, <1>4, <1>5 DEF Transport

LEMMA RosterMaintenance ==
    ASSUME TypeOK, RosterOK, Maintenance
    PROVE  RosterOK'
<1> USE DEF policyVars, setVars, runVars, netVars
<1>1. Unstarted \subseteq Competitors
  BY DEF Unstarted
<1>2. ASSUME NEW fin, TryFinishChart(part', fin), chart' = chart
      PROVE  (chart' = chart /\ lifecycle' = lifecycle) \/ lifecycle' \notin Offerable
  BY <1>2 DEF TryFinishChart, Offerable
<1>3. CASE ExpireUnstartedRuns
  <2>1. RaceStep
    BY <1>3, ExpiryStep
  <2>2. (chart' = chart /\ lifecycle' = lifecycle) \/ lifecycle' \notin Offerable
    BY <1>2, <1>3 DEF ExpireUnstartedRuns
  <2> QED BY <1>1, <1>3, <2>1, <2>2, RosterStepped DEF ExpireUnstartedRuns
<1>4. ASSUME NEW s \in Session, ExpireDisconnect(s)
      PROVE  RosterOK'
  <2>1. s # Host /\ deadlines' = deadlines \ {s}
    BY <1>4 DEF ExpireDisconnect, RosterOK, Seated, HostPresent
  <2>2. CASE ExpireRacer(s)
    <3>1. RaceStep
      BY <2>2, ExpiryStep
    <3>2. (chart' = chart /\ lifecycle' = lifecycle) \/ lifecycle' \notin Offerable
      BY <1>2, <2>2 DEF ExpireRacer
    <3>3. s \in Competitors /\ link'[Host] = link[Host]
      BY <2>2, RevokeHost DEF ExpireRacer, Competitors, CompetitorsOf
    <3> QED BY <2>1, <2>2, <3>1, <3>2, <3>3, RosterStepped DEF ExpireRacer
  <2>3. CASE ExpireReservation(s)
    <3>1. link'[Host] = link[Host]
      BY <2>3, RevokeHost DEF ExpireReservation
    <3> QED BY <2>1, <2>3, <3>1, RosterLeft DEF ExpireReservation
  <2>4. CASE ExpireIdle(s)
    BY <2>1, <2>4, SameStep, RosterStepped DEF ExpireIdle
  <2> QED BY <1>4, <2>2, <2>3, <2>4 DEF ExpireDisconnect
<1> QED BY <1>3, <1>4 DEF Maintenance

LEMMA ReseatedIs ==
    ASSUME NEW p \in Participant, NEW role \in Role
    PROVE  /\ Reseated(p, role) \in Participant
           /\ Reseated(p, role).role = role /\ Reseated(p, role).admitted = p.admitted
           /\ Reseated(p, role).rank = p.rank
           /\ Reseated(p, role).commentator => p.commentator /\ role = "spectator"
<1>1. Reseated(p, role) = [p EXCEPT !.role = role, !.commentator = p.commentator /\ role = "spectator"]
  BY DEF Reseated
<1>2. Reseated(p, role).commentator = (p.commentator /\ role = "spectator")
  BY <1>1 DEF Participant
<1>3. Reseated(p, role).role = role /\ Reseated(p, role).admitted = p.admitted
      /\ Reseated(p, role).rank = p.rank
  BY <1>1 DEF Participant
<1> QED BY <1>2, <1>3, ReseatedType

LEMMA RosterSeats ==
    ASSUME TypeOK, RosterOK, RosterControl
    PROVE  RosterOK'
<1> USE DEF policyVars, setVars, runVars, netVars
<1>1. /\ \A s \in Session : part[s] \in Participant
      /\ part[Host].admitted /\ part[Host].connected /\ Host \in roster
  BY SessionAssumption DEF TypeOK, RosterOK, Seated, HostPresent, roster
<1>2. \A s \in Session : part[s].commentator => s # Host /\ part[s].admitted
  BY DEF RosterOK, Seated, CommentatorIsSpectator
<1>3. ASSUME NEW s \in Session, NEW role \in RequestedRole, Admit(s, role)
      PROVE  RosterOK'
  <2> DEFINE p == [Reseated(part[s], role) EXCEPT !.admitted = TRUE, !.connected = TRUE]
  <2>1. role \in Role /\ role # "none"
    BY DEF RequestedRole, NormalizedRole, Role
  <2>2. /\ Reseated(part[s], role) \in Participant
        /\ Reseated(part[s], role).role = role
        /\ Reseated(part[s], role).admitted = part[s].admitted
        /\ Reseated(part[s], role).rank = part[s].rank
        /\ Reseated(part[s], role).commentator => part[s].commentator /\ role = "spectator"
    BY <1>1, <2>1, ReseatedIs
  <2>3. /\ p \in Participant /\ p.admitted /\ p.connected /\ p.role = role
        /\ p.rank = part[s].rank /\ (p.commentator => part[s].commentator /\ role = "spectator")
    BY <1>1, <2>2 DEF Participant
  <2>4. /\ part' = [part EXCEPT ![s] = p] /\ s \in roster /\ lifecycle' = Refreshed(part')
        /\ Cardinality(Rivals(s, role)) < Seats(role)
    BY <1>3 DEF Admit, HasCapacity, Seats
  <2>5. UNCHANGED <<chart, started, finalized, activeRun, retired, deadlines, link>>
    BY <1>3 DEF Admit
  <2> HIDE DEF p
  <2> QED BY <1>2, <2>1, <2>3, <2>4, <2>5, RosterEdited
<1>4. ASSUME NEW s \in Session, NEW role \in RequestedRole, SetRole(s, role)
      PROVE  RosterOK'
  <2> DEFINE p == [Reseated(part[s], role) EXCEPT !.ready = role = "spectator",
                                                  !.verified = role = "spectator"]
  <2>1. role \in Role /\ role # "none" /\ (role = "spectator") \in BOOLEAN
    BY DEF RequestedRole, NormalizedRole, Role
  <2>2. /\ Reseated(part[s], role) \in Participant
        /\ Reseated(part[s], role).role = role
        /\ Reseated(part[s], role).admitted = part[s].admitted
        /\ Reseated(part[s], role).rank = part[s].rank
        /\ Reseated(part[s], role).commentator => part[s].commentator /\ role = "spectator"
    BY <1>1, <2>1, ReseatedIs
  <2>3. /\ p \in Participant /\ p.admitted = part[s].admitted /\ p.role = role
        /\ p.rank = part[s].rank /\ (p.commentator => part[s].commentator /\ role = "spectator")
    <3>1. p \in Participant
      BY <2>1, <2>2 DEF Participant
    <3>2. p.admitted = part[s].admitted /\ p.role = role /\ p.rank = part[s].rank
      BY <2>2 DEF Participant
    <3>3. p.commentator => part[s].commentator /\ role = "spectator"
      BY <2>2 DEF Participant
    <3> HIDE DEF p
    <3> QED BY <3>1, <3>2, <3>3
  <2>4. /\ part' = [part EXCEPT ![s] = p] /\ s \in roster /\ s # Host
        /\ lifecycle' = Refreshed(part') /\ Cardinality(Rivals(s, role)) < Seats(role)
    BY <1>4 DEF SetRole, HasCapacity, Seats
  <2>5. UNCHANGED <<chart, started, finalized, activeRun, retired, deadlines, link>>
    BY <1>4 DEF SetRole
  <2> HIDE DEF p
  <2> QED BY <1>2, <2>1, <2>3, <2>4, <2>5, RosterEdited
<1>5. ASSUME NEW s \in Session, Kick(s)
      PROVE  RosterOK'
  <2>1. s # Host /\ link'[Host] = link[Host]
    BY <1>5, RevokeHost DEF Kick, MayKick
  <2> QED BY <1>5, <2>1, RosterLeft DEF Kick
<1>6. ASSUME NEW s \in Session, NEW on \in BOOLEAN, SetCommentatorAccess(s, on)
      PROVE  RosterOK'
  <2> DEFINE p == [part[s] EXCEPT !.commentator = on]
  <2>1. /\ part' = [part EXCEPT ![s] = p] /\ s \in roster /\ s # Host
        /\ part[s].admitted /\ part[s].role = "spectator"
    BY <1>6 DEF SetCommentatorAccess
  <2>2. /\ p \in Participant /\ p.admitted /\ p.role = part[s].role /\ p.rank = part[s].rank
    BY <1>1, <2>1 DEF Participant
  <2>3. ~IsCompetitor(p) /\ ~IsCompetitor(part[s])
    BY <2>1, <2>2 DEF IsCompetitor, RacesIn
  <2>4. UNCHANGED <<lifecycle, chart, started, finalized, activeRun, retired, deadlines, link>>
    BY <1>6 DEF SetCommentatorAccess
  <2> HIDE DEF p
  <2>5. AllAssignedReady(part') => AllAssignedReady(part)
    BY <2>1, <2>2, <2>3, Unready
  <2> QED BY <2>1, <2>2, <2>4, <2>5, RosterEdited
<1>7. ASSUME NEW on \in BOOLEAN, SetHostParticipating(on)
      PROVE  RosterOK'
  <2> DEFINE role == IF on THEN "host" ELSE "spectator"
             p == [part[Host] EXCEPT !.role = role, !.ready = ~on, !.verified = ~on,
                                     !.commentator = FALSE]
  <2>1. role \in Role /\ role # "none" /\ part[Host] \in Participant /\ Host \in Session
    BY <1>1, SessionAssumption DEF Role
  <2>2. /\ part' = [part EXCEPT ![Host] = p] /\ lifecycle' = Refreshed(part')
        /\ Cardinality(Rivals(Host, role)) < Seats(role)
    BY <1>7 DEF SetHostParticipating, HasCapacity, Seats, TypeOK
  <2> HIDE DEF role
  <2>3. /\ p \in Participant /\ p.admitted = part[Host].admitted /\ p.role = role
        /\ p.connected = part[Host].connected /\ p.rank = part[Host].rank /\ ~p.commentator
    BY <2>1 DEF Participant
  <2>4. UNCHANGED <<chart, started, finalized, activeRun, retired, deadlines, link>>
    BY <1>7 DEF SetHostParticipating
  <2> HIDE DEF p
  <2> QED BY <1>1, <2>1, <2>2, <2>3, <2>4, RosterEdited
<1> QED BY <1>3, <1>4, <1>5, <1>6, <1>7 DEF RosterControl

LEMMA RosterHostControl ==
    ASSUME TypeOK, RosterOK, RoomControl
    PROVE  RosterOK'
<1> USE DEF policyVars, setVars, runVars, netVars, HostUses
<1>1. setlist \in Seq(SetlistEntry) /\ active \in Nat
  BY DEF TypeOK, SetTypes
<1>2. \A e \in SetlistEntry : e.chart \in Chart
  BY DEF SetlistEntry
<1>3. ASSUME part' = part, (chart' = chart /\ lifecycle' = lifecycle) \/ lifecycle' \notin Offerable,
             UNCHANGED <<finalized, runVars, link>>, deadlines' \subseteq deadlines
      PROVE  RosterOK'
  BY <1>3, SameStep, RosterStepped
<1>4. ASSUME NEW on \in BOOLEAN, SetValidityChecks(on) PROVE RosterOK'
  BY <1>3, <1>4 DEF SetValidityChecks
<1>5. ASSUME NEW value \in Setting, ChangeSetting(value) PROVE RosterOK'
  BY <1>3, <1>5 DEF ChangeSetting
<1>6. ASSUME NEW on \in BOOLEAN, ScheduleStart(on) PROVE RosterOK'
  <2>1. RaceStep
    BY <1>6, StartStep
  <2>2. /\ lifecycle' \notin Offerable /\ started' = {} /\ finalized' = {}
        /\ \A s \in Session : activeRun'[s] = NoRun /\ retired'[s] = <<>>
        /\ deadlines' = deadlines /\ link' = link
    BY <1>6 DEF ScheduleStart, Offerable
  <2> QED BY <2>1, <2>2, RosterStepped
<1>7. ASSUME NEW c \in Chart, LockChart(c) PROVE RosterOK'
  BY <1>7, RosterSelected DEF LockChart
<1>8. ASSUME NEW c \in Chart, AppendChart(c) PROVE RosterOK'
  <2> DEFINE longer == Append(setlist, [chart |-> c, completed |-> FALSE])
  <2>1. [chart |-> c, completed |-> FALSE] \in SetlistEntry
    BY DEF SetlistEntry
  <2>2. longer[1] \in SetlistEntry
    BY <1>1, <2>1
  <2>3. longer[1].chart \in Chart
    BY <1>2, <2>2
  <2>4. CASE active = 0
    <3>1. SelectChart(longer[1].chart) /\ UNCHANGED <<finalized, runVars, netVars>>
      BY <1>8, <2>4 DEF AppendChart
    <3> HIDE DEF longer
    <3> QED BY <2>3, <3>1, RosterSelected
  <2>5. CASE active # 0
    <3>1. part' = part /\ chart' = chart /\ lifecycle' \in {lifecycle, "results"}
          /\ UNCHANGED <<finalized, runVars, link, deadlines>>
      BY <1>8, <2>5 DEF AppendChart
    <3> QED BY <1>3, <3>1 DEF Offerable
  <2> QED BY <2>4, <2>5
<1>9. ASSUME NEW i \in DOMAIN setlist, RemoveSetlist(i) PROVE RosterOK'
  <2> DEFINE shorter == RemoveAt(setlist, i)
             next == IF i <= Len(shorter) THEN i ELSE Len(shorter)
  <2>1. PICK e \in SetlistEntry : TRUE
    BY <1>1
  <2>2. shorter \in Seq(SetlistEntry) /\ i \in Nat \ {0}
    BY <1>1, <2>1, EditedSetlist
  <2>3. UNCHANGED <<finalized, runVars, netVars>>
    BY <1>9 DEF RemoveSetlist
  <2>4. CASE shorter = <<>> /\ part' = part /\ lifecycle' = "forming"
    BY <1>3, <2>3, <2>4 DEF Offerable
  <2>5. CASE shorter # <<>> /\ SelectChart(shorter[next].chart)
    <3>1. next \in DOMAIN shorter
      <4> HIDE DEF shorter
      <4> QED BY <2>2, <2>5
    <3>2. shorter[next].chart \in Chart
      <4> HIDE DEF shorter, next
      <4> QED BY <1>2, <2>2, <3>1
    <3> HIDE DEF shorter, next
    <3> QED BY <2>3, <2>5, <3>2, RosterSelected
  <2>6. CASE part' = part /\ chart' = chart /\ lifecycle' = lifecycle
    BY <1>3, <2>3, <2>6
  <2> QED BY <1>9, <2>4, <2>5, <2>6 DEF RemoveSetlist
<1>10. ASSUME NEW i \in DOMAIN setlist, NEW j \in DOMAIN setlist, MoveSetlist(i, j)
       PROVE  RosterOK'
  BY <1>3, <1>10 DEF MoveSetlist
<1>11. ASSUME AdvanceSetlist PROVE RosterOK'
  <2>1. UNCHANGED <<finalized, runVars, netVars>>
    BY <1>11 DEF AdvanceSetlist
  <2>2. CASE active < Len(setlist)
    <3>1. setlist[active + 1] \in SetlistEntry
      BY <1>1, <2>2
    <3>2. setlist[active + 1].chart \in Chart /\ SelectChart(setlist[active + 1].chart)
      BY <1>2, <1>11, <2>2, <3>1 DEF AdvanceSetlist
    <3> QED BY <2>1, <3>2, RosterSelected
  <2>3. CASE ~(active < Len(setlist))
    BY <1>3, <1>11, <2>1, <2>3 DEF AdvanceSetlist
  <2> QED BY <2>2, <2>3
<1>12. ASSUME Close \/ StopHosting PROVE RosterOK'
  BY <1>3, <1>12 DEF Close, StopHosting, Offerable
<1> QED BY <1>4, <1>5, <1>6, <1>7, <1>8, <1>9, <1>10, <1>11, <1>12 DEF RoomControl

\* Only an admitted participant, the host included, says that it is ready.
LEMMA RosterPreparation ==
    ASSUME TypeOK, RosterOK, NEW s \in Session, Preparation(s)
    PROVE  RosterOK'
<1> USE DEF policyVars, setVars, runVars, netVars
<1>1. /\ part[s] \in Participant
      /\ part[Host].admitted /\ part[Host].connected
      /\ part[s].admitted => part[s].role # "none"
      /\ part[s].commentator => s # Host /\ part[s].admitted /\ part[s].role = "spectator"
  BY SessionAssumption DEF TypeOK, RosterOK, Seated, HostPresent, CommentatorIsSpectator
<1>2. ASSUME MayAct(s), NEW p \in Participant, part' = [part EXCEPT ![s] = p],
             p.role = part[s].role, p.admitted = part[s].admitted,
             p.connected = part[s].connected, p.rank = part[s].rank,
             p.commentator = part[s].commentator, lifecycle' = Refreshed(part'),
             UNCHANGED <<chart, finalized, runVars, netVars>>
      PROVE  RosterOK'
  <2>1. s \in roster
    BY <1>1, <1>2 DEF MayAct, roster
  <2> QED BY <1>1, <1>2, <2>1, RosterEdited DEF roster
<1>3. ASSUME NEW on \in BOOLEAN, SetVerified(s, on) PROVE RosterOK'
  <2> DEFINE p == [part[s] EXCEPT !.verified = on, !.ready = part[s].ready /\ on]
  <2>1. (part[s].ready /\ on) \in BOOLEAN
    OBVIOUS
  <2>2. /\ p \in Participant /\ p.role = part[s].role /\ p.admitted = part[s].admitted
        /\ p.connected = part[s].connected /\ p.rank = part[s].rank
        /\ p.commentator = part[s].commentator
    BY <1>1, <2>1 DEF Participant
  <2>3. part' = [part EXCEPT ![s] = p]
    BY <1>3 DEF SetVerified, TypeOK
  <2>4. MayAct(s) /\ lifecycle' = Refreshed(part') /\ UNCHANGED <<chart, finalized, runVars, netVars>>
    BY <1>3 DEF SetVerified
  <2> HIDE DEF p
  <2> QED BY <1>2, <2>2, <2>3, <2>4
<1>4. ASSUME NEW on \in BOOLEAN, SetReady(s, on) PROVE RosterOK'
  <2> DEFINE p == [part[s] EXCEPT !.ready = on]
  <2>1. /\ p \in Participant /\ p.role = part[s].role /\ p.admitted = part[s].admitted
        /\ p.connected = part[s].connected /\ p.rank = part[s].rank
        /\ p.commentator = part[s].commentator
    BY <1>1 DEF Participant
  <2>2. part' = [part EXCEPT ![s] = p]
    BY <1>4 DEF SetReady
  <2>3. MayAct(s) /\ lifecycle' = Refreshed(part') /\ UNCHANGED <<chart, finalized, runVars, netVars>>
    BY <1>4 DEF SetReady
  <2> HIDE DEF p
  <2> QED BY <1>2, <2>1, <2>2, <2>3
<1> QED BY <1>3, <1>4 DEF Preparation

\* A run event moves nobody, and its bookkeeping is that of a racer.
LEMMA RosterRun ==
    ASSUME TypeOK, RosterOK, NEW s \in Session, RunEvent(s)
    PROVE  RosterOK'
<1> USE DEF policyVars, setVars, runVars, netVars
<1>1. RaceStep
  BY RunStep
<1>2. IsCompetitor(part[s]) => s \in Competitors /\ s \in roster
  BY DEF Competitors, CompetitorsOf, IsCompetitor, RacesIn, roster
<1> DEFINE Bookkeeping ==
             /\ chart' = chart /\ deadlines' = deadlines /\ link' = link
             /\ lifecycle' = lifecycle \/ lifecycle' \notin Offerable
             /\ \/ UNCHANGED <<started, finalized, activeRun, retired>>
                \/ /\ IsCompetitor(part[s])
                   /\ started' \subseteq started \cup {s} /\ finalized' \subseteq finalized \cup {s}
                   /\ \A t \in Session \ {s} :
                         activeRun'[t] = activeRun[t] /\ retired'[t] = retired[t]
<1>3. Bookkeeping
  <2>1. CASE RunEventRefused(s)
    BY <2>1 DEF RunEventRefused
  <2>2. ASSUME NEW run \in Run, RecordAttempt(s, run)
        PROVE  /\ started' = started \cup {s}
               /\ \A t \in Session \ {s} : activeRun'[t] = activeRun[t] /\ retired'[t] = retired[t]
    BY <2>2 DEF RecordAttempt, TypeOK, RunTypes
  <2>3. ASSUME NEW run \in Run, RunStarted(s, run)
        PROVE  Bookkeeping
    BY <2>2, <2>3 DEF RunStarted, MayStartRun
  <2>4. ASSUME NEW run \in Run, FinishRun(s, run)
        PROVE  Bookkeeping
    BY <2>4 DEF FinishRun, MayFinish, TryFinishChart, Offerable
  <2>5. ASSUME NEW run \in Run, NEW dnf \in BOOLEAN, Invalidate(s, run, dnf)
        PROVE  Bookkeeping
    BY <2>5 DEF Invalidate, TypeOK, RunTypes
  <2>6. ASSUME NEW run \in Run, NEW seq \in 0 .. MaxSeq, NEW totals \in Totals,
               IngestScore(s, run, seq, totals)
        PROVE  Bookkeeping
    <3>1. lifecycle' \in {lifecycle, "playing"}
      BY <2>6 DEF IngestScore, ScoreStale, ScoreRefused, ScoreCounted
    <3>2. IsCompetitor(part[s]) /\ finalized' = finalized
      BY <2>6 DEF IngestScore, MayStartRun
    <3> QED BY <2>2, <2>6, <3>1, <3>2 DEF IngestScore, Offerable
  <2> QED BY <2>1, <2>3, <2>4, <2>5, <2>6 DEF RunEvent
<1> QED BY <1>1, <1>2, <1>3, RosterStepped

LEMMA RosterNext == TypeOK /\ RosterOK /\ [Next]_vars => RosterOK'
<1> SUFFICES ASSUME TypeOK, RosterOK, [Next]_vars
             PROVE  RosterOK'
  OBVIOUS
<1>1. CASE Next
  BY <1>1, RosterTransport, RosterMaintenance, RosterSeats, RosterHostControl,
     RosterPreparation, RosterRun DEF Next
<1>2. CASE UNCHANGED vars
  BY <1>2, SameStep, RosterStepped DEF vars, policyVars, setVars, runVars, netVars
<1> QED BY <1>1, <1>2

\* However joins, admissions, role changes, kicks, drops, expiries and run events
\* interleave, the roster stays of one piece: no bookkeeping without an entry, the
\* limits kept, the host seated, no rank given twice, commentators spectators, and
\* a start offered as soon as everybody is ready.
THEOREM RosterStaysWhole == Spec => []RosterKept
<1>1. Init => RosterOK
  BY RosterInit
<1>2. TypeOK /\ RosterOK /\ [Next]_vars => RosterOK'
  BY RosterNext
<1>3. RosterOK => RosterKept
  BY DEF RosterOK, Seated, Offered, RanksDiffer, RosterKept, RanksDistinct, roster
<1> QED BY <1>1, <1>2, <1>3, TypeCorrect, PTL DEF Spec
=============================================================================
