----------------------------- MODULE RaceContract -----------------------------
(***************************************************************************)
(* What a room promises its racers, apart from how room.rs keeps the       *)
(* promise.  A race has a fixed roster and fixed rules; every racer is     *)
(* settled exactly once; a set total moves only when its owner is settled; *)
(* the race is over exactly when everybody is settled.  Between races the  *)
(* host may do as it likes, except hand out points.  A closed room         *)
(* promises nothing more.                                                  *)
(***************************************************************************)
EXTENDS Naturals

CONSTANTS Session, Rules, Closed

VARIABLES
    stage,    \* "lobby", "race" or "closed"
    racers,   \* the roster of the race in progress
    settled,  \* racers with a final result
    total,    \* set total of every session
    rules     \* what the race is run by

vars == <<stage, racers, settled, total, rules>>

Zero == [s \in Session |-> 0]

Init ==
    /\ stage = "lobby" /\ racers = {} /\ settled = {}
    /\ total = Zero /\ rules \in Rules

\* Joins, departures, chart and policy changes; a departure takes its total.
Prepare ==
    /\ stage = "lobby"
    /\ rules' \in Rules
    /\ \A s \in Session : total'[s] \in {0, total[s]}
    /\ UNCHANGED <<stage, racers, settled>>

Begin ==
    /\ stage = "lobby" /\ stage' = "race"
    /\ racers' \subseteq Session /\ racers' # {}
    /\ settled' = {}
    /\ UNCHANGED <<total, rules>>

\* Only those settled by this step are paid.
Pays(now) ==
    \A s \in Session : IF s \in now THEN total'[s] >= total[s] ELSE total'[s] = total[s]

Settle ==
    /\ stage = "race"
    /\ settled \subseteq settled' /\ settled # settled' /\ Pays(settled' \ settled)
    /\ settled' \subseteq racers /\ settled' # racers
    /\ UNCHANGED <<stage, racers, rules>>

Finish ==
    /\ stage = "race" /\ stage' = "lobby"
    /\ racers # settled /\ Pays(racers \ settled)
    /\ racers' = {} /\ settled' = {}
    /\ UNCHANGED rules

Close ==
    /\ stage' = "closed" /\ racers' = {} /\ settled' = {}
    /\ total' = Zero /\ rules' = Closed

Next == Prepare \/ Begin \/ Settle \/ Finish \/ Close

Spec == Init /\ [][Next]_vars
=============================================================================
