---------------------------- MODULE MCChartTransfer ----------------------------
(* Two charts, one with scripts; one participant owns the other from the   *)
(* start.                                                                  *)
EXTENDS ChartTransfer, TLC
CONSTANTS A, B, p, q

MCOwned == [x \in Peer |-> IF x = q THEN {A} ELSE {}]
MCExecutable == {B}
MCZipped == {}
MCZippedA == {A}
===============================================================================
