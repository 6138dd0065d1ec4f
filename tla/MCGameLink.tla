----------------------------- MODULE MCGameLink -----------------------------
(* One game that enters Online twice, or two copies that enter once each.  *)
EXTENDS GameLink, TLC

CONSTANTS g1, g2, w1, w2

OneGame == w1 :> g1 @@ w2 :> g1
TwoGames == w1 :> g1 @@ w2 :> g2
=============================================================================
