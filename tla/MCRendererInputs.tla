--------------------------- MODULE MCRendererInputs ---------------------------
(* Two slots that follow two players through a run of a few samples.       *)
EXTENDS RendererInputs, TLC

MCTaps == {2}
Symmetric == Permutations(Participant) \cup Permutations(Slot)
===============================================================================
