--------------------------- MODULE MC_WebSession ---------------------------
(* Two tabs of one browser. *)
EXTENDS WebSession, TLC

TabSymmetry == Permutations(Tabs)
=============================================================================
