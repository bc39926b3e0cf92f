-------------------------- MODULE MC_AuthSessions --------------------------
(* One account, whose administrator suspends it while refreshes of the     *)
(* same cookie race.                                                       *)
EXTENDS AuthSessions, TLC

CallSymmetry == Permutations(Calls)
=============================================================================
