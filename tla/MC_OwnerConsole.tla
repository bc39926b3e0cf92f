-------------------------- MODULE MC_OwnerConsole --------------------------
(* Three photos at most, a token that expires once. *)
EXTENDS OwnerConsole
=============================================================================
