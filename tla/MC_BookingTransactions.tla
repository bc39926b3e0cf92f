---------------------- MODULE MC_BookingTransactions ----------------------
(* Values of the constants of BookingTransactions for TLC. *)
EXTENDS BookingTransactions, TLC

MCStartsAt == [s \in Slots |-> 2]
MCEndsAt == [s \in Slots |-> 3]

(* Sound for the safety runs: nothing in the specification distinguishes *)
(* one API call, professional or completion worker from another, nor one *)
(* slot, as all of them start and end at one time here.                  *)
MCSymmetry ==
  Permutations(Clients) \cup Permutations(Professionals)
    \cup Permutations(Slots) \cup Permutations(Completers)
=============================================================================
