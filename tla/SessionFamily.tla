--------------------------- MODULE SessionFamily ---------------------------
(***************************************************************************)
(* What the refresh-token lifecycle of apps/api promises: tokens come in   *)
(* families, a family starts with one live token, a rotation replaces the  *)
(* live token of its family by a fresh one, and a token that is no longer  *)
(* live, or a family without a live token, stays so.  AuthSessions         *)
(* implements this with rows, snapshots and locks.                         *)
(***************************************************************************)
VARIABLES
  issued,  \* pairs <<family, token>> ever handed out
  live     \* those that still refresh

familyVars == <<issued, live>>

Fresh(t) == \A p \in issued : p[2] # t

FamilyInit == issued = {} /\ live = {}

(* Exactly one token p is added. *)
Issue(p) == Fresh(p[2]) /\ issued' = issued \cup {p}

(* A login or a registration: the first token of a family of its own. *)
Start ==
  \E p \in issued' \ issued :
    /\ Issue(p) /\ \A q \in issued : q[1] # p[1]
    /\ live' = live \cup {p}

(* A refresh: whoever presents the live token gets its one successor. *)
Rotate ==
  \E p \in issued' \ issued, q \in live :
    /\ Issue(p) /\ p[1] = q[1]
    /\ live' = (live \ {q}) \cup {p}

(* Sign-out, expiry, a detected reuse, a suspension of the account. *)
End ==
  \E gone \in SUBSET live :
    /\ gone # {}
    /\ live' = live \ gone
    /\ UNCHANGED issued

FamilyNext == Start \/ Rotate \/ End
FamilySpec == FamilyInit /\ [][FamilyNext]_familyVars
=============================================================================
