--------------------------- MODULE SlotLifecycle ---------------------------
(***************************************************************************)
(* What the availability and booking components promise about one          *)
(* Workspace calendar day: no transactions, snapshots, locks, retries or   *)
(* workers.  BookingTransactions is the detailed specification and         *)
(* implements this one.                                                    *)
(*                                                                         *)
(* A professional's command is decided at one instant, by the clock of     *)
(* that instant, and takes effect later or never.  Meanwhile the clock may *)
(* run on, past a hold's expiry or a slot's start, but nobody changes a    *)
(* row: what was decided is decided on the rows it changes.                *)
(*                                                                         *)
(* An owner's batch promises less.  It reads the day once, at an instant   *)
(* before the day begins when nobody holds or has booked a period it       *)
(* names, and later sets those of its periods that are still as it read    *)
(* them.  The others it leaves: it may take effect in part.                *)
(***************************************************************************)
EXTENDS SlotTables

CONSTANT Callers  \* API calls that an owner's batch may come from

VARIABLES
  decided,  \* the command that is decided and not yet in effect, if any
  reads     \* what the owners' batches under way have read

promiseVars == <<tableVars, decided, reads>>

LifecycleInit == TablesInit /\ decided = {} /\ reads = {}

Tick ==
  /\ now < MaxTime
  /\ now' = now + 1
  /\ UNCHANGED <<slot, holds, bookings, nextHold, decided, reads>>

Decide(d) ==
  /\ decided = {} /\ decided' = {d}
  /\ UNCHANGED <<tableVars, reads>>

DecideHold(s, user) ==
  /\ now < StartsAt[s]
  /\ Decide([op |-> "hold", slot |-> s, owner |-> user, expiresAt |-> now + HoldTtl])

DecideConfirm(h) == h.expiresAt > now /\ Decide([op |-> "confirm", row |-> h])

DecideCancel(b) ==
  now + CancelWindow < StartsAt[b.slot] /\ Decide([op |-> "cancel", row |-> b])

(* A decision that the rows refuse, or whose caller gave up, has no effect. *)
Forget == decided' = {} /\ UNCHANGED <<tableVars, reads>>

HoldSlot(d) ==
  /\ d.op = "hold" /\ GrantHold(d.slot, d.owner, d.expiresAt)
  /\ decided' = {} /\ UNCHANGED reads

ConfirmHold(d) ==
  /\ d.op = "confirm" /\ BookHold(d.row)
  /\ decided' = {} /\ UNCHANGED reads

CancelBooking(d) ==
  /\ d.op = "cancel" /\ WithdrawBooking(d.row)
  /\ decided' = {} /\ UNCHANGED reads

(* The workers, and an owner's batch, wait for the day's lock: nothing is  *)
(* decided and not yet in effect when they change a row.                   *)
ReleaseHold(h) ==
  /\ decided = {} /\ h.expiresAt <= now
  /\ DropHold(h)
  /\ UNCHANGED <<decided, reads>>

CompleteBooking(b) ==
  /\ decided = {} /\ EndsAt[b.slot] <= now
  /\ EndBooking(b)
  /\ UNCHANGED <<decided, reads>>

OwnerReads(c, targets, desired) ==
  /\ now < DayStart
  /\ \A s \in targets : slot[s] \notin {"HELD", "BOOKED"}
  /\ reads' = reads \cup {[by |-> c, targets |-> targets, desired |-> desired, seen |-> slot]}
  /\ UNCHANGED <<tableVars, decided>>

OwnerForgets(r) == reads' = reads \ {r} /\ UNCHANGED <<tableVars, decided>>

OwnerChange(r) ==
  /\ decided = {}
  /\ SetFreeSlots({s \in r.targets : slot[s] = r.seen[s]}, r.desired)
  /\ reads' = reads \ {r} /\ UNCHANGED decided

LifecycleNext ==
  \/ Tick
  \/ \E s \in Slots, user \in Professionals : DecideHold(s, user)
  \/ \E h \in holds : DecideConfirm(h) \/ ReleaseHold(h)
  \/ \E b \in bookings : DecideCancel(b) \/ CompleteBooking(b)
  \/ \E d \in decided : HoldSlot(d) \/ ConfirmHold(d) \/ CancelBooking(d)
  \/ Forget
  \/ \E c \in Callers, targets \in SUBSET Slots, desired \in {"OPEN", "BLOCKED"} :
       OwnerReads(c, targets, desired)
  \/ \E r \in reads : OwnerForgets(r) \/ OwnerChange(r)

LifecycleSpec == LifecycleInit /\ [][LifecycleNext]_promiseVars
=============================================================================
