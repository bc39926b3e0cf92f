----------------------------- MODULE SlotTables -----------------------------
(***************************************************************************)
(* The tables that hold the slots of one Workspace calendar day, as sets   *)
(* of rows, and what must be true of them.  SlotLifecycle says what the    *)
(* commands promise about these tables, BookingTransactions how the code   *)
(* changes them.                                                           *)
(*                                                                         *)
(* A slot is a fixed period of the day; "ABSENT" says that it has no       *)
(* AvailabilitySlot row yet.  A booking carries the id of the hold it      *)
(* consumed (a fresh id either way).                                       *)
(***************************************************************************)
EXTENDS Naturals, FiniteSets

CONSTANTS
  Slots,          \* the fixed periods of one Workspace calendar day
  Professionals,  \* users with an ACTIVE ProfessionalProfile
  StartsAt,       \* [Slots -> Nat], first instant of a period
  EndsAt,         \* [Slots -> Nat], end of a period
  DayStart,       \* the instant from which localDate is no longer in the future
  HoldTtl,        \* holdTtlSeconds
  CancelWindow,   \* CANCELLATION_REOPEN_WINDOW_MS
  MaxTime         \* bound: the clock stops here

ASSUME DayAssumption ==
  /\ Slots # {} /\ Professionals # {}
  /\ StartsAt \in [Slots -> Nat] /\ EndsAt \in [Slots -> Nat]
  /\ DayStart \in Nat /\ HoldTtl \in Nat \ {0} /\ CancelWindow \in Nat
  /\ MaxTime \in Nat

VARIABLES
  now,       \* the clock every process reads with new Date()
  slot,      \* AvailabilitySlot.status of each period
  holds,     \* rows of SlotHold
  bookings,  \* rows of Booking
  nextHold   \* the next fresh id

tableVars == <<now, slot, holds, bookings, nextHold>>

SlotStatus == {"ABSENT", "OPEN", "BLOCKED", "HELD", "BOOKED"}
BookingStatus == {"CONFIRMED", "CANCELLED", "COMPLETED"}
HoldRow == [id: Nat, slot: Slots, owner: Professionals, expiresAt: Nat]
BookingRow == [id: Nat, slot: Slots, owner: Professionals, status: BookingStatus]

Live(b) == b.status \in {"CONFIRMED", "COMPLETED"}

TablesInit ==
  /\ now = 0
  /\ slot = [s \in Slots |-> "ABSENT"]
  /\ holds = {}
  /\ bookings = {}
  /\ nextHold = 1

-----------------------------------------------------------------------------
(* What may happen to the rows, whoever does it and for whatever reason.   *)

GrantHold(s, user, until) ==
  /\ slot[s] = "OPEN"
  /\ slot' = [slot EXCEPT ![s] = "HELD"]
  /\ holds' = holds \cup {[id |-> nextHold, slot |-> s, owner |-> user, expiresAt |-> until]}
  /\ nextHold' = nextHold + 1
  /\ UNCHANGED <<now, bookings>>

(* availabilitySlotId is unique in Booking: one booking row per slot, ever. *)
BookHold(h) ==
  /\ h \in holds /\ \A b \in bookings : b.slot # h.slot
  /\ slot' = [slot EXCEPT ![h.slot] = "BOOKED"]
  /\ holds' = holds \ {h}
  /\ bookings' = bookings \cup
       {[id |-> h.id, slot |-> h.slot, owner |-> h.owner, status |-> "CONFIRMED"]}
  /\ UNCHANGED <<now, nextHold>>

WithdrawBooking(b) ==
  /\ b \in bookings /\ b.status = "CONFIRMED"
  /\ slot' = [slot EXCEPT ![b.slot] = "OPEN"]
  /\ bookings' = (bookings \ {b}) \cup {[b EXCEPT !.status = "CANCELLED"]}
  /\ UNCHANGED <<now, holds, nextHold>>

DropHold(h) ==
  /\ h \in holds
  /\ slot' = [slot EXCEPT ![h.slot] = "OPEN"]
  /\ holds' = holds \ {h}
  /\ UNCHANGED <<now, bookings, nextHold>>

EndBooking(b) ==
  /\ b \in bookings /\ b.status = "CONFIRMED"
  /\ bookings' = (bookings \ {b}) \cup {[b EXCEPT !.status = "COMPLETED"]}
  /\ UNCHANGED <<now, slot, holds, nextHold>>

SetFreeSlots(targets, desired) ==
  /\ \A s \in targets : slot[s] \notin {"HELD", "BOOKED"}
  /\ slot' = [s \in Slots |-> IF s \in targets THEN desired ELSE slot[s]]
  /\ UNCHANGED <<now, holds, bookings, nextHold>>

-----------------------------------------------------------------------------
(* Types of the tables. *)
TablesTypeOK ==
  /\ now \in Nat
  /\ slot \in [Slots -> SlotStatus]
  /\ holds \subseteq HoldRow
  /\ bookings \subseteq BookingRow
  /\ nextHold \in Nat

(* A slot is HELD exactly while one SlotHold row refers to it and BOOKED   *)
(* exactly while a live Booking does: three tables written by seven        *)
(* transactions agree (slot-holds.service.ts, bookings.service.ts).        *)
StatusMatchesRows ==
  \A s \in Slots :
    /\ slot[s] = "HELD" <=> \E h \in holds : h.slot = s
    /\ slot[s] = "BOOKED" <=> \E b \in bookings : b.slot = s /\ Live(b)

(* A professional can never be overtaken: no slot has two holds, or two    *)
(* bookings, and no id names two rows (the unique indexes of               *)
(* schema.prisma on SlotHold and Booking).                                 *)
RowsUnique ==
  /\ \A h, g \in holds : h.slot = g.slot \/ h.id = g.id => h = g
  /\ \A a, b \in bookings : a.slot = b.slot \/ a.id = b.id => a = b
  /\ \A h \in holds, b \in bookings : h.id # b.id
  /\ \A h \in holds : h.id < nextHold
  /\ \A b \in bookings : b.id < nextHold
=============================================================================
