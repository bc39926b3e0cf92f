--------------------- MODULE BookingTransactionsProofs ---------------------
(***************************************************************************)
(* Theorems about one calendar day, for any number of API calls, workers,  *)
(* professionals, owners, slots and keys.  In order: whatever happens to   *)
(* the rows, the tables agree; the types of the transactions; each commit  *)
(* changes the rows as one of these happenings does, although it was       *)
(* decided on a snapshot older than its lock; the exclusiveness of the     *)
(* calendar lock; because of it the transactions keep the promise of       *)
(* SlotLifecycle, although time passes between a check and its commit; and *)
(* what the audit log, the idempotency records and the outbox tell is what *)
(* happened to the rows.                                                   *)
(***************************************************************************)
EXTENDS BookingTransactions, TLAPS

-----------------------------------------------------------------------------
(* The rows.                                                               *)

(* The three parts are inductive together: a hold or booking row is placed *)
(* on a slot by its status, so the status must say whether a row exists.   *)
RowInv == TablesTypeOK /\ StatusMatchesRows /\ RowsUnique

(* What one commit does to the rows of the day. *)
RowsChange ==
  \/ \E s \in Slots, user \in Professionals, until \in Nat : GrantHold(s, user, until)
  \/ \E h \in holds : BookHold(h) \/ DropHold(h)
  \/ \E b \in bookings : WithdrawBooking(b) \/ EndBooking(b)
  \/ \E targets \in SUBSET Slots, desired \in {"OPEN", "BLOCKED"} :
       SetFreeSlots(targets, desired)

(* A day of OPEN and BLOCKED slots without rows. *)
LEMMA RowInvInit == TablesInit => RowInv
  BY DayAssumption
  DEF TablesInit, RowInv, TablesTypeOK, StatusMatchesRows, RowsUnique,
      SlotStatus, HoldRow, BookingRow

(* Each happening keeps the tables in agreement.                           *)
LEMMA SetFreeSlotsKeeps ==
  ASSUME RowInv, NEW targets \in SUBSET Slots, NEW desired \in {"OPEN", "BLOCKED"},
         SetFreeSlots(targets, desired)
  PROVE  RowInv'
  <1>1. TablesTypeOK'
    BY DEF SetFreeSlots, RowInv, TablesTypeOK, SlotStatus
  <1>2. \A s \in Slots : /\ slot'[s] = "HELD" <=> slot[s] = "HELD"
                         /\ slot'[s] = "BOOKED" <=> slot[s] = "BOOKED"
    BY DEF SetFreeSlots, RowInv, TablesTypeOK
  <1>3. StatusMatchesRows'
    BY <1>2 DEF SetFreeSlots, RowInv, StatusMatchesRows, Live
  <1>4. RowsUnique'
    BY DEF SetFreeSlots, RowInv, RowsUnique
  <1>5. QED BY <1>1, <1>3, <1>4 DEF RowInv

LEMMA GrantHoldKeeps ==
  ASSUME RowInv, NEW s \in Slots, NEW user \in Professionals, NEW until \in Nat,
         GrantHold(s, user, until)
  PROVE  RowInv'
  <1> DEFINE h == [id |-> nextHold, slot |-> s, owner |-> user, expiresAt |-> until]
  <1>1. h \in HoldRow /\ h.slot = s /\ h.id = nextHold
    BY DEF RowInv, TablesTypeOK, HoldRow
  <1>2. /\ holds' = holds \cup {h} /\ slot' = [slot EXCEPT ![s] = "HELD"]
        /\ bookings' = bookings /\ nextHold' = nextHold + 1 /\ now' = now
    BY DEF GrantHold
  <1>3. TablesTypeOK'
    BY <1>1, <1>2 DEF RowInv, TablesTypeOK, SlotStatus
  <1>4. ~\E g \in holds : g.slot = s
    BY DEF GrantHold, RowInv, StatusMatchesRows
  <1>5. ~\E b \in bookings : b.slot = s /\ Live(b)
    BY DEF GrantHold, RowInv, StatusMatchesRows
  <1>6. StatusMatchesRows'
    BY <1>1, <1>2, <1>4, <1>5 DEF RowInv, TablesTypeOK, StatusMatchesRows, Live
  <1>7. RowsUnique'
    BY <1>1, <1>2, <1>4 DEF RowInv, TablesTypeOK, RowsUnique, HoldRow, BookingRow
  <1>8. QED BY <1>3, <1>6, <1>7 DEF RowInv

LEMMA BookHoldKeeps ==
  ASSUME RowInv, NEW h \in holds, BookHold(h)
  PROVE  RowInv'
  <1> DEFINE b == [id |-> h.id, slot |-> h.slot, owner |-> h.owner, status |-> "CONFIRMED"]
  <1>1. h \in HoldRow /\ b \in BookingRow /\ b.slot = h.slot /\ b.id = h.id /\ Live(b)
    BY DEF RowInv, TablesTypeOK, HoldRow, BookingRow, BookingStatus, Live
  <1>2. /\ holds' = holds \ {h} /\ slot' = [slot EXCEPT ![h.slot] = "BOOKED"]
        /\ bookings' = bookings \cup {b} /\ nextHold' = nextHold /\ now' = now
        /\ \A a \in bookings : a.slot # h.slot
    BY DEF BookHold
  <1>3. TablesTypeOK'
    BY <1>1, <1>2 DEF RowInv, TablesTypeOK, SlotStatus
  <1>4. StatusMatchesRows'
    BY <1>1, <1>2 DEF RowInv, TablesTypeOK, StatusMatchesRows, RowsUnique, Live, HoldRow
  <1>5. RowsUnique'
    BY <1>1, <1>2 DEF RowInv, TablesTypeOK, RowsUnique, HoldRow, BookingRow
  <1>6. QED BY <1>3, <1>4, <1>5 DEF RowInv

LEMMA DropHoldKeeps ==
  ASSUME RowInv, NEW h \in holds, DropHold(h)
  PROVE  RowInv'
  <1>1. h \in HoldRow /\ h.slot \in Slots /\ slot[h.slot] = "HELD"
    BY DEF RowInv, TablesTypeOK, StatusMatchesRows, HoldRow
  <1>2. TablesTypeOK'
    BY <1>1 DEF DropHold, RowInv, TablesTypeOK, SlotStatus
  <1>3. ~\E b \in bookings : b.slot = h.slot /\ Live(b)
    BY <1>1 DEF RowInv, StatusMatchesRows
  <1>4. StatusMatchesRows'
    BY <1>1, <1>3 DEF DropHold, RowInv, TablesTypeOK, StatusMatchesRows, RowsUnique, Live
  <1>5. RowsUnique'
    BY DEF DropHold, RowInv, RowsUnique
  <1>6. QED BY <1>2, <1>4, <1>5 DEF RowInv

(* Cancel and complete replace one booking row by itself with a new status. *)
LEMMA StatusUpdate ==
  ASSUME NEW b \in BookingRow, NEW status \in BookingStatus
  PROVE  LET a == [b EXCEPT !.status = status]
         IN a \in BookingRow /\ a.id = b.id /\ a.slot = b.slot /\ a.status = status
  BY DEF BookingRow

LEMMA WithdrawBookingKeeps ==
  ASSUME RowInv, NEW b \in bookings, WithdrawBooking(b)
  PROVE  RowInv'
  <1> DEFINE a == [b EXCEPT !.status = "CANCELLED"]
  <1>1. b \in BookingRow /\ b.slot \in Slots /\ Live(b) /\ slot[b.slot] = "BOOKED"
    BY DEF WithdrawBooking, RowInv, TablesTypeOK, StatusMatchesRows, BookingRow, Live
  <1>2. a \in BookingRow /\ a.id = b.id /\ a.slot = b.slot /\ ~Live(a)
    BY <1>1, StatusUpdate DEF BookingStatus, Live
  <1>3. /\ bookings' = (bookings \ {b}) \cup {a} /\ slot' = [slot EXCEPT ![b.slot] = "OPEN"]
        /\ holds' = holds /\ nextHold' = nextHold /\ now' = now
    BY DEF WithdrawBooking
  <1> HIDE DEF a
  <1>4. TablesTypeOK'
    BY <1>1, <1>2, <1>3 DEF RowInv, TablesTypeOK, SlotStatus
  <1>5. ~\E h \in holds : h.slot = b.slot
    BY <1>1 DEF RowInv, StatusMatchesRows
  <1>6. StatusMatchesRows'
    BY <1>1, <1>2, <1>3, <1>5 DEF RowInv, TablesTypeOK, StatusMatchesRows, RowsUnique, Live
  <1>7. RowsUnique'
    BY <1>1, <1>2, <1>3 DEF RowInv, RowsUnique
  <1>8. QED BY <1>4, <1>6, <1>7 DEF RowInv

LEMMA EndBookingKeeps ==
  ASSUME RowInv, NEW b \in bookings, EndBooking(b)
  PROVE  RowInv'
  <1> DEFINE a == [b EXCEPT !.status = "COMPLETED"]
  <1>1. b \in BookingRow /\ Live(b)
    BY DEF EndBooking, RowInv, TablesTypeOK, Live
  <1>2. a \in BookingRow /\ a.id = b.id /\ a.slot = b.slot /\ Live(a)
    BY <1>1, StatusUpdate DEF BookingStatus, Live
  <1>3. /\ bookings' = (bookings \ {b}) \cup {a} /\ slot' = slot
        /\ holds' = holds /\ nextHold' = nextHold /\ now' = now
    BY DEF EndBooking
  <1> HIDE DEF a
  <1>4. TablesTypeOK'
    BY <1>2, <1>3 DEF RowInv, TablesTypeOK
  <1>5. StatusMatchesRows'
    BY <1>1, <1>2, <1>3 DEF RowInv, StatusMatchesRows, Live
  <1>6. RowsUnique'
    BY <1>1, <1>2, <1>3 DEF RowInv, RowsUnique
  <1>7. QED BY <1>4, <1>5, <1>6 DEF RowInv

(* Whatever happens to the rows, the three tables stay in agreement. *)
LEMMA RowsChangeKeeps == RowInv /\ RowsChange => RowInv'
  <1> SUFFICES ASSUME RowInv, RowsChange PROVE RowInv'
    OBVIOUS
  <1>1. CASE \E s \in Slots, user \in Professionals, until \in Nat : GrantHold(s, user, until)
    BY <1>1, GrantHoldKeeps
  <1>2. CASE \E h \in holds : BookHold(h) \/ DropHold(h)
    BY <1>2, BookHoldKeeps, DropHoldKeeps
  <1>3. CASE \E b \in bookings : WithdrawBooking(b) \/ EndBooking(b)
    BY <1>3, WithdrawBookingKeeps, EndBookingKeeps
  <1>4. CASE \E targets \in SUBSET Slots, desired \in {"OPEN", "BLOCKED"} :
               SetFreeSlots(targets, desired)
    BY <1>4, SetFreeSlotsKeeps
  <1>5. QED BY <1>1, <1>2, <1>3, <1>4 DEF RowsChange

(* So it is while the rows rest and time passes. *)
LEMMA RowInvRests ==
  ASSUME RowInv, now' \in Nat, UNCHANGED <<slot, holds, bookings, nextHold>>
  PROVE  RowInv'
  BY DEF RowInv, TablesTypeOK, StatusMatchesRows, RowsUnique, Live

-----------------------------------------------------------------------------
(* The transactions: their types and the calendar lock.                    *)

(* The values a process and its transaction are reset to. *)
LEMMA ResetTypes == NoView \in ViewRow /\ IdleCall \in CallState /\ IdleJob \in JobState
  <1>1. NoView \in ViewRow
    BY DEF NoView, ViewRow, SlotStatus
  <1>2. IdleCall \in CallState
    BY SMT DEF IdleCall, CallState
  <1>3. IdleJob \in JobState
    BY DEF IdleJob, JobState
  <1>4. QED BY <1>1, <1>2, <1>3

LEMMA EndTransactionType ==
  ASSUME TypeOK, NEW p \in Procs, EndTransaction(p)
  PROVE  /\ shared' \subseteq Procs /\ exclusive' \subseteq Procs
         /\ view' \in [Procs -> ViewRow]
  BY ResetTypes DEF EndTransaction, TypeOK, LockTypeOK, ProcTypeOK

LEMMA AbortCallType ==
  ASSUME TypeOK, NEW c \in Clients, NEW error \in {"rejected", "deadlock", "duplicate"},
         AbortCall(c, error)
  PROVE  TypeOK'
  <1>1. c \in Procs BY DEF Procs
  <1>2. shared' \subseteq Procs /\ exclusive' \subseteq Procs /\ view' \in [Procs -> ViewRow]
    BY <1>1, EndTransactionType DEF AbortCall
  <1>3. pc' \in [Procs -> Phase]
    BY DEF AbortCall, TypeOK, ProcTypeOK, Phase
  <1>4. call' \in [Clients -> CallState]
    BY DEF AbortCall, TypeOK, ProcTypeOK, CallState
  <1>5. QED
    BY <1>2, <1>3, <1>4
    DEF AbortCall, TypeOK, TablesTypeOK, LogTypeOK, LockTypeOK, ProcTypeOK,
        tableVars, logVars

LEMMA CallReturnsType ==
  ASSUME TypeOK, NEW c \in Clients, CallReturns(c)
  PROVE  pc' \in [Procs -> Phase] /\ call' \in [Clients -> CallState]
  BY ResetTypes DEF CallReturns, TypeOK, ProcTypeOK, Phase

(* What a commit of executeIdempotently leaves typed, whatever it wrote. *)
LEMMA CommitCallType ==
  ASSUME TypeOK, NEW c \in Clients, NEW response \in Nat,
         call[c].request \in Request, CommitCall(c, response),
         TablesTypeOK', audit' \subseteq AuditRow, outbox' \in Seq(OutboxRow)
  PROVE  TypeOK'
  <1>1. c \in Procs BY DEF Procs
  <1>2. shared' \subseteq Procs /\ exclusive' \subseteq Procs /\ view' \in [Procs -> ViewRow]
    BY <1>1, EndTransactionType DEF CommitCall
  <1>3. pc' \in [Procs -> Phase] /\ call' \in [Clients -> CallState]
    BY CallReturnsType DEF CommitCall
  <1>4. idem' \subseteq [request: Request, response: Nat]
    BY DEF CommitCall, TypeOK, LogTypeOK
  <1>5. lockRow' \in BOOLEAN /\ job' = job BY DEF CommitCall
  <1>6. QED BY <1>2, <1>3, <1>4, <1>5 DEF TypeOK, LogTypeOK, LockTypeOK, ProcTypeOK

LEMMA NextCandidateType ==
  ASSUME TypeOK, NEW w \in Workers, NextCandidate(w)
  PROVE  /\ shared' \subseteq Procs /\ exclusive' \subseteq Procs
         /\ view' \in [Procs -> ViewRow]
         /\ pc' \in [Procs -> Phase] /\ job' \in [Workers -> JobState]
  <1>1. w \in Procs BY DEF Procs
  <1>2. shared' \subseteq Procs /\ exclusive' \subseteq Procs /\ view' \in [Procs -> ViewRow]
    BY <1>1, EndTransactionType DEF NextCandidate
  <1>3. pc' \in [Procs -> Phase]
    BY DEF NextCandidate, TypeOK, ProcTypeOK, Phase
  <1>4. job' \in [Workers -> JobState]
    BY ResetTypes DEF NextCandidate, TypeOK, ProcTypeOK, JobState
  <1>5. QED BY <1>2, <1>3, <1>4

LEMMA CommitJobType ==
  ASSUME TypeOK, NEW w \in Workers, CommitJob(w),
         TablesTypeOK', audit' \subseteq AuditRow, outbox' \in Seq(OutboxRow)
  PROVE  TypeOK'
  <1>1. lockRow' \in BOOLEAN /\ idem' = idem /\ call' = call BY DEF CommitJob
  <1>2. QED
    BY <1>1, NextCandidateType DEF CommitJob, TypeOK, LogTypeOK, LockTypeOK, ProcTypeOK

(* A process that only moves on leaves the tables, the logs and the locks. *)
LEMMA StartType ==
  ASSUME TypeOK, UNCHANGED <<tableVars, logVars, lockVars>>,
         pc' \in [Procs -> Phase], view' \in [Procs -> ViewRow],
         call' \in [Clients -> CallState], job' \in [Workers -> JobState]
  PROVE  TypeOK'
  BY DEF TypeOK, TablesTypeOK, LogTypeOK, LockTypeOK, ProcTypeOK,
         tableVars, logVars, lockVars

LEMMA CommittedType == TypeOK => Committed \in ViewRow
  BY DEF TypeOK, TablesTypeOK, Committed, ViewRow

-----------------------------------------------------------------------------
(* Why a stale snapshot is harmless: ids are never reused, a hold's row    *)
(* never changes and a booking's only in its status, so a row of a         *)
(* snapshot is either gone or still the same.                              *)
ViewHonest ==
  \A p \in Procs :
    /\ \A h \in view[p].holds : h.id < nextHold /\ \A g \in holds : g.id = h.id => g = h
    /\ \A b \in view[p].bookings : \E a \in bookings : a.id = b.id /\ a.slot = b.slot

(* A batch's frozen clock is never ahead of the real one. *)
BatchHonest == \A w \in Workers : job[w].at <= now

IInv == TypeOK /\ StatusMatchesRows /\ RowsUnique /\ ViewHonest /\ BatchHonest

LEMMA IInvInit == Init => IInv
  <1> SUFFICES ASSUME Init PROVE IInv
    OBVIOUS
  <1>1. RowInv BY RowInvInit DEF Init
  <1>2. TypeOK
    <2>1. LogTypeOK BY DEF Init, LogTypeOK
    <2>2. LockTypeOK BY DEF Init, LockTypeOK
    <2>3. ProcTypeOK BY ResetTypes DEF Init, ProcTypeOK, Phase
    <2>4. QED BY <1>1, <2>1, <2>2, <2>3 DEF RowInv, TypeOK
  <1>3. ViewHonest BY DEF Init, ViewHonest, NoView, TablesInit
  <1>4. BatchHonest BY DEF Init, BatchHonest, IdleJob, TablesInit
  <1>5. QED BY <1>1, <1>2, <1>3, <1>4 DEF IInv, RowInv

LEMMA RequestTypes ==
  ASSUME TypeOK, NEW c \in Clients, call[c].request.op # "none"
  PROVE  /\ call[c].request \in Request
         /\ call[c].request.op \in {"open", "block", "hold", "confirm", "cancel"}
         /\ call[c].request.slots \subseteq Slots
         /\ call[c].request.op = "hold" =>
              /\ call[c].request.actor \in Professionals
              /\ \E s \in Slots : call[c].request.slots = {s}
         /\ call[c].at \in Nat
  <1>1. call[c] \in CallState BY DEF TypeOK, ProcTypeOK
  <1>2. call[c].request \in Request /\ call[c].at \in Nat BY <1>1 DEF CallState, NoRequest
  <1> DEFINE r == call[c].request
  <1>3. \/ r \in [op: {"hold"}, actor: Professionals, slots: {{s} : s \in Slots}, ref: {0}, key: Keys]
        \/ r \in [op: {"confirm", "cancel"}, actor: Professionals, slots: {{}}, ref: Nat, key: Keys]
        \/ r \in [op: {"open", "block"}, actor: Owners, slots: SUBSET Slots, ref: {0}, key: Keys]
    BY <1>2 DEF Request
  <1> HIDE DEF r
  <1>4. /\ r.op \in {"open", "block", "hold", "confirm", "cancel"}
        /\ r.slots \subseteq Slots
        /\ r.op = "hold" => r.actor \in Professionals /\ \E s \in Slots : r.slots = {s}
    <2>1. CASE r \in [op: {"hold"}, actor: Professionals, slots: {{s} : s \in Slots}, ref: {0}, key: Keys]
      BY <2>1
    <2>2. CASE r \in [op: {"confirm", "cancel"}, actor: Professionals, slots: {{}}, ref: Nat, key: Keys]
      BY <2>2
    <2>3. CASE r \in [op: {"open", "block"}, actor: Owners, slots: SUBSET Slots, ref: {0}, key: Keys]
      BY <2>3
    <2>4. QED BY <1>3, <2>1, <2>2, <2>3
  <1>5. QED BY <1>2, <1>4 DEF r

LEMMA HoldGrants ==
  ASSUME IInv, NEW c \in Clients, CommitHold(c)
  PROVE  \E s \in call[c].request.slots :
           /\ s \in Slots /\ call[c].request.actor \in Professionals
           /\ call[c].at + HoldTtl \in Nat
           /\ GrantHold(s, call[c].request.actor, call[c].at + HoldTtl)
  <1>1. call[c].request.op = "hold" BY DEF CommitHold, AtWrites
  <1>2. /\ call[c].request.slots \subseteq Slots
        /\ call[c].request.actor \in Professionals
        /\ call[c].at + HoldTtl \in Nat
    BY <1>1, RequestTypes, DayAssumption DEF IInv
  <1>3. PICK s \in call[c].request.slots :
          /\ holds' = holds \cup {[id |-> nextHold, slot |-> s,
                                   owner |-> call[c].request.actor,
                                   expiresAt |-> call[c].at + HoldTtl]}
          /\ slot' = [slot EXCEPT ![s] = "HELD"]
    BY DEF CommitHold
  <1>4. slot[s] = "OPEN"
    BY DEF CommitHold, HoldWritable
  <1>5. nextHold' = nextHold + 1 /\ now' = now /\ bookings' = bookings
    BY DEF CommitHold, CommitCall
  <1>6. GrantHold(s, call[c].request.actor, call[c].at + HoldTtl)
    BY <1>3, <1>4, <1>5 DEF GrantHold
  <1>7. QED BY <1>2, <1>6

LEMMA ConfirmBooks ==
  ASSUME IInv, NEW c \in Clients, CommitConfirm(c)
  PROVE  \E h \in view[c].holds \cap holds : HoldNamed(c, h) /\ BookHold(h)
  <1>1. PICK h \in view[c].holds :
          /\ HoldNamed(c, h) /\ SlotNeverBooked(h.slot) /\ ConfirmWritable(c, h)
          /\ bookings' = bookings \cup {[id |-> h.id, slot |-> h.slot,
                                         owner |-> call[c].request.actor, status |-> "CONFIRMED"]}
          /\ holds' = {g \in holds : g.id # h.id}
          /\ slot' = [slot EXCEPT ![h.slot] = "BOOKED"]
          /\ CommitCall(c, h.id)
    BY DEF CommitConfirm, WithoutHold
  <1>2. h \in holds
    BY <1>1 DEF ConfirmWritable, IInv, ViewHonest, Procs
  <1>3. holds' = holds \ {h}
    BY <1>1, <1>2 DEF IInv, RowsUnique
  <1>4. h.owner = call[c].request.actor
    BY <1>1 DEF HoldNamed
  <1>5. now' = now /\ nextHold' = nextHold
    BY <1>1 DEF CommitCall, CommitConfirm
  <1>6. BookHold(h)
    BY <1>1, <1>2, <1>3, <1>4, <1>5 DEF BookHold, SlotNeverBooked
  <1>7. QED BY <1>1, <1>2, <1>6

LEMMA CancelWithdraws ==
  ASSUME IInv, NEW c \in Clients, CommitCancel(c)
  PROVE  \E b \in view[c].bookings \cap bookings : BookingNamed(c, b) /\ WithdrawBooking(b)
  <1>1. PICK b \in view[c].bookings :
          /\ BookingNamed(c, b) /\ CancelWritable(c, b)
          /\ bookings' = (bookings \ {b}) \cup {[b EXCEPT !.status = "CANCELLED"]}
          /\ slot' = [slot EXCEPT ![b.slot] = "OPEN"]
          /\ CommitCall(c, b.id)
    BY DEF CommitCancel
  <1>2. now' = now /\ holds' = holds /\ nextHold' = nextHold
    BY <1>1 DEF CommitCall, CommitCancel
  <1>3. WithdrawBooking(b)
    BY <1>1, <1>2 DEF WithdrawBooking, BookingNamed, CancelWritable
  <1>4. QED BY <1>1, <1>3 DEF CancelWritable

(* An owner's batch sets the periods its conditional writes still match. *)
LEMMA BatchSets ==
  ASSUME IInv, NEW c \in Clients, CommitOwnerBatch(c)
  PROVE  /\ Desired(call[c].request.op) \in {"OPEN", "BLOCKED"}
         /\ SetFreeSlots({s \in Slots : BatchWrites(c, s)}, Desired(call[c].request.op))
  <1> DEFINE desired == Desired(call[c].request.op)
             targets == {s \in Slots : BatchWrites(c, s)}
  <1>1. desired \in {"OPEN", "BLOCKED"} BY DEF Desired
  <1>2. slot' = [s \in Slots |-> IF s \in targets THEN desired ELSE slot[s]]
    BY DEF CommitOwnerBatch
  <1>3. \A s \in targets : slot[s] \notin {"HELD", "BOOKED"}
    BY DEF BatchWrites, Opposite
  <1>4. UNCHANGED <<now, holds, bookings, nextHold>>
    BY DEF CommitOwnerBatch, CommitCall
  <1>5. QED BY <1>1, <1>2, <1>3, <1>4 DEF SetFreeSlots

LEMMA ExpiryDrops ==
  ASSUME IInv, NEW w \in Workers, CommitExpiry(w)
  PROVE  \E h \in holds : h.expiresAt <= now /\ DropHold(h)
  <1>1. PICK x \in job[w].current :
          /\ ExpireChecked(w, x) /\ ExpireWritable(w, x)
          /\ holds' = {h \in holds : ~(h.id = x.id /\ h.expiresAt <= job[w].at)}
          /\ slot' = [slot EXCEPT ![x.slot] = "OPEN"]
    BY DEF CommitExpiry
  <1>2. PICK h \in holds : h.id = x.id /\ h.expiresAt <= job[w].at
    BY <1>1 DEF ExpireWritable
  <1>3. h.slot = x.slot
    BY <1>1, <1>2 DEF ExpireChecked, IInv, ViewHonest, Procs
  <1>4. holds' = holds \ {h}
    BY <1>1, <1>2 DEF IInv, RowsUnique
  <1>5. job[w].at \in Nat /\ now \in Nat /\ h.expiresAt \in Nat /\ job[w].at <= now
    BY <1>2 DEF IInv, TypeOK, TablesTypeOK, ProcTypeOK, JobState, HoldRow, BatchHonest
  <1>6. h.expiresAt <= now
    BY <1>2, <1>5
  <1>7. now' = now /\ bookings' = bookings /\ nextHold' = nextHold
    BY DEF CommitExpiry, CommitJob
  <1>8. DropHold(h)
    BY <1>1, <1>3, <1>4, <1>7 DEF DropHold
  <1>9. QED BY <1>6, <1>8

LEMMA CompletionEnds ==
  ASSUME IInv, NEW w \in Workers, CommitCompletion(w)
  PROVE  \E b \in bookings : EndsAt[b.slot] <= now /\ EndBooking(b)
  <1>1. PICK x \in job[w].current, b \in bookings :
          /\ CompleteWritable(w, x, b)
          /\ bookings' = (bookings \ {b}) \cup {[b EXCEPT !.status = "COMPLETED"]}
    BY DEF CommitCompletion
  <1>2. job[w].at \in Nat /\ now \in Nat /\ EndsAt[b.slot] \in Nat /\ job[w].at <= now
    BY DayAssumption
    DEF IInv, TypeOK, TablesTypeOK, ProcTypeOK, JobState, BookingRow, BatchHonest
  <1>3. EndsAt[b.slot] <= now
    BY <1>1, <1>2 DEF CompleteWritable
  <1>4. UNCHANGED <<now, slot, holds, nextHold>>
    BY DEF CommitCompletion, CommitJob
  <1>5. EndBooking(b)
    BY <1>1, <1>4 DEF EndBooking, CompleteWritable
  <1>6. QED BY <1>3, <1>5

(* A step of a call or of a worker changes the rows as one of the          *)
(* happenings does, or leaves the tables alone.                            *)
LEMMA CallWrites ==
  ASSUME IInv, NEW c \in Clients, SendsRequest(c) \/ CallStep(c) \/ CallCrashes(c)
  PROVE  RowsChange \/ UNCHANGED tableVars
  <1>1. CASE SendsRequest(c)
    BY <1>1 DEF SendsRequest, Submit, tableVars
  <1>2. CASE CommitHold(c)
    BY <1>2, HoldGrants DEF RowsChange
  <1>3. CASE CommitConfirm(c)
    BY <1>3, ConfirmBooks DEF RowsChange
  <1>4. CASE CommitCancel(c)
    BY <1>4, CancelWithdraws DEF RowsChange
  <1>5. CASE CommitOwnerBatch(c)
    <2>1. {s \in Slots : BatchWrites(c, s)} \in SUBSET Slots OBVIOUS
    <2>2. QED BY <1>5, <2>1, BatchSets DEF RowsChange
  <1>6. CASE \/ ReturnRecorded(c) \/ BeginTransaction(c) \/ InsertLockRow(c)
             \/ LockCalendarDay(c) \/ CheckCommand(c) \/ RetryCall(c) \/ GiveUp(c)
             \/ CallCrashes(c)
    BY <1>6 DEF ReturnRecorded, BeginTransaction, InsertLockRow, LockCalendarDay,
                CheckCommand, RetryCall, GiveUp, CallCrashes
  <1>7. CASE \/ CandidateMissing(c) \/ CheckFails(c) \/ WriteFails(c)
             \/ CallDeadlocks(c) \/ CallTimesOut(c)
    BY <1>7 DEF CandidateMissing, CheckFails, WriteFails, CallDeadlocks, CallTimesOut, AbortCall
  <1>8. QED BY <1>1, <1>2, <1>3, <1>4, <1>5, <1>6, <1>7 DEF CallStep

LEMMA JobWrites ==
  ASSUME IInv, NEW w \in Workers, JobStep(w) \/ JobFails(w)
  PROVE  RowsChange \/ UNCHANGED tableVars
  <1>1. CASE CommitExpiry(w)
    BY <1>1, ExpiryDrops DEF RowsChange
  <1>2. CASE CommitCompletion(w)
    BY <1>2, CompletionEnds DEF RowsChange
  <1>3. CASE SkipCandidate(w)
    BY <1>3 DEF SkipCandidate, CommitJob, tableVars
  <1>4. CASE StartExpireBatch(w) \/ StartCompleteBatch(w)
    BY <1>4 DEF StartExpireBatch, StartCompleteBatch, StartBatch
  <1>5. CASE \/ TakeCandidate(w) \/ InsertLockRow(w) \/ LockCalendarDay(w)
             \/ JobFails(w) \/ EndFailedTick(w)
    BY <1>5 DEF TakeCandidate, InsertLockRow, LockCalendarDay, JobFails, EndFailedTick
  <1>6. QED BY <1>1, <1>2, <1>3, <1>4, <1>5 DEF JobStep

(* Every step is one happening, a moment of time, or neither. *)
LEMMA StepWrites ==
  ASSUME IInv, [Next]_vars
  PROVE  \/ RowsChange
         \/ UNCHANGED tableVars
         \/ now' = now + 1 /\ UNCHANGED <<slot, holds, bookings, nextHold>>
  <1>1. CASE Advance BY <1>1 DEF Advance
  <1>2. CASE UNCHANGED vars BY <1>2 DEF vars
  <1>3. QED BY <1>1, <1>2, CallWrites, JobWrites DEF Next

(* The tables stay typed and in agreement across every step. *)
LEMMA RowInvKept == IInv /\ [Next]_vars => RowInv'
  <1> SUFFICES ASSUME IInv, [Next]_vars PROVE RowInv'
    OBVIOUS
  <1>1. RowInv /\ now \in Nat BY DEF IInv, TypeOK, TablesTypeOK, RowInv
  <1>2. CASE RowsChange BY <1>1, <1>2, RowsChangeKeeps
  <1>3. CASE UNCHANGED tableVars BY <1>1, <1>3, RowInvRests DEF tableVars
  <1>4. CASE now' = now + 1 /\ UNCHANGED <<slot, holds, bookings, nextHold>>
    BY <1>1, <1>4, RowInvRests
  <1>5. QED BY <1>2, <1>3, <1>4, StepWrites

-----------------------------------------------------------------------------
LEMMA CallTyped ==
  ASSUME IInv, NEW c \in Clients, SendsRequest(c) \/ CallStep(c) \/ CallCrashes(c),
         TablesTypeOK'
  PROVE  TypeOK'
  <1>0. c \in Procs /\ TypeOK /\ call[c] \in CallState /\ now \in Nat /\ nextHold \in Nat
    BY DEF Procs, IInv, TypeOK, ProcTypeOK, TablesTypeOK
  <1>1. ASSUME NEW r \in Request, Submit(c, r) PROVE TypeOK'
    <2>1. pc' \in [Procs -> Phase] /\ view' \in [Procs -> ViewRow] /\ job' \in [Workers -> JobState]
      BY <1>0, <1>1 DEF Submit, TypeOK, ProcTypeOK, Phase
    <2>2. call' \in [Clients -> CallState]
      BY <1>0, <1>1 DEF Submit, TypeOK, ProcTypeOK, CallState
    <2>3. QED BY <1>0, <1>1, <2>1, <2>2, StartType DEF Submit
  <1>2. CASE SendsRequest(c)
    <2>1. ASSUME NEW key \in Keys, NEW s \in Slots, NEW user \in Professionals
          PROVE [op |-> "hold", actor |-> user, slots |-> {s}, ref |-> 0, key |-> key] \in Request
      BY DEF Request
    <2>2. ASSUME NEW key \in Keys, NEW op \in {"confirm", "cancel"}, NEW id \in 1 .. nextHold - 1,
                 NEW user \in Professionals
          PROVE [op |-> op, actor |-> user, slots |-> {}, ref |-> id, key |-> key] \in Request
      <3>1. id \in Nat BY <1>0
      <3>2. QED BY <3>1 DEF Request
    <2>3. ASSUME NEW key \in Keys, NEW op \in {"open", "block"},
                 NEW targets \in SUBSET Slots \ {{}}, NEW user \in Owners
          PROVE [op |-> op, actor |-> user, slots |-> targets, ref |-> 0, key |-> key] \in Request
      BY DEF Request
    <2>4. QED BY <1>1, <1>2, <2>1, <2>2, <2>3 DEF SendsRequest
  <1>3. CASE ReturnRecorded(c) \/ GiveUp(c)
    <2>1. CallReturns(c) /\ UNCHANGED <<tableVars, logVars, lockVars, view, job>>
      BY <1>3 DEF ReturnRecorded, GiveUp
    <2>2. QED BY <1>0, <2>1, CallReturnsType, StartType DEF TypeOK, ProcTypeOK
  <1>4. CASE BeginTransaction(c)
    <2>1. view' \in [Procs -> ViewRow]
      BY <1>0, <1>4, CommittedType DEF BeginTransaction, TypeOK, ProcTypeOK
    <2>2. pc' \in [Procs -> Phase]
      BY <1>0, <1>4 DEF BeginTransaction, TypeOK, ProcTypeOK, Phase
    <2>3. QED BY <1>0, <1>4, <2>1, <2>2, StartType DEF BeginTransaction, TypeOK, ProcTypeOK
  <1>5. CASE \/ CandidateMissing(c) \/ CheckFails(c) \/ WriteFails(c)
             \/ CallDeadlocks(c) \/ CallTimesOut(c)
    <2>1. \E error \in {"rejected", "deadlock", "duplicate"} : AbortCall(c, error)
      BY <1>5 DEF CandidateMissing, CheckFails, WriteFails, CallDeadlocks, CallTimesOut
    <2>2. QED BY <1>0, <2>1, AbortCallType
  <1>6. CASE RetryCall(c)
    <2>1. call[c].attempt + 1 \in 0 .. 2
      BY <1>0, <1>6 DEF RetryCall, CallState
    <2>2. call' = [call EXCEPT ![c] = [@ EXCEPT !.attempt = call[c].attempt + 1, !.error = "none"]]
      BY <1>0, <1>6 DEF RetryCall, TypeOK, ProcTypeOK
    <2>3. [call[c] EXCEPT !.attempt = call[c].attempt + 1, !.error = "none"] \in CallState
      BY <1>0, <2>1 DEF CallState
    <2>4. call' \in [Clients -> CallState]
      BY <1>0, <2>2, <2>3 DEF TypeOK, ProcTypeOK
    <2>5. pc' \in [Procs -> Phase]
      BY <1>0, <1>6 DEF RetryCall, TypeOK, ProcTypeOK, Phase
    <2>6. QED BY <1>0, <1>6, <2>4, <2>5, StartType DEF RetryCall, TypeOK, ProcTypeOK
  <1>7. CASE CallCrashes(c)
    <2>1. shared' \subseteq Procs /\ exclusive' \subseteq Procs /\ view' \in [Procs -> ViewRow]
      BY <1>0, <1>7, EndTransactionType DEF CallCrashes
    <2>2. pc' \in [Procs -> Phase] /\ call' \in [Clients -> CallState]
      BY <1>0, <1>7, CallReturnsType DEF CallCrashes
    <2>3. QED
      BY <1>0, <1>7, <2>1, <2>2
      DEF CallCrashes, TypeOK, TablesTypeOK, LogTypeOK, LockTypeOK, ProcTypeOK,
          tableVars, logVars
  <1>8. CASE InsertLockRow(c) \/ LockCalendarDay(c)
    BY <1>0, <1>8
    DEF InsertLockRow, LockCalendarDay, TypeOK, TablesTypeOK, LogTypeOK, LockTypeOK,
        ProcTypeOK, Phase, tableVars, logVars
  <1>9. ASSUME CommitHold(c) PROVE TypeOK'
    <2>1. CommitCall(c, nextHold) /\ call[c].request \in Request
      BY <1>0, <1>9, RequestTypes DEF CommitHold, AtWrites
    <2>2. audit' \subseteq AuditRow /\ outbox' \in Seq(OutboxRow)
      BY <1>0, <1>9 DEF CommitHold, TypeOK, LogTypeOK, AuditRow
    <2>3. QED BY <1>0, <2>1, <2>2, CommitCallType
  <1>10. ASSUME CommitConfirm(c) PROVE TypeOK'
    <2>1. PICK h \in view[c].holds :
            /\ audit' = audit \cup {[action |-> "BOOKING_CONFIRMED", id |-> h.id]}
            /\ outbox' = Append(outbox, [topic |-> "BOOKING_CONFIRMED", id |-> h.id])
            /\ CommitCall(c, h.id)
      BY <1>10 DEF CommitConfirm
    <2>2. h.id \in Nat
      BY <1>0 DEF TypeOK, ProcTypeOK, ViewRow, HoldRow
    <2>3. call[c].request \in Request
      BY <1>0, <1>10, RequestTypes DEF CommitConfirm, AtWrites
    <2>4. audit' \subseteq AuditRow /\ outbox' \in Seq(OutboxRow)
      BY <1>0, <2>1, <2>2 DEF TypeOK, LogTypeOK, AuditRow, OutboxRow, Topic
    <2>5. QED BY <1>0, <2>1, <2>2, <2>3, <2>4, CommitCallType
  <1>11. ASSUME CommitCancel(c) PROVE TypeOK'
    <2>1. PICK b \in view[c].bookings :
            /\ audit' = audit \cup {[action |-> "BOOKING_CANCELLED", id |-> b.id]}
            /\ outbox' = Append(outbox, [topic |-> "BOOKING_CANCELLED", id |-> b.id])
            /\ CommitCall(c, b.id)
      BY <1>11 DEF CommitCancel
    <2>2. b.id \in Nat
      BY <1>0 DEF TypeOK, ProcTypeOK, ViewRow, BookingRow
    <2>3. call[c].request \in Request
      BY <1>0, <1>11, RequestTypes DEF CommitCancel, AtWrites
    <2>4. audit' \subseteq AuditRow /\ outbox' \in Seq(OutboxRow)
      BY <1>0, <2>1, <2>2 DEF TypeOK, LogTypeOK, AuditRow, OutboxRow, Topic
    <2>5. QED BY <1>0, <2>1, <2>2, <2>3, <2>4, CommitCallType
  <1>12. ASSUME CommitOwnerBatch(c) PROVE TypeOK'
    <2>1. CommitCall(c, 0) /\ call[c].request \in Request
      BY <1>0, <1>12, RequestTypes DEF CommitOwnerBatch, IsBatch
    <2>2. audit' \subseteq AuditRow /\ outbox' \in Seq(OutboxRow)
      BY <1>0, <1>12 DEF CommitOwnerBatch, TypeOK, LogTypeOK
    <2>3. QED BY <1>0, <2>1, <2>2, CommitCallType
  <1>13. CASE CheckCommand(c)
    <2>1. pc' \in [Procs -> Phase] /\ view' \in [Procs -> ViewRow] /\ job' \in [Workers -> JobState]
      BY <1>0, <1>13 DEF CheckCommand, TypeOK, ProcTypeOK, Phase
    <2>2. call' \in [Clients -> CallState]
      BY <1>0, <1>13 DEF CheckCommand, TypeOK, ProcTypeOK, CallState
    <2>3. QED BY <1>0, <1>13, <2>1, <2>2, StartType DEF CheckCommand
  <1>14. QED
    BY <1>2, <1>3, <1>4, <1>5, <1>6, <1>7, <1>8, <1>9, <1>10, <1>11, <1>12, <1>13 DEF CallStep

LEMMA JobTyped ==
  ASSUME IInv, NEW w \in Workers, JobStep(w) \/ JobFails(w), TablesTypeOK'
  PROVE  TypeOK'
  <1>0. w \in Procs /\ TypeOK /\ job[w] \in JobState
    BY DEF Procs, IInv, TypeOK, ProcTypeOK
  <1>1. ASSUME NEW candidates \in SUBSET BatchRow, StartBatch(w, candidates) PROVE TypeOK'
    <2>1. [batch |-> candidates, current |-> {}, at |-> now] \in JobState
      BY <1>0 DEF TypeOK, TablesTypeOK, JobState
    <2>2. pc' \in [Procs -> Phase] /\ job' \in [Workers -> JobState]
      BY <1>0, <1>1, <2>1 DEF StartBatch, TypeOK, ProcTypeOK, Phase
    <2>3. QED BY <1>0, <1>1, <2>2, StartType DEF StartBatch, TypeOK, ProcTypeOK
  <1>2. CASE StartExpireBatch(w)
    <2>1. {[id |-> h.id, slot |-> h.slot] : h \in ExpiredHolds} \subseteq BatchRow
      BY <1>0 DEF ExpiredHolds, BatchRow, TypeOK, TablesTypeOK, HoldRow
    <2>2. QED BY <1>1, <1>2, <2>1 DEF StartExpireBatch
  <1>3. CASE StartCompleteBatch(w)
    <2>1. {[id |-> b.id, slot |-> b.slot] : b \in EndedBookings} \subseteq BatchRow
      BY <1>0 DEF EndedBookings, BatchRow, TypeOK, TablesTypeOK, BookingRow
    <2>2. QED BY <1>1, <1>3, <2>1 DEF StartCompleteBatch
  <1>4. CASE TakeCandidate(w)
    <2>1. PICK x \in job[w].batch : job' = [job EXCEPT ![w].batch = @ \ {x}, ![w].current = {x}]
      BY <1>4 DEF TakeCandidate
    <2>2. job' \in [Workers -> JobState]
      BY <1>0, <2>1 DEF TypeOK, ProcTypeOK, JobState
    <2>3. view' \in [Procs -> ViewRow]
      BY <1>0, <1>4, CommittedType DEF TakeCandidate, TypeOK, ProcTypeOK
    <2>4. pc' \in [Procs -> Phase]
      BY <1>0, <1>4 DEF TakeCandidate, TypeOK, ProcTypeOK, Phase
    <2>5. QED BY <1>0, <1>4, <2>2, <2>3, <2>4, StartType DEF TakeCandidate, TypeOK, ProcTypeOK
  <1>5. CASE InsertLockRow(w) \/ LockCalendarDay(w)
    BY <1>0, <1>5
    DEF InsertLockRow, LockCalendarDay, TypeOK, TablesTypeOK, LogTypeOK, LockTypeOK,
        ProcTypeOK, Phase, tableVars, logVars
  <1>6. CASE CommitExpiry(w)
    <2>1. PICK x \in job[w].current :
            audit' = audit \cup {[action |-> "SLOT_HOLD_EXPIRED", id |-> x.id]}
      BY <1>6 DEF CommitExpiry
    <2>2. audit' \subseteq AuditRow /\ outbox' \in Seq(OutboxRow)
      BY <1>0, <1>6, <2>1 DEF CommitExpiry, TypeOK, LogTypeOK, AuditRow, JobState, BatchRow
    <2>3. QED BY <1>0, <1>6, <2>2, CommitJobType DEF CommitExpiry
  <1>7. CASE CommitCompletion(w)
    <2>1. PICK b \in bookings :
            /\ audit' = audit \cup {[action |-> "BOOKING_COMPLETED", id |-> b.id]}
            /\ outbox' = Append(outbox, [topic |-> "BOOKING_COMPLETED", id |-> b.id])
      BY <1>7 DEF CommitCompletion
    <2>2. b.id \in Nat BY <1>0 DEF TypeOK, TablesTypeOK, BookingRow
    <2>3. audit' \subseteq AuditRow /\ outbox' \in Seq(OutboxRow)
      BY <1>0, <2>1, <2>2 DEF TypeOK, LogTypeOK, AuditRow, OutboxRow, Topic
    <2>4. QED BY <1>0, <1>7, <2>3, CommitJobType DEF CommitCompletion
  <1>8. CASE SkipCandidate(w)
    <2>1. audit' \subseteq AuditRow /\ outbox' \in Seq(OutboxRow)
      BY <1>0, <1>8 DEF SkipCandidate, TypeOK, LogTypeOK
    <2>2. QED BY <1>0, <1>8, <2>1, CommitJobType DEF SkipCandidate
  <1>9. CASE JobFails(w)
    <2>1. shared' \subseteq Procs /\ exclusive' \subseteq Procs /\ view' \in [Procs -> ViewRow]
      BY <1>0, <1>9, EndTransactionType DEF JobFails
    <2>2. pc' \in [Procs -> Phase] /\ job' \in [Workers -> JobState]
      BY <1>0, <1>9, ResetTypes DEF JobFails, TypeOK, ProcTypeOK, Phase
    <2>3. QED
      BY <1>0, <1>9, <2>1, <2>2
      DEF JobFails, TypeOK, TablesTypeOK, LogTypeOK, LockTypeOK, ProcTypeOK,
          tableVars, logVars
  <1>10. CASE EndFailedTick(w)
    <2>1. pc' \in [Procs -> Phase]
      BY <1>0, <1>10 DEF EndFailedTick, TypeOK, ProcTypeOK, Phase
    <2>2. QED BY <1>0, <1>10, <2>1, StartType DEF EndFailedTick, TypeOK, ProcTypeOK
  <1>11. QED BY <1>2, <1>3, <1>4, <1>5, <1>6, <1>7, <1>8, <1>9, <1>10 DEF JobStep

(* Every step keeps the types. *)
LEMMA TypeStep == IInv /\ [Next]_vars => TypeOK'
  <1> SUFFICES ASSUME IInv, [Next]_vars PROVE TypeOK'
    OBVIOUS
  <1>1. TablesTypeOK' BY RowInvKept DEF RowInv
  <1>2. CASE Advance
    BY <1>1, <1>2 DEF Advance, IInv, TypeOK, LogTypeOK, LockTypeOK, ProcTypeOK, logVars, lockVars
  <1>3. CASE UNCHANGED vars
    BY <1>1, <1>3 DEF vars, IInv, TypeOK, LogTypeOK, LockTypeOK, ProcTypeOK, logVars, lockVars
  <1>4. QED BY <1>1, <1>2, <1>3, CallTyped, JobTyped DEF Next

-----------------------------------------------------------------------------
(* A snapshot is kept, dropped, or taken of the tables as they stand. *)
LEMMA SnapshotStep ==
  ASSUME IInv, [Next]_vars, NEW p \in Procs
  PROVE  \/ view'[p] = view[p] \/ view'[p] = NoView
         \/ view'[p] = Committed /\ UNCHANGED tableVars
  <1>0. view \in [Procs -> ViewRow] BY DEF IInv, TypeOK, ProcTypeOK
  <1>1. ASSUME NEW q \in Procs, EndTransaction(q)
        PROVE  view'[p] = view[p] \/ view'[p] = NoView
    BY <1>0, <1>1 DEF EndTransaction
  <1>2. ASSUME NEW c \in Clients, SendsRequest(c) \/ CallStep(c) \/ CallCrashes(c)
        PROVE  \/ view'[p] = view[p] \/ \E q \in Procs : EndTransaction(q)
               \/ view'[p] = Committed /\ UNCHANGED tableVars
    <2>1. CASE \/ SendsRequest(c) \/ ReturnRecorded(c) \/ InsertLockRow(c)
               \/ LockCalendarDay(c) \/ CheckCommand(c) \/ RetryCall(c) \/ GiveUp(c)
      BY <2>1 DEF SendsRequest, Submit, ReturnRecorded, InsertLockRow, LockCalendarDay,
                  CheckCommand, RetryCall, GiveUp
    <2>2. CASE BeginTransaction(c)
      BY <1>0, <2>2 DEF BeginTransaction
    <2>3. CASE \/ CandidateMissing(c) \/ CheckFails(c) \/ WriteFails(c) \/ CallDeadlocks(c)
               \/ CallTimesOut(c) \/ CallCrashes(c)
      BY <2>3 DEF CandidateMissing, CheckFails, WriteFails, CallDeadlocks, CallTimesOut, AbortCall,
                  CallCrashes, Procs
    <2>4. CASE CommitHold(c) \/ CommitConfirm(c) \/ CommitCancel(c) \/ CommitOwnerBatch(c)
      BY <2>4 DEF CommitHold, CommitConfirm, CommitCancel, CommitOwnerBatch, CommitCall, Procs
    <2>5. QED BY <1>2, <2>1, <2>2, <2>3, <2>4 DEF CallStep
  <1>3. ASSUME NEW w \in Workers, JobStep(w) \/ JobFails(w)
        PROVE  \/ view'[p] = view[p] \/ \E q \in Procs : EndTransaction(q)
               \/ view'[p] = Committed /\ UNCHANGED tableVars
    <2>1. CASE \/ StartExpireBatch(w) \/ StartCompleteBatch(w) \/ InsertLockRow(w)
               \/ LockCalendarDay(w) \/ EndFailedTick(w)
      BY <2>1 DEF StartExpireBatch, StartCompleteBatch, StartBatch, InsertLockRow,
                  LockCalendarDay, EndFailedTick
    <2>2. CASE TakeCandidate(w)
      BY <1>0, <2>2 DEF TakeCandidate
    <2>3. CASE JobFails(w) \/ CommitExpiry(w) \/ CommitCompletion(w) \/ SkipCandidate(w)
      BY <2>3 DEF JobFails, CommitExpiry, CommitCompletion, SkipCandidate, CommitJob,
                  NextCandidate, Procs
    <2>4. QED BY <1>3, <2>1, <2>2, <2>3 DEF JobStep
  <1>4. CASE Advance BY <1>4 DEF Advance
  <1>5. CASE UNCHANGED vars BY <1>5 DEF vars
  <1>6. QED BY <1>1, <1>2, <1>3, <1>4, <1>5 DEF Next

(* A step adds at most the hold with the next fresh id, and takes no       *)
(* booking away.                                                           *)
LEMMA FreshRows ==
  ASSUME IInv, [Next]_vars
  PROVE  /\ nextHold \in Nat /\ nextHold' \in Nat /\ nextHold <= nextHold'
         /\ \A g \in holds' : g \in holds \/ g.id = nextHold
         /\ \A b \in bookings : \E a \in bookings' : a.id = b.id /\ a.slot = b.slot
  <1>0. nextHold \in Nat /\ bookings \subseteq BookingRow
    BY DEF IInv, TypeOK, TablesTypeOK
  <1>1. CASE UNCHANGED <<slot, holds, bookings, nextHold>>
    BY <1>0, <1>1
  <1>2. CASE \E s \in Slots, user \in Professionals, until \in Nat : GrantHold(s, user, until)
    BY <1>0, <1>2 DEF GrantHold
  <1>3. CASE \E h \in holds : BookHold(h) \/ DropHold(h)
    BY <1>0, <1>3 DEF BookHold, DropHold
  <1>4. CASE \E b \in bookings : WithdrawBooking(b) \/ EndBooking(b)
    <2>1. PICK b \in bookings : WithdrawBooking(b) \/ EndBooking(b)
      BY <1>4
    <2>2. PICK a \in bookings' : a.id = b.id /\ a.slot = b.slot
      BY <1>0, <2>1, StatusUpdate DEF WithdrawBooking, EndBooking, BookingStatus
    <2>3. \A d \in bookings : d = b \/ d \in bookings'
      BY <2>1 DEF WithdrawBooking, EndBooking
    <2>4. holds' = holds /\ nextHold' = nextHold
      BY <2>1 DEF WithdrawBooking, EndBooking
    <2>5. QED BY <1>0, <2>2, <2>3, <2>4
  <1>5. CASE \E targets \in SUBSET Slots, desired \in {"OPEN", "BLOCKED"} :
               SetFreeSlots(targets, desired)
    BY <1>0, <1>5 DEF SetFreeSlots
  <1>6. QED BY <1>1, <1>2, <1>3, <1>4, <1>5, StepWrites DEF RowsChange, tableVars

(* A row of a snapshot that is still there stays the same row. *)
LEMMA ViewHonestStep == IInv /\ [Next]_vars => ViewHonest'
  <1> SUFFICES ASSUME IInv, [Next]_vars, NEW p \in Procs
               PROVE  /\ \A h \in view'[p].holds :
                           h.id < nextHold' /\ \A g \in holds' : g.id = h.id => g = h
                      /\ \A b \in view'[p].bookings :
                           \E a \in bookings' : a.id = b.id /\ a.slot = b.slot
    BY DEF ViewHonest
  <1>1. CASE view'[p] = view[p]
    <2>1. ASSUME NEW h \in view[p].holds
          PROVE  h.id < nextHold' /\ \A g \in holds' : g.id = h.id => g = h
      <3>1. h.id \in Nat /\ h.id < nextHold /\ \A g \in holds : g.id = h.id => g = h
        BY DEF IInv, ViewHonest, TypeOK, ProcTypeOK, ViewRow, HoldRow
      <3>2. QED BY <3>1, FreshRows
    <2>2. ASSUME NEW b \in view[p].bookings
          PROVE  \E a \in bookings' : a.id = b.id /\ a.slot = b.slot
      <3>1. PICK a \in bookings : a.id = b.id /\ a.slot = b.slot
        BY DEF IInv, ViewHonest
      <3>2. QED BY <3>1, FreshRows
    <2>3. QED BY <1>1, <2>1, <2>2
  <1>2. CASE view'[p] = NoView BY <1>2 DEF NoView
  <1>3. CASE view'[p] = Committed /\ UNCHANGED tableVars
    BY <1>3 DEF Committed, tableVars, IInv, RowsUnique
  <1>4. QED BY <1>1, <1>2, <1>3, SnapshotStep

LEMMA BatchHonestStep == IInv /\ [Next]_vars => BatchHonest'
  <1> SUFFICES ASSUME IInv, [Next]_vars, NEW w \in Workers PROVE job'[w].at <= now'
    BY DEF BatchHonest
  <1>0. /\ job \in [Workers -> JobState] /\ job[w].at \in Nat /\ now \in Nat
        /\ job[w].at <= now
    BY DEF IInv, TypeOK, TablesTypeOK, ProcTypeOK, JobState, BatchHonest
  <1>1. CASE Advance BY <1>0, <1>1 DEF Advance
  <1>2. CASE UNCHANGED vars BY <1>0, <1>2 DEF vars, tableVars
  <1>3. ASSUME NEW c \in Clients, SendsRequest(c) \/ CallStep(c) \/ CallCrashes(c)
        PROVE  job' = job /\ now' = now
    BY <1>3, ZenonT(40)
    DEF SendsRequest, Submit, CallStep, ReturnRecorded, BeginTransaction, CandidateMissing,
        InsertLockRow, LockCalendarDay, CommitHold, CommitConfirm, CommitCancel,
        CommitOwnerBatch, CommitCall, CheckCommand, CheckFails, WriteFails, CallDeadlocks,
        CallTimesOut, AbortCall, RetryCall, GiveUp, CallCrashes, tableVars
  <1>4. ASSUME NEW v \in Workers, JobStep(v) \/ JobFails(v)
        PROVE  now' = now /\ (job'[w].at = job[w].at \/ job'[w].at = 0 \/ job'[w].at = now)
    <2>1. CASE StartExpireBatch(v) \/ StartCompleteBatch(v)
      BY <1>0, <2>1 DEF StartExpireBatch, StartCompleteBatch, StartBatch, tableVars
    <2>2. CASE TakeCandidate(v)
      BY <1>0, <2>2 DEF TakeCandidate, tableVars, JobState
    <2>3. CASE InsertLockRow(v) \/ LockCalendarDay(v)
      BY <2>3 DEF InsertLockRow, LockCalendarDay, tableVars
    <2>4. CASE CommitExpiry(v) \/ CommitCompletion(v) \/ SkipCandidate(v)
      <3>1. NextCandidate(v) /\ now' = now
        BY <2>4 DEF CommitExpiry, CommitCompletion, SkipCandidate, CommitJob
      <3>2. QED BY <1>0, <3>1 DEF NextCandidate, IdleJob, JobState
    <2>5. CASE JobFails(v)
      BY <1>0, <2>5 DEF JobFails, IdleJob, tableVars
    <2>6. CASE EndFailedTick(v)
      BY <2>6 DEF EndFailedTick, tableVars
    <2>7. QED BY <1>4, <2>1, <2>2, <2>3, <2>4, <2>5, <2>6 DEF JobStep
  <1>5. QED BY <1>0, <1>1, <1>2, <1>3, <1>4 DEF Next

(* Together they are inductive. *)
LEMMA IInvStep == IInv /\ [Next]_vars => IInv'
  BY RowInvKept, TypeStep, ViewHonestStep, BatchHonestStep DEF IInv, RowInv

(* The inductive invariant: the tables agree with one another, a snapshot  *)
(* is honest about the holds it shows and a batch about the time.          *)
THEOREM IInvHolds == Spec => []IInv
  BY IInvInit, IInvStep, PTL DEF Spec

(* executeIdempotently, the commands and the workers keep every table and  *)
(* local variable in its type; no call makes more than three attempts.     *)
THEOREM TypeCorrect == Spec => []TypeOK
  <1>1. IInv => TypeOK BY DEF IInv
  <1>2. QED BY IInvHolds, <1>1, PTL

(* AvailabilitySlot.status, SlotHold and Booking agree after every commit  *)
(* of slot-holds, bookings and owner-availability, on however old a        *)
(* snapshot the transaction took its decision.                             *)
THEOREM TablesAgree == Spec => []StatusMatchesRows
  <1>1. IInv => StatusMatchesRows BY DEF IInv
  <1>2. QED BY IInvHolds, <1>1, PTL

(* No slot is ever held twice or booked twice, whoever races whom. *)
THEOREM NeverOvertaken == Spec => []RowsUnique
  <1>1. IInv => RowsUnique BY DEF IInv
  <1>2. QED BY IInvHolds, <1>1, PTL

(* The three "throw new Error" of slot-holds.service.ts and                *)
(* bookings.service.ts are dead: the snapshot is honest about the hold and *)
(* the tables agree on the slot.                                           *)
THEOREM NeverInternalError == Spec => []InternalErrorsUnreachable
  <1>1. IInv => InternalErrorsUnreachable
    <2> SUFFICES ASSUME IInv PROVE InternalErrorsUnreachable
      OBVIOUS
    <2>0. /\ holds \subseteq HoldRow /\ bookings \subseteq BookingRow
          /\ view \in [Procs -> ViewRow] /\ job \in [Workers -> JobState]
      BY DEF IInv, TypeOK, TablesTypeOK, ProcTypeOK
    <2>1. ASSUME NEW c \in Clients, NEW h \in view[c].holds, h \in holds
          PROVE  slot[h.slot] = "HELD"
      BY <2>0, <2>1 DEF IInv, StatusMatchesRows, HoldRow
    <2>2. ASSUME NEW c \in Clients, NEW b \in view[c].bookings, BookingNamed(c, b), b \in bookings
          PROVE  slot[b.slot] = "BOOKED"
      BY <2>0, <2>2 DEF BookingNamed, Live, IInv, StatusMatchesRows, BookingRow
    <2>3. ASSUME NEW w \in Expirers, NEW x \in job[w].current, ExpireChecked(w, x),
                 NEW h \in holds, h.id = x.id
          PROVE  slot[x.slot] = "HELD"
      <3>1. w \in Procs BY DEF Procs, Workers
      <3>2. PICK g \in view[w].holds : g.slot = x.slot /\ g.id = x.id
        BY <2>3 DEF ExpireChecked
      <3>3. h = g BY <2>3, <3>1, <3>2 DEF IInv, ViewHonest
      <3>4. QED BY <2>0, <3>2, <3>3 DEF IInv, StatusMatchesRows, HoldRow
    <2>4. QED BY <2>1, <2>2, <2>3 DEF InternalErrorsUnreachable
  <1>2. QED BY IInvHolds, <1>1, PTL

-----------------------------------------------------------------------------
(* The calendar lock.  A shared lock is only ever left on a committed row, *)
(* which is why the first transaction of a day, the one that inserts the   *)
(* row, meets nobody.                                                      *)
LockInv == CalendarLockExclusive /\ (shared # {} => lockRow = TRUE)

(* A process that leaves its transaction gives its locks back. *)
LEMMA LockGivenBack ==
  ASSUME IInv, LockInv, NEW p \in Procs, EndTransaction(p), lockRow' \in {lockRow, TRUE},
         NEW phase \in Phase \ {"shared", "locked", "checked"}, pc' = [pc EXCEPT ![p] = phase]
  PROVE  LockInv'
  BY DEF IInv, TypeOK, LockTypeOK, ProcTypeOK, LockInv, CalendarLockExclusive, EndTransaction

(* A process outside the lock moves on outside it. *)
LEMMA LockUntouched ==
  ASSUME IInv, LockInv, NEW p \in Procs, UNCHANGED lockVars,
         pc[p] \notin {"shared", "locked", "checked"},
         NEW phase \in Phase \ {"shared", "locked", "checked"}, pc' = [pc EXCEPT ![p] = phase]
  PROVE  LockInv'
  BY DEF IInv, TypeOK, LockTypeOK, ProcTypeOK, LockInv, CalendarLockExclusive, lockVars

LEMMA LockTaken ==
  ASSUME IInv, LockInv, NEW p \in Procs, InsertLockRow(p) \/ LockCalendarDay(p)
  PROVE  LockInv'
  <1>0. pc \in [Procs -> Phase] /\ shared \subseteq Procs /\ exclusive \subseteq Procs
    BY DEF IInv, TypeOK, LockTypeOK, ProcTypeOK
  <1>1. CASE InsertLockRow(p)
    BY <1>0, <1>1 DEF InsertLockRow, LockInv, CalendarLockExclusive
  <1>2. CASE LockCalendarDay(p)
    BY <1>0, <1>2 DEF LockCalendarDay, LockInv, CalendarLockExclusive
  <1>3. QED BY <1>1, <1>2

LEMMA CallKeepsLock ==
  ASSUME IInv, LockInv, NEW c \in Clients, SendsRequest(c) \/ CallStep(c) \/ CallCrashes(c)
  PROVE  LockInv'
  <1>0. c \in Procs BY DEF Procs
  <1>1. ASSUME NEW error, AbortCall(c, error) PROVE LockInv'
    BY <1>0, <1>1, LockGivenBack DEF AbortCall, Phase
  <1>2. ASSUME NEW response, CommitCall(c, response) PROVE LockInv'
    BY <1>0, <1>2, LockGivenBack DEF CommitCall, CallReturns, Phase
  <1>3. CASE SendsRequest(c)
    <2>1. pc[c] = "idle" /\ pc' = [pc EXCEPT ![c] = "ready"] /\ UNCHANGED lockVars
      BY <1>3 DEF SendsRequest, Submit
    <2>2. QED BY <1>0, <2>1, LockUntouched DEF Phase
  <1>4. CASE ReturnRecorded(c)
    BY <1>0, <1>4, LockUntouched DEF ReturnRecorded, CallReturns, Phase
  <1>5. CASE BeginTransaction(c)
    BY <1>0, <1>5, LockUntouched DEF BeginTransaction, Phase
  <1>6. CASE \/ CandidateMissing(c) \/ CallDeadlocks(c) \/ CallTimesOut(c)
             \/ CheckFails(c) \/ WriteFails(c)
    BY <1>1, <1>6 DEF CandidateMissing, CallDeadlocks, CallTimesOut, CheckFails, WriteFails
  <1>7. CASE InsertLockRow(c) \/ LockCalendarDay(c)
    BY <1>0, <1>7, LockTaken
  <1>8. CASE CommitHold(c) \/ CommitConfirm(c) \/ CommitCancel(c) \/ CommitOwnerBatch(c)
    BY <1>2, <1>8 DEF CommitHold, CommitConfirm, CommitCancel, CommitOwnerBatch
  <1>9. CASE RetryCall(c)
    BY <1>0, <1>9, LockUntouched DEF RetryCall, Phase
  <1>10. CASE GiveUp(c)
    BY <1>0, <1>10, LockUntouched DEF GiveUp, CallReturns, Phase
  <1>11. CASE CallCrashes(c)
    BY <1>0, <1>11, LockGivenBack DEF CallCrashes, CallReturns, Phase
  <1>12. CASE CheckCommand(c)
    BY <1>0, <1>12 DEF CheckCommand, IInv, TypeOK, LockTypeOK, ProcTypeOK, LockInv,
                       CalendarLockExclusive, lockVars
  <1>13. QED
    BY <1>3, <1>4, <1>5, <1>6, <1>7, <1>8, <1>9, <1>10, <1>11, <1>12 DEF CallStep

LEMMA JobKeepsLock ==
  ASSUME IInv, LockInv, NEW w \in Workers, JobStep(w) \/ JobFails(w)
  PROVE  LockInv'
  <1>0. w \in Procs BY DEF Procs
  <1>1. CASE StartExpireBatch(w) \/ StartCompleteBatch(w)
    BY <1>0, <1>1, LockUntouched DEF StartExpireBatch, StartCompleteBatch, StartBatch, Phase
  <1>2. CASE TakeCandidate(w)
    BY <1>0, <1>2, LockUntouched DEF TakeCandidate, Phase
  <1>3. CASE InsertLockRow(w) \/ LockCalendarDay(w)
    BY <1>0, <1>3, LockTaken
  <1>4. CASE CommitExpiry(w) \/ CommitCompletion(w) \/ SkipCandidate(w)
    <2>1. lockRow' = TRUE /\ NextCandidate(w)
      BY <1>4 DEF CommitExpiry, CommitCompletion, SkipCandidate, CommitJob
    <2>2. QED BY <1>0, <2>1, LockGivenBack DEF NextCandidate, Phase
  <1>5. CASE JobFails(w)
    BY <1>0, <1>5, LockGivenBack DEF JobFails, Phase
  <1>6. CASE EndFailedTick(w)
    BY <1>0, <1>6, LockUntouched DEF EndFailedTick, Phase
  <1>7. QED BY <1>1, <1>2, <1>3, <1>4, <1>5, <1>6 DEF JobStep

(* The calendar lock stays exclusive. *)
LEMMA LockStep == IInv /\ LockInv /\ [Next]_vars => LockInv'
  <1> SUFFICES ASSUME IInv, LockInv, [Next]_vars PROVE LockInv'
    OBVIOUS
  <1>1. CASE Advance
    BY <1>1 DEF Advance, LockInv, CalendarLockExclusive, lockVars
  <1>2. CASE UNCHANGED vars
    BY <1>2 DEF vars, LockInv, CalendarLockExclusive, lockVars
  <1>3. QED BY <1>1, <1>2, CallKeepsLock, JobKeepsLock DEF Next

(* lockSlot and mutateFixedSlots let one transaction of the day past their *)
(* FOR UPDATE at a time, for any number of calls and workers.              *)
THEOREM DayIsSerialized == Spec => []CalendarLockExclusive
  <1>1. Init => LockInv BY DEF Init, LockInv, CalendarLockExclusive
  <1>2. IInv /\ LockInv /\ [Next]_vars => LockInv' BY LockStep
  <1>3. LockInv => CalendarLockExclusive BY DEF LockInv
  <1>4. QED BY IInvHolds, <1>1, <1>2, <1>3, PTL DEF Spec

-----------------------------------------------------------------------------
(* The promise.  Between a check and its commit the calendar lock keeps    *)
(* everybody else from the rows, so at most one command is decided, and it *)
(* is decided on the rows as they stand.                                   *)

(* What a batch has checked on its snapshot stays checked. *)
CheckedHonest == \A c \in Clients : pc[c] = "checked" /\ IsBatch(c) => BatchMutable(c)

PromiseInv == IInv /\ LockInv /\ CheckedHonest

(* A call whose transaction does not move. *)
Rests(c) == pc'[c] = pc[c] /\ call'[c] = call[c] /\ view'[c] = view[c]

LEMMA CallMovesItself ==
  ASSUME IInv, NEW c \in Clients, SendsRequest(c) \/ CallStep(c) \/ CallCrashes(c),
         NEW d \in Clients, d # c
  PROVE  Rests(d)
  <1>0. /\ pc \in [Procs -> Phase] /\ view \in [Procs -> ViewRow] /\ call \in [Clients -> CallState]
        /\ c \in Procs /\ d \in Procs
    BY DEF IInv, TypeOK, ProcTypeOK, Procs
  <1>1. ASSUME NEW error, AbortCall(c, error) PROVE Rests(d)
    BY <1>0, <1>1 DEF AbortCall, EndTransaction, Rests
  <1>2. ASSUME NEW response, CommitCall(c, response) PROVE Rests(d)
    BY <1>0, <1>2 DEF CommitCall, CallReturns, EndTransaction, Rests
  <1>3. CASE SendsRequest(c)
    BY <1>0, <1>3 DEF SendsRequest, Submit, Rests
  <1>4. CASE ReturnRecorded(c) \/ GiveUp(c) \/ RetryCall(c) \/ BeginTransaction(c) \/ CheckCommand(c)
    BY <1>0, <1>4
    DEF ReturnRecorded, GiveUp, RetryCall, BeginTransaction, CheckCommand, CallReturns, Rests
  <1>5. CASE InsertLockRow(c) \/ LockCalendarDay(c)
    BY <1>0, <1>5 DEF InsertLockRow, LockCalendarDay, Rests
  <1>6. CASE \/ CandidateMissing(c) \/ CallDeadlocks(c) \/ CallTimesOut(c)
             \/ CheckFails(c) \/ WriteFails(c)
    BY <1>1, <1>6 DEF CandidateMissing, CallDeadlocks, CallTimesOut, CheckFails, WriteFails
  <1>7. CASE CommitHold(c) \/ CommitConfirm(c) \/ CommitCancel(c) \/ CommitOwnerBatch(c)
    BY <1>2, <1>7 DEF CommitHold, CommitConfirm, CommitCancel, CommitOwnerBatch
  <1>8. CASE CallCrashes(c)
    BY <1>0, <1>8 DEF CallCrashes, CallReturns, EndTransaction, Rests
  <1>9. QED BY <1>3, <1>4, <1>5, <1>6, <1>7, <1>8 DEF CallStep

LEMMA JobMovesItself ==
  ASSUME IInv, NEW w \in Workers, JobStep(w) \/ JobFails(w), NEW d \in Clients
  PROVE  Rests(d)
  <1>0. /\ pc \in [Procs -> Phase] /\ view \in [Procs -> ViewRow] /\ call \in [Clients -> CallState]
        /\ w \in Procs /\ d \in Procs /\ d # w
    BY TransactionsAssumption DEF IInv, TypeOK, ProcTypeOK, Procs
  <1>1. CASE StartExpireBatch(w) \/ StartCompleteBatch(w)
    BY <1>0, <1>1 DEF StartExpireBatch, StartCompleteBatch, StartBatch, Rests
  <1>2. CASE TakeCandidate(w) \/ InsertLockRow(w) \/ LockCalendarDay(w) \/ EndFailedTick(w)
    BY <1>0, <1>2 DEF TakeCandidate, InsertLockRow, LockCalendarDay, EndFailedTick, Rests
  <1>3. CASE CommitExpiry(w) \/ CommitCompletion(w) \/ SkipCandidate(w)
    <2>1. NextCandidate(w) /\ call' = call
      BY <1>3 DEF CommitExpiry, CommitCompletion, SkipCandidate, CommitJob
    <2>2. QED BY <1>0, <2>1 DEF NextCandidate, EndTransaction, Rests
  <1>4. CASE JobFails(w)
    BY <1>0, <1>4 DEF JobFails, EndTransaction, Rests
  <1>5. QED BY <1>1, <1>2, <1>3, <1>4 DEF JobStep

LEMMA CheckedHonestStep == PromiseInv /\ [Next]_vars => CheckedHonest'
  <1> SUFFICES ASSUME PromiseInv, [Next]_vars, NEW d \in Clients,
                      pc'[d] = "checked", IsBatch(d)'
               PROVE  BatchMutable(d)'
    BY DEF CheckedHonest
  <1>1. IInv /\ (pc[d] = "checked" /\ IsBatch(d) => BatchMutable(d))
    BY DEF PromiseInv, CheckedHonest
  <1>2. CASE Rests(d)
    BY <1>1, <1>2 DEF Rests, IsBatch, BatchMutable
  <1>3. CASE SendsRequest(d) \/ CallStep(d) \/ CallCrashes(d)
    <2>0. pc \in [Procs -> Phase] /\ call \in [Clients -> CallState] /\ d \in Procs
      BY <1>1 DEF IInv, TypeOK, ProcTypeOK, Procs
    <2>1. CASE CheckCommand(d)
      BY <2>0, <2>1 DEF CheckCommand, CommandChecked, IsBatch, BatchMutable, CallState
    <2>2. CASE ~CheckCommand(d)
      <3>1. pc'[d] # "checked"
        BY <1>3, <2>0, <2>2, Zenon
        DEF SendsRequest, Submit, CallStep, ReturnRecorded, BeginTransaction, CandidateMissing,
            InsertLockRow, LockCalendarDay, CommitHold, CommitConfirm, CommitCancel,
            CommitOwnerBatch, CommitCall, CallReturns, CheckFails, WriteFails, CallDeadlocks,
            CallTimesOut, AbortCall, RetryCall, GiveUp, CallCrashes
      <3>2. QED BY <3>1
    <2>3. QED BY <2>1, <2>2
  <1>4. CASE Advance BY <1>2, <1>4 DEF Advance, Rests
  <1>5. CASE UNCHANGED vars BY <1>2, <1>5 DEF vars, Rests
  <1>6. QED BY <1>1, <1>2, <1>3, <1>4, <1>5, CallMovesItself, JobMovesItself DEF Next

(* What is decided and read depends on each call's own transaction and, as *)
(* for a decision, on the rows.                                            *)
LEMMA RestKeeps ==
  ASSUME NEW c \in Clients, Rests(c)
  PROVE  /\ (HasRead(c)' <=> HasRead(c)) /\ BatchRead(c)' = BatchRead(c)
         /\ UNCHANGED <<holds, bookings>> => DecidedBy(c)' = DecidedBy(c)
  <1>1. (HasRead(c)' <=> HasRead(c))
    BY DEF Rests, HasRead, IsBatch, BatchMutable
  <1>2. BatchRead(c)' = BatchRead(c)
    BY DEF Rests, BatchRead
  <1>3. ASSUME UNCHANGED <<holds, bookings>> PROVE DecidedBy(c)' = DecidedBy(c)
    BY <1>3 DEF Rests, DecidedBy, HoldNamed, BookingNamed
  <1>4. QED BY <1>1, <1>2, <1>3

LEMMA NothingDecided ==
  ASSUME NEW c \in Clients
  PROVE  /\ pc[c] # "checked" => DecidedBy(c) = {}
         /\ IsBatch(c) => DecidedBy(c) = {}
         /\ pc'[c] # "checked" => DecidedBy(c)' = {}
         /\ IsBatch(c)' => DecidedBy(c)' = {}
  BY DEF DecidedBy, IsBatch

(* Beside a transaction that has the lock, no call has decided anything. *)
LEMMA LockDecides ==
  ASSUME PromiseInv, NEW p \in Procs, pc[p] \in {"locked", "checked"},
         NEW c \in Clients, c # p
  PROVE  DecidedBy(c) = {} /\ pc[c] # "checked"
  <1>1. c \in Procs BY DEF Procs
  <1>2. pc[c] # "checked"
    BY <1>1 DEF PromiseInv, LockInv, CalendarLockExclusive
  <1>3. QED BY <1>2, NothingDecided

(* What becomes of the batches' reads when one call moves. *)
LEMMA ReadsChange ==
  ASSUME NEW c \in Clients, \A d \in Clients \ {c} : Rests(d)
  PROVE  /\ (HasRead(c)' <=> HasRead(c)) /\ (HasRead(c) => BatchRead(c)' = BatchRead(c))
              => Reads' = Reads
         /\ HasRead(c) /\ ~HasRead(c)'
              => BatchRead(c) \in Reads /\ Reads' = Reads \ {BatchRead(c)}
         /\ ~HasRead(c) /\ HasRead(c)' => Reads' = Reads \cup {BatchRead(c)'}
  <1>1. \A d \in Clients \ {c} : (HasRead(d)' <=> HasRead(d)) /\ BatchRead(d)' = BatchRead(d)
    BY RestKeeps
  <1>2. \A d \in Clients : BatchRead(d).by = d
    BY DEF BatchRead
  <1> HIDE DEF HasRead, BatchRead
  <1>3. ASSUME HasRead(c)' <=> HasRead(c), HasRead(c) => BatchRead(c)' = BatchRead(c)
        PROVE  Reads' = Reads
    BY <1>1, <1>3 DEF Reads
  <1>4. ASSUME HasRead(c), ~HasRead(c)'
        PROVE  BatchRead(c) \in Reads /\ Reads' = Reads \ {BatchRead(c)}
    BY <1>1, <1>2, <1>4 DEF Reads
  <1>5. ASSUME ~HasRead(c), HasRead(c)'
        PROVE  Reads' = Reads \cup {BatchRead(c)'}
    BY <1>1, <1>5 DEF Reads
  <1>6. QED BY <1>3, <1>4, <1>5

(* A step outside the commits and the checks: the promise sees at most a   *)
(* decision or a read being dropped.                                       *)
LEMMA LeavingKeepsPromise ==
  ASSUME PromiseInv, NEW c \in Clients, \A d \in Clients \ {c} : Rests(d),
         UNCHANGED tableVars, pc'[c] \in {"idle", "ready", "caught"}
  PROVE  [Promise!LifecycleNext]_(Promise!promiseVars)
  <1>1. ~HasRead(c)' BY DEF HasRead
  <1>2. Reads' = Reads \/ (HasRead(c) /\ BatchRead(c) \in Reads /\ Reads' = Reads \ {BatchRead(c)})
    BY <1>1, ReadsChange
  <1>3. \A d \in Clients \ {c} : DecidedBy(d)' = DecidedBy(d)
    BY RestKeeps DEF tableVars
  <1>4. DecidedBy(c)' = {} BY NothingDecided
  <1>5. CASE DecidedBy(c) = {}
    <2>1. Decided' = Decided
      BY <1>3, <1>4, <1>5 DEF Decided
    <2>2. CASE Reads' = Reads
      BY <2>1, <2>2 DEF Promise!promiseVars, Promise!tableVars, tableVars
    <2>3. CASE BatchRead(c) \in Reads /\ Reads' = Reads \ {BatchRead(c)}
      BY <2>1, <2>3 DEF Promise!LifecycleNext, Promise!OwnerForgets, Promise!tableVars, tableVars
    <2>4. QED BY <1>2, <2>2, <2>3
  <1>6. CASE DecidedBy(c) # {}
    <2>1. pc[c] = "checked" /\ ~IsBatch(c) BY <1>6, NothingDecided
    <2>2. \A d \in Clients \ {c} : DecidedBy(d) = {}
      BY <2>1, LockDecides DEF Procs
    <2>3. Decided' = {}
      BY <1>3, <1>4, <2>2 DEF Decided
    <2>4. Reads' = Reads BY <1>2, <2>1 DEF HasRead
    <2>5. QED
      BY <2>3, <2>4 DEF Promise!LifecycleNext, Promise!Forget, Promise!tableVars, tableVars
  <1>7. QED BY <1>5, <1>6

(* A snapshot taken by a batch that finds the periods free is a read. *)
LEMMA BeginKeepsPromise ==
  ASSUME PromiseInv, NEW c \in Clients, \A d \in Clients \ {c} : Rests(d), BeginTransaction(c)
  PROVE  [Promise!LifecycleNext]_(Promise!promiseVars)
  <1>0. /\ pc \in [Procs -> Phase] /\ view \in [Procs -> ViewRow] /\ c \in Procs
        /\ IInv /\ call' = call /\ UNCHANGED tableVars /\ pc[c] = "ready"
    BY DEF PromiseInv, IInv, TypeOK, ProcTypeOK, Procs, BeginTransaction
  <1>1. pc'[c] = "begun" /\ view'[c] = Committed
    BY <1>0 DEF BeginTransaction
  <1>2. \A d \in Clients \ {c} : DecidedBy(d)' = DecidedBy(d)
    BY <1>0, RestKeeps DEF tableVars
  <1>3. DecidedBy(c) = {} /\ DecidedBy(c)' = {}
    BY <1>0, <1>1, NothingDecided
  <1>4. Decided' = Decided BY <1>2, <1>3 DEF Decided
  <1>5. ~HasRead(c) BY <1>0 DEF HasRead
  <1>6. CASE ~HasRead(c)'
    <2>1. Reads' = Reads BY <1>5, <1>6, ReadsChange
    <2>2. QED BY <1>0, <1>4, <2>1 DEF Promise!promiseVars, Promise!tableVars, tableVars
  <1>7. CASE HasRead(c)'
    <2> DEFINE r == call[c].request
    <2>1. Reads' = Reads \cup {BatchRead(c)'} BY <1>5, <1>7, ReadsChange
    <2>2. r.op \in {"open", "block"} /\ \A s \in r.slots : slot[s] \notin {"BOOKED", "HELD"}
      BY <1>0, <1>1, <1>7 DEF HasRead, IsBatch, BatchMutable, Committed
    <2>3. now < DayStart
      BY <2>2 DEF BeginTransaction, CandidateFound
    <2>4. r.slots \in SUBSET Slots /\ Desired(r.op) \in {"OPEN", "BLOCKED"}
      BY <1>0, <2>2, RequestTypes DEF IInv, Desired
    <2>5. BatchRead(c)' = [by |-> c, targets |-> r.slots, desired |-> Desired(r.op), seen |-> slot]
      BY <1>0, <1>1 DEF BatchRead, Committed
    <2> HIDE DEF r
    <2>6. Promise!OwnerReads(c, r.slots, Desired(r.op))
      BY <1>0, <1>4, <2>1, <2>2, <2>3, <2>5 DEF Promise!OwnerReads, Promise!tableVars, tableVars
    <2>7. QED BY <2>4, <2>6 DEF Promise!LifecycleNext
  <1>8. QED BY <1>6, <1>7

(* The check of a command is the instant at which it is decided. *)
LEMMA CheckKeepsPromise ==
  ASSUME PromiseInv, NEW c \in Clients, \A d \in Clients \ {c} : Rests(d), CheckCommand(c)
  PROVE  [Promise!LifecycleNext]_(Promise!promiseVars)
  <1> DEFINE r == call[c].request
  <1>0. /\ pc \in [Procs -> Phase] /\ call \in [Clients -> CallState] /\ c \in Procs
        /\ IInv /\ UNCHANGED <<tableVars, view>> /\ pc[c] = "locked" /\ CommandChecked(c)
    BY DEF PromiseInv, IInv, TypeOK, ProcTypeOK, Procs, CheckCommand
  <1>1. /\ pc'[c] = "checked" /\ call'[c].request = r
        /\ r.op = "hold" => call'[c].at = now
    BY <1>0 DEF CheckCommand, CallState
  <1>2. \A d \in Clients \ {c} : DecidedBy(d) = {} /\ DecidedBy(d)' = {}
    BY <1>0, LockDecides, RestKeeps DEF tableVars
  <1>3. Decided = {} /\ Decided' = DecidedBy(c)'
    BY <1>0, <1>2, NothingDecided DEF Decided
  <1>4. Reads' = Reads
    <2>1. (HasRead(c)' <=> HasRead(c)) /\ BatchRead(c)' = BatchRead(c)
      BY <1>0, <1>1 DEF HasRead, BatchRead, IsBatch, BatchMutable
    <2>2. QED BY <2>1, ReadsChange
  <1>5. CASE DecidedBy(c)' = {}
    BY <1>0, <1>3, <1>4, <1>5 DEF Promise!promiseVars, Promise!tableVars, tableVars
  <1>6. ASSUME NEW d, DecidedBy(c)' = {d} PROVE Promise!Decide(d)
    BY <1>0, <1>3, <1>4, <1>6 DEF Promise!Decide, Promise!tableVars, tableVars
  <1>7. CASE r.op = "hold"
    <2>1. PICK s \in Slots : r.slots = {s}
      BY <1>0, <1>7, RequestTypes DEF IInv
    <2>2. r.actor \in Professionals
      BY <1>0, <1>7, RequestTypes DEF IInv
    <2>3. now < StartsAt[s]
      BY <1>0, <1>7, <2>1 DEF CommandChecked, HoldChecked, IsBatch
    <2>4. DecidedBy(c)' = {[op |-> "hold", slot |-> s, owner |-> r.actor, expiresAt |-> now + HoldTtl]}
      BY <1>1, <1>7, <2>1 DEF DecidedBy
    <2>5. Promise!DecideHold(s, r.actor)
      BY <1>6, <2>3, <2>4 DEF Promise!DecideHold
    <2>6. QED BY <2>2, <2>5 DEF Promise!LifecycleNext
  <1>8. CASE r.op = "confirm" /\ DecidedBy(c)' # {}
    <2>1. DecidedBy(c)' = {[op |-> "confirm", row |-> h] :
                             h \in {g \in view[c].holds \cap holds : HoldNamed(c, g)}}
      BY <1>0, <1>1, <1>8 DEF DecidedBy, HoldNamed, tableVars
    <2>2. PICK h \in view[c].holds \cap holds : HoldNamed(c, h)
      BY <1>8, <2>1
    <2>3. PICK g \in view[c].holds : HoldNamed(c, g) /\ g.expiresAt > now
      BY <1>0, <1>8 DEF CommandChecked, ConfirmChecked, IsBatch
    <2>4. h = g
      BY <1>0, <2>2, <2>3 DEF HoldNamed, IInv, ViewHonest
    <2>5. \A k \in view[c].holds \cap holds : HoldNamed(c, k) => k = h
      BY <1>0, <2>2 DEF HoldNamed, IInv, RowsUnique
    <2>6. DecidedBy(c)' = {[op |-> "confirm", row |-> h]}
      BY <2>1, <2>2, <2>5
    <2>7. Promise!DecideConfirm(h)
      BY <1>6, <2>3, <2>4, <2>6 DEF Promise!DecideConfirm
    <2>8. QED BY <2>2, <2>7 DEF Promise!LifecycleNext
  <1>9. CASE r.op = "cancel" /\ DecidedBy(c)' # {}
    <2>1. DecidedBy(c)' = {[op |-> "cancel", row |-> b] :
                             b \in {d \in view[c].bookings \cap bookings : BookingNamed(c, d)}}
      BY <1>0, <1>1, <1>9 DEF DecidedBy, BookingNamed, tableVars
    <2>2. PICK b \in view[c].bookings \cap bookings : BookingNamed(c, b)
      BY <1>9, <2>1
    <2>3. PICK a \in view[c].bookings : BookingNamed(c, a) /\ now + CancelWindow < StartsAt[a.slot]
      BY <1>0, <1>9 DEF CommandChecked, CancelChecked, IsBatch
    <2>4. a.slot = b.slot
      BY <1>0, <2>2, <2>3 DEF BookingNamed, IInv, ViewHonest, RowsUnique
    <2>5. \A k \in view[c].bookings \cap bookings : BookingNamed(c, k) => k = b
      BY <1>0, <2>2 DEF BookingNamed, IInv, RowsUnique
    <2>6. DecidedBy(c)' = {[op |-> "cancel", row |-> b]}
      BY <2>1, <2>2, <2>5
    <2>7. Promise!DecideCancel(b)
      BY <1>6, <2>3, <2>4, <2>6 DEF Promise!DecideCancel
    <2>8. QED BY <2>2, <2>7 DEF Promise!LifecycleNext
  <1>10. CASE r.op \in {"open", "block"}
    <2>1. DecidedBy(c)' = {} BY <1>1, <1>10, NothingDecided DEF IsBatch
    <2>2. QED BY <1>5, <2>1
  <1>11. QED BY <1>0, <1>5, <1>7, <1>8, <1>9, <1>10 DEF CommandChecked, IsBatch

(* A commit is the decided command taking effect. *)
LEMMA CommitKeepsPromise ==
  ASSUME PromiseInv, NEW c \in Clients, \A d \in Clients \ {c} : Rests(d),
         CommitHold(c) \/ CommitConfirm(c) \/ CommitCancel(c) \/ CommitOwnerBatch(c)
  PROVE  [Promise!LifecycleNext]_(Promise!promiseVars)
  <1>0. /\ pc \in [Procs -> Phase] /\ c \in Procs /\ IInv /\ pc[c] = "checked"
    BY DEF PromiseInv, IInv, TypeOK, ProcTypeOK, Procs, CommitHold, CommitConfirm, CommitCancel,
           CommitOwnerBatch, AtWrites
  <1>1. pc'[c] = "idle"
    BY <1>0 DEF CommitHold, CommitConfirm, CommitCancel, CommitOwnerBatch, CommitCall, CallReturns
  <1>2. \A d \in Clients \ {c} : DecidedBy(d) = {} /\ pc'[d] # "checked"
    BY <1>0, LockDecides DEF Rests
  <1>3. Decided = DecidedBy(c) /\ Decided' = {}
    BY <1>1, <1>2, NothingDecided DEF Decided
  <1>4. ~HasRead(c)' BY <1>1 DEF HasRead
  <1>5. ~IsBatch(c) => Reads' = Reads
    BY <1>4, ReadsChange DEF HasRead
  <1>6. CASE CommitHold(c)
    <2>1. call[c].request.op = "hold" BY <1>6 DEF CommitHold, AtWrites
    <2>2. PICK s \in call[c].request.slots :
            GrantHold(s, call[c].request.actor, call[c].at + HoldTtl)
      BY <1>0, <1>6, HoldGrants
    <2> DEFINE d == [op |-> "hold", slot |-> s, owner |-> call[c].request.actor,
                     expiresAt |-> call[c].at + HoldTtl]
    <2>3. d \in Decided BY <1>0, <1>3, <2>1 DEF DecidedBy
    <2>4. Promise!HoldSlot(d)
      BY <1>3, <1>5, <2>1, <2>2 DEF Promise!HoldSlot, Promise!GrantHold, GrantHold, IsBatch
    <2>5. QED BY <2>3, <2>4 DEF Promise!LifecycleNext
  <1>7. CASE CommitConfirm(c)
    <2>1. call[c].request.op = "confirm" BY <1>7 DEF CommitConfirm, AtWrites
    <2>2. PICK h \in view[c].holds \cap holds : HoldNamed(c, h) /\ BookHold(h)
      BY <1>0, <1>7, ConfirmBooks
    <2> DEFINE d == [op |-> "confirm", row |-> h]
    <2>3. d \in Decided BY <1>0, <1>3, <2>1, <2>2 DEF DecidedBy
    <2>4. Promise!ConfirmHold(d)
      BY <1>3, <1>5, <2>1, <2>2 DEF Promise!ConfirmHold, Promise!BookHold, BookHold, IsBatch
    <2>5. QED BY <2>3, <2>4 DEF Promise!LifecycleNext
  <1>8. CASE CommitCancel(c)
    <2>1. call[c].request.op = "cancel" BY <1>8 DEF CommitCancel, AtWrites
    <2>2. PICK b \in view[c].bookings \cap bookings : BookingNamed(c, b) /\ WithdrawBooking(b)
      BY <1>0, <1>8, CancelWithdraws
    <2> DEFINE d == [op |-> "cancel", row |-> b]
    <2>3. d \in Decided BY <1>0, <1>3, <2>1, <2>2 DEF DecidedBy
    <2>4. Promise!CancelBooking(d)
      BY <1>3, <1>5, <2>1, <2>2
      DEF Promise!CancelBooking, Promise!WithdrawBooking, WithdrawBooking, IsBatch
    <2>5. QED BY <2>3, <2>4 DEF Promise!LifecycleNext
  <1>9. CASE CommitOwnerBatch(c)
    <2> DEFINE req == call[c].request
               r == BatchRead(c)
               targets == {s \in r.targets : slot[s] = r.seen[s]}
    <2>1. IsBatch(c) /\ BatchMutable(c)
      BY <1>0, <1>9 DEF CommitOwnerBatch, PromiseInv, CheckedHonest
    <2>2. HasRead(c) BY <1>0, <2>1 DEF HasRead
    <2>3. r \in Reads /\ Reads' = Reads \ {r}
      BY <1>4, <2>2, ReadsChange
    <2>4. Decided = {} BY <1>3, <2>1, NothingDecided
    <2>5. r.targets = req.slots /\ r.desired = Desired(req.op) /\ r.seen = view[c].slot
      BY DEF BatchRead
    <2>6. req.slots \subseteq Slots /\ view[c].slot \in [Slots -> SlotStatus]
      BY <1>0, <2>1, RequestTypes DEF IsBatch, IInv, TypeOK, ProcTypeOK, ViewRow
    <2>7. SetFreeSlots({s \in Slots : BatchWrites(c, s)}, Desired(req.op))
      BY <1>0, <1>9, BatchSets
    <2>8. \A s \in targets : slot[s] \notin {"HELD", "BOOKED"}
      BY <2>1, <2>5 DEF BatchMutable
    <2>9. \A s \in Slots : IF s \in targets THEN BatchWrites(c, s) \/ slot[s] = Desired(req.op)
                           ELSE ~BatchWrites(c, s)
      BY <2>1, <2>5, <2>6
      DEF BatchWrites, BatchMutable, IsBatch, Desired, Opposite, SlotStatus
    <2>10. slot' = [s \in Slots |-> IF s \in targets THEN r.desired ELSE slot[s]]
      BY <2>5, <2>7, <2>9 DEF SetFreeSlots
    <2> HIDE DEF r, req
    <2>11. Promise!OwnerChange(r)
      BY <1>3, <2>3, <2>4, <2>7, <2>8, <2>10
      DEF Promise!OwnerChange, Promise!SetFreeSlots, SetFreeSlots
    <2>12. QED BY <2>3, <2>11 DEF Promise!LifecycleNext
  <1>10. QED BY <1>6, <1>7, <1>8, <1>9

(* While nobody's transaction moves, the promise sees only the rows. *)
LEMMA AllRest ==
  ASSUME \A d \in Clients : Rests(d)
  PROVE  /\ Reads' = Reads
         /\ UNCHANGED <<holds, bookings>> => Decided' = Decided
  <1>1. Reads' = Reads
    BY RestKeeps DEF Reads
  <1>2. QED BY <1>1, RestKeeps DEF Decided

(* A worker that has the lock finds nothing decided. *)
LEMMA JobKeepsPromise ==
  ASSUME PromiseInv, NEW w \in Workers, JobStep(w) \/ JobFails(w)
  PROVE  [Promise!LifecycleNext]_(Promise!promiseVars)
  <1>0. IInv /\ w \in Procs /\ \A d \in Clients : Rests(d) /\ d # w
    BY JobMovesItself, TransactionsAssumption DEF PromiseInv, Procs
  <1>1. CASE CommitExpiry(w) \/ CommitCompletion(w)
    <2>1. pc[w] = "locked" BY <1>1 DEF CommitExpiry, CommitCompletion
    <2>2. \A d \in Clients : DecidedBy(d) = {} /\ pc'[d] # "checked"
      BY <1>0, <2>1, LockDecides DEF Rests
    <2>3. Decided = {} /\ Decided' = {}
      BY <2>2, NothingDecided DEF Decided
    <2>4. Reads' = Reads BY <1>0, AllRest
    <2>5. CASE CommitExpiry(w)
      <3>1. PICK h \in holds : h.expiresAt <= now /\ DropHold(h)
        BY <1>0, <2>5, ExpiryDrops
      <3>2. Promise!ReleaseHold(h)
        BY <2>3, <2>4, <3>1 DEF Promise!ReleaseHold, Promise!DropHold, DropHold
      <3>3. QED BY <3>2 DEF Promise!LifecycleNext
    <2>6. CASE CommitCompletion(w)
      <3>1. PICK b \in bookings : EndsAt[b.slot] <= now /\ EndBooking(b)
        BY <1>0, <2>6, CompletionEnds
      <3>2. Promise!CompleteBooking(b)
        BY <2>3, <2>4, <3>1 DEF Promise!CompleteBooking, Promise!EndBooking, EndBooking
      <3>3. QED BY <3>2 DEF Promise!LifecycleNext
    <2>7. QED BY <1>1, <2>5, <2>6
  <1>2. CASE ~CommitExpiry(w) /\ ~CommitCompletion(w)
    <2>1. UNCHANGED tableVars
      BY <1>2, Zenon
      DEF JobStep, StartExpireBatch, StartCompleteBatch, StartBatch, TakeCandidate,
          InsertLockRow, LockCalendarDay, SkipCandidate, CommitJob, JobFails, EndFailedTick,
          tableVars
    <2>2. QED
      BY <1>0, <2>1, AllRest DEF Promise!promiseVars, Promise!tableVars, tableVars
  <1>3. QED BY <1>1, <1>2

LEMMA CallKeepsPromise ==
  ASSUME PromiseInv, NEW c \in Clients, SendsRequest(c) \/ CallStep(c) \/ CallCrashes(c)
  PROVE  [Promise!LifecycleNext]_(Promise!promiseVars)
  <1>0. /\ \A d \in Clients \ {c} : Rests(d)
        /\ pc \in [Procs -> Phase] /\ c \in Procs
    BY CallMovesItself DEF PromiseInv, IInv, TypeOK, ProcTypeOK, Procs
  <1>1. CASE BeginTransaction(c) BY <1>0, <1>1, BeginKeepsPromise
  <1>2. CASE CheckCommand(c) BY <1>0, <1>2, CheckKeepsPromise
  <1>3. CASE CommitHold(c) \/ CommitConfirm(c) \/ CommitCancel(c) \/ CommitOwnerBatch(c)
    BY <1>0, <1>3, CommitKeepsPromise
  <1>4. CASE InsertLockRow(c) \/ LockCalendarDay(c)
    <2>1. /\ UNCHANGED <<tableVars, view, call>>
          /\ pc[c] \in {"begun", "shared"} /\ pc'[c] \in {"shared", "locked"}
      BY <1>0, <1>4 DEF InsertLockRow, LockCalendarDay
    <2>2. \A d \in Clients : DecidedBy(d)' = DecidedBy(d)
      BY <1>0, <2>1, RestKeeps, NothingDecided DEF tableVars
    <2>3. (HasRead(c)' <=> HasRead(c)) /\ BatchRead(c)' = BatchRead(c)
      BY <2>1 DEF HasRead, BatchRead, IsBatch, BatchMutable
    <2>4. Decided' = Decided /\ Reads' = Reads
      BY <1>0, <2>2, <2>3, ReadsChange DEF Decided
    <2>5. QED BY <2>1, <2>4 DEF Promise!promiseVars, Promise!tableVars, tableVars
  <1>5. CASE SendsRequest(c) \/ ReturnRecorded(c) \/ RetryCall(c) \/ GiveUp(c) \/ CallCrashes(c)
    <2>1. UNCHANGED tableVars /\ pc'[c] \in {"idle", "ready", "caught"}
      BY <1>0, <1>5
      DEF SendsRequest, Submit, ReturnRecorded, RetryCall, GiveUp, CallCrashes, CallReturns
    <2>2. QED BY <1>0, <2>1, LeavingKeepsPromise
  <1>6. CASE \/ CandidateMissing(c) \/ CallDeadlocks(c) \/ CallTimesOut(c)
             \/ CheckFails(c) \/ WriteFails(c)
    <2>1. UNCHANGED tableVars /\ pc'[c] \in {"idle", "ready", "caught"}
      BY <1>0, <1>6
      DEF CandidateMissing, CallDeadlocks, CallTimesOut, CheckFails, WriteFails, AbortCall
    <2>2. QED BY <1>0, <2>1, LeavingKeepsPromise
  <1>7. QED BY <1>1, <1>2, <1>3, <1>4, <1>5, <1>6 DEF CallStep

LEMMA PromiseStep == PromiseInv /\ [Next]_vars => [Promise!LifecycleNext]_(Promise!promiseVars)
  <1> SUFFICES ASSUME PromiseInv, [Next]_vars
               PROVE  [Promise!LifecycleNext]_(Promise!promiseVars)
    OBVIOUS
  <1>1. CASE Advance
    <2>1. \A d \in Clients : Rests(d) BY <1>1 DEF Advance, Rests
    <2>2. Decided' = Decided /\ Reads' = Reads BY <1>1, <2>1, AllRest DEF Advance
    <2>3. QED BY <1>1, <2>2 DEF Advance, Promise!LifecycleNext, Promise!Tick
  <1>2. CASE UNCHANGED vars
    <2>1. \A d \in Clients : Rests(d) BY <1>2 DEF vars, Rests
    <2>2. QED
      BY <1>2, <2>1, AllRest DEF vars, tableVars, Promise!promiseVars, Promise!tableVars
  <1>3. QED BY <1>1, <1>2, CallKeepsPromise, JobKeepsPromise DEF Next

(* The transactions with their snapshots, lock waits, deadlocks, retries   *)
(* and crashes keep the promise of SlotLifecycle: a command takes effect   *)
(* only as it was decided under the lock, on rows that nobody has touched  *)
(* since, however long its caller took; an owner's batch sets exactly the  *)
(* periods that are still as it read them.                                 *)
THEOREM Implements == Spec => ImplementsLifecycle
  <1>1. Init => LockInv /\ CheckedHonest
    BY DEF Init, LockInv, CalendarLockExclusive, CheckedHonest, Procs
  <1>2. Init => Promise!LifecycleInit
    <2> SUFFICES ASSUME Init PROVE Promise!LifecycleInit
      OBVIOUS
    <2>1. \A c \in Clients : DecidedBy(c) = {} /\ ~HasRead(c)
      BY NothingDecided DEF Init, Procs, HasRead
    <2>2. Decided = {} /\ Reads = {}
      BY <2>1 DEF Decided, Reads
    <2>3. QED BY <2>2 DEF Init, TablesInit, Promise!LifecycleInit, Promise!TablesInit
  <1>3. IInv /\ LockInv /\ CheckedHonest /\ [Next]_vars => LockInv' /\ CheckedHonest'
    BY LockStep, CheckedHonestStep DEF PromiseInv
  <1>4. IInv /\ LockInv /\ CheckedHonest /\ [Next]_vars
          => [Promise!LifecycleNext]_(Promise!promiseVars)
    BY PromiseStep DEF PromiseInv
  <1>5. QED
    BY IInvHolds, <1>1, <1>2, <1>3, <1>4, PTL DEF Spec, ImplementsLifecycle, Promise!LifecycleSpec

-----------------------------------------------------------------------------
(* What the audit log says of an id it says once and truly: ids are used   *)
(* in order, and a transition that is logged has left its booking.         *)
AuditHonest ==
  /\ nextHold > 0
  /\ \A a \in audit : a.id < nextHold
  /\ \A id \in Nat : Logged("BOOKING_CONFIRMED", id) => \E b \in bookings : b.id = id
  /\ \A id \in Nat : Logged("BOOKING_CANCELLED", id) =>
       \E b \in bookings : b.id = id /\ b.status = "CANCELLED"

(* One command's effects and its records name each other once. *)
OneEffect(op, action) ==
  /\ \A id : Logged(action, id) => \E rec \in idem : rec.request.op = op /\ rec.response = id
  /\ \A p, q \in idem :
       p.request.op = op /\ q.request.op = op /\ p.response = q.response => p = q
  /\ \A rec \in idem : rec.request.op = op => Logged(action, rec.response)

OneRecord == \A p, q \in idem : SameRecord(p.request, q.request) => p = q

EffectsMatch ==
  /\ OneRecord /\ OneEffect("hold", "SLOT_HELD")
  /\ OneEffect("confirm", "BOOKING_CONFIRMED") /\ OneEffect("cancel", "BOOKING_CANCELLED")

HistoryInv == AuditHonest /\ HoldEndsOnce /\ EffectsMatch /\ OutboxTellsBooking

(* Before anything is committed there is nothing to tell. *)
LEMMA HistoryInit == Init => HistoryInv
  <1> SUFFICES ASSUME Init PROVE HistoryInv
    OBVIOUS
  <1>1. audit = {} /\ idem = {} /\ outbox = <<>> /\ bookings = {} /\ nextHold = 1
    BY DEF Init, TablesInit
  <1>2. AuditHonest BY <1>1 DEF AuditHonest, Logged
  <1>3. HoldEndsOnce BY <1>1 DEF HoldEndsOnce
  <1>4. EffectsMatch BY <1>1 DEF EffectsMatch, OneRecord, OneEffect, Logged
  <1>5. OutboxTellsBooking BY <1>1 DEF OutboxTellsBooking
  <1>6. QED BY <1>2, <1>3, <1>4, <1>5 DEF HistoryInv

(* A step that is not a commit leaves the ids, the rows and the logs. *)
LEMMA OnlyCommitsWrite ==
  ASSUME IInv, [Next]_vars
  PROVE  \/ UNCHANGED <<holds, bookings, nextHold, idem, audit, outbox>>
         \/ \E c \in Clients : \/ CommitHold(c) \/ CommitConfirm(c)
                               \/ CommitCancel(c) \/ CommitOwnerBatch(c)
         \/ \E w \in Workers : CommitExpiry(w) \/ CommitCompletion(w)
  <1>1. CASE Advance BY <1>1 DEF Advance, logVars
  <1>2. CASE UNCHANGED vars BY <1>2 DEF vars, tableVars, logVars
  <1>3. ASSUME NEW c \in Clients, SendsRequest(c) \/ CallStep(c) \/ CallCrashes(c)
        PROVE  \/ UNCHANGED <<tableVars, logVars>>
               \/ CommitHold(c) \/ CommitConfirm(c) \/ CommitCancel(c) \/ CommitOwnerBatch(c)
    <2>1. CASE SendsRequest(c) BY <2>1 DEF SendsRequest, Submit
    <2>2. CASE \/ ReturnRecorded(c) \/ BeginTransaction(c) \/ InsertLockRow(c)
               \/ LockCalendarDay(c) \/ CheckCommand(c) \/ RetryCall(c) \/ GiveUp(c)
               \/ CallCrashes(c)
      BY <2>2 DEF ReturnRecorded, BeginTransaction, InsertLockRow, LockCalendarDay,
                  CheckCommand, RetryCall, GiveUp, CallCrashes
    <2>3. CASE \/ CandidateMissing(c) \/ CheckFails(c) \/ WriteFails(c)
               \/ CallDeadlocks(c) \/ CallTimesOut(c)
      BY <2>3 DEF CandidateMissing, CheckFails, WriteFails, CallDeadlocks, CallTimesOut, AbortCall
    <2>4. QED BY <1>3, <2>1, <2>2, <2>3 DEF CallStep
  <1>4. ASSUME NEW w \in Workers, JobStep(w) \/ JobFails(w)
        PROVE  \/ UNCHANGED <<holds, bookings, nextHold, idem, audit, outbox>>
               \/ CommitExpiry(w) \/ CommitCompletion(w)
    <2>1. CASE SkipCandidate(w) BY <2>1 DEF SkipCandidate, CommitJob
    <2>2. CASE StartExpireBatch(w) \/ StartCompleteBatch(w)
      BY <2>2 DEF StartExpireBatch, StartCompleteBatch, StartBatch, tableVars, logVars
    <2>3. CASE \/ TakeCandidate(w) \/ InsertLockRow(w) \/ LockCalendarDay(w)
               \/ JobFails(w) \/ EndFailedTick(w)
      BY <2>3 DEF TakeCandidate, InsertLockRow, LockCalendarDay, JobFails, EndFailedTick,
                  tableVars, logVars
    <2>4. QED BY <1>4, <2>1, <2>2, <2>3 DEF JobStep
  <1>5. QED BY <1>1, <1>2, <1>3, <1>4 DEF Next, tableVars, logVars

-----------------------------------------------------------------------------
(* What each commit writes, read off the tables as they stand. *)
LEMMA HoldWrites ==
  ASSUME IInv, NEW c \in Clients, CommitHold(c)
  PROVE  /\ \E h \in HoldRow : h.id = nextHold /\ holds' = holds \cup {h}
         /\ nextHold' = nextHold + 1 /\ bookings' = bookings /\ outbox' = outbox
         /\ audit' = audit \cup {[action |-> "SLOT_HELD", id |-> nextHold]}
         /\ CommitCall(c, nextHold) /\ call[c].request \in Request
         /\ call[c].request.op = "hold"
  <1>1. call[c].request.op = "hold" BY DEF CommitHold, AtWrites
  <1>2. /\ call[c].request \in Request /\ call[c].request.slots \subseteq Slots
        /\ call[c].request.actor \in Professionals
    BY <1>1, RequestTypes DEF IInv
  <1>3. PICK s \in call[c].request.slots :
          holds' = holds \cup {[id |-> nextHold, slot |-> s,
                                owner |-> call[c].request.actor, expiresAt |-> call[c].at + HoldTtl]}
    BY DEF CommitHold
  <1>4. call[c].at + HoldTtl \in Nat /\ nextHold \in Nat
    BY <1>1, RequestTypes, DayAssumption DEF IInv, TypeOK, TablesTypeOK
  <1>5. [id |-> nextHold, slot |-> s,
         owner |-> call[c].request.actor, expiresAt |-> call[c].at + HoldTtl] \in HoldRow
    BY <1>2, <1>3, <1>4 DEF HoldRow
  <1>6. \E h \in HoldRow : h.id = nextHold /\ holds' = holds \cup {h}
    BY <1>3, <1>5
  <1>7. QED BY <1>1, <1>2, <1>6 DEF CommitHold

(* A confirmation turns one hold into the booking of the same id.          *)
LEMMA ConfirmWrites ==
  ASSUME IInv, NEW c \in Clients, CommitConfirm(c)
  PROVE  \E h \in holds :
           /\ holds' = holds \ {h} /\ nextHold' = nextHold
           /\ \E d \in BookingRow : /\ d.id = h.id /\ d.status = "CONFIRMED"
                                   /\ bookings' = bookings \cup {d}
           /\ audit' = audit \cup {[action |-> "BOOKING_CONFIRMED", id |-> h.id]}
           /\ outbox' = Append(outbox, [topic |-> "BOOKING_CONFIRMED", id |-> h.id])
           /\ CommitCall(c, h.id) /\ call[c].request \in Request
           /\ call[c].request.op = "confirm"
  <1>1. PICK h \in view[c].holds :
          /\ HoldNamed(c, h) /\ SlotNeverBooked(h.slot) /\ ConfirmWritable(c, h)
          /\ bookings' = bookings \cup {[id |-> h.id, slot |-> h.slot,
                                         owner |-> call[c].request.actor, status |-> "CONFIRMED"]}
          /\ holds' = {g \in holds : g.id # h.id}
          /\ audit' = audit \cup {[action |-> "BOOKING_CONFIRMED", id |-> h.id]}
          /\ outbox' = Append(outbox, [topic |-> "BOOKING_CONFIRMED", id |-> h.id])
          /\ CommitCall(c, h.id)
    BY DEF CommitConfirm, WithoutHold
  <1>2. h \in holds
    BY <1>1 DEF ConfirmWritable, IInv, ViewHonest, Procs
  <1>3. holds' = holds \ {h}
    BY <1>1, <1>2 DEF IInv, RowsUnique
  <1>4. h.owner = call[c].request.actor
    BY <1>1 DEF HoldNamed
  <1>5. call[c].request.op = "confirm" /\ nextHold' = nextHold
    BY DEF CommitConfirm, AtWrites
  <1>6. call[c].request \in Request BY <1>5, RequestTypes DEF IInv
  <1>7. [id |-> h.id, slot |-> h.slot, owner |-> h.owner, status |-> "CONFIRMED"] \in BookingRow
    BY <1>2 DEF IInv, TypeOK, TablesTypeOK, HoldRow, BookingRow, BookingStatus
  <1>8. \E d \in BookingRow : /\ d.id = h.id /\ d.status = "CONFIRMED"
                             /\ bookings' = bookings \cup {d}
    BY <1>1, <1>4, <1>7
  <1>9. QED BY <1>1, <1>2, <1>3, <1>5, <1>6, <1>8

(* The row of a booking that ended, as the update leaves it. *)
LEMMA EndedRow ==
  ASSUME NEW b \in BookingRow, NEW status \in BookingStatus,
         bookings' = (bookings \ {b}) \cup {[b EXCEPT !.status = status]}
  PROVE  \E d \in BookingRow : /\ d.id = b.id /\ d.status = status
                              /\ bookings' = (bookings \ {b}) \cup {d}
  <1> DEFINE ended == [b EXCEPT !.status = status]
  <1>1. ended \in BookingRow /\ ended.id = b.id /\ ended.status = status
    BY DEF BookingRow
  <1>2. bookings' = (bookings \ {b}) \cup {ended} OBVIOUS
  <1> HIDE DEF ended
  <1>3. QED BY <1>1, <1>2

(* A cancellation ends one confirmed booking. *)
LEMMA CancelWrites ==
  ASSUME IInv, NEW c \in Clients, CommitCancel(c)
  PROVE  \E b \in bookings :
           /\ b.status = "CONFIRMED" /\ holds' = holds /\ nextHold' = nextHold
           /\ \E d \in BookingRow : /\ d.id = b.id /\ d.status = "CANCELLED"
                                   /\ bookings' = (bookings \ {b}) \cup {d}
           /\ audit' = audit \cup {[action |-> "BOOKING_CANCELLED", id |-> b.id]}
           /\ outbox' = Append(outbox, [topic |-> "BOOKING_CANCELLED", id |-> b.id])
           /\ CommitCall(c, b.id) /\ call[c].request \in Request
           /\ call[c].request.op = "cancel"
  <1>1. PICK b \in view[c].bookings :
          /\ BookingNamed(c, b) /\ CancelWritable(c, b)
          /\ bookings' = (bookings \ {b}) \cup {[b EXCEPT !.status = "CANCELLED"]}
          /\ audit' = audit \cup {[action |-> "BOOKING_CANCELLED", id |-> b.id]}
          /\ outbox' = Append(outbox, [topic |-> "BOOKING_CANCELLED", id |-> b.id])
          /\ CommitCall(c, b.id)
    BY DEF CommitCancel
  <1>2. b \in bookings /\ b.status = "CONFIRMED"
    BY <1>1 DEF BookingNamed, CancelWritable
  <1>3. call[c].request.op = "cancel" /\ holds' = holds /\ nextHold' = nextHold
    BY DEF CommitCancel, AtWrites
  <1>4. call[c].request \in Request BY <1>3, RequestTypes DEF IInv
  <1>5. \E d \in BookingRow : /\ d.id = b.id /\ d.status = "CANCELLED"
                             /\ bookings' = (bookings \ {b}) \cup {d}
    <2>1. b \in BookingRow BY <1>2 DEF IInv, TypeOK, TablesTypeOK
    <2>2. QED BY <1>1, <2>1, EndedRow, Zenon DEF BookingStatus
  <1>6. QED BY <1>1, <1>2, <1>3, <1>4, <1>5

(* So does a completion, which answers no call. *)
LEMMA CompletionWrites ==
  ASSUME IInv, NEW w \in Workers, CommitCompletion(w)
  PROVE  \E b \in bookings :
           /\ b.status = "CONFIRMED" /\ UNCHANGED <<holds, nextHold, idem>>
           /\ \E d \in BookingRow : /\ d.id = b.id /\ d.status = "COMPLETED"
                                   /\ bookings' = (bookings \ {b}) \cup {d}
           /\ audit' = audit \cup {[action |-> "BOOKING_COMPLETED", id |-> b.id]}
           /\ outbox' = Append(outbox, [topic |-> "BOOKING_COMPLETED", id |-> b.id])
  <1>1. UNCHANGED <<holds, nextHold, idem>> BY DEF CommitCompletion, CommitJob
  <1>2. PICK b \in bookings :
          /\ b.status = "CONFIRMED"
          /\ bookings' = (bookings \ {b}) \cup {[b EXCEPT !.status = "COMPLETED"]}
          /\ audit' = audit \cup {[action |-> "BOOKING_COMPLETED", id |-> b.id]}
          /\ outbox' = Append(outbox, [topic |-> "BOOKING_COMPLETED", id |-> b.id])
    BY DEF CommitCompletion, CompleteWritable
  <1>3. \E d \in BookingRow : /\ d.id = b.id /\ d.status = "COMPLETED"
                             /\ bookings' = (bookings \ {b}) \cup {d}
    <2>1. b \in BookingRow BY DEF IInv, TypeOK, TablesTypeOK
    <2>2. QED BY <1>2, <2>1, EndedRow, Zenon DEF BookingStatus
  <1>4. QED BY <1>1, <1>2, <1>3

(* An expiry takes away one hold and tells the audit log only. *)
LEMMA ExpiryWrites ==
  ASSUME IInv, NEW w \in Workers, CommitExpiry(w)
  PROVE  \E h \in holds :
           /\ holds' = holds \ {h} /\ UNCHANGED <<bookings, nextHold, idem, outbox>>
           /\ audit' = audit \cup {[action |-> "SLOT_HOLD_EXPIRED", id |-> h.id]}
  <1>1. PICK x \in job[w].current :
          /\ ExpireWritable(w, x)
          /\ holds' = {h \in holds : ~(h.id = x.id /\ h.expiresAt <= job[w].at)}
          /\ audit' = audit \cup {[action |-> "SLOT_HOLD_EXPIRED", id |-> x.id]}
    BY DEF CommitExpiry
  <1>2. PICK h \in holds : h.id = x.id /\ h.expiresAt <= job[w].at
    BY <1>1 DEF ExpireWritable
  <1>3. holds' = holds \ {h}
    BY <1>1, <1>2 DEF IInv, RowsUnique
  <1>4. UNCHANGED <<bookings, nextHold, idem, outbox>>
    BY DEF CommitExpiry, CommitJob
  <1>5. QED BY <1>1, <1>2, <1>3, <1>4

-----------------------------------------------------------------------------
(* EffectsOncePerRecord, one command at a time. *)
LEMMA EffectsSplit ==
  ASSUME TypeOK
  PROVE  EffectsOncePerRecord <=> EffectsMatch
  <1>1. \A a \in audit : a = [action |-> a.action, id |-> a.id]
    BY DEF TypeOK, LogTypeOK, AuditRow
  <1>2. ASSUME NEW e \in CommandEffects
        PROVE (\A a \in audit : a.action = e[2] =>
                 \E rec \in idem : rec.request.op = e[1] /\ rec.response = a.id)
              <=> \A id : Logged(e[2], id) =>
                    \E rec \in idem : rec.request.op = e[1] /\ rec.response = id
    BY <1>1 DEF Logged
  <1>3. EffectsOncePerRecord <=> OneRecord /\ \A e \in CommandEffects : OneEffect(e[1], e[2])
    BY <1>2 DEF EffectsOncePerRecord, OneRecord, OneEffect
  <1>4. QED BY <1>3 DEF CommandEffects, EffectsMatch

(* A commit adds its record only where no call has left the same one.      *)
LEMMA RecordAdded ==
  ASSUME OneRecord, NEW c \in Clients, NEW response, CommitCall(c, response)
  PROVE  OneRecord'
  <1>1. ASSUME NEW r, NEW q PROVE SameRecord(r, q) <=> SameRecord(q, r)
    BY DEF SameRecord
  <1>2. \A p \in idem : ~SameRecord(p.request, call[c].request)
    BY DEF CommitCall, Recorded
  <1>3. idem' = idem \cup {[request |-> call[c].request, response |-> response]}
    BY DEF CommitCall
  <1>4. QED BY <1>1, <1>2, <1>3 DEF OneRecord

(* A command that is new to the audit log adds its effect and its record,  *)
(* ...                                                                     *)
LEMMA EffectAdded ==
  ASSUME NEW op, NEW action, OneEffect(op, action), NEW request, NEW response,
         request.op = op, ~Logged(action, response),
         idem' = idem \cup {[request |-> request, response |-> response]},
         audit' = audit \cup {[action |-> action, id |-> response]}
  PROVE  OneEffect(op, action)'
  <1> DEFINE new == [request |-> request, response |-> response]
  <1>1. new.request = request /\ new.response = response OBVIOUS
  <1>2. \A id : Logged(action, id)' <=> Logged(action, id) \/ id = response
    BY DEF Logged
  <1>3. idem' = idem \cup {new} OBVIOUS
  <1> HIDE DEF new
  <1>4. ASSUME NEW id, Logged(action, id)'
        PROVE  \E rec \in idem' : rec.request.op = op /\ rec.response = id
    BY <1>1, <1>2, <1>3, <1>4 DEF OneEffect
  <1>5. ASSUME NEW rec \in idem', rec.request.op = op PROVE Logged(action, rec.response)'
    BY <1>1, <1>2, <1>3, <1>5 DEF OneEffect
  <1>6. ASSUME NEW p \in idem', NEW q \in idem',
               p.request.op = op, q.request.op = op, p.response = q.response
        PROVE  p = q
    <2>1. \A rec \in idem : rec.request.op = op => rec.response # response
      BY DEF OneEffect
    <2>2. QED BY <1>1, <1>3, <1>6, <2>1 DEF OneEffect
  <1>7. QED BY <1>4, <1>5, <1>6 DEF OneEffect

(* ... and the commands beside it, or a worker, leave both alone.          *)
LEMMA EffectKept ==
  ASSUME NEW op, NEW action, OneEffect(op, action),
         NEW request, NEW response, request.op # op,
         idem' \in {idem, idem \cup {[request |-> request, response |-> response]}},
         NEW other, NEW id, other # action,
         audit' \in {audit, audit \cup {[action |-> other, id |-> id]}}
  PROVE  OneEffect(op, action)'
  <1> DEFINE new == [request |-> request, response |-> response]
  <1>1. new.request.op # op OBVIOUS
  <1>2. \A i : Logged(action, i)' <=> Logged(action, i)
    BY DEF Logged
  <1>3. idem' \in {idem, idem \cup {new}} OBVIOUS
  <1>4. QED BY <1>1, <1>2, <1>3 DEF OneEffect

-----------------------------------------------------------------------------
(* A booking's first event, and its second. *)
LEMMA StoryBegins ==
  ASSUME TypeOK, OutboxTellsBooking, NEW d \in BookingRow, d.status = "CONFIRMED",
         \A b \in bookings : b.id # d.id, bookings' = bookings \cup {d},
         outbox' = Append(outbox, [topic |-> "BOOKING_CONFIRMED", id |-> d.id])
  PROVE  OutboxTellsBooking'
  <1> DEFINE event == [topic |-> "BOOKING_CONFIRMED", id |-> d.id]
  <1>1. outbox \in Seq(OutboxRow) /\ Len(outbox) \in Nat /\ DOMAIN outbox = 1 .. Len(outbox)
    BY DEF TypeOK, LogTypeOK
  <1>2. event \in OutboxRow /\ event.topic = "BOOKING_CONFIRMED" /\ event.id = d.id
    BY DEF OutboxRow, Topic, BookingRow
  <1>3. outbox' = Append(outbox, event) OBVIOUS
  <1> HIDE DEF event
  <1>4. PICK new \in Nat :
          /\ DOMAIN outbox' = DOMAIN outbox \cup {new} /\ new \notin DOMAIN outbox
          /\ outbox'[new] = event
          /\ \A i \in DOMAIN outbox : outbox'[i] = outbox[i] /\ i <= new
    <2>1. Len(outbox) + 1 \in Nat BY <1>1
    <2>2. /\ DOMAIN outbox' = DOMAIN outbox \cup {Len(outbox) + 1}
          /\ Len(outbox) + 1 \notin DOMAIN outbox /\ outbox'[Len(outbox) + 1] = event
          /\ \A i \in DOMAIN outbox : outbox'[i] = outbox[i] /\ i <= Len(outbox) + 1
      BY <1>1, <1>2, <1>3
    <2>3. QED BY <2>1, <2>2
  <1>5. \A id : EventsOf(id)' = IF id = d.id THEN EventsOf(id) \cup {new} ELSE EventsOf(id)
    BY <1>2, <1>4 DEF EventsOf
  <1>6. EventsOf(d.id) = {}
    BY DEF OutboxTellsBooking, EventsOf
  <1>7. ASSUME NEW b \in bookings
        PROVE \E first, last \in DOMAIN outbox' : TellsOf(b, first, last)'
    <2>1. PICK first \in DOMAIN outbox, last \in DOMAIN outbox : TellsOf(b, first, last)
      BY DEF OutboxTellsBooking
    <2>2. EventsOf(b.id)' = EventsOf(b.id) BY <1>5
    <2>3. outbox'[first] = outbox[first] /\ outbox'[last] = outbox[last] BY <1>4
    <2>4. TellsOf(b, first, last)' BY <2>1, <2>2, <2>3 DEF TellsOf
    <2>5. QED BY <2>4, <1>4
  <1>8. \E first, last \in DOMAIN outbox' : TellsOf(d, first, last)'
    <2>1. EventsOf(d.id)' = {new, new} /\ new \in DOMAIN outbox' /\ new <= new
      BY <1>4, <1>5, <1>6
    <2>2. outbox'[new].topic = "BOOKING_CONFIRMED" /\ TopicOf[d.status] = "BOOKING_CONFIRMED"
      BY <1>2, <1>4 DEF TopicOf
    <2>3. TellsOf(d, new, new)' BY <2>1, <2>2 DEF TellsOf
    <2>4. QED BY <2>1, <2>3
  <1>9. \A i \in DOMAIN outbox' : \E b \in bookings' : b.id = outbox'[i].id
    BY <1>2, <1>4, SMTT(30) DEF OutboxTellsBooking
  <1>10. ASSUME NEW b \in bookings'
         PROVE \E first, last \in DOMAIN outbox' : TellsOf(b, first, last)'
    <2>1. b \in bookings \/ b = d OBVIOUS
    <2>2. QED BY <2>1, <1>7, <1>8
  <1>11. QED BY <1>9, <1>10, Zenon DEF OutboxTellsBooking

(* The second event of a booking is the one that ends it. *)
LEMMA StoryEnds ==
  ASSUME TypeOK, RowsUnique, OutboxTellsBooking,
         NEW b \in bookings, b.status = "CONFIRMED",
         NEW d \in BookingRow, d.id = b.id, d.status \in {"CANCELLED", "COMPLETED"},
         bookings' = (bookings \ {b}) \cup {d},
         NEW topic, topic = TopicOf[d.status], topic \in Topic,
         outbox' = Append(outbox, [topic |-> topic, id |-> b.id])
  PROVE  OutboxTellsBooking'
  <1> DEFINE event == [topic |-> topic, id |-> b.id]
  <1>1. outbox \in Seq(OutboxRow) /\ Len(outbox) \in Nat /\ DOMAIN outbox = 1 .. Len(outbox)
    BY DEF TypeOK, LogTypeOK
  <1>2. event \in OutboxRow /\ event.topic = topic /\ event.id = b.id
    BY DEF OutboxRow, BookingRow, TypeOK, TablesTypeOK
  <1>3. outbox' = Append(outbox, event) OBVIOUS
  <1> HIDE DEF event
  <1>4. PICK new \in Nat :
          /\ DOMAIN outbox' = DOMAIN outbox \cup {new} /\ new \notin DOMAIN outbox
          /\ outbox'[new] = event
          /\ \A i \in DOMAIN outbox : outbox'[i] = outbox[i] /\ i <= new
    <2>1. Len(outbox) + 1 \in Nat BY <1>1
    <2>2. /\ DOMAIN outbox' = DOMAIN outbox \cup {Len(outbox) + 1}
          /\ Len(outbox) + 1 \notin DOMAIN outbox /\ outbox'[Len(outbox) + 1] = event
          /\ \A i \in DOMAIN outbox : outbox'[i] = outbox[i] /\ i <= Len(outbox) + 1
      BY <1>1, <1>2, <1>3
    <2>3. QED BY <2>1, <2>2
  <1>5. \A id : EventsOf(id)' = IF id = b.id THEN EventsOf(id) \cup {new} ELSE EventsOf(id)
    BY <1>2, <1>4 DEF EventsOf
  <1>6. ASSUME NEW g \in bookings, g # b
        PROVE \E first, last \in DOMAIN outbox' : TellsOf(g, first, last)'
    <2>1. PICK first \in DOMAIN outbox, last \in DOMAIN outbox : TellsOf(g, first, last)
      BY DEF OutboxTellsBooking
    <2>2. g.id # b.id BY <1>6 DEF RowsUnique
    <2>3. EventsOf(g.id)' = EventsOf(g.id) BY <1>5, <2>2
    <2>4. outbox'[first] = outbox[first] /\ outbox'[last] = outbox[last] BY <1>4
    <2>5. TellsOf(g, first, last)' BY <2>1, <2>3, <2>4 DEF TellsOf
    <2>6. QED BY <2>5, <1>4
  <1>7. \E first, last \in DOMAIN outbox' : TellsOf(d, first, last)'
    <2>1. PICK first \in DOMAIN outbox : /\ EventsOf(b.id) = {first}
                                         /\ outbox[first].topic = "BOOKING_CONFIRMED"
      <3>1. PICK first \in DOMAIN outbox, last \in DOMAIN outbox : TellsOf(b, first, last)
        BY DEF OutboxTellsBooking
      <3>2. first = last /\ EventsOf(b.id) = {first} /\ outbox[first].topic = "BOOKING_CONFIRMED"
        BY <3>1 DEF TellsOf
      <3>3. QED BY <3>2
    <2>2. EventsOf(d.id)' = {first, new} /\ first <= new /\ first # new
      BY <2>1, <1>4, <1>5
    <2>3. outbox'[first].topic = "BOOKING_CONFIRMED" /\ outbox'[new].topic = TopicOf[d.status]
      BY <2>1, <1>2, <1>4
    <2>4. TellsOf(d, first, new)' BY <2>2, <2>3 DEF TellsOf
    <2>5. QED BY <2>4, <1>4
  <1>8. \A i \in DOMAIN outbox' : \E g \in bookings' : g.id = outbox'[i].id
    <2>1. \A i \in DOMAIN outbox : \E g \in bookings' : g.id = outbox[i].id
      BY DEF OutboxTellsBooking
    <2>2. QED BY <2>1, <1>2, <1>4
  <1>9. ASSUME NEW g \in bookings'
        PROVE \E first, last \in DOMAIN outbox' : TellsOf(g, first, last)'
    <2>1. (g \in bookings /\ g # b) \/ g = d OBVIOUS
    <2>2. QED BY <2>1, <1>6, <1>7
  <1>10. QED BY <1>8, <1>9, Zenon DEF OutboxTellsBooking

-----------------------------------------------------------------------------
(* The ids of the rows are numbers that were given out. *)
LEMMA HistoryTypes ==
  ASSUME IInv
  PROVE  /\ nextHold \in Nat /\ holds \subseteq HoldRow /\ bookings \subseteq BookingRow
         /\ \A a \in audit : a.id \in Nat
         /\ \A h \in holds : h.id \in Nat /\ h.id < nextHold
         /\ \A b \in bookings : b.id \in Nat /\ b.id < nextHold
  BY DEF IInv, TypeOK, TablesTypeOK, LogTypeOK, AuditRow, RowsUnique, HoldRow, BookingRow

(* Each of the five commits keeps the history; first a hold, whose id is   *)
(* new, ...                                                                *)
LEMMA HoldKeepsHistory ==
  ASSUME IInv, HistoryInv, NEW c \in Clients, CommitHold(c)
  PROVE  HistoryInv'
  <1>1. PICK h \in HoldRow : h.id = nextHold /\ holds' = holds \cup {h}
    BY HoldWrites
  <1>2. /\ nextHold' = nextHold + 1 /\ bookings' = bookings /\ outbox' = outbox
        /\ audit' = audit \cup {[action |-> "SLOT_HELD", id |-> nextHold]}
        /\ CommitCall(c, nextHold) /\ call[c].request.op = "hold"
    BY HoldWrites
  <1>3. \A action, id : Logged(action, id)' <=>
          Logged(action, id) \/ (action = "SLOT_HELD" /\ id = nextHold)
    BY <1>2 DEF Logged
  <1>4. \A action, id : Logged(action, id) => id \in Nat /\ id < nextHold
    BY HistoryTypes DEF HistoryInv, AuditHonest, Logged
  <1>5. AuditHonest'
    <2>1. \A a \in audit' : a.id < nextHold'
      BY <1>2, HistoryTypes DEF HistoryInv, AuditHonest
    <2>2. QED BY <1>2, <1>3, <2>1, HistoryTypes DEF HistoryInv, AuditHonest
  <1>6. HoldEndsOnce'
    <2> SUFFICES ASSUME NEW id \in 1 .. nextHold
                 PROVE /\ Logged("SLOT_HELD", id)'
                       /\ \/ \E g \in holds' : g.id = id
                          \/ Logged("SLOT_HOLD_EXPIRED", id)'
                          \/ \E b \in bookings' : b.id = id
                       /\ ~((\E g \in holds' : g.id = id) /\ Logged("SLOT_HOLD_EXPIRED", id)')
                       /\ ~((\E g \in holds' : g.id = id) /\ \E b \in bookings' : b.id = id)
                       /\ ~(Logged("SLOT_HOLD_EXPIRED", id)' /\ \E b \in bookings' : b.id = id)
      BY <1>2, HistoryTypes DEF HoldEndsOnce
    <2>1. CASE id = nextHold
      BY <1>1, <1>2, <1>3, <1>4, <2>1, HistoryTypes
    <2>2. CASE id # nextHold
      <3>1. id \in 1 .. nextHold - 1 BY <2>2, HistoryTypes
      <3>2. QED BY <1>1, <1>2, <1>3, <2>2, <3>1 DEF HistoryInv, HoldEndsOnce
    <2>3. QED BY <2>1, <2>2
  <1>7. EffectsMatch'
    <2>1. ~Logged("SLOT_HELD", nextHold) BY <1>4, HistoryTypes
    <2>2. idem' = idem \cup {[request |-> call[c].request, response |-> nextHold]}
      BY <1>2 DEF CommitCall
    <2>3. OneEffect("hold", "SLOT_HELD")'
      BY <1>2, <2>1, <2>2, EffectAdded DEF HistoryInv, EffectsMatch
    <2>4. OneEffect("confirm", "BOOKING_CONFIRMED")' /\ OneEffect("cancel", "BOOKING_CANCELLED")'
      BY <1>2, <2>2, EffectKept DEF HistoryInv, EffectsMatch
    <2>5. QED BY <1>2, <2>3, <2>4, RecordAdded DEF HistoryInv, EffectsMatch
  <1>8. OutboxTellsBooking'
    BY <1>2 DEF HistoryInv, OutboxTellsBooking, TellsOf, EventsOf
  <1>9. QED BY <1>5, <1>6, <1>7, <1>8 DEF HistoryInv

(* ... a confirmation, whose id was that of a hold and of no booking, ...  *)
LEMMA ConfirmKeepsHistory ==
  ASSUME IInv, HistoryInv, NEW c \in Clients, CommitConfirm(c)
  PROVE  HistoryInv'
  <1>1. PICK h \in holds :
          /\ holds' = holds \ {h} /\ nextHold' = nextHold
          /\ \E d \in BookingRow : /\ d.id = h.id /\ d.status = "CONFIRMED"
                                  /\ bookings' = bookings \cup {d}
          /\ audit' = audit \cup {[action |-> "BOOKING_CONFIRMED", id |-> h.id]}
          /\ outbox' = Append(outbox, [topic |-> "BOOKING_CONFIRMED", id |-> h.id])
          /\ CommitCall(c, h.id) /\ call[c].request.op = "confirm"
    BY ConfirmWrites
  <1>2. PICK d \in BookingRow : /\ d.id = h.id /\ d.status = "CONFIRMED"
                                /\ bookings' = bookings \cup {d}
    BY <1>1
  <1>3. \A action, id : Logged(action, id)' <=>
          Logged(action, id) \/ (action = "BOOKING_CONFIRMED" /\ id = h.id)
    BY <1>1 DEF Logged
  <1>4. /\ h.id \in Nat /\ h.id < nextHold
        /\ \A g \in holds : g.id = h.id => g = h
        /\ \A b \in bookings : b.id # h.id
    BY HistoryTypes DEF IInv, RowsUnique
  <1>5. ~Logged("BOOKING_CONFIRMED", h.id)
    BY <1>4 DEF HistoryInv, AuditHonest
  <1>6. AuditHonest'
    <2>1. \A a \in audit' : a.id < nextHold'
      BY <1>1, <1>4 DEF HistoryInv, AuditHonest
    <2>2. \A b \in bookings : b \in bookings' BY <1>2
    <2>3. d \in bookings' BY <1>2
    <2>4. QED BY <1>1, <1>2, <1>3, <2>1, <2>2, <2>3 DEF HistoryInv, AuditHonest
  <1>7. HoldEndsOnce'
    <2> SUFFICES ASSUME NEW id \in 1 .. nextHold - 1
                 PROVE /\ Logged("SLOT_HELD", id)'
                       /\ \/ \E g \in holds' : g.id = id
                          \/ Logged("SLOT_HOLD_EXPIRED", id)'
                          \/ \E b \in bookings' : b.id = id
                       /\ ~((\E g \in holds' : g.id = id) /\ Logged("SLOT_HOLD_EXPIRED", id)')
                       /\ ~((\E g \in holds' : g.id = id) /\ \E b \in bookings' : b.id = id)
                       /\ ~(Logged("SLOT_HOLD_EXPIRED", id)' /\ \E b \in bookings' : b.id = id)
      BY <1>1 DEF HoldEndsOnce
    <2>1. (\E g \in holds' : g.id = id) <=> (\E g \in holds : g.id = id) /\ id # h.id
      BY <1>1, <1>4
    <2>2. (\E b \in bookings' : b.id = id) <=> (\E b \in bookings : b.id = id) \/ id = h.id
      BY <1>2
    <2>3. Logged("SLOT_HELD", id)' <=> Logged("SLOT_HELD", id) BY <1>3
    <2>4. Logged("SLOT_HOLD_EXPIRED", id)' <=> Logged("SLOT_HOLD_EXPIRED", id) BY <1>3
    <2>5. QED BY <2>1, <2>2, <2>3, <2>4 DEF HistoryInv, HoldEndsOnce
  <1>8. EffectsMatch'
    <2>1. idem' = idem \cup {[request |-> call[c].request, response |-> h.id]}
      BY <1>1 DEF CommitCall
    <2>2. OneEffect("confirm", "BOOKING_CONFIRMED")'
      BY <1>1, <1>5, <2>1, EffectAdded DEF HistoryInv, EffectsMatch
    <2>3. OneEffect("hold", "SLOT_HELD")' /\ OneEffect("cancel", "BOOKING_CANCELLED")'
      BY <1>1, <2>1, EffectKept DEF HistoryInv, EffectsMatch
    <2>4. QED BY <1>1, <2>2, <2>3, RecordAdded DEF HistoryInv, EffectsMatch
  <1>9. OutboxTellsBooking'
    BY <1>1, <1>2, <1>4, StoryBegins, Zenon DEF HistoryInv, IInv
  <1>10. QED BY <1>6, <1>7, <1>8, <1>9 DEF HistoryInv

(* A booking's row changes its status and nothing else: its id still tells *)
(* where the hold ended.                                                   *)
LEMMA EndingKeepsHolds ==
  ASSUME IInv, HistoryInv, NEW b \in bookings, NEW d \in BookingRow, d.id = b.id,
         bookings' = (bookings \ {b}) \cup {d}, UNCHANGED <<holds, nextHold>>,
         NEW action, action \notin {"SLOT_HELD", "SLOT_HOLD_EXPIRED"},
         audit' = audit \cup {[action |-> action, id |-> b.id]}
  PROVE  HoldEndsOnce'
  <1>1. \A id : /\ Logged("SLOT_HELD", id)' <=> Logged("SLOT_HELD", id)
                /\ Logged("SLOT_HOLD_EXPIRED", id)' <=> Logged("SLOT_HOLD_EXPIRED", id)
    BY DEF Logged
  <1>2. \A id : (\E g \in bookings' : g.id = id) <=> (\E g \in bookings : g.id = id)
    OBVIOUS
  <1>3. QED BY <1>1, <1>2 DEF HistoryInv, HoldEndsOnce

(* ... a cancellation, which finds the booking CONFIRMED, ... *)
LEMMA CancelKeepsHistory ==
  ASSUME IInv, HistoryInv, NEW c \in Clients, CommitCancel(c)
  PROVE  HistoryInv'
  <1>1. PICK b \in bookings :
          /\ b.status = "CONFIRMED" /\ holds' = holds /\ nextHold' = nextHold
          /\ \E d \in BookingRow : /\ d.id = b.id /\ d.status = "CANCELLED"
                                  /\ bookings' = (bookings \ {b}) \cup {d}
          /\ audit' = audit \cup {[action |-> "BOOKING_CANCELLED", id |-> b.id]}
          /\ outbox' = Append(outbox, [topic |-> "BOOKING_CANCELLED", id |-> b.id])
          /\ CommitCall(c, b.id) /\ call[c].request.op = "cancel"
    BY CancelWrites
  <1>2. PICK d \in BookingRow : /\ d.id = b.id /\ d.status = "CANCELLED"
                                /\ bookings' = (bookings \ {b}) \cup {d}
    BY <1>1
  <1>3. \A action, id : Logged(action, id)' <=>
          Logged(action, id) \/ (action = "BOOKING_CANCELLED" /\ id = b.id)
    BY <1>1 DEF Logged
  <1>4. b.id \in Nat /\ b.id < nextHold /\ \A g \in bookings : g.id = b.id => g = b
    BY HistoryTypes DEF IInv, RowsUnique
  <1>5. ~Logged("BOOKING_CANCELLED", b.id)
    BY <1>1, <1>4 DEF HistoryInv, AuditHonest
  <1>6. AuditHonest'
    <2>1. \A a \in audit' : a.id < nextHold'
      BY <1>1, <1>4 DEF HistoryInv, AuditHonest
    <2>2. ASSUME NEW id \in Nat, Logged("BOOKING_CONFIRMED", id)'
          PROVE  \E g \in bookings' : g.id = id
      BY <1>2, <1>3, <2>2 DEF HistoryInv, AuditHonest
    <2>3. ASSUME NEW id \in Nat, Logged("BOOKING_CANCELLED", id)'
          PROVE  \E g \in bookings' : g.id = id /\ g.status = "CANCELLED"
      <3>1. CASE id = b.id BY <1>2, <3>1
      <3>2. CASE id # b.id
        <4>1. PICK g \in bookings : g.id = id /\ g.status = "CANCELLED"
          BY <1>3, <2>3, <3>2 DEF HistoryInv, AuditHonest
        <4>2. g \in bookings' BY <1>2, <3>2, <4>1
        <4>3. QED BY <4>1, <4>2
      <3>3. QED BY <3>1, <3>2
    <2>4. nextHold' > 0 BY <1>1 DEF HistoryInv, AuditHonest
    <2>5. QED BY <2>1, <2>2, <2>3, <2>4 DEF AuditHonest
  <1>7. HoldEndsOnce'
    <2>1. UNCHANGED <<holds, nextHold>> BY <1>1
    <2>2. audit' = audit \cup {[action |-> "BOOKING_CANCELLED", id |-> b.id]} BY <1>1
    <2>3. QED BY <1>2, <2>1, <2>2, EndingKeepsHolds
  <1>8. EffectsMatch'
    <2>1. idem' = idem \cup {[request |-> call[c].request, response |-> b.id]}
      BY <1>1 DEF CommitCall
    <2>2. OneEffect("cancel", "BOOKING_CANCELLED")'
      BY <1>1, <1>5, <2>1, EffectAdded DEF HistoryInv, EffectsMatch
    <2>3. OneEffect("hold", "SLOT_HELD")' /\ OneEffect("confirm", "BOOKING_CONFIRMED")'
      BY <1>1, <2>1, EffectKept DEF HistoryInv, EffectsMatch
    <2>4. QED BY <1>1, <2>2, <2>3, RecordAdded DEF HistoryInv, EffectsMatch
  <1>9. OutboxTellsBooking'
    <2>1. "BOOKING_CANCELLED" = TopicOf[d.status] /\ "BOOKING_CANCELLED" \in Topic
      BY <1>2 DEF TopicOf, Topic
    <2>2. QED BY <1>1, <1>2, <2>1, StoryEnds DEF HistoryInv, IInv
  <1>10. QED BY <1>6, <1>7, <1>8, <1>9 DEF HistoryInv

(* ... a completion, as well, ... *)
LEMMA CompletionKeepsHistory ==
  ASSUME IInv, HistoryInv, NEW w \in Workers, CommitCompletion(w)
  PROVE  HistoryInv'
  <1>1. PICK b \in bookings :
          /\ b.status = "CONFIRMED" /\ UNCHANGED <<holds, nextHold, idem>>
          /\ \E d \in BookingRow : /\ d.id = b.id /\ d.status = "COMPLETED"
                                  /\ bookings' = (bookings \ {b}) \cup {d}
          /\ audit' = audit \cup {[action |-> "BOOKING_COMPLETED", id |-> b.id]}
          /\ outbox' = Append(outbox, [topic |-> "BOOKING_COMPLETED", id |-> b.id])
    BY CompletionWrites
  <1>2. PICK d \in BookingRow : /\ d.id = b.id /\ d.status = "COMPLETED"
                                /\ bookings' = (bookings \ {b}) \cup {d}
    BY <1>1
  <1>3. \A action, id : action # "BOOKING_COMPLETED" =>
          (Logged(action, id)' <=> Logged(action, id))
    BY <1>1 DEF Logged
  <1>4. b.id \in Nat /\ b.id < nextHold BY HistoryTypes
  <1>5. AuditHonest'
    <2>1. \A a \in audit' : a.id < nextHold'
      BY <1>1, <1>4 DEF HistoryInv, AuditHonest
    <2>2. ASSUME NEW id \in Nat, Logged("BOOKING_CONFIRMED", id)'
          PROVE  \E g \in bookings' : g.id = id
      BY <1>2, <1>3, <2>2 DEF HistoryInv, AuditHonest
    <2>3. ASSUME NEW id \in Nat, Logged("BOOKING_CANCELLED", id)'
          PROVE  \E g \in bookings' : g.id = id /\ g.status = "CANCELLED"
      <3>1. PICK g \in bookings : g.id = id /\ g.status = "CANCELLED"
        BY <1>3, <2>3 DEF HistoryInv, AuditHonest
      <3>2. g \in bookings' BY <1>1, <1>2, <3>1
      <3>3. QED BY <3>1, <3>2
    <2>4. nextHold' > 0 BY <1>1 DEF HistoryInv, AuditHonest
    <2>5. QED BY <2>1, <2>2, <2>3, <2>4 DEF AuditHonest
  <1>6. HoldEndsOnce'
    BY <1>1, <1>2, EndingKeepsHolds, SMTT(30)
  <1>7. EffectsMatch'
    BY <1>1, <1>3 DEF HistoryInv, EffectsMatch, OneRecord, OneEffect
  <1>8. OutboxTellsBooking'
    <2>1. "BOOKING_COMPLETED" = TopicOf[d.status] /\ "BOOKING_COMPLETED" \in Topic
      BY <1>2 DEF TopicOf, Topic
    <2>2. QED BY <1>1, <1>2, <2>1, StoryEnds DEF HistoryInv, IInv
  <1>9. QED BY <1>5, <1>6, <1>7, <1>8 DEF HistoryInv

(* ... and an expiry, whose hold cannot have become a booking. *)
LEMMA ExpiryKeepsHistory ==
  ASSUME IInv, HistoryInv, NEW w \in Workers, CommitExpiry(w)
  PROVE  HistoryInv'
  <1>1. PICK h \in holds :
          /\ holds' = holds \ {h} /\ UNCHANGED <<bookings, nextHold, idem, outbox>>
          /\ audit' = audit \cup {[action |-> "SLOT_HOLD_EXPIRED", id |-> h.id]}
    BY ExpiryWrites
  <1>2. \A action, id : Logged(action, id)' <=>
          Logged(action, id) \/ (action = "SLOT_HOLD_EXPIRED" /\ id = h.id)
    BY <1>1 DEF Logged
  <1>3. /\ h.id \in Nat /\ h.id < nextHold
        /\ \A g \in holds : g.id = h.id => g = h
        /\ \A b \in bookings : b.id # h.id
    BY HistoryTypes DEF IInv, RowsUnique
  <1>4. AuditHonest'
    <2>1. \A a \in audit' : a.id < nextHold'
      BY <1>1, <1>3 DEF HistoryInv, AuditHonest
    <2>2. QED BY <1>1, <1>2, <2>1 DEF HistoryInv, AuditHonest
  <1>5. HoldEndsOnce'
    <2> SUFFICES ASSUME NEW id \in 1 .. nextHold - 1
                 PROVE /\ Logged("SLOT_HELD", id)'
                       /\ \/ \E g \in holds' : g.id = id
                          \/ Logged("SLOT_HOLD_EXPIRED", id)'
                          \/ \E b \in bookings' : b.id = id
                       /\ ~((\E g \in holds' : g.id = id) /\ Logged("SLOT_HOLD_EXPIRED", id)')
                       /\ ~((\E g \in holds' : g.id = id) /\ \E b \in bookings' : b.id = id)
                       /\ ~(Logged("SLOT_HOLD_EXPIRED", id)' /\ \E b \in bookings' : b.id = id)
      BY <1>1 DEF HoldEndsOnce
    <2>1. (\E g \in holds' : g.id = id) <=> (\E g \in holds : g.id = id) /\ id # h.id
      BY <1>1, <1>3
    <2>2. (\E b \in bookings' : b.id = id) <=> (\E b \in bookings : b.id = id)
      BY <1>1
    <2>3. Logged("SLOT_HELD", id)' <=> Logged("SLOT_HELD", id) BY <1>2
    <2>4. Logged("SLOT_HOLD_EXPIRED", id)' <=> Logged("SLOT_HOLD_EXPIRED", id) \/ id = h.id
      BY <1>2
    <2>5. id = h.id => ~\E b \in bookings : b.id = id BY <1>3
    <2>6. QED BY <2>1, <2>2, <2>3, <2>4, <2>5 DEF HistoryInv, HoldEndsOnce
  <1>6. EffectsMatch'
    BY <1>1, <1>2 DEF HistoryInv, EffectsMatch, OneRecord, OneEffect
  <1>7. OutboxTellsBooking'
    BY <1>1 DEF HistoryInv, OutboxTellsBooking, TellsOf, EventsOf
  <1>8. QED BY <1>4, <1>5, <1>6, <1>7 DEF HistoryInv

(* An owner's batch is recorded under an operation that has no audit row. *)
LEMMA BatchKeepsHistory ==
  ASSUME IInv, HistoryInv, NEW c \in Clients, CommitOwnerBatch(c)
  PROVE  HistoryInv'
  <1>1. /\ call[c].request.op \in {"open", "block"} /\ CommitCall(c, 0)
        /\ UNCHANGED <<holds, bookings, nextHold, audit, outbox>>
    BY DEF CommitOwnerBatch, IsBatch
  <1>2. idem' = idem \cup {[request |-> call[c].request, response |-> 0]}
    BY <1>1 DEF CommitCall
  <1>3. EffectsMatch'
    <2>1. ASSUME NEW op \in {"hold", "confirm", "cancel"}, NEW action, OneEffect(op, action)
          PROVE  OneEffect(op, action)'
      <3>1. PICK other \in {"none", "other"} : other # action OBVIOUS
      <3>2. call[c].request.op # op BY <1>1
      <3>3. QED BY <1>1, <1>2, <2>1, <3>1, <3>2, EffectKept
    <2>2. QED BY <1>1, <2>1, RecordAdded DEF HistoryInv, EffectsMatch
  <1>4. AuditHonest' /\ HoldEndsOnce'
    BY <1>1 DEF HistoryInv, AuditHonest, HoldEndsOnce, Logged
  <1>5. OutboxTellsBooking'
    BY <1>1 DEF HistoryInv, OutboxTellsBooking, TellsOf, EventsOf
  <1>6. QED BY <1>3, <1>4, <1>5 DEF HistoryInv

(* Nothing else writes. *)
LEMMA HistoryStep == IInv /\ HistoryInv /\ [Next]_vars => HistoryInv'
  <1> SUFFICES ASSUME IInv, HistoryInv, [Next]_vars PROVE HistoryInv'
    OBVIOUS
  <1>1. CASE UNCHANGED <<holds, bookings, nextHold, idem, audit, outbox>>
    <2>1. AuditHonest' /\ HoldEndsOnce'
      BY <1>1 DEF HistoryInv, AuditHonest, HoldEndsOnce, Logged
    <2>2. EffectsMatch'
      BY <1>1 DEF HistoryInv, EffectsMatch, OneRecord, OneEffect, Logged
    <2>3. OutboxTellsBooking'
      BY <1>1 DEF HistoryInv, OutboxTellsBooking, TellsOf, EventsOf
    <2>4. QED BY <2>1, <2>2, <2>3 DEF HistoryInv
  <1>2. ASSUME NEW c \in Clients, \/ CommitHold(c) \/ CommitConfirm(c)
                                  \/ CommitCancel(c) \/ CommitOwnerBatch(c)
        PROVE  HistoryInv'
    BY <1>2, HoldKeepsHistory, ConfirmKeepsHistory, CancelKeepsHistory, BatchKeepsHistory
  <1>3. ASSUME NEW w \in Workers, CommitExpiry(w) \/ CommitCompletion(w) PROVE HistoryInv'
    BY <1>3, ExpiryKeepsHistory, CompletionKeepsHistory
  <1>4. QED BY <1>1, <1>2, <1>3, OnlyCommitsWrite, Zenon

(* The rows, the audit log, the idempotency records and the outbox of      *)
(* every state tell the same history: what the commands and the workers    *)
(* commit together stays together.                                         *)
THEOREM HistoryHolds == Spec => []HistoryInv
  <1>1. Init => HistoryInv BY HistoryInit
  <1>2. IInv /\ HistoryInv /\ [Next]_vars => HistoryInv' BY HistoryStep
  <1>3. QED BY IInvHolds, <1>1, <1>2, PTL DEF Spec

(* A confirm and an expiry of the same hold, on whatever snapshots, never  *)
(* both win and never both lose it: every hold ever granted is live,       *)
(* expired or booked, and only one of the three.                           *)
THEOREM HoldsEndOnce == Spec => []HoldEndsOnce
  <1>1. HistoryInv => HoldEndsOnce BY DEF HistoryInv
  <1>2. QED BY HistoryHolds, <1>1, PTL

(* executeIdempotently applies a request once, through any number of       *)
(* replays, deadlocked attempts and crashes: records and effects of a      *)
(* professional's commands correspond one to one.                          *)
THEOREM AppliedOnce == Spec => []EffectsOncePerRecord
  <1>1. IInv /\ HistoryInv => EffectsOncePerRecord
    BY EffectsSplit DEF IInv, HistoryInv
  <1>2. QED BY IInvHolds, HistoryHolds, <1>1, PTL

(* What the notification worker will read of a booking is its history:     *)
(* nothing missing, doubled, reordered or left by a rolled back attempt.   *)
THEOREM OutboxIsTheStory == Spec => []OutboxTellsBooking
  <1>1. HistoryInv => OutboxTellsBooking BY DEF HistoryInv
  <1>2. QED BY HistoryHolds, <1>1, PTL
=============================================================================
