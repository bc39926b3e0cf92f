------------------------ MODULE BookingTransactions ------------------------
(***************************************************************************)
(* The commands and workers of apps/api that change the slots of one       *)
(* Workspace calendar day, as MySQL transactions at InnoDB's default       *)
(* isolation level (REPEATABLE READ; the code sets none):                  *)
(*   - a plain SELECT reads the snapshot fixed by the first plain SELECT   *)
(*     of its transaction (view);                                          *)
(*   - SELECT ... FOR UPDATE, INSERT, UPDATE and DELETE act on the current *)
(*     committed rows;                                                     *)
(*   - INSERT IGNORE of an existing WorkspaceCalendarLock row leaves a     *)
(*     shared lock on it, FOR UPDATE asks for the exclusive one.           *)
(* Every transaction here takes its snapshot BEFORE it waits for the       *)
(* calendar lock, so what it checks may be stale when it writes.  It reads *)
(* the clock once it has the lock and writes several statements later: the *)
(* check of a command and its commit are two steps, and time may pass.     *)
(***************************************************************************)
EXTENDS SlotTables, Sequences

CONSTANTS
  Owners,      \* users with a SalonMembership of the Salon
  Keys,        \* Idempotency-Key header values
  Ops,         \* the commands clients send in this instance
  Clients,     \* API calls in flight at the same time
  Expirers,    \* hold-expiry workers
  Completers,  \* booking-lifecycle workers
  MaxHolds     \* bound: no hold request is sent once this many holds exist

Workers == Expirers \cup Completers
Procs == Clients \cup Workers

AllOps == {"hold", "confirm", "cancel", "open", "block"}

ASSUME TransactionsAssumption ==
  /\ Ops \subseteq AllOps
  /\ Clients \cap Workers = {} /\ Expirers \cap Completers = {}
  /\ MaxHolds \in Nat

VARIABLES
  idem,       \* rows of IdempotencyRecord: [request, response]
  audit,      \* AuditEvent rows of holds and bookings: [action, id]
  outbox,     \* OutboxEvent rows in creation order: [topic, id]
  lockRow,    \* the day's WorkspaceCalendarLock row is committed
  shared,     \* transactions with a shared lock on it
  exclusive,  \* transactions with the exclusive lock on it
  pc,         \* where each process stands
  view,       \* snapshot of each open transaction
  call,       \* local state of executeIdempotently: [request, attempt, error, at]
  job         \* local state of a worker's batch: [batch, current, at]

lockVars == <<lockRow, shared, exclusive>>
logVars == <<idem, audit, outbox>>
vars == <<tableVars, logVars, lockVars, pc, view, call, job>>

(* A request: the command, who sends it, the slots or the hold/booking it  *)
(* names, and its Idempotency-Key.                                         *)
Request ==
  [op: {"hold"}, actor: Professionals, slots: {{s} : s \in Slots}, ref: {0}, key: Keys]
  \cup
  [op: {"confirm", "cancel"}, actor: Professionals, slots: {{}}, ref: Nat, key: Keys]
  \cup
  [op: {"open", "block"}, actor: Owners, slots: SUBSET Slots, ref: {0}, key: Keys]

(* What executeIdempotently looks up: actor, scope and key.  The scope     *)
(* names the slot, hold or booking for a professional's commands, but only *)
(* the command and the Workspace for an owner's.                           *)
SameRecord(r, q) ==
  /\ r.actor = q.actor /\ r.op = q.op /\ r.key = q.key
  /\ r.op \in {"open", "block"} \/ (r.slots = q.slots /\ r.ref = q.ref)

Recorded(r) == {rec \in idem : SameRecord(rec.request, r)}

NoRequest == [op |-> "none", actor |-> "none", slots |-> {}, ref |-> 0, key |-> "none"]
IdleCall == [request |-> NoRequest, attempt |-> 0, error |-> "none", at |-> 0]
IdleJob == [batch |-> {}, current |-> {}, at |-> 0]

Committed == [slot |-> slot, holds |-> holds, bookings |-> bookings]
NoView == [slot |-> [s \in Slots |-> "ABSENT"], holds |-> {}, bookings |-> {}]

Init ==
  /\ TablesInit
  /\ idem = {} /\ audit = {} /\ outbox = <<>>
  /\ lockRow = FALSE /\ shared = {} /\ exclusive = {}
  /\ pc = [p \in Procs |-> "idle"]
  /\ view = [p \in Procs |-> NoView]
  /\ call = [c \in Clients |-> IdleCall]
  /\ job = [w \in Workers |-> IdleJob]

Advance ==
  /\ now < MaxTime
  /\ now' = now + 1
  /\ UNCHANGED <<slot, holds, bookings, nextHold, logVars, lockVars, pc, view, call, job>>

-----------------------------------------------------------------------------
(* InnoDB's transaction and its lock on the calendar row (external).       *)

(* Commit and rollback both release the locks and forget the snapshot.     *)
EndTransaction(p) ==
  /\ shared' = shared \ {p}
  /\ exclusive' = exclusive \ {p}
  /\ view' = [view EXCEPT ![p] = NoView]

(* workspaceCalendarLock.createMany({skipDuplicates: true}): inserting the *)
(* row locks it exclusively, finding it committed locks it shared.         *)
InsertLockRow(p) ==
  /\ pc[p] = "begun" /\ exclusive = {}
  /\ IF lockRow
     THEN /\ shared' = shared \cup {p} /\ exclusive' = exclusive
          /\ pc' = [pc EXCEPT ![p] = "shared"]
     ELSE /\ exclusive' = {p} /\ shared' = shared
          /\ pc' = [pc EXCEPT ![p] = "locked"]
  /\ UNCHANGED <<tableVars, logVars, lockRow, view, call, job>>

(* SELECT ... FROM WorkspaceCalendarLock ... FOR UPDATE.  The row lock on  *)
(* the slot itself, taken next, is never contended under this one.         *)
LockCalendarDay(p) ==
  /\ pc[p] = "shared" /\ exclusive = {} /\ shared = {p}
  /\ exclusive' = {p} /\ shared' = {}
  /\ pc' = [pc EXCEPT ![p] = "locked"]
  /\ UNCHANGED <<tableVars, logVars, lockRow, view, call, job>>

(* InnoDB may break a cycle of waiting transactions at any of them.        *)
Waiting(p) == pc[p] \in {"begun", "shared"}
DeadlockVictim(p) == Waiting(p) /\ \E q \in Procs \ {p} : Waiting(q)

-----------------------------------------------------------------------------
(* executeIdempotently around every API command.                           *)

AbortCall(c, error) ==
  /\ EndTransaction(c)
  /\ pc' = [pc EXCEPT ![c] = "caught"]
  /\ call' = [call EXCEPT ![c].error = error, ![c].at = 0]
  /\ UNCHANGED <<tableVars, logVars, lockRow, job>>

CallReturns(c) ==
  /\ pc' = [pc EXCEPT ![c] = "idle"]
  /\ call' = [call EXCEPT ![c] = IdleCall]

(* Mutant: no unique key on (actorUserId, scope, idempotencyKey). *)
CommitWithoutUniqueKey(c, response) ==
  /\ idem' = idem \cup {[request |-> call[c].request, response |-> response]}
  /\ lockRow' = TRUE
  /\ EndTransaction(c)
  /\ CallReturns(c)
  /\ UNCHANGED <<now, job>>

(* The last statement of the transaction inserts the idempotency record;   *)
(* its unique key refuses a second one.                                    *)
CommitCall(c, response) ==
  /\ Recorded(call[c].request) = {}
  /\ idem' = idem \cup {[request |-> call[c].request, response |-> response]}
  /\ lockRow' = TRUE
  /\ EndTransaction(c)
  /\ CallReturns(c)
  /\ UNCHANGED <<now, job>>

Submit(c, r) ==
  /\ pc[c] = "idle" /\ r.op \in Ops
  /\ r.op = "hold" => nextHold <= MaxHolds
  /\ pc' = [pc EXCEPT ![c] = "ready"]
  /\ call' = [call EXCEPT ![c].request = r]
  /\ UNCHANGED <<tableVars, logVars, lockVars, view, job>>

SendsRequest(c) ==
  \E key \in Keys :
    \/ \E s \in Slots, user \in Professionals :
         Submit(c, [op |-> "hold", actor |-> user, slots |-> {s}, ref |-> 0, key |-> key])
    \/ \E op \in {"confirm", "cancel"}, id \in 1 .. nextHold - 1, user \in Professionals :
         Submit(c, [op |-> op, actor |-> user, slots |-> {}, ref |-> id, key |-> key])
    \/ \E op \in {"open", "block"}, targets \in SUBSET Slots \ {{}}, user \in Owners :
         Submit(c, [op |-> op, actor |-> user, slots |-> targets, ref |-> 0, key |-> key])

(* findReplay, before the loop, in the transaction or in the catch block:  *)
(* the recorded response, or IDEMPOTENCY_CONFLICT for another request      *)
(* under the same key.  Either way the call is over.                       *)
ReturnRecorded(c) ==
  /\ pc[c] \in {"ready", "caught"}
  /\ Recorded(call[c].request) # {}
  /\ CallReturns(c)
  /\ UNCHANGED <<tableVars, logVars, lockVars, view, job>>

(* The candidate a command reads before it locks the day.                  *)
CandidateFound(r) ==
  CASE r.op = "hold" -> \A s \in r.slots : slot[s] # "ABSENT"
    [] r.op = "confirm" -> \E h \in holds : h.id = r.ref /\ h.owner = r.actor
    [] r.op = "cancel" -> \E b \in bookings : b.id = r.ref /\ b.owner = r.actor
    [] OTHER -> now < DayStart

(* The in-transaction findReplay fixes the snapshot for the whole attempt. *)
(* An owner's batch reads the clock a little later; when the day begins in *)
(* between, it is refused, as in CallTimesOut.                             *)
BeginTransaction(c) ==
  /\ pc[c] = "ready"
  /\ Recorded(call[c].request) = {}
  /\ CandidateFound(call[c].request)
  /\ view' = [view EXCEPT ![c] = Committed]
  /\ pc' = [pc EXCEPT ![c] = "begun"]
  /\ UNCHANGED <<tableVars, logVars, lockVars, call, job>>

CandidateMissing(c) ==
  /\ pc[c] = "ready"
  /\ Recorded(call[c].request) = {}
  /\ ~CandidateFound(call[c].request)
  /\ AbortCall(c, "rejected")

CallDeadlocks(c) == DeadlockVictim(c) /\ AbortCall(c, "deadlock")

(* Prisma rolls an interactive transaction back after its timeout (P2028). *)
CallTimesOut(c) ==
  /\ pc[c] \in {"begun", "shared", "locked", "checked"}
  /\ AbortCall(c, "rejected")

(* Two retries after a deadlock (attempt < 2). *)
RetryCall(c) ==
  /\ pc[c] = "caught"
  /\ Recorded(call[c].request) = {}
  /\ call[c].error = "deadlock" /\ call[c].attempt < 2
  /\ pc' = [pc EXCEPT ![c] = "ready"]
  /\ call' = [call EXCEPT ![c].attempt = @ + 1, ![c].error = "none"]
  /\ UNCHANGED <<tableVars, logVars, lockVars, view, job>>

(* Mutant: a deadlock on the last attempt is not thrown. *)
GiveUpOnlyOnRejection(c) ==
  /\ pc[c] = "caught"
  /\ Recorded(call[c].request) = {}
  /\ call[c].error # "deadlock"
  /\ CallReturns(c)
  /\ UNCHANGED <<tableVars, logVars, lockVars, view, job>>

GiveUp(c) ==
  /\ pc[c] = "caught"
  /\ Recorded(call[c].request) = {}
  /\ call[c].error # "deadlock" \/ call[c].attempt >= 2
  /\ CallReturns(c)
  /\ UNCHANGED <<tableVars, logVars, lockVars, view, job>>

(* The API process dies: MySQL rolls back, the caller never hears. *)
CallCrashes(c) ==
  /\ pc[c] # "idle"
  /\ EndTransaction(c)
  /\ CallReturns(c)
  /\ UNCHANGED <<tableVars, logVars, lockRow, job>>

-----------------------------------------------------------------------------
(* The commands, from the exclusive lock to the commit.  "Checked" is what *)
(* the code tests on its snapshot and by the clock, "Writable" what the    *)
(* conditional writes and the unique indexes demand of the current rows.   *)
(* The transaction holds the calendar lock, so its writes and its commit   *)
(* are one step.                                                           *)

HoldChecked(c) ==
  \A s \in call[c].request.slots : view[c].slot[s] = "OPEN" /\ now < StartsAt[s]

(* The hold a confirm names, as its snapshot has it. *)
HoldNamed(c, h) ==
  /\ h.id = call[c].request.ref /\ h.owner = call[c].request.actor
  /\ view[c].slot[h.slot] = "HELD"

ConfirmChecked(c, h) == HoldNamed(c, h) /\ h.expiresAt > now

BookingNamed(c, b) == b.id = call[c].request.ref /\ b.status = "CONFIRMED"

(* Mutant: exactly the window before the start is early enough. *)
CancelCheckedLate(c, b) == BookingNamed(c, b) /\ now + CancelWindow <= StartsAt[b.slot]

CancelChecked(c, b) == BookingNamed(c, b) /\ now + CancelWindow < StartsAt[b.slot]

(* The other state of the pair {OPEN, BLOCKED} an owner switches between. *)
Opposite(status) == IF status = "OPEN" THEN "BLOCKED" ELSE "OPEN"

Desired(op) == IF op = "open" THEN "OPEN" ELSE "BLOCKED"
IsBatch(c) == call[c].request.op \in {"open", "block"}

(* assertMutable, on the snapshot. *)
BatchMutable(c) ==
  \A s \in call[c].request.slots : view[c].slot[s] \notin {"BOOKED", "HELD"}

CommandChecked(c) ==
  \/ call[c].request.op = "hold" /\ HoldChecked(c)
  \/ call[c].request.op = "confirm" /\ \E h \in view[c].holds : ConfirmChecked(c, h)
  \/ call[c].request.op = "cancel" /\ \E b \in view[c].bookings : CancelChecked(c, b)
  \/ IsBatch(c) /\ BatchMutable(c)

(* The check, and for a hold the reading of the clock that it keeps. *)
CheckCommand(c) ==
  /\ pc[c] = "locked" /\ CommandChecked(c)
  /\ pc' = [pc EXCEPT ![c] = "checked"]
  /\ call' = [call EXCEPT ![c].at = IF call[c].request.op = "hold" THEN now ELSE 0]
  /\ UNCHANGED <<tableVars, logVars, lockVars, view, job>>

AtWrites(c, op) == pc[c] = "checked" /\ call[c].request.op = op

(* Mutant: no unique index on SlotHold and no condition on the slot update. *)
HoldTrustsSnapshot(c) == call[c].request.op = "hold"

HoldWritable(c) ==
  \A s \in call[c].request.slots :
    slot[s] = "OPEN" /\ \A h \in holds : h.slot # s

CommitHold(c) ==
  /\ AtWrites(c, "hold") /\ HoldWritable(c)
  /\ \E s \in call[c].request.slots :
       /\ holds' = holds \cup {[id |-> nextHold, slot |-> s,
                                owner |-> call[c].request.actor,
                                expiresAt |-> call[c].at + HoldTtl]}
       /\ slot' = [slot EXCEPT ![s] = "HELD"]
  /\ nextHold' = nextHold + 1
  /\ audit' = audit \cup {[action |-> "SLOT_HELD", id |-> nextHold]}
  /\ CommitCall(c, nextHold)
  /\ UNCHANGED <<bookings, outbox>>

(* Booking.availabilitySlotId is unique, whatever the old booking's status. *)
SlotNeverBooked(s) == \A b \in bookings : b.slot # s

ConfirmWritable(c, h) ==
  /\ \E g \in holds : g.id = h.id /\ g.owner = call[c].request.actor
  /\ slot[h.slot] = "HELD"

(* Mutant: the booking is created and the hold is left behind. *)
ConfirmKeepsHold(h) == holds

(* deleteMany({id, professionalUserId}). *)
WithoutHold(h) == {g \in holds : g.id # h.id}

CommitConfirm(c) ==
  /\ AtWrites(c, "confirm")
  /\ \E h \in view[c].holds :
       /\ HoldNamed(c, h) /\ SlotNeverBooked(h.slot) /\ ConfirmWritable(c, h)
       /\ bookings' = bookings \cup {[id |-> h.id, slot |-> h.slot,
                                      owner |-> call[c].request.actor, status |-> "CONFIRMED"]}
       /\ holds' = WithoutHold(h)
       /\ slot' = [slot EXCEPT ![h.slot] = "BOOKED"]
       /\ audit' = audit \cup {[action |-> "BOOKING_CONFIRMED", id |-> h.id]}
       /\ outbox' = Append(outbox, [topic |-> "BOOKING_CONFIRMED", id |-> h.id])
       /\ CommitCall(c, h.id)
  /\ UNCHANGED nextHold

(* updateMany({id, status: CONFIRMED}) and updateMany({id, status: BOOKED}). *)
CancelWritable(c, b) == b \in bookings /\ slot[b.slot] = "BOOKED"

CommitCancel(c) ==
  /\ AtWrites(c, "cancel")
  /\ \E b \in view[c].bookings :
       /\ BookingNamed(c, b) /\ CancelWritable(c, b)
       /\ bookings' = (bookings \ {b}) \cup {[b EXCEPT !.status = "CANCELLED"]}
       /\ slot' = [slot EXCEPT ![b.slot] = "OPEN"]
       /\ audit' = audit \cup {[action |-> "BOOKING_CANCELLED", id |-> b.id]}
       /\ outbox' = Append(outbox, [topic |-> "BOOKING_CANCELLED", id |-> b.id])
       /\ CommitCall(c, b.id)
  /\ UNCHANGED <<holds, nextHold>>

(* Mutant: the batch writes by id, without the condition on the status. *)
BatchTrustsSnapshot(c, s) ==
  /\ s \in call[c].request.slots
  /\ view[c].slot[s] # Desired(call[c].request.op)

(* createMany of the periods missing from the snapshot skips those that    *)
(* exist by now; updateMany of the others is conditional on the opposite   *)
(* status.  Nobody looks at either count.                                  *)
BatchWrites(c, s) ==
  LET desired == Desired(call[c].request.op)
  IN /\ s \in call[c].request.slots
     /\ \/ view[c].slot[s] = "ABSENT" /\ slot[s] = "ABSENT"
        \/ view[c].slot[s] = Opposite(desired) /\ slot[s] = Opposite(desired)

CommitOwnerBatch(c) ==
  /\ pc[c] = "checked" /\ IsBatch(c)
  /\ slot' = [s \in Slots |->
                IF BatchWrites(c, s) THEN Desired(call[c].request.op) ELSE slot[s]]
  /\ CommitCall(c, 0)
  /\ UNCHANGED <<holds, bookings, nextHold, audit, outbox>>

CanCommit(c) ==
  LET r == call[c].request
  IN /\ Recorded(r) = {}
     /\ \/ r.op = "hold" /\ HoldWritable(c)
        \/ r.op = "confirm" /\ \E h \in view[c].holds :
             HoldNamed(c, h) /\ SlotNeverBooked(h.slot) /\ ConfirmWritable(c, h)
        \/ r.op = "cancel" /\ \E b \in view[c].bookings :
             BookingNamed(c, b) /\ CancelWritable(c, b)
        \/ IsBatch(c)

(* The unique index on Booking refuses the insert (P2002, a 500 response). *)
BookingInsertRefused(c) ==
  /\ call[c].request.op = "confirm"
  /\ \E h \in view[c].holds : HoldNamed(c, h) /\ ~SlotNeverBooked(h.slot)

CheckFails(c) ==
  /\ pc[c] = "locked" /\ ~CommandChecked(c)
  /\ AbortCall(c, "rejected")

WriteFails(c) ==
  /\ pc[c] = "checked" /\ ~CanCommit(c)
  /\ AbortCall(c, IF BookingInsertRefused(c) THEN "duplicate" ELSE "rejected")

CallStep(c) ==
  \/ ReturnRecorded(c) \/ BeginTransaction(c) \/ CandidateMissing(c)
  \/ InsertLockRow(c) \/ LockCalendarDay(c)
  \/ CheckCommand(c) \/ CheckFails(c)
  \/ CommitHold(c) \/ CommitConfirm(c) \/ CommitCancel(c) \/ CommitOwnerBatch(c)
  \/ WriteFails(c) \/ CallDeadlocks(c) \/ CallTimesOut(c)
  \/ RetryCall(c) \/ GiveUp(c)

-----------------------------------------------------------------------------
(* expireBatch and completeEndedBookings: candidates are read outside any  *)
(* transaction at the batch's one reading of the clock (at), then taken    *)
(* one transaction at a time.                                              *)

StartBatch(w, candidates) ==
  /\ pc[w] = "idle" /\ candidates # {}
  /\ pc' = [pc EXCEPT ![w] = "batch"]
  /\ job' = [job EXCEPT ![w] = [batch |-> candidates, current |-> {}, at |-> now]]
  /\ UNCHANGED <<tableVars, logVars, lockVars, view, call>>

(* Mutant: expiresAt compared with equals instead of lte. *)
HoldsExpiringNow == {h \in holds : h.expiresAt = now}

ExpiredHolds == {h \in holds : h.expiresAt <= now}
EndedBookings == {b \in bookings : b.status = "CONFIRMED" /\ EndsAt[b.slot] <= now}

StartExpireBatch(w) ==
  StartBatch(w, {[id |-> h.id, slot |-> h.slot] : h \in ExpiredHolds})

StartCompleteBatch(w) ==
  StartBatch(w, {[id |-> b.id, slot |-> b.slot] : b \in EndedBookings})

(* lockSlot's first SELECT fixes the snapshot of the candidate's transaction. *)
TakeCandidate(w) ==
  /\ pc[w] = "batch"
  /\ \E x \in job[w].batch :
       job' = [job EXCEPT ![w].batch = @ \ {x}, ![w].current = {x}]
  /\ view' = [view EXCEPT ![w] = Committed]
  /\ pc' = [pc EXCEPT ![w] = "begun"]
  /\ UNCHANGED <<tableVars, logVars, lockVars, call>>

(* The rest of the batch, or the end of the tick. *)
NextCandidate(w) ==
  /\ EndTransaction(w)
  /\ IF job[w].batch = {}
     THEN /\ pc' = [pc EXCEPT ![w] = "idle"]
          /\ job' = [job EXCEPT ![w] = IdleJob]
     ELSE /\ pc' = [pc EXCEPT ![w] = "batch"]
          /\ job' = [job EXCEPT ![w].current = {}]

CommitJob(w) == lockRow' = TRUE /\ NextCandidate(w) /\ UNCHANGED <<now, idem, call>>

ExpireChecked(w, x) ==
  /\ view[w].slot[x.slot] = "HELD"
  /\ \E h \in view[w].holds : h.slot = x.slot /\ h.id = x.id /\ h.expiresAt <= job[w].at

(* Mutant: nobody looks at the counts of the two statements. *)
ExpireTrustsSnapshot(w, x) == x \in job[w].current

(* deleteMany({id, expiresAt <= now}) and updateMany({id, status: HELD}). *)
ExpireWritable(w, x) ==
  /\ \E h \in holds : h.id = x.id /\ h.expiresAt <= job[w].at
  /\ slot[x.slot] = "HELD"

CommitExpiry(w) ==
  /\ pc[w] = "locked" /\ w \in Expirers
  /\ \E x \in job[w].current :
       /\ ExpireChecked(w, x) /\ ExpireWritable(w, x)
       /\ holds' = {h \in holds : ~(h.id = x.id /\ h.expiresAt <= job[w].at)}
       /\ slot' = [slot EXCEPT ![x.slot] = "OPEN"]
       /\ audit' = audit \cup {[action |-> "SLOT_HOLD_EXPIRED", id |-> x.id]}
  /\ CommitJob(w)
  /\ UNCHANGED <<bookings, nextHold, outbox>>

(* Mutant: the completion is not conditional on the status. *)
CompleteAgain(w, x, b) == b.id = x.id /\ EndsAt[b.slot] <= job[w].at

(* Mutant: endsAt compared with lt instead of lte. *)
CompleteAfterEnd(w, x, b) ==
  b.id = x.id /\ b.status = "CONFIRMED" /\ EndsAt[b.slot] < job[w].at

CompleteWritable(w, x, b) ==
  b.id = x.id /\ b.status = "CONFIRMED" /\ EndsAt[b.slot] <= job[w].at

CommitCompletion(w) ==
  /\ pc[w] = "locked" /\ w \in Completers
  /\ \E x \in job[w].current, b \in bookings :
       /\ CompleteWritable(w, x, b)
       /\ bookings' = (bookings \ {b}) \cup {[b EXCEPT !.status = "COMPLETED"]}
       /\ audit' = audit \cup {[action |-> "BOOKING_COMPLETED", id |-> b.id]}
       /\ outbox' = Append(outbox, [topic |-> "BOOKING_COMPLETED", id |-> b.id])
  /\ CommitJob(w)
  /\ UNCHANGED <<slot, holds, nextHold>>

(* return false: the candidate is no longer what the batch read. *)
SkipCandidate(w) ==
  /\ pc[w] = "locked"
  /\ \A x \in job[w].current :
       IF w \in Expirers
       THEN ~(ExpireChecked(w, x) /\ ExpireWritable(w, x))
       ELSE \A b \in bookings : ~CompleteWritable(w, x, b)
  /\ CommitJob(w)
  /\ UNCHANGED <<slot, holds, bookings, nextHold, audit, outbox>>

(* A deadlock, a timeout or a crash of the worker ends the whole batch:    *)
(* nothing catches it inside the loop and nothing is retried.              *)
JobFails(w) ==
  /\ pc[w] \notin {"idle", "failed"}
  /\ EndTransaction(w)
  /\ pc' = [pc EXCEPT ![w] = "failed"]
  /\ job' = [job EXCEPT ![w] = IdleJob]
  /\ UNCHANGED <<tableVars, logVars, lockRow, call>>

(* The catch and finally of the tick, or the restart of the process. *)
EndFailedTick(w) ==
  /\ pc[w] = "failed"
  /\ pc' = [pc EXCEPT ![w] = "idle"]
  /\ UNCHANGED <<tableVars, logVars, lockVars, view, call, job>>

JobStep(w) ==
  \/ w \in Expirers /\ StartExpireBatch(w)
  \/ w \in Completers /\ StartCompleteBatch(w)
  \/ TakeCandidate(w) \/ InsertLockRow(w) \/ LockCalendarDay(w)
  \/ CommitExpiry(w) \/ CommitCompletion(w) \/ SkipCandidate(w)
  \/ EndFailedTick(w)

-----------------------------------------------------------------------------
Next ==
  \/ Advance
  \/ \E c \in Clients : SendsRequest(c) \/ CallStep(c) \/ CallCrashes(c)
  \/ \E w \in Workers : JobStep(w) \/ JobFails(w)

Spec == Init /\ [][Next]_vars

(* What the scheduling of the code justifies.  A call settles, because     *)
(* Prisma ends a transaction that waits too long.  The clock runs.         *)
(* setInterval ticks again after every batch, a worker whose lock becomes  *)
(* free again and again is granted it, InnoDB breaks a deadlock, and the   *)
(* database does not fail a worker's batches for ever.                     *)
Fairness ==
  /\ WF_vars(Advance)
  /\ \A c \in Clients : WF_vars(CallStep(c))
  /\ \A w \in Workers :
       /\ WF_vars(JobStep(w))
       /\ SF_vars(InsertLockRow(w)) /\ SF_vars(LockCalendarDay(w))
       /\ WF_vars(DeadlockVictim(w) /\ JobFails(w)) /\ <>[][~JobFails(w)]_vars

FairSpec == Spec /\ Fairness

-----------------------------------------------------------------------------
Phase ==
  {"idle", "ready", "begun", "shared", "locked", "checked", "caught", "batch", "failed"}
ViewRow == [slot: [Slots -> SlotStatus], holds: SUBSET HoldRow, bookings: SUBSET BookingRow]
CallState == [request: Request \cup {NoRequest}, attempt: 0 .. 2,
              error: {"none", "rejected", "deadlock", "duplicate"}, at: Nat]
BatchRow == [id: Nat, slot: Slots]
JobState == [batch: SUBSET BatchRow, current: SUBSET BatchRow, at: Nat]
Topic == {"BOOKING_CONFIRMED", "BOOKING_CANCELLED", "BOOKING_COMPLETED"}
AuditRow == [action: Topic \cup {"SLOT_HELD", "SLOT_HOLD_EXPIRED"}, id: Nat]
OutboxRow == [topic: Topic, id: Nat]

LogTypeOK ==
  /\ idem \subseteq [request: Request, response: Nat]
  /\ audit \subseteq AuditRow
  /\ outbox \in Seq(OutboxRow)

LockTypeOK == lockRow \in BOOLEAN /\ shared \subseteq Procs /\ exclusive \subseteq Procs

ProcTypeOK ==
  /\ pc \in [Procs -> Phase]
  /\ view \in [Procs -> ViewRow]
  /\ call \in [Clients -> CallState]
  /\ job \in [Workers -> JobState]

(* Types of the transaction layer; attempt never passes the third one. *)
TypeOK == TablesTypeOK /\ LogTypeOK /\ LockTypeOK /\ ProcTypeOK

(* lockSlot and mutateFixedSlots serialize: at most one transaction of the *)
(* day is past its FOR UPDATE, nobody keeps a shared lock beside it, and   *)
(* every path out of a transaction gives its locks back.                   *)
CalendarLockExclusive ==
  /\ \A p, q \in exclusive : p = q
  /\ exclusive = {} \/ shared = {}
  /\ \A p \in Procs : p \in exclusive <=> pc[p] \in {"locked", "checked"}
  /\ \A p \in Procs : p \in shared <=> pc[p] = "shared"

Logged(action, id) == [action |-> action, id |-> id] \in audit

(* Every hold ever granted is in exactly one place: still live, released   *)
(* by the expiry worker, or consumed by its booking.  A confirm racing the *)
(* expiry of the same hold has exactly one winner, however long the clock  *)
(* runs between the confirm's check of expiresAt and its writes.           *)
HoldEndsOnce ==
  \A id \in 1 .. nextHold - 1 :
    LET live == \E h \in holds : h.id = id
        expired == Logged("SLOT_HOLD_EXPIRED", id)
        booked == \E b \in bookings : b.id = id
    IN /\ Logged("SLOT_HELD", id)
       /\ live \/ expired \/ booked
       /\ ~(live /\ expired) /\ ~(live /\ booked) /\ ~(expired /\ booked)

(* The events of one booking, by their places in the outbox, and the one   *)
(* that tells of the transition to a status.                               *)
EventsOf(id) == {i \in DOMAIN outbox : outbox[i].id = id}
TopicOf == [CONFIRMED |-> "BOOKING_CONFIRMED", CANCELLED |-> "BOOKING_CANCELLED",
            COMPLETED |-> "BOOKING_COMPLETED"]

TellsOf(b, first, last) ==
  /\ EventsOf(b.id) = {first, last} /\ first <= last
  /\ first = last <=> b.status = "CONFIRMED"
  /\ outbox[first].topic = "BOOKING_CONFIRMED"
  /\ outbox[last].topic = TopicOf[b.status]

(* The outbox tells the story of each booking: one event per transition,   *)
(* in the order of the transitions, and none for what was rolled back.     *)
OutboxTellsBooking ==
  /\ \A b \in bookings : \E first, last \in DOMAIN outbox : TellsOf(b, first, last)
  /\ \A i \in DOMAIN outbox : \E b \in bookings : b.id = outbox[i].id

(* Every effect of a professional's command belongs to exactly one         *)
(* idempotency record, and every record to its effect: whatever the        *)
(* retries, replays, deadlocks and crashes, a request is applied once.     *)
CommandEffects ==
  {<<"hold", "SLOT_HELD">>, <<"confirm", "BOOKING_CONFIRMED">>, <<"cancel", "BOOKING_CANCELLED">>}

EffectsOncePerRecord ==
  /\ \A p, q \in idem : SameRecord(p.request, q.request) => p = q
  /\ \A e \in CommandEffects :
       /\ \A a \in audit : a.action = e[2] =>
            \E rec \in idem : rec.request.op = e[1] /\ rec.response = a.id
       /\ \A p, q \in idem :
            p.request.op = e[1] /\ q.request.op = e[1] /\ p.response = q.response => p = q
       /\ \A rec \in idem : rec.request.op = e[1] => Logged(e[2], rec.response)

(* The three "throw new Error" after a conditional update that found no    *)
(* slot are never reached: a transaction that gets that far, on however    *)
(* old a snapshot, finds the slot in the state its own row implies.        *)
InternalErrorsUnreachable ==
  /\ \A c \in Clients : AtWrites(c, "confirm") =>
       \A h \in view[c].holds :
         HoldNamed(c, h) /\ h \in holds => slot[h.slot] = "HELD"
  /\ \A c \in Clients : AtWrites(c, "cancel") =>
       \A b \in view[c].bookings :
         BookingNamed(c, b) /\ b \in bookings => slot[b.slot] = "BOOKED"
  /\ \A w \in Expirers : pc[w] = "locked" =>
       \A x \in job[w].current :
         ExpireChecked(w, x) /\ (\E h \in holds : h.id = x.id) => slot[x.slot] = "HELD"

(* The technical baseline: a slot may keep CANCELLED bookings as history,  *)
(* only a second live one is forbidden.  So a confirm is refused as a      *)
(* duplicate only when the slot of its hold has a live booking.            *)
HistoryNeverRefusesConfirm ==
  \A c \in Clients : call[c].error = "duplicate" =>
    \A h \in holds : h.id = call[c].request.ref =>
      \E b \in bookings : b.slot = h.slot /\ Live(b)

(* The promise of SlotLifecycle.  What is decided is the command of the    *)
(* transaction that has passed its check; what an owner's batch has read   *)
(* is its snapshot, unless that refuses it.                                *)
DecidedBy(c) ==
  LET r == call[c].request
  IN IF pc[c] # "checked" THEN {}
     ELSE CASE r.op = "hold" ->
                 {[op |-> "hold", slot |-> s, owner |-> r.actor,
                   expiresAt |-> call[c].at + HoldTtl] : s \in r.slots}
            [] r.op = "confirm" ->
                 {[op |-> "confirm", row |-> h] : h \in {g \in view[c].holds \cap holds : HoldNamed(c, g)}}
            [] r.op = "cancel" ->
                 {[op |-> "cancel", row |-> b] :
                    b \in {d \in view[c].bookings \cap bookings : BookingNamed(c, d)}}
            [] OTHER -> {}

HasRead(c) ==
  pc[c] \in {"begun", "shared", "locked", "checked"} /\ IsBatch(c) /\ BatchMutable(c)

BatchRead(c) ==
  [by |-> c, targets |-> call[c].request.slots, desired |-> Desired(call[c].request.op),
   seen |-> view[c].slot]

Decided == UNION {DecidedBy(c) : c \in Clients}
Reads == {BatchRead(c) : c \in {d \in Clients : HasRead(d)}}

Promise == INSTANCE SlotLifecycle WITH
  Callers <- Clients, decided <- Decided, reads <- Reads

(* A command takes effect only if one instant under the day's lock allowed *)
(* it, by the clock and by the rows it changes, and nobody changed a row   *)
(* between that instant and the effect; an owner's batch sets exactly the  *)
(* periods that are still as it read them before the day began.            *)
ImplementsLifecycle == Promise!LifecycleSpec


(* An expired hold does not block its slot for ever: the expiry worker     *)
(* ends it whatever commands, deadlocks and failed batches get in between. *)
ExpiredHoldsEnd ==
  \A id \in 1 .. MaxHolds + 1 :
    (\E h \in holds : h.id = id /\ h.expiresAt <= now) ~> ~\E h \in holds : h.id = id

(* A booking whose end has passed does not stay CONFIRMED: a lifecycle      *)
(* worker completes it, unless a cancellation that was checked in time      *)
(* commits first.                                                          *)
EndedBookingsComplete ==
  \A id \in 1 .. MaxHolds + 1 :
    (\E b \in bookings : b.id = id /\ b.status = "CONFIRMED" /\ EndsAt[b.slot] <= now)
      ~> \E b \in bookings : b.id = id /\ b.status # "CONFIRMED"

(* executeIdempotently ends: three attempts at most, none waiting for ever. *)
CallsEnd == \A c \in Clients : pc[c] # "idle" ~> pc[c] = "idle"
=============================================================================
