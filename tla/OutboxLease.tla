----------------------------- MODULE OutboxLease -----------------------------
(***************************************************************************)
(* BookingNotificationOutboxService.processBatch in several worker         *)
(* processes.  A batch reads the clock once (at) and computes every lease  *)
(* from that reading, so the last events of a slow batch are claimed with  *)
(* a lease that is already over and another worker may take them at once.  *)
(* Every statement is a transaction of its own.                            *)
(***************************************************************************)
EXTENDS OutboxEvents, FiniteSets

CONSTANTS
  Deliverers,   \* worker processes
  MaxEvents,    \* bound: events posted
  BatchLimit,   \* take: limit
  MaxTime       \* bound: last instant of the clock

ASSUME OutboxAssumption == MaxEvents \in Nat /\ BatchLimit \in Nat \ {0} /\ MaxTime \in Nat

Events == 1 .. MaxEvents   \* numbered in the order of createdAt

VARIABLES
  now,    \* the clock
  rows,   \* the OutboxEvent rows of the booking topics
  sink,   \* events the notification sink has accepted
  pc,     \* where each worker stands
  job     \* its batch: [at, batch, event]

vars == <<now, rows, sink, pc, job>>

IdleJob == [at |-> 0, batch |-> {}, event |-> {}]

Init ==
  /\ now = 0
  /\ rows = [e \in Events |-> NoRow]
  /\ sink = {}
  /\ pc = [w \in Deliverers |-> "idle"]
  /\ job = [w \in Deliverers |-> IdleJob]

Advance == now < MaxTime /\ now' = now + 1 /\ UNCHANGED <<rows, sink, pc, job>>

(* A booking transaction commits its event. *)
Post(e) ==
  /\ rows[e].status = "ABSENT"
  /\ \A d \in Events : d < e => rows[d].status # "ABSENT"
  /\ rows' = [rows EXCEPT ![e] = Pending(now)]
  /\ UNCHANGED <<now, sink, pc, job>>

Oldest(S) == {e \in S : Cardinality({d \in S : d < e}) < BatchLimit}

ReadBatch(w) ==
  /\ pc[w] = "idle"
  /\ LET due == {e \in Events : Due(rows[e], now)}
     IN due # {} /\ job' = [job EXCEPT ![w] = [at |-> now, batch |-> Oldest(due), event |-> {}]]
  /\ pc' = [pc EXCEPT ![w] = "batch"]
  /\ UNCHANGED <<now, rows, sink>>

(* The oldest event left in the batch, or the end of the batch. *)
ClaimEvent(w, e) ==
  /\ pc[w] = "batch"
  /\ e \in job[w].batch /\ \A d \in job[w].batch : e <= d
  /\ Due(rows[e], job[w].at)
  /\ rows' = [rows EXCEPT ![e] = Claimed(@, job[w].at)]
  /\ pc' = [pc EXCEPT ![w] = "claimed"]
  /\ job' = [job EXCEPT ![w].batch = @ \ {e}, ![w].event = {e}]
  /\ UNCHANGED <<now, sink>>

SkipEvent(w, e) ==
  /\ pc[w] = "batch"
  /\ e \in job[w].batch /\ \A d \in job[w].batch : e <= d
  /\ ~Due(rows[e], job[w].at)
  /\ job' = [job EXCEPT ![w].batch = @ \ {e}]
  /\ UNCHANGED <<now, rows, sink, pc>>

EndBatch(w) ==
  /\ pc[w] = "batch" /\ job[w].batch = {}
  /\ pc' = [pc EXCEPT ![w] = "idle"]
  /\ job' = [job EXCEPT ![w] = IdleJob]
  /\ UNCHANGED <<now, rows, sink>>

Notify(w, e) ==
  /\ pc[w] = "claimed" /\ e \in job[w].event
  /\ sink' = sink \cup {e}
  /\ pc' = [pc EXCEPT ![w] = "sent"]
  /\ UNCHANGED <<now, rows, job>>

NextEvent(w) ==
  /\ pc' = [pc EXCEPT ![w] = "batch"]
  /\ job' = [job EXCEPT ![w].event = {}]

(* Mutant: the row is marked before the sink has accepted the event. *)
CompleteFirst(w, e) ==
  /\ pc[w] \in {"claimed", "sent"} /\ e \in job[w].event
  /\ rows' = [rows EXCEPT ![e] = IF Owns(@, job[w].at) THEN Delivered(@) ELSE @]
  /\ NextEvent(w)
  /\ UNCHANGED <<now, sink>>

(* Nothing happens when the lease has gone to another worker. *)
Complete(w, e) ==
  /\ pc[w] = "sent" /\ e \in job[w].event
  /\ rows' = [rows EXCEPT ![e] = IF Owns(@, job[w].at) THEN Delivered(@) ELSE @]
  /\ NextEvent(w)
  /\ UNCHANGED <<now, sink>>

(* The catch block: the sink or the completing update has failed.  (An     *)
(* update that reports an error although it was applied ends as Complete:  *)
(* the conditional retry finds nothing to change.)                         *)
RetryLater(w, e) ==
  /\ pc[w] \in {"claimed", "sent"} /\ e \in job[w].event
  /\ \E d \in RetryDelays :
       /\ now + d <= MaxTime   \* bound: the clock reaches the next attempt
       /\ rows' = [rows EXCEPT ![e] = IF Owns(@, job[w].at) THEN Postponed(@, now + d) ELSE @]
  /\ NextEvent(w)
  /\ UNCHANGED <<now, sink>>

(* The process dies, or a statement outside the try block fails and ends   *)
(* the batch; what it had claimed stays PROCESSING.                        *)
WorkerFails(w) ==
  /\ pc[w] # "idle"
  /\ job[w].at + Lease <= MaxTime   \* bound: the clock reaches the end of the lease
  /\ pc' = [pc EXCEPT ![w] = "idle"]
  /\ job' = [job EXCEPT ![w] = IdleJob]
  /\ UNCHANGED <<now, rows, sink>>

WorkerStep(w) ==
  \/ ReadBatch(w) \/ EndBatch(w)
  \/ \E e \in Events : ClaimEvent(w, e) \/ SkipEvent(w, e) \/ Notify(w, e) \/ Complete(w, e)

Next ==
  \/ Advance
  \/ \E e \in Events : Post(e)
  \/ \E w \in Deliverers :
       WorkerStep(w) \/ WorkerFails(w) \/ \E e \in Events : RetryLater(w, e)

Spec == Init /\ [][Next]_vars

(* The clock runs, setInterval ticks again after every batch, and from     *)
(* some time on the worker processes stay up.                              *)
Fairness ==
  /\ WF_vars(Advance)
  /\ \A w \in Deliverers : WF_vars(WorkerStep(w)) /\ <>[][~WorkerFails(w)]_vars

FairSpec == Spec /\ Fairness

-----------------------------------------------------------------------------
TypeOK ==
  /\ now \in Nat
  /\ rows \in [Events -> DeliveryRow]
  /\ sink \subseteq Events
  /\ pc \in [Deliverers -> {"idle", "batch", "claimed", "sent"}]
  /\ job \in [Deliverers -> [at: Nat, batch: SUBSET Events, event: SUBSET Events]]

Holds(w, e) == pc[w] \in {"claimed", "sent"} /\ e \in job[w].event

(* The lease is a fencing token: of the workers that have an event in hand *)
(* at most one can still complete or postpone it, however slow the others  *)
(* were and whatever clock reading their batch started from.               *)
OneOwner ==
  \A e \in Events, v, w \in Deliverers :
    /\ Holds(v, e) /\ Owns(rows[e], job[v].at)
    /\ Holds(w, e) /\ Owns(rows[e], job[w].at)
    => v = w

(* An event is taken from the worker that owns it only when the lease has  *)
(* run for its full length since that worker's batch began.                *)
LeaseRespected ==
  [][\A e \in Events, w \in Deliverers :
       /\ Holds(w, e) /\ Owns(rows[e], job[w].at)
       /\ rows'[e].attempts > rows[e].attempts
       => now >= job[w].at + Lease]_vars

Abstract == INSTANCE AtLeastOnce WITH
  posted <- {e \in Events : rows[e].status # "ABSENT"},
  accepted <- sink,
  delivered <- {e \in Events : rows[e].status = "DELIVERED"}

(* Whatever workers die, are slow or fail, the rows go through what the    *)
(* outbox promises: accepted before DELIVERED, and DELIVERED for good.     *)
DeliverySpec == Abstract!Spec

(* Every event that a booking transaction has committed is delivered. *)
EventsDelivered ==
  \A e \in Events : rows[e].status # "ABSENT" ~> rows[e].status = "DELIVERED"
=============================================================================
