---------------------------- MODULE OutboxEvents ----------------------------
(***************************************************************************)
(* One row of OutboxEvent as the two delivery services of apps/api treat   *)
(* it (booking-notification-outbox.service.ts, media-cleanup.service.ts):  *)
(* the same conditional updates, with availableAt as the time of the next  *)
(* attempt and, while the row is PROCESSING, as the end of a lease.        *)
(***************************************************************************)
EXTENDS Naturals

CONSTANTS
  Lease,        \* LEASE_MS
  RetryDelays   \* the backoff after a failure, min(300, 2^n) seconds

ASSUME DeliveryAssumption ==
  /\ Lease \in Nat \ {0}
  /\ RetryDelays \subseteq Nat \ {0} /\ RetryDelays # {}

DeliveryStatus == {"ABSENT", "PENDING", "PROCESSING", "FAILED", "DELIVERED"}
DeliveryRow == [status: DeliveryStatus, attempts: Nat, availableAt: Nat]

NoRow == [status |-> "ABSENT", attempts |-> 0, availableAt |-> 0]
Pending(t) == [status |-> "PENDING", attempts |-> 0, availableAt |-> t]

(* Mutant: a row left PROCESSING by a dead worker is never found again. *)
DueUnlessProcessing(d, t) ==
  d.status \in {"PENDING", "FAILED"} /\ d.availableAt <= t

(* The condition of both the batch's query and the claim: ready for an     *)
(* attempt, or left PROCESSING with an expired lease.                      *)
Due(d, t) ==
  /\ d.status \in {"PENDING", "FAILED", "PROCESSING"}
  /\ d.availableAt <= t

(* Claimed by a batch that read the clock at t. *)
Claimed(d, t) ==
  [status |-> "PROCESSING", attempts |-> d.attempts + 1, availableAt |-> t + Lease]

(* Mutant: the lease token is left out of the condition. *)
OwnsAny(d, t) == d.status = "PROCESSING"

(* Still the lease of the batch that read the clock at t: the condition of *)
(* the completion and of the retry.                                        *)
Owns(d, t) == d.status = "PROCESSING" /\ d.availableAt = t + Lease

Delivered(d) == [d EXCEPT !.status = "DELIVERED"]

Postponed(d, t) == [d EXCEPT !.status = "FAILED", !.availableAt = t]
=============================================================================
