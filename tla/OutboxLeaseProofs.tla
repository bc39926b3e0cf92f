-------------------------- MODULE OutboxLeaseProofs --------------------------
(***************************************************************************)
(* OutboxLease for any number of workers and events and any batch limit:   *)
(* the lease fences off the workers that lost it, and the rows go through  *)
(* what AtLeastOnce promises.                                              *)
(***************************************************************************)
EXTENDS OutboxLease, TLAPS

(* A batch starts from a clock reading of the past. *)
BatchesInPast == \A w \in Deliverers : job[w].at <= now

(* availableAt has never gone back behind the lease of a worker that still *)
(* has the event in hand.                                                  *)
LeaseIsFloor ==
  \A w \in Deliverers, e \in Events :
    Holds(w, e) => rows[e].availableAt >= job[w].at + Lease

(* The owner's batch started after every other holder's lease was over. *)
OwnerIsLatest ==
  \A v, w \in Deliverers, e \in Events :
    Holds(v, e) /\ Holds(w, e) /\ v # w /\ Owns(rows[e], job[w].at)
      => job[w].at >= job[v].at + Lease

(* A worker has one event in hand at a time. *)
OneInHand ==
  \A w \in Deliverers, d, e \in Events : Holds(w, d) /\ Holds(w, e) => d = e

(* What is in hand was posted, and what was sent was accepted. *)
HeldArePosted ==
  \A w \in Deliverers, e \in Events : Holds(w, e) => rows[e].status # "ABSENT"

SentAreAccepted ==
  \A w \in Deliverers : pc[w] = "sent" => job[w].event \subseteq sink

IInv ==
  /\ TypeOK
  /\ BatchesInPast /\ LeaseIsFloor /\ OwnerIsLatest
  /\ OneInHand /\ HeldArePosted /\ SentAreAccepted

(* The empty tables and idle workers satisfy the invariant. *)
LEMMA InitIInv == Init => IInv
  BY DEF Init, IInv, TypeOK, BatchesInPast, LeaseIsFloor, OwnerIsLatest, OneInHand, HeldArePosted,
         SentAreAccepted, Holds, IdleJob, NoRow, DeliveryRow, DeliveryStatus

(* A claim: the row was due, so every other holder's lease was over. *)
LEMMA ClaimIInv ==
  ASSUME IInv, NEW w \in Deliverers, NEW e \in Events, ClaimEvent(w, e)
  PROVE  IInv'
  <1> USE DeliveryAssumption
  <1>1. TypeOK'
    <2>1. Claimed(rows[e], job[w].at) \in DeliveryRow
      BY DEF IInv, TypeOK, Claimed, DeliveryRow, DeliveryStatus
    <2>2. rows' \in [Events -> DeliveryRow]
      BY <2>1 DEF IInv, TypeOK, ClaimEvent
    <2>3. pc' \in [Deliverers -> {"idle", "batch", "claimed", "sent"}]
      BY DEF IInv, TypeOK, ClaimEvent
    <2>4. job' \in [Deliverers -> [at: Nat, batch: SUBSET Events, event: SUBSET Events]]
      BY ZenonT(40) DEF IInv, TypeOK, ClaimEvent
    <2>5. now' \in Nat /\ sink' \subseteq Events
      BY DEF IInv, TypeOK, ClaimEvent
    <2> QED BY <2>2, <2>3, <2>4, <2>5 DEF TypeOK
  <1>2. BatchesInPast'
    BY DEF IInv, TypeOK, BatchesInPast, ClaimEvent
  <1>3. LeaseIsFloor'
    BY DEF IInv, TypeOK, BatchesInPast, LeaseIsFloor, Holds, ClaimEvent, Claimed, Due, DeliveryRow
  <1>4. OwnerIsLatest'
    BY DEF IInv, TypeOK, LeaseIsFloor, OwnerIsLatest, Holds, Owns, ClaimEvent, Claimed, Due,
           DeliveryRow
  <1>5. OneInHand' /\ HeldArePosted' /\ SentAreAccepted'
    BY DEF IInv, TypeOK, OneInHand, HeldArePosted, SentAreAccepted, Holds, ClaimEvent, Claimed, DeliveryRow
  <1> QED BY <1>1, <1>2, <1>3, <1>4, <1>5 DEF IInv

(* A retry: only the owner writes, and its batch started after every other *)
(* holder's lease, so the next attempt does not fall behind one of them.   *)
LEMMA RetryIInv ==
  ASSUME IInv, NEW w \in Deliverers, NEW e \in Events, RetryLater(w, e)
  PROVE  IInv'
  <1> USE DeliveryAssumption
  <1>1. PICK d \in RetryDelays :
          rows' = [rows EXCEPT ![e] = IF Owns(@, job[w].at) THEN Postponed(@, now + d) ELSE @]
    BY DEF RetryLater
  <1>2. d \in Nat
    OBVIOUS
  <1>3. TypeOK'
    <2> DEFINE r == rows[e]
               t == now + d
    <2>1. r \in DeliveryRow /\ t \in Nat
      BY <1>2 DEF IInv, TypeOK
    <2> HIDE DEF r, t
    <2>2. Postponed(r, t) \in DeliveryRow
      BY <2>1 DEF Postponed, DeliveryRow, DeliveryStatus
    <2> USE DEF r, t
    <2>3. rows' \in [Events -> DeliveryRow]
      BY <1>1, <2>2 DEF IInv, TypeOK
    <2> QED BY <2>3 DEF IInv, TypeOK, RetryLater, NextEvent
  <1>4. BatchesInPast'
    BY DEF IInv, TypeOK, BatchesInPast, RetryLater, NextEvent
  <1>5. LeaseIsFloor'
    BY <1>1, <1>2 DEF IInv, TypeOK, BatchesInPast, LeaseIsFloor, OwnerIsLatest, Holds, Owns,
       RetryLater, NextEvent, Postponed, DeliveryRow
  <1>6. OwnerIsLatest'
    BY <1>1, <1>2 DEF IInv, TypeOK, OwnerIsLatest, Holds, Owns, RetryLater, NextEvent, Postponed,
       DeliveryRow
  <1>7. OneInHand' /\ HeldArePosted' /\ SentAreAccepted'
    BY <1>1 DEF IInv, TypeOK, OneInHand, HeldArePosted, SentAreAccepted, Holds, RetryLater, NextEvent,
       Postponed, DeliveryRow
  <1> QED BY <1>3, <1>4, <1>5, <1>6, <1>7 DEF IInv

(* A completion changes the status of a row only. *)
LEMMA CompleteIInv ==
  ASSUME IInv, NEW w \in Deliverers, NEW e \in Events, Complete(w, e)
  PROVE  IInv'
  <1> USE DeliveryAssumption
  <1>1. TypeOK'
    BY ZenonT(40) DEF IInv, TypeOK, Complete, NextEvent, Delivered, DeliveryRow, DeliveryStatus
  <1>2. BatchesInPast' /\ LeaseIsFloor'
    BY DEF IInv, TypeOK, BatchesInPast, LeaseIsFloor, Holds, Complete, NextEvent, Delivered,
           DeliveryRow
  <1>3. OwnerIsLatest'
    BY DEF IInv, TypeOK, OwnerIsLatest, Holds, Owns, Complete, NextEvent, Delivered, DeliveryRow
  <1>4. OneInHand' /\ HeldArePosted' /\ SentAreAccepted'
    BY DEF IInv, TypeOK, OneInHand, HeldArePosted, SentAreAccepted, Holds, Complete, NextEvent, Delivered,
           DeliveryRow
  <1> QED BY <1>1, <1>2, <1>3, <1>4 DEF IInv

(* The steps that leave the rows alone. *)
LEMMA LocalStepIInv ==
  ASSUME IInv, NEW w \in Deliverers,
         \/ ReadBatch(w) \/ EndBatch(w) \/ WorkerFails(w)
         \/ \E e \in Events : SkipEvent(w, e) \/ Notify(w, e)
  PROVE  IInv'
  <1>1. CASE ReadBatch(w)
    BY <1>1 DEF IInv, TypeOK, BatchesInPast, LeaseIsFloor, OwnerIsLatest, OneInHand, HeldArePosted,
                SentAreAccepted, Holds, Owns, ReadBatch, Oldest
  <1>2. CASE EndBatch(w) \/ WorkerFails(w)
    <2>1. TypeOK'
      BY <1>2 DEF IInv, TypeOK, EndBatch, WorkerFails, IdleJob
    <2>2. /\ now' = now /\ rows' = rows /\ sink' = sink
          /\ \A v \in Deliverers : pc'[v] = IF v = w THEN "idle" ELSE pc[v]
          /\ \A v \in Deliverers : job'[v] = IF v = w THEN IdleJob ELSE job[v]
      BY <1>2 DEF IInv, TypeOK, EndBatch, WorkerFails
    <2>3. BatchesInPast'
      BY <2>2 DEF IInv, TypeOK, BatchesInPast, IdleJob
    <2> QED
      BY <2>1, <2>2, <2>3 DEF IInv, LeaseIsFloor, OwnerIsLatest, OneInHand, HeldArePosted, SentAreAccepted,
                              Holds, Owns
  <1>3. ASSUME NEW e \in Events, SkipEvent(w, e) PROVE IInv'
    BY <1>3 DEF IInv, TypeOK, BatchesInPast, LeaseIsFloor, OwnerIsLatest, OneInHand, HeldArePosted,
                SentAreAccepted, Holds, Owns, SkipEvent
  <1>4. ASSUME NEW e \in Events, Notify(w, e) PROVE IInv'
    <2>1. TypeOK'
      BY <1>4 DEF IInv, TypeOK, Notify
    <2>2. SentAreAccepted'
      <3>1. job[w].event = {e} \/ pc[w] # "claimed"
        BY <1>4 DEF IInv, TypeOK, OneInHand, Holds, Notify
      <3>2. /\ sink' = sink \cup {e} /\ job' = job
            /\ \A v \in Deliverers \ {w} : pc'[v] = pc[v]
        BY <1>4 DEF IInv, TypeOK, Notify
      <3> QED BY <1>4, <3>1, <3>2 DEF IInv, SentAreAccepted, Notify
    <2>3. /\ now' = now /\ rows' = rows /\ job' = job
          /\ \A v \in Deliverers, d \in Events : Holds(v, d)' => Holds(v, d)
      BY <1>4 DEF IInv, TypeOK, Holds, Notify
    <2>4. BatchesInPast' /\ LeaseIsFloor' /\ OwnerIsLatest' /\ OneInHand' /\ HeldArePosted'
      BY <2>3 DEF IInv, BatchesInPast, LeaseIsFloor, OwnerIsLatest, OneInHand, HeldArePosted, Owns
    <2> QED BY <2>1, <2>2, <2>4 DEF IInv
  <1> QED BY <1>1, <1>2, <1>3, <1>4

(* A new event is in nobody's hands. *)
LEMMA PostIInv ==
  ASSUME IInv, NEW e \in Events, Post(e)
  PROVE  IInv'
  BY DEF IInv, TypeOK, BatchesInPast, LeaseIsFloor, OwnerIsLatest, OneInHand, HeldArePosted,
         SentAreAccepted, Holds, Owns, Post, Pending, DeliveryRow, DeliveryStatus

LEMMA StepIInv == IInv /\ [Next]_vars => IInv'
  <1> SUFFICES ASSUME IInv, [Next]_vars PROVE IInv'
    OBVIOUS
  <1>1. CASE Advance
    BY <1>1 DEF IInv, TypeOK, BatchesInPast, LeaseIsFloor, OwnerIsLatest, OneInHand, HeldArePosted,
                SentAreAccepted, Holds, Owns, Advance
  <1>2. CASE \E e \in Events : Post(e)
    BY <1>2, PostIInv
  <1>3. ASSUME NEW w \in Deliverers,
               WorkerStep(w) \/ WorkerFails(w) \/ \E e \in Events : RetryLater(w, e)
        PROVE  IInv'
    BY <1>3, ClaimIInv, RetryIInv, CompleteIInv, LocalStepIInv DEF WorkerStep
  <1>4. CASE UNCHANGED vars
    BY <1>4 DEF vars, IInv, TypeOK, BatchesInPast, LeaseIsFloor, OwnerIsLatest, OneInHand, HeldArePosted,
                SentAreAccepted, Holds, Owns
  <1> QED BY <1>1, <1>2, <1>3, <1>4 DEF Next

LEMMA IInvHolds == Spec => []IInv
  BY InitIInv, StepIInv, PTL DEF Spec

(* The lease is a fencing token: processBatch never lets two workers write *)
(* the outcome of the same event.                                          *)
THEOREM LeaseFences == Spec => []OneOwner
  <1>1. IInv => OneOwner
    BY DeliveryAssumption DEF IInv, TypeOK, OwnerIsLatest, OneOwner, Owns, Holds
  <1> QED BY <1>1, IInvHolds, PTL

(* An owner keeps its event for the full lease: the conditional claim of   *)
(* another worker finds the row PROCESSING until then.                     *)
THEOREM LeaseIsHonoured == Spec => LeaseRespected
  <1> DEFINE Respected == \A e \in Events, w \in Deliverers :
        /\ Holds(w, e) /\ Owns(rows[e], job[w].at)
        /\ rows'[e].attempts > rows[e].attempts
        => now >= job[w].at + Lease
  <1>1. IInv /\ [Next]_vars => [Respected]_vars
    <2> SUFFICES ASSUME IInv, Next PROVE Respected
      OBVIOUS
    <2>1. CASE Advance
      BY <2>1 DEF IInv, TypeOK, DeliveryRow, Advance
    <2>2. ASSUME NEW e \in Events, Post(e) PROVE Respected
      BY <2>2 DEF IInv, TypeOK, DeliveryRow, Post, Pending
    <2>3. ASSUME NEW w \in Deliverers,
                 ReadBatch(w) \/ EndBatch(w) \/ WorkerFails(w)
                   \/ \E e \in Events : SkipEvent(w, e) \/ Notify(w, e)
          PROVE  Respected
      BY <2>3 DEF IInv, TypeOK, DeliveryRow, ReadBatch, EndBatch, WorkerFails, SkipEvent, Notify
    <2>4. ASSUME NEW w \in Deliverers, NEW e \in Events, ClaimEvent(w, e) PROVE Respected
      BY <2>4 DEF IInv, TypeOK, BatchesInPast, DeliveryRow, ClaimEvent, Claimed, Due, Owns
    <2>5. ASSUME NEW w \in Deliverers, NEW e \in Events, Complete(w, e) PROVE Respected
      BY <2>5 DEF IInv, TypeOK, DeliveryRow, Complete, Delivered
    <2>6. ASSUME NEW w \in Deliverers, NEW e \in Events, RetryLater(w, e) PROVE Respected
      BY <2>6 DEF IInv, TypeOK, DeliveryRow, RetryLater, Postponed
    <2> QED BY <2>1, <2>2, <2>3, <2>4, <2>5, <2>6 DEF Next, WorkerStep
  <1> QED BY <1>1, IInvHolds, PTL DEF Spec, LeaseRespected

(* The delivery service implements the outbox's promise. *)
THEOREM Delivers == Spec => DeliverySpec
  <1> DEFINE posted == {e \in Events : rows[e].status # "ABSENT"}
             delivered == {e \in Events : rows[e].status = "DELIVERED"}
  <1>1. Init => Abstract!Init
    BY DEF Init, NoRow, Abstract!Init
  <1>2. IInv /\ [Next]_vars => [Abstract!Next]_<<posted, sink, delivered>>
    <2> SUFFICES ASSUME IInv, [Next]_vars
                 PROVE  Abstract!Next \/ UNCHANGED <<posted, sink, delivered>>
      OBVIOUS
    <2>1. CASE UNCHANGED vars \/ Advance
      BY <2>1 DEF vars, Advance
    <2>2. ASSUME NEW e \in Events, Post(e) PROVE Abstract!Post(e)
      BY <2>2 DEF IInv, TypeOK, Post, Pending, Abstract!Post
    <2>3. ASSUME NEW w \in Deliverers,
                 ReadBatch(w) \/ EndBatch(w) \/ WorkerFails(w) \/ \E e \in Events : SkipEvent(w, e)
          PROVE  UNCHANGED <<posted, sink, delivered>>
      BY <2>3 DEF ReadBatch, EndBatch, WorkerFails, SkipEvent
    <2>4. ASSUME NEW w \in Deliverers, NEW e \in Events, ClaimEvent(w, e)
          PROVE  UNCHANGED <<posted, sink, delivered>>
      BY <2>4 DEF IInv, TypeOK, ClaimEvent, Claimed, Due
    <2>5. ASSUME NEW w \in Deliverers, NEW e \in Events, RetryLater(w, e)
          PROVE  UNCHANGED <<posted, sink, delivered>>
      BY <2>5 DEF IInv, TypeOK, DeliveryRow, RetryLater, Postponed, Owns
    <2>6. ASSUME NEW w \in Deliverers, NEW e \in Events, Notify(w, e) PROVE Abstract!Accept(e)
      BY <2>6 DEF IInv, HeldArePosted, Holds, Notify, Abstract!Accept
    <2>7. ASSUME NEW w \in Deliverers, NEW e \in Events, Complete(w, e)
          PROVE  Abstract!Acknowledge(e) \/ UNCHANGED <<posted, sink, delivered>>
      <3>1. e \in sink
        BY <2>7 DEF IInv, SentAreAccepted, Complete
      <3>2. CASE Owns(rows[e], job[w].at)
        BY <2>7, <3>1, <3>2 DEF IInv, TypeOK, DeliveryRow, Complete, Delivered, Owns,
                                Abstract!Acknowledge
      <3>3. CASE ~Owns(rows[e], job[w].at)
        BY <2>7, <3>3 DEF IInv, TypeOK, Complete
      <3> QED BY <3>2, <3>3
    <2> QED
      BY <2>1, <2>2, <2>3, <2>4, <2>5, <2>6, <2>7 DEF Next, WorkerStep, Abstract!Next
  <1> QED BY <1>1, <1>2, IInvHolds, PTL DEF Spec, DeliverySpec, Abstract!Spec
=============================================================================
