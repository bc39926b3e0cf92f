------------------------ MODULE MediaLifecycleProofs ------------------------
(***************************************************************************)
(* MediaLifecycle for any number of images, finalize calls and workers,    *)
(* whatever the timing.  The safety of published images is that of images  *)
(* whose finalizations recovery has never overtaken.  Last, what the       *)
(* publication of the Workspace beside them can rely on.                   *)
(***************************************************************************)
EXTENDS SupplyPublishing, FiniteSetTheorems, TLAPS

(* A finalization works on one image, and on none when it is over.         *)
OneImagePerCall ==
  \A f \in Finalizers :
    /\ \A m, n \in fin[f].on : m = n
    /\ fin[f].pc = "idle" => fin[f].on = {}

(* Nobody else works on the image, unless recovery has overtaken it, ...   *)
OneCallPerImage ==
  \A f, g \in Finalizers, m \in MediaIds \ overtaken :
    m \in fin[f].on /\ m \in fin[g].on => f = g

(* ... and nobody takes its row away, short of a deletion. *)
ClaimIsKept ==
  \A f \in Finalizers : \A m \in fin[f].on \ overtaken :
    /\ media[m].key = "staging"
    /\ media[m].status \in {"PROCESSING", "DELETE_PENDING", "DELETED"}

(* What it has stored stays until it publishes or removes it. *)
StoredIsThere ==
  \A f \in Finalizers : fin[f].pc = "stored" =>
    \A m \in fin[f].on \ overtaken : <<"ready", m>> \in objects

(* Only an image that was published has the ready key, and only its        *)
(* deletion puts that key into the outbox.                                 *)
ReadyKeyPublished ==
  \A m \in MediaIds \ overtaken :
    media[m].key = "ready" => media[m].status \in {"READY", "DELETE_PENDING", "DELETED"}

ReadyEventsWithdrawn ==
  \A i \in DOMAIN outbox : outbox[i].key = "ready" /\ outbox[i].media \notin overtaken =>
    /\ media[outbox[i].media].key = "ready"
    /\ media[outbox[i].media].status \in {"DELETE_PENDING", "DELETED"}

CallInv == OneImagePerCall /\ OneCallPerImage /\ ClaimIsKept /\ StoredIsThere
ImageInv == ReadyHasObject /\ CoverIsReady /\ ReadyKeyPublished /\ ReadyEventsWithdrawn
IInv == TypeOK /\ CallInv /\ ImageInv

-----------------------------------------------------------------------------
(* What the helpers of the actions return.                                 *)

LEMMA WithStatusRow ==
  ASSUME TypeOK, NEW m \in MediaIds, NEW new \in MediaStatus
  PROVE  /\ WithStatus(m, new) \in [MediaIds -> MediaRow]
         /\ \A n \in MediaIds : n # m => WithStatus(m, new)[n] = media[n]
         /\ WithStatus(m, new)[m].status = new
         /\ WithStatus(m, new)[m].key = media[m].key
         /\ WithStatus(m, new)[m].updatedAt = now
  <1> DEFINE r == [media[m] EXCEPT !.status = new, !.updatedAt = now]
  <1>1. /\ r \in MediaRow
        /\ r.status = new /\ r.key = media[m].key /\ r.updatedAt = now
    <2>1. media[m] \in MediaRow /\ now \in Nat
      BY DEF TypeOK
    <2> QED BY <2>1 DEF MediaRow
  <1>2. WithStatus(m, new) = [media EXCEPT ![m] = r]
    BY DEF WithStatus
  <1> HIDE DEF r
  <1> QED BY <1>1, <1>2 DEF TypeOK

LEMMA RejectedRows ==
  ASSUME TypeOK, NEW m \in MediaIds
  PROVE  /\ Rejected(m) \in [MediaIds -> MediaRow]
         /\ \A n \in MediaIds : n # m => Rejected(m)[n] = media[n]
         /\ Rejected(m)[m].status = "REJECTED" /\ Rejected(m)[m].key = media[m].key
  <1> DEFINE r == [media[m] EXCEPT !.status = "REJECTED", !.uploadExpiresAt = 0, !.updatedAt = now]
  <1>1. r \in MediaRow /\ r.status = "REJECTED" /\ r.key = media[m].key
    BY DEF TypeOK, MediaRow, MediaStatus
  <1>2. Rejected(m) = [media EXCEPT ![m] = r]
    BY DEF Rejected
  <1> HIDE DEF r
  <1> QED BY <1>1, <1>2 DEF TypeOK

LEMMA PublishedRows ==
  ASSUME TypeOK, NEW m \in MediaIds
  PROVE  /\ Published(m) \in [MediaIds -> MediaRow]
         /\ \A n \in MediaIds : n # m => Published(m)[n] = media[n]
         /\ Published(m)[m].status = "READY" /\ Published(m)[m].key = "ready"
  <1> DEFINE r == [status |-> "READY", key |-> "ready", uploadExpiresAt |-> 0, updatedAt |-> now]
  <1>1. r \in MediaRow /\ r.status = "READY" /\ r.key = "ready"
    BY DEF TypeOK, MediaRow, MediaStatus
  <1>2. Published(m) = [media EXCEPT ![m] = r]
    BY DEF Published
  <1> HIDE DEF r
  <1> QED BY <1>1, <1>2 DEF TypeOK

(* An outbox row that changes its delivery state keeps what it is about. *)
LEMMA DeliveryKeepsEvent ==
  ASSUME NEW s \in Seq(OutboxEvent), NEW i \in DOMAIN s, NEW r \in DeliveryRow
  PROVE  LET changed == [s EXCEPT ![i].row = r]
         IN /\ changed \in Seq(OutboxEvent) /\ DOMAIN changed = DOMAIN s
            /\ \A j \in DOMAIN s :
                 /\ changed[j].topic = s[j].topic
                 /\ changed[j].key = s[j].key /\ changed[j].media = s[j].media
  <1>1. s[i] \in OutboxEvent
    OBVIOUS
  <1> DEFINE e == [s[i] EXCEPT !.row = r]
  <1>2. /\ e \in OutboxEvent /\ e.topic = s[i].topic
        /\ e.key = s[i].key /\ e.media = s[i].media
    BY <1>1 DEF OutboxEvent
  <1> HIDE DEF e
  <1>3. [s EXCEPT ![i] = e] \in Seq(OutboxEvent)
    BY <1>2
  <1>4. \A j \in DOMAIN s : [s EXCEPT ![i] = e][j] = IF j = i THEN e ELSE s[j]
    OBVIOUS
  <1>5. [s EXCEPT ![i].row = r] = [s EXCEPT ![i] = e]
    BY DEF e
  <1>6. DOMAIN [s EXCEPT ![i] = e] = DOMAIN s
    OBVIOUS
  <1> QED BY <1>2, <1>3, <1>4, <1>5, <1>6

LEMMA EventAppended ==
  ASSUME NEW s \in Seq(OutboxEvent), NEW e \in OutboxEvent
  PROVE  /\ Append(s, e) \in Seq(OutboxEvent)
         /\ \A j \in DOMAIN Append(s, e) :
              (j \in DOMAIN s /\ Append(s, e)[j] = s[j]) \/ Append(s, e)[j] = e
  OBVIOUS

LEMMA EventRow ==
  ASSUME NEW topic \in {"DELETE", "CLEANUP"}, NEW m \in MediaIds,
         NEW key \in {"staging", "ready"}, NEW t \in Nat
  PROVE  /\ Event(topic, m, key, t) \in OutboxEvent
         /\ Event(topic, m, key, t).topic = topic
         /\ Event(topic, m, key, t).key = key /\ Event(topic, m, key, t).media = m
  BY DEF Event, OutboxEvent, Pending, DeliveryRow, DeliveryStatus

(* The rows of the outbox service are rows. *)
LEMMA DeliveryRows ==
  ASSUME NEW d \in DeliveryRow, NEW t \in Nat
  PROVE  Claimed(d, t) \in DeliveryRow /\ Delivered(d) \in DeliveryRow
         /\ Postponed(d, t) \in DeliveryRow
  <1>1. Claimed(d, t) \in DeliveryRow
    BY DeliveryAssumption DEF Claimed, DeliveryRow, DeliveryStatus
  <1>2. Delivered(d) \in DeliveryRow
    BY DEF Delivered, DeliveryRow, DeliveryStatus
  <1>3. Postponed(d, t) \in DeliveryRow
    BY DEF Postponed, DeliveryRow, DeliveryStatus
  <1> QED BY <1>1, <1>2, <1>3

-----------------------------------------------------------------------------
(* Types.                                                                  *)

LEMMA InitIInv == Init => IInv
  <1> SUFFICES ASSUME Init PROVE IInv
    OBVIOUS
  <1>1. NoMedia \in MediaRow /\ IdleCall \in FinalizeCall /\ IdleTick \in CleanupTick
    BY DEF NoMedia, MediaRow, MediaStatus, IdleCall, FinalizeCall, CallPhase, IdleTick,
           CleanupTick, TickPhase
  <1>2. TypeOK
    BY <1>1 DEF Init, TypeOK
  <1>3. CallInv
    BY DEF Init, IdleCall, CallInv, OneImagePerCall, OneCallPerImage, ClaimIsKept,
           StoredIsThere
  <1>4. ImageInv
    BY DEF Init, NoMedia, ImageInv, ReadyHasObject, CoverIsReady, ReadyKeyPublished,
           ReadyEventsWithdrawn
  <1> QED BY <1>2, <1>3, <1>4 DEF IInv

LEMMA CommandTypes ==
  ASSUME TypeOK, NEW m \in MediaIds,
         CreateUploadIntent(m) \/ DeleteMedia(m) \/ SetCover({m}) \/ SetCover({})
           \/ AcceptUpload(m) \/ StoreUpload(m) \/ EndUpload(m)
  PROVE  TypeOK'
  <1>1. CASE CreateUploadIntent(m)
    <2> DEFINE r == [status |-> "PENDING_UPLOAD", key |-> "staging",
                     uploadExpiresAt |-> now + UploadTtl, updatedAt |-> now]
    <2>1. r \in MediaRow /\ now + UploadTtl \in Nat
      BY MediaAssumption DEF TypeOK, MediaRow, MediaStatus
    <2>2. media' = [media EXCEPT ![m] = r] /\ token' = [token EXCEPT ![m] = now + UploadTtl]
      BY <1>1 DEF CreateUploadIntent
    <2> HIDE DEF r
    <2> QED BY <1>1, <2>1, <2>2 DEF CreateUploadIntent, TypeOK
  <1>2. CASE DeleteMedia(m)
    <2>1. media' \in [MediaIds -> MediaRow]
      BY <1>2, WithStatusRow DEF DeleteMedia, MediaStatus
    <2>2. PICK t \in Nat : outbox' = Append(outbox, Event("DELETE", m, media[m].key, t))
      BY <1>2 DEF DeleteMedia, ExpirySeen, TypeOK, MediaRow
    <2>3. media[m].key \in {"staging", "ready"}
      BY DEF TypeOK, MediaRow
    <2>4. outbox' \in Seq(OutboxEvent)
      BY <2>2, <2>3, EventRow, EventAppended DEF TypeOK
    <2> QED BY <1>2, <2>1, <2>4 DEF DeleteMedia, TypeOK, storeVars
  <1>3. CASE SetCover({m}) \/ SetCover({})
    BY <1>3 DEF SetCover, TypeOK, storeVars
  <1>4. CASE AcceptUpload(m) \/ StoreUpload(m) \/ EndUpload(m)
    BY <1>4 DEF AcceptUpload, StoreUpload, EndUpload, TypeOK, dbVars
  <1> QED BY <1>1, <1>2, <1>3, <1>4

(* Every step of a finalization keeps the types of its local state. *)
LEMMA CallTypes ==
  ASSUME TypeOK, NEW f \in Finalizers, NEW pc \in CallPhase,
         GoTo(f, pc) \/ FinalizerReturns(f)
  PROVE  fin' \in [Finalizers -> FinalizeCall]
  <1>1. CASE GoTo(f, pc)
    <2>1. fin[f] \in FinalizeCall
      BY DEF TypeOK
    <2>2. [fin[f] EXCEPT !.pc = pc] \in FinalizeCall
      BY <2>1 DEF FinalizeCall
    <2>3. fin' = [fin EXCEPT ![f] = [fin[f] EXCEPT !.pc = pc]]
      BY <1>1 DEF GoTo
    <2> QED BY <2>2, <2>3 DEF TypeOK
  <1>2. CASE FinalizerReturns(f)
    <2>1. IdleCall \in FinalizeCall
      BY DEF IdleCall, FinalizeCall, CallPhase
    <2> QED BY <1>2, <2>1 DEF FinalizerReturns, TypeOK
  <1> QED BY <1>1, <1>2

LEMMA FinalizerTypes ==
  ASSUME TypeOK, NEW f \in Finalizers, NEW m \in MediaIds,
         ClaimMedia(f, m) \/ DecodeImage(f, m) \/ StoreReady(f, m) \/ ProcessingFails(f)
           \/ RejectMedia(f, m) \/ PublishMedia(f, m) \/ PublishRefused(f, m) \/ PublishFails(f)
           \/ RemoveReady(f, m) \/ ReleaseClaim(f, m) \/ FinalizerDies(f)
  PROVE  TypeOK'
  <1>1. CASE ClaimMedia(f, m)
    <2>1. media' \in [MediaIds -> MediaRow]
      BY <1>1, WithStatusRow DEF ClaimMedia, MediaStatus
    <2>2. fin' \in [Finalizers -> FinalizeCall]
      BY <1>1 DEF ClaimMedia, TypeOK, FinalizeCall, CallPhase, MediaRow
    <2> QED BY <1>1, <2>1, <2>2 DEF ClaimMedia, TypeOK, storeVars
  <1>2. CASE DecodeImage(f, m) \/ ProcessingFails(f) \/ PublishRefused(f, m) \/ PublishFails(f)
    <2>1. fin' \in [Finalizers -> FinalizeCall]
      BY <1>2, CallTypes DEF DecodeImage, ProcessingFails, PublishRefused, PublishFails, CallPhase
    <2> QED BY <1>2, <2>1
            DEF DecodeImage, ProcessingFails, PublishRefused, PublishFails, TypeOK, dbVars, storeVars
  <1>3. CASE StoreReady(f, m) \/ RemoveReady(f, m)
    <2>1. fin' \in [Finalizers -> FinalizeCall]
      BY <1>3, CallTypes DEF StoreReady, RemoveReady, CallPhase
    <2> QED BY <1>3, <2>1 DEF StoreReady, RemoveReady, TypeOK, dbVars
  <1>4. CASE RejectMedia(f, m) \/ PublishMedia(f, m)
    <2>1. fin' \in [Finalizers -> FinalizeCall]
      BY <1>4, CallTypes DEF RejectMedia, PublishMedia, CallPhase
    <2>2. media' \in [MediaIds -> MediaRow]
      BY <1>4, RejectedRows, PublishedRows DEF RejectMedia, PublishMedia
    <2>3. outbox' = Append(outbox, Event("CLEANUP", m, "staging", fin[f].expires))
          /\ fin[f].expires \in Nat
      BY <1>4 DEF RejectMedia, PublishMedia, TypeOK, FinalizeCall
    <2>4. outbox' \in Seq(OutboxEvent)
      BY <2>3, EventRow, EventAppended DEF TypeOK
    <2> QED BY <1>4, <2>1, <2>2, <2>4 DEF RejectMedia, PublishMedia, TypeOK, storeVars
  <1>5. CASE ReleaseClaim(f, m) \/ FinalizerDies(f)
    <2>1. fin' \in [Finalizers -> FinalizeCall]
      BY <1>5, CallTypes DEF ReleaseClaim, FinalizerDies, CallPhase
    <2>2. WithStatus(m, "PENDING_UPLOAD") \in [MediaIds -> MediaRow]
      BY WithStatusRow DEF MediaStatus
    <2>3. media' = media \/ media' = WithStatus(m, "PENDING_UPLOAD")
      BY <1>5 DEF ReleaseClaim, FinalizerDies, dbVars
    <2>4. media' \in [MediaIds -> MediaRow]
      BY <2>2, <2>3 DEF TypeOK
    <2> QED BY <1>5, <2>1, <2>4 DEF ReleaseClaim, FinalizerDies, TypeOK, dbVars, storeVars
  <1> QED BY <1>1, <1>2, <1>3, <1>4, <1>5

LEMMA TickTypes ==
  ASSUME TypeOK, NEW c \in Cleaners,
         \/ RecoverStaleProcessing(c) \/ FindExpired(c) \/ ReadBatch(c) \/ EndTick(c)
         \/ CleanerFails(c) \/ \E m \in MediaIds : ExpireUpload(c, m)
  PROVE  TypeOK'
  <1>1. CASE RecoverStaleProcessing(c)
    <2>1. \A m \in MediaIds :
            [media[m] EXCEPT !.status = "PENDING_UPLOAD", !.updatedAt = now] \in MediaRow
      BY DEF TypeOK, MediaRow, MediaStatus
    <2>2. media' \in [MediaIds -> MediaRow]
      BY <1>1, <2>1 DEF RecoverStaleProcessing, TypeOK
    <2>3. clean' \in [Cleaners -> CleanupTick]
      BY <1>1, ZenonT(40) DEF RecoverStaleProcessing, TypeOK, CleanupTick, TickPhase
    <2>4. overtaken' \subseteq MediaIds
      BY <1>1 DEF RecoverStaleProcessing, TypeOK
    <2> QED BY <1>1, <2>2, <2>3, <2>4 DEF RecoverStaleProcessing, TypeOK, storeVars
  <1>2. CASE FindExpired(c)
    <2>1. clean' \in [Cleaners -> CleanupTick]
      BY <1>2, ZenonT(40) DEF FindExpired, TypeOK, CleanupTick, TickPhase
    <2> QED BY <1>2, <2>1 DEF FindExpired, TypeOK, dbVars, storeVars
  <1>3. CASE ReadBatch(c)
    <2>1. {i \in DOMAIN outbox : Due(outbox[i].row, now)} \in SUBSET Nat
      BY DEF TypeOK
    <2>2. clean' \in [Cleaners -> CleanupTick]
      BY <1>3, <2>1, ZenonT(40) DEF ReadBatch, TypeOK, CleanupTick, TickPhase
    <2> QED BY <1>3, <2>2 DEF ReadBatch, TypeOK, dbVars, storeVars
  <1>4. CASE EndTick(c) \/ CleanerFails(c)
    <2>1. IdleTick \in CleanupTick
      BY DEF IdleTick, CleanupTick, TickPhase
    <2>2. clean' \in [Cleaners -> CleanupTick]
      BY <1>4, <2>1 DEF EndTick, CleanerFails, TypeOK
    <2> QED BY <1>4, <2>2 DEF EndTick, CleanerFails, TypeOK, dbVars, storeVars
  <1>5. ASSUME NEW m \in MediaIds, ExpireUpload(c, m) PROVE TypeOK'
    <2>1. clean' \in [Cleaners -> CleanupTick]
      <3>1. clean[c] \in CleanupTick
        BY DEF TypeOK
      <3>2. [clean[c] EXCEPT !.expire = @ \ {m}] \in CleanupTick
        BY <3>1 DEF CleanupTick
      <3>3. clean' = [clean EXCEPT ![c] = [clean[c] EXCEPT !.expire = @ \ {m}]]
        BY <1>5 DEF ExpireUpload
      <3> QED BY <3>2, <3>3 DEF TypeOK
    <2>2. \/ media' = media /\ outbox' = outbox
          \/ /\ media' = Rejected(m)
             /\ outbox' = Append(outbox, Event("CLEANUP", m, "staging", now))
      BY <1>5 DEF ExpireUpload
    <2>3. now \in Nat /\ Event("CLEANUP", m, "staging", now) \in OutboxEvent
      BY EventRow DEF TypeOK
    <2>4. outbox' \in Seq(OutboxEvent)
      <3> DEFINE e == Event("CLEANUP", m, "staging", now)
      <3>1. Append(outbox, e) \in Seq(OutboxEvent)
        BY <2>3 DEF TypeOK
      <3>2. outbox' = outbox \/ outbox' = Append(outbox, e)
        BY <2>2
      <3> QED BY <3>1, <3>2 DEF TypeOK
    <2>5. media' \in [MediaIds -> MediaRow]
      BY <2>2, RejectedRows DEF TypeOK
    <2> QED BY <1>5, <2>1, <2>4, <2>5 DEF ExpireUpload, TypeOK, storeVars
  <1> QED BY <1>1, <1>2, <1>3, <1>4, <1>5

(* What the delivery of an event does to the outbox and to the images. *)
LEMMA DeliveryStep ==
  ASSUME TypeOK, NEW c \in Cleaners, NEW i \in DOMAIN outbox,
         TakeEvent(c, i) \/ DeleteObject(c, i) \/ CompleteEvent(c, i) \/ RetryEvent(c, i)
  PROVE  /\ TypeOK'
         /\ DOMAIN outbox' = DOMAIN outbox
         /\ \A j \in DOMAIN outbox :
              /\ outbox'[j].topic = outbox[j].topic
              /\ outbox'[j].key = outbox[j].key /\ outbox'[j].media = outbox[j].media
         /\ \A m \in MediaIds :
              \/ media'[m] = media[m]
              \/ /\ media[m].status = "DELETE_PENDING" /\ media'[m].status = "DELETED"
                 /\ media'[m].key = media[m].key
  <1>0. outbox \in Seq(OutboxEvent) /\ outbox[i] \in OutboxEvent
    BY DEF TypeOK
  <1>1. outbox \in Seq(OutboxEvent) /\ outbox[i] \in OutboxEvent /\ outbox[i].row \in DeliveryRow
    BY <1>0 DEF OutboxEvent
  <1>2. clean[c].at \in Nat /\ now \in Nat /\ i \in Nat
    BY <1>1 DEF TypeOK, CleanupTick
  <1>3. outbox' = outbox \/ \E r \in DeliveryRow : outbox' = [outbox EXCEPT ![i].row = r]
    <2>1. CASE TakeEvent(c, i)
      BY <2>1, <1>1, <1>2, DeliveryRows DEF TakeEvent
    <2>2. CASE DeleteObject(c, i)
      BY <2>2 DEF DeleteObject, dbVars
    <2>3. CASE CompleteEvent(c, i)
      BY <2>3, <1>1, <1>2, DeliveryRows DEF CompleteEvent, CompletionWrites
    <2>4. CASE RetryEvent(c, i)
      <3>1. PICK d \in RetryDelays :
              outbox' = [outbox EXCEPT ![i].row =
                           IF Owns(@, clean[c].at) THEN Postponed(@, now + d) ELSE @]
        BY <2>4 DEF RetryEvent
      <3>2. now + d \in Nat
        BY <1>2, DeliveryAssumption
      <3> QED BY <3>1, <3>2, <1>1, DeliveryRows
    <2> QED BY <2>1, <2>2, <2>3, <2>4
  <1>4. /\ outbox' \in Seq(OutboxEvent) /\ DOMAIN outbox' = DOMAIN outbox
        /\ \A j \in DOMAIN outbox :
              /\ outbox'[j].topic = outbox[j].topic
              /\ outbox'[j].key = outbox[j].key /\ outbox'[j].media = outbox[j].media
    <2>1. CASE outbox' = outbox
      BY <2>1, <1>1
    <2>2. ASSUME NEW r \in DeliveryRow, outbox' = [outbox EXCEPT ![i].row = r]
          PROVE  /\ outbox' \in Seq(OutboxEvent) /\ DOMAIN outbox' = DOMAIN outbox
                 /\ \A j \in DOMAIN outbox :
                      /\ outbox'[j].topic = outbox[j].topic
                      /\ outbox'[j].key = outbox[j].key /\ outbox'[j].media = outbox[j].media
      BY <2>2, <1>1, DeliveryKeepsEvent
    <2> QED BY <2>1, <2>2, <1>3
  <1>5. /\ media' \in [MediaIds -> MediaRow]
        /\ \A m \in MediaIds :
              \/ media'[m] = media[m]
              \/ /\ media[m].status = "DELETE_PENDING" /\ media'[m].status = "DELETED"
                 /\ media'[m].key = media[m].key
    <2>1. CASE media' = media
      BY <2>1 DEF TypeOK
    <2>2. CASE media' # media
      <3> DEFINE m == outbox[i].media
      <3>1. m \in MediaIds
        BY <1>1 DEF OutboxEvent
      <3>2. media[m].status = "DELETE_PENDING" /\ media' = WithStatus(m, "DELETED")
        BY <2>2 DEF TakeEvent, DeleteObject, CompleteEvent, CompletionWrites, RetryEvent, dbVars
      <3> HIDE DEF m
      <3> DEFINE w == WithStatus(m, "DELETED")
      <3>3. /\ w \in [MediaIds -> MediaRow] /\ \A n \in MediaIds : n # m => w[n] = media[n]
            /\ w[m].status = "DELETED" /\ w[m].key = media[m].key
        <4>1. "DELETED" \in MediaStatus
          BY DEF MediaStatus
        <4>2. /\ WithStatus(m, "DELETED") \in [MediaIds -> MediaRow]
              /\ \A n \in MediaIds : n # m => WithStatus(m, "DELETED")[n] = media[n]
              /\ WithStatus(m, "DELETED")[m].status = "DELETED"
              /\ WithStatus(m, "DELETED")[m].key = media[m].key
          BY <3>1, <4>1, WithStatusRow
        <4> QED BY <4>2
      <3> HIDE DEF w
      <3>4. media' = w
        BY <3>2 DEF w
      <3> QED BY <3>1, <3>2, <3>3, <3>4
    <2> QED BY <2>1, <2>2
  <1>6. clean' \in [Cleaners -> CleanupTick]
    <2>1. clean[c] \in CleanupTick
      BY DEF TypeOK
    <2>2. /\ [clean[c] EXCEPT !.pc = "claimed", !.batch = @ \ {i}, !.event = {i}] \in CleanupTick
          /\ [clean[c] EXCEPT !.batch = @ \ {i}] \in CleanupTick
          /\ [clean[c] EXCEPT !.pc = "removed"] \in CleanupTick
          /\ [clean[c] EXCEPT !.pc = "batch", !.event = {}] \in CleanupTick
      BY <2>1, <1>2 DEF CleanupTick, TickPhase
    <2>3. \E t \in CleanupTick : clean' = [clean EXCEPT ![c] = t]
      <3>1. CASE TakeEvent(c, i)
        BY <3>1, <2>2 DEF TakeEvent
      <3>2. CASE DeleteObject(c, i)
        BY <3>2, <2>2 DEF DeleteObject
      <3>3. CASE CompleteEvent(c, i) \/ RetryEvent(c, i)
        BY <3>3, <2>2 DEF CompleteEvent, RetryEvent, NextEvent
      <3> QED BY <3>1, <3>2, <3>3
    <2> QED BY <2>3 DEF TypeOK
  <1>7. TypeOK'
    BY <1>4, <1>5, <1>6 DEF TypeOK, TakeEvent, DeleteObject, CompleteEvent, RetryEvent, dbVars,
                            storeVars
  <1> QED BY <1>4, <1>5, <1>7

LEMMA AdvanceTypes == TypeOK /\ Advance => TypeOK'
  BY DEF TypeOK, Advance, dbVars, storeVars

(* The steps by who takes them. *)
LEMMA StepCases ==
  ASSUME Next
  PROVE  \/ Advance
         \/ SetCover({})
         \/ \E m \in MediaIds :
              CreateUploadIntent(m) \/ DeleteMedia(m) \/ SetCover({m})
                \/ AcceptUpload(m) \/ StoreUpload(m) \/ EndUpload(m)
         \/ \E f \in Finalizers : ProcessingFails(f) \/ PublishFails(f) \/ FinalizerDies(f)
         \/ \E f \in Finalizers, m \in MediaIds :
              ClaimMedia(f, m) \/ DecodeImage(f, m) \/ StoreReady(f, m)
                \/ RejectMedia(f, m) \/ PublishMedia(f, m) \/ PublishRefused(f, m)
                \/ RemoveReady(f, m) \/ ReleaseClaim(f, m)
         \/ \E c \in Cleaners :
              \/ RecoverStaleProcessing(c) \/ FindExpired(c) \/ ReadBatch(c) \/ EndTick(c)
              \/ CleanerFails(c) \/ \E m \in MediaIds : ExpireUpload(c, m)
         \/ \E c \in Cleaners, i \in DOMAIN outbox :
              TakeEvent(c, i) \/ DeleteObject(c, i) \/ CompleteEvent(c, i) \/ RetryEvent(c, i)
  BY DEF Next, FinalizerStep, CleanerStep

LEMMA NextTypes == TypeOK /\ Next => TypeOK'
  <1> SUFFICES ASSUME TypeOK, Next PROVE TypeOK'
    OBVIOUS
  <1>1. CASE SetCover({})
    BY <1>1 DEF SetCover, TypeOK, storeVars
  <1>2. CASE \E f \in Finalizers : ProcessingFails(f) \/ PublishFails(f) \/ FinalizerDies(f)
    <2>1. PICK f \in Finalizers : ProcessingFails(f) \/ PublishFails(f) \/ FinalizerDies(f)
      BY <1>2
    <2>2. fin' \in [Finalizers -> FinalizeCall]
      BY <2>1, CallTypes DEF ProcessingFails, PublishFails, FinalizerDies, CallPhase
    <2> QED BY <2>1, <2>2 DEF ProcessingFails, PublishFails, FinalizerDies, TypeOK, dbVars, storeVars
  <1> QED BY <1>1, <1>2, StepCases, AdvanceTypes, CommandTypes, FinalizerTypes, TickTypes, DeliveryStep

(* MediaLifecycle: the rows, files and calls keep their types. *)
THEOREM MediaTypes == Spec => []TypeOK
  <1>1. Init => TypeOK
    BY InitIInv DEF IInv
  <1>2. TypeOK /\ [Next]_vars => TypeOK'
    <2>1. TypeOK /\ UNCHANGED vars => TypeOK'
      BY DEF TypeOK, vars, dbVars, storeVars
    <2> QED BY <2>1, NextTypes
  <1> QED BY <1>1, <1>2, PTL DEF Spec

-----------------------------------------------------------------------------
(* What a step may do to the status of an image, whatever the timing.      *)

InPlay(m) == media[m].status \in {"PENDING_UPLOAD", "PROCESSING", "READY"}
EventCompleted == \E c \in Cleaners : \E i \in DOMAIN outbox : CompleteEvent(c, i)

(* What is withdrawn stays so, only an intent brings an image into play,   *)
(* and only an event that is completed makes it DELETED.                   *)
LEMMA StatusSteps ==
  ASSUME TypeOK, Next, NEW m \in MediaIds
  PROVE  /\ Withdrawn(media[m].status) =>
              Withdrawn(media'[m].status) /\ media'[m].key = media[m].key
         /\ InPlay(m)' => InPlay(m) \/ CreateUploadIntent(m)
         /\ media'[m].status = "DELETED" =>
              media[m].status = "DELETED" \/ EventCompleted
  <1> DEFINE Goal == /\ Withdrawn(media[m].status) =>
                          Withdrawn(media'[m].status) /\ media'[m].key = media[m].key
                     /\ InPlay(m)' => InPlay(m) \/ CreateUploadIntent(m)
                     /\ media'[m].status = "DELETED" =>
                          media[m].status = "DELETED" \/ EventCompleted
  <1>1. CASE media'[m] = media[m]
    BY <1>1 DEF InPlay
  <1>2. ASSUME NEW n \in MediaIds, CreateUploadIntent(n) PROVE Goal
    <2>1. /\ media[n].status = "NONE" /\ media'[n].status = "PENDING_UPLOAD"
          /\ \A k \in MediaIds : k # n => media'[k] = media[k]
      BY <1>2 DEF CreateUploadIntent, TypeOK
    <2> QED BY <1>2, <2>1 DEF InPlay, Withdrawn
  <1>3. ASSUME NEW n \in MediaIds, DeleteMedia(n) PROVE Goal
    <2> DEFINE w == WithStatus(n, "DELETE_PENDING")
    <2>1. /\ w[n].status = "DELETE_PENDING" /\ w[n].key = media[n].key
          /\ \A k \in MediaIds : k # n => w[k] = media[k]
      BY WithStatusRow DEF MediaStatus
    <2>2. /\ media'[n].status = "DELETE_PENDING" /\ media'[n].key = media[n].key
          /\ \A k \in MediaIds : k # n => media'[k] = media[k]
      BY <2>1, <1>3 DEF DeleteMedia
    <2> QED BY <2>2 DEF InPlay, Withdrawn
  <1>4. ASSUME NEW f \in Finalizers, NEW n \in MediaIds, ClaimMedia(f, n) PROVE Goal
    <2>1. /\ media[n].status = "PENDING_UPLOAD"
          /\ media' = WithStatus(n, "PROCESSING") /\ "PROCESSING" \in MediaStatus
      BY <1>4 DEF ClaimMedia, MediaStatus
    <2>2. /\ media'[n].status = "PROCESSING"
          /\ \A k \in MediaIds : k # n => media'[k] = media[k]
      BY <2>1, WithStatusRow
    <2> QED BY <2>1, <2>2 DEF InPlay, Withdrawn
  <1>5. ASSUME NEW f \in Finalizers, NEW n \in MediaIds, RejectMedia(f, n) PROVE Goal
    <2>1. /\ media'[n].status = "REJECTED" /\ media'[n].key = media[n].key
          /\ \A k \in MediaIds : k # n => media'[k] = media[k]
      BY <1>5, RejectedRows DEF RejectMedia
    <2> QED BY <2>1 DEF InPlay, Withdrawn
  <1>6. ASSUME NEW f \in Finalizers, NEW n \in MediaIds, PublishMedia(f, n) PROVE Goal
    <2>1. /\ media[n].status = "PROCESSING" /\ media'[n].status = "READY"
          /\ \A k \in MediaIds : k # n => media'[k] = media[k]
      BY <1>6, PublishedRows DEF PublishMedia
    <2> QED BY <2>1 DEF InPlay, Withdrawn
  <1>7. ASSUME NEW f \in Finalizers, NEW n \in MediaIds, ReleaseClaim(f, n) PROVE Goal
    <2>1. CASE media' = media
      BY <2>1, <1>1
    <2>2. CASE media[n].status = "PROCESSING" /\ media' = WithStatus(n, "PENDING_UPLOAD")
      <3>1. "PENDING_UPLOAD" \in MediaStatus
        BY DEF MediaStatus
      <3>2. /\ media'[n].status = "PENDING_UPLOAD"
            /\ \A k \in MediaIds : k # n => media'[k] = media[k]
        BY <2>2, <3>1, WithStatusRow
      <3> QED BY <2>2, <3>2 DEF InPlay, Withdrawn
    <2> QED BY <1>7, <2>1, <2>2 DEF ReleaseClaim
  <1>8. ASSUME NEW c \in Cleaners, RecoverStaleProcessing(c) PROVE Goal
    <2>1. \/ media[m].status = "PROCESSING" /\ media'[m].status = "PENDING_UPLOAD"
          \/ media'[m] = media[m]
      <3>1. CASE Stale(m)
        <4>1. media'[m] = [media[m] EXCEPT !.status = "PENDING_UPLOAD", !.updatedAt = now]
          BY <1>8, <3>1 DEF RecoverStaleProcessing
        <4>2. media[m] \in MediaRow
          BY DEF TypeOK
        <4> QED BY <3>1, <4>1, <4>2 DEF Stale, MediaRow
      <3> QED BY <1>8, <3>1 DEF RecoverStaleProcessing
    <2> QED BY <2>1, <1>1 DEF InPlay, Withdrawn
  <1>9. ASSUME NEW c \in Cleaners, NEW n \in MediaIds, ExpireUpload(c, n) PROVE Goal
    <2>1. media' = media \/ media' = Rejected(n)
      BY <1>9 DEF ExpireUpload
    <2>2. CASE media' = Rejected(n)
      <3>1. /\ media'[n].status = "REJECTED" /\ media'[n].key = media[n].key
            /\ \A k \in MediaIds : k # n => media'[k] = media[k]
        BY <2>2, RejectedRows
      <3> QED BY <3>1 DEF InPlay, Withdrawn
    <2> QED BY <2>1, <2>2, <1>1
  <1>10. ASSUME NEW c \in Cleaners, NEW i \in DOMAIN outbox,
                TakeEvent(c, i) \/ DeleteObject(c, i) \/ CompleteEvent(c, i) \/ RetryEvent(c, i)
         PROVE  Goal
    <2>1. \/ media'[m] = media[m]
          \/ /\ media[m].status = "DELETE_PENDING" /\ media'[m].status = "DELETED"
             /\ media'[m].key = media[m].key
      BY <1>10, DeliveryStep
    <2>2. media'[m] = media[m] \/ EventCompleted
      BY <1>10 DEF TakeEvent, DeleteObject, RetryEvent, dbVars, EventCompleted
    <2> QED BY <2>1, <2>2, <1>1 DEF InPlay, Withdrawn
  <1>11. CASE \/ Advance \/ SetCover({})
              \/ \E n \in MediaIds :
                   SetCover({n}) \/ AcceptUpload(n) \/ StoreUpload(n) \/ EndUpload(n)
              \/ \E f \in Finalizers : ProcessingFails(f) \/ PublishFails(f) \/ FinalizerDies(f)
              \/ \E f \in Finalizers, n \in MediaIds :
                   DecodeImage(f, n) \/ StoreReady(f, n) \/ PublishRefused(f, n) \/ RemoveReady(f, n)
              \/ \E c \in Cleaners :
                   FindExpired(c) \/ ReadBatch(c) \/ EndTick(c) \/ CleanerFails(c)
    <2>1. media' = media
      BY <1>11 DEF Advance, SetCover, AcceptUpload, StoreUpload, EndUpload, ProcessingFails,
                   PublishFails, FinalizerDies, DecodeImage, StoreReady, PublishRefused, RemoveReady,
                   FindExpired, ReadBatch, EndTick, CleanerFails, dbVars
    <2> QED BY <2>1, <1>1
  <1> QED BY StepCases, <1>2, <1>3, <1>4, <1>5, <1>6, <1>7, <1>8, <1>9, <1>10, <1>11

(* WithdrawnForGood: what was rejected or deleted never comes back.        *)
THEOREM NeverRevived == Spec => WithdrawnForGood
  <1>1. TypeOK /\ [Next]_vars =>
          [\A m \in MediaIds : Withdrawn(media[m].status) => Withdrawn(media'[m].status)]_vars
    BY StatusSteps
  <1> QED BY <1>1, MediaTypes, PTL DEF Spec, WithdrawnForGood

(* AtMostMaxMedia: the limit is kept by counting under the parent lock.    *)
THEOREM CapHolds == Spec => []AtMostMaxMedia
  <1> DEFINE InPlaySet == {m \in MediaIds : InPlay(m)}
  <1>1. AtMostMaxMedia <=> Cardinality(InPlaySet) <= MaxMedia
    BY DEF AtMostMaxMedia, InPlay
  <1>2. IsFiniteSet(InPlaySet) /\ IsFiniteSet(InPlaySet') /\ IsFiniteSet(Active)
    BY MediaAssumption, FS_Subset DEF Active
  <1>3. Init => AtMostMaxMedia
    <2>1. Init => InPlaySet = {}
      BY DEF Init, InPlay, NoMedia
    <2> QED BY <2>1, <1>1, FS_EmptySet, MediaAssumption
  <1>4. ASSUME TypeOK, AtMostMaxMedia, Next PROVE AtMostMaxMedia'
    <2>1. CASE \E m \in MediaIds : CreateUploadIntent(m)
      <3>1. PICK m \in MediaIds : CreateUploadIntent(m)
        BY <2>1
      <3>2. /\ Cardinality(Active) < MaxMedia
            /\ \A n \in MediaIds : n # m => media'[n] = media[n]
        BY <3>1, <1>4 DEF CreateUploadIntent, TypeOK
      <3>3. InPlaySet' \subseteq Active \cup {m}
        BY <3>2 DEF InPlay, Active
      <3>4. IsFiniteSet(Active \cup {m}) /\ Cardinality(Active \cup {m}) <= Cardinality(Active) + 1
        BY <1>2, FS_AddElement, FS_CardinalityType
      <3>5. Cardinality(InPlaySet') <= Cardinality(Active \cup {m})
        BY <3>3, <3>4, FS_Subset
      <3> QED BY <1>1, <1>2, <3>2, <3>4, <3>5, FS_CardinalityType, MediaAssumption DEF AtMostMaxMedia, InPlay
    <2>2. CASE ~\E m \in MediaIds : CreateUploadIntent(m)
      <3>1. InPlaySet' \subseteq InPlaySet
        BY <2>2, <1>4, StatusSteps
      <3>2. Cardinality(InPlaySet') <= Cardinality(InPlaySet)
        BY <3>1, <1>2, FS_Subset
      <3> QED BY <1>1, <1>2, <1>4, <3>2, FS_CardinalityType, MediaAssumption DEF AtMostMaxMedia, InPlay
    <2> QED BY <2>1, <2>2
  <1>5. AtMostMaxMedia /\ UNCHANGED vars => AtMostMaxMedia'
    BY DEF AtMostMaxMedia, vars, dbVars
  <1> QED BY <1>3, <1>4, <1>5, MediaTypes, PTL DEF Spec

-----------------------------------------------------------------------------
(* The published image and its object.                                     *)

(* Recovery only ever adds to the overtaken images. *)
LEMMA OvertakenGrows ==
  ASSUME Next
  PROVE  /\ overtaken \subseteq overtaken'
         /\ (\A c \in Cleaners : ~RecoverStaleProcessing(c)) => overtaken' = overtaken
  <1>1. CASE \E c \in Cleaners : RecoverStaleProcessing(c)
    BY <1>1 DEF RecoverStaleProcessing
  <1>2. CASE \A c \in Cleaners : ~RecoverStaleProcessing(c)
    <2>1. CASE \/ Advance \/ SetCover({})
               \/ \E n \in MediaIds :
                    \/ CreateUploadIntent(n) \/ DeleteMedia(n) \/ SetCover({n})
                    \/ AcceptUpload(n) \/ StoreUpload(n) \/ EndUpload(n)
      BY <2>1 DEF Advance, SetCover, CreateUploadIntent, DeleteMedia, AcceptUpload, StoreUpload,
                  EndUpload
    <2>2. CASE \/ \E f \in Finalizers : ProcessingFails(f) \/ PublishFails(f) \/ FinalizerDies(f)
               \/ \E f \in Finalizers, n \in MediaIds :
                    \/ ClaimMedia(f, n) \/ DecodeImage(f, n) \/ StoreReady(f, n)
                    \/ RejectMedia(f, n) \/ PublishMedia(f, n) \/ PublishRefused(f, n)
                    \/ RemoveReady(f, n) \/ ReleaseClaim(f, n)
      BY <2>2, ZenonT(30) DEF ProcessingFails, PublishFails, FinalizerDies, ClaimMedia, DecodeImage,
                  StoreReady, RejectMedia, PublishMedia, PublishRefused, RemoveReady, ReleaseClaim
    <2>3. CASE \E c \in Cleaners :
                 \/ FindExpired(c) \/ ReadBatch(c) \/ EndTick(c)
                 \/ CleanerFails(c) \/ \E n \in MediaIds : ExpireUpload(c, n)
      BY <2>3 DEF FindExpired, ReadBatch, EndTick, CleanerFails, ExpireUpload
    <2>4. CASE \E c \in Cleaners, i \in DOMAIN outbox :
                 TakeEvent(c, i) \/ DeleteObject(c, i) \/ CompleteEvent(c, i) \/ RetryEvent(c, i)
      BY <2>4 DEF TakeEvent, DeleteObject, CompleteEvent, RetryEvent
    <2> QED BY <1>2, <2>1, <2>2, <2>3, <2>4, StepCases
  <1> QED BY <1>1, <1>2

(* Most steps leave the calls on their images alone, or end one, ...       *)
LEMMA CallFrame ==
  ASSUME IInv, TypeOK', overtaken \subseteq overtaken',
         \A g \in Finalizers :
           \/ fin'[g].on = {}
           \/ /\ fin'[g].on = fin[g].on /\ fin'[g].pc # "idle"
              /\ fin'[g].pc = "stored" =>
                    \/ fin[g].pc = "stored"
                    \/ \A m \in fin[g].on : <<"ready", m>> \in objects',
         \A g \in Finalizers : \A m \in fin'[g].on \ overtaken' :
           /\ \/ media'[m] = media[m]
              \/ /\ media'[m].status \in {"DELETE_PENDING", "DELETED"}
                 /\ media'[m].key = media[m].key
           /\ fin'[g].pc = "stored" /\ <<"ready", m>> \in objects => <<"ready", m>> \in objects'
  PROVE  CallInv'
  <1>0. CallInv
    BY DEF IInv
  <1>1. OneImagePerCall'
    BY <1>0 DEF CallInv, OneImagePerCall
  <1>2. OneCallPerImage'
    BY <1>0 DEF CallInv, OneCallPerImage
  <1>3. ClaimIsKept'
    <2> SUFFICES ASSUME NEW g \in Finalizers, NEW m \in fin'[g].on \ overtaken'
        PROVE  /\ media'[m].key = "staging"
               /\ media'[m].status \in {"PROCESSING", "DELETE_PENDING", "DELETED"}
      BY DEF ClaimIsKept
    <2>1. m \in fin[g].on \ overtaken
      OBVIOUS
    <2>2. /\ media[m].key = "staging"
          /\ media[m].status \in {"PROCESSING", "DELETE_PENDING", "DELETED"}
      BY <1>0, <2>1 DEF CallInv, ClaimIsKept
    <2>3. \/ media'[m] = media[m]
          \/ /\ media'[m].status \in {"DELETE_PENDING", "DELETED"}
             /\ media'[m].key = media[m].key
      OBVIOUS
    <2> QED BY <2>2, <2>3
  <1>4. StoredIsThere'
    BY <1>0 DEF CallInv, StoredIsThere
  <1> QED BY <1>1, <1>2, <1>3, <1>4 DEF CallInv

(* ... and publish nothing and withdraw nothing that was published.        *)
LEMMA ImageFrame ==
  ASSUME IInv, TypeOK', overtaken \subseteq overtaken',
         \A m \in MediaIds \ overtaken' :
           \/ media'[m] = media[m]
           \/ /\ media[m].key = "staging" /\ media'[m].key = "staging"
              /\ media[m].status # "READY" /\ media'[m].status # "READY"
           \/ /\ media[m].status = "DELETE_PENDING" /\ media'[m].status = "DELETED"
              /\ media'[m].key = media[m].key,
         \A m \in MediaIds \ overtaken' :
           media[m].status = "READY" /\ <<"ready", m>> \in objects => <<"ready", m>> \in objects',
         \A i \in DOMAIN outbox' : outbox'[i].key = "ready" =>
           i \in DOMAIN outbox /\ outbox[i].key = "ready" /\ outbox'[i].media = outbox[i].media,
         \A m \in cover' : m \in cover \/ media[m].status = "READY"
  PROVE  ImageInv'
  <1>0. TypeOK /\ ImageInv
    BY DEF IInv
  <1>1. ReadyHasObject'
    BY <1>0 DEF ImageInv, ReadyHasObject
  <1>2. CoverIsReady'
    <2> SUFFICES ASSUME NEW m \in cover' \ overtaken' PROVE media'[m].status = "READY"
      BY DEF CoverIsReady
    <2>1. m \in MediaIds \ overtaken'
      BY DEF TypeOK
    <2>2. media[m].status = "READY"
      BY <1>0 DEF ImageInv, CoverIsReady
    <2> QED BY <2>1, <2>2
  <1>3. ReadyKeyPublished'
    BY <1>0 DEF ImageInv, ReadyKeyPublished
  <1>4. ReadyEventsWithdrawn'
    <2> SUFFICES ASSUME NEW i \in DOMAIN outbox', outbox'[i].key = "ready",
                        outbox'[i].media \notin overtaken'
        PROVE  /\ media'[outbox'[i].media].key = "ready"
               /\ media'[outbox'[i].media].status \in {"DELETE_PENDING", "DELETED"}
      BY DEF ReadyEventsWithdrawn
    <2>1. outbox[i] \in OutboxEvent /\ outbox'[i].media = outbox[i].media
      BY <1>0 DEF TypeOK
    <2>2. outbox[i].media \in MediaIds \ overtaken'
      BY <2>1 DEF OutboxEvent
    <2>3. /\ media[outbox[i].media].key = "ready"
          /\ media[outbox[i].media].status \in {"DELETE_PENDING", "DELETED"}
      BY <1>0, <2>1, <2>2 DEF ImageInv, ReadyEventsWithdrawn
    <2> QED BY <2>1, <2>2, <2>3
  <1> QED BY <1>1, <1>2, <1>3, <1>4 DEF ImageInv

(* What the invariant says of an image some call works on, of one that has *)
(* not been published, and of the outbox after a cleanup event.            *)
LEMMA CalledImage ==
  ASSUME IInv, NEW f \in Finalizers, NEW m \in fin[f].on
  PROVE  m \in MediaIds /\ fin[f].pc # "idle" /\ \A n \in fin[f].on : n = m
  BY DEF IInv, TypeOK, FinalizeCall, CallInv, OneImagePerCall

LEMMA ClaimedImage ==
  ASSUME IInv, NEW f \in Finalizers, NEW m \in fin[f].on \ overtaken
  PROVE  /\ media[m].key = "staging"
         /\ media[m].status \in {"PROCESSING", "DELETE_PENDING", "DELETED"}
         /\ \A g \in Finalizers : g # f => m \notin fin[g].on
  BY CalledImage DEF IInv, CallInv, ClaimIsKept, OneCallPerImage

LEMMA UnpublishedImage ==
  ASSUME IInv, NEW m \in MediaIds \ overtaken,
         media[m].status \in {"NONE", "PENDING_UPLOAD", "PROCESSING", "REJECTED"}
  PROVE  media[m].key = "staging"
  BY DEF IInv, ImageInv, ReadyKeyPublished, TypeOK, MediaRow

LEMMA CleanupAppended ==
  ASSUME TypeOK, NEW m \in MediaIds, NEW t \in Nat,
         outbox' = Append(outbox, Event("CLEANUP", m, "staging", t))
  PROVE  \A i \in DOMAIN outbox' : outbox'[i].key = "ready" =>
           i \in DOMAIN outbox /\ outbox[i].key = "ready" /\ outbox'[i].media = outbox[i].media
  <1> DEFINE e == Event("CLEANUP", m, "staging", t)
  <1>1. e \in OutboxEvent /\ e.key = "staging"
    BY EventRow
  <1>2. outbox' = Append(outbox, e) /\ outbox \in Seq(OutboxEvent)
    BY DEF TypeOK
  <1> HIDE DEF e
  <1> QED BY <1>1, <1>2, EventAppended

LEMMA CommandsKeep ==
  ASSUME IInv, TypeOK', NEW m \in MediaIds,
         CreateUploadIntent(m) \/ DeleteMedia(m) \/ SetCover({m}) \/ SetCover({})
           \/ AcceptUpload(m) \/ StoreUpload(m) \/ EndUpload(m)
  PROVE  (CallInv /\ ImageInv)'
  <1>0. /\ TypeOK /\ overtaken' = overtaken
        /\ \A f \in Finalizers : \A n \in fin[f].on : n \in MediaIds /\ fin[f].pc # "idle"
    BY CalledImage DEF IInv, CreateUploadIntent, DeleteMedia, SetCover, AcceptUpload, StoreUpload,
                       EndUpload
  <1>1. CASE CreateUploadIntent(m)
    <2>1. /\ media[m].status = "NONE"
          /\ media'[m].status = "PENDING_UPLOAD" /\ media'[m].key = "staging"
          /\ \A n \in MediaIds : n # m => media'[n] = media[n]
          /\ UNCHANGED <<now, cover, outbox, objects, fin>>
      BY <1>0, <1>1 DEF CreateUploadIntent, TypeOK
    <2>2. m \notin overtaken =>
            (\A f \in Finalizers : m \notin fin[f].on) /\ media[m].key = "staging"
      BY <2>1, ClaimedImage, UnpublishedImage
    <2>3. CallInv'
      BY <1>0, <2>1, <2>2, CallFrame
    <2>4. ImageInv'
      BY <1>0, <2>1, <2>2, ImageFrame
    <2> QED BY <2>3, <2>4
  <1>2. CASE DeleteMedia(m)
    <2>1. /\ media'[m].status = "DELETE_PENDING" /\ media'[m].key = media[m].key
          /\ \A n \in MediaIds : n # m => media'[n] = media[n]
      <3> DEFINE w == WithStatus(m, "DELETE_PENDING")
      <3>1. /\ w[m].status = "DELETE_PENDING" /\ w[m].key = media[m].key
            /\ \A n \in MediaIds : n # m => w[n] = media[n]
        BY <1>0, WithStatusRow DEF MediaStatus
      <3> QED BY <3>1, <1>2 DEF DeleteMedia
    <2>2. cover' = cover \ {m} /\ UNCHANGED <<now, objects, fin>>
      BY <1>2 DEF DeleteMedia, storeVars
    <2>3. CallInv'
      BY <1>0, <2>1, <2>2, CallFrame
    <2>4. ReadyHasObject' /\ ReadyKeyPublished'
      BY <1>0, <2>1, <2>2 DEF IInv, ImageInv, ReadyHasObject, ReadyKeyPublished
    <2>5. CoverIsReady'
      BY <1>0, <2>1, <2>2 DEF IInv, ImageInv, CoverIsReady, TypeOK
    <2>6. ReadyEventsWithdrawn'
      <3>1. PICK t \in Nat : outbox' = Append(outbox, Event("DELETE", m, media[m].key, t))
        BY <1>0, <1>2 DEF DeleteMedia, ExpirySeen, TypeOK, MediaRow
      <3> DEFINE e == Event("DELETE", m, media[m].key, t)
      <3>2. media[m].key \in {"staging", "ready"}
        BY <1>0 DEF TypeOK, MediaRow
      <3>3. e \in OutboxEvent /\ e.media = m /\ e.key = media[m].key
        BY <3>2, EventRow
      <3>4. outbox' = Append(outbox, e) /\ outbox \in Seq(OutboxEvent)
        BY <1>0, <3>1 DEF TypeOK
      <3> HIDE DEF e
      <3> SUFFICES ASSUME NEW i \in DOMAIN outbox', outbox'[i].key = "ready",
                          outbox'[i].media \notin overtaken
          PROVE  /\ media'[outbox'[i].media].key = "ready"
                 /\ media'[outbox'[i].media].status \in {"DELETE_PENDING", "DELETED"}
        BY <1>0 DEF ReadyEventsWithdrawn
      <3>5. CASE outbox'[i] = e
        BY <3>5, <3>3, <2>1
      <3>6. CASE i \in DOMAIN outbox /\ outbox'[i] = outbox[i]
        <4>1. outbox[i].media \in MediaIds
          <5>1. outbox[i] \in OutboxEvent
            BY <3>4, <3>6
          <5> QED BY <5>1 DEF OutboxEvent
        <4>2. /\ media[outbox[i].media].key = "ready"
              /\ media[outbox[i].media].status \in {"DELETE_PENDING", "DELETED"}
          BY <3>6 DEF IInv, ImageInv, ReadyEventsWithdrawn
        <4> QED BY <2>1, <3>6, <4>1, <4>2
      <3> QED BY <3>3, <3>4, <3>5, <3>6, EventAppended
    <2> QED BY <2>3, <2>4, <2>5, <2>6 DEF ImageInv
  <1>3. CASE SetCover({m}) \/ SetCover({}) \/ AcceptUpload(m) \/ StoreUpload(m) \/ EndUpload(m)
    <2>1. /\ UNCHANGED <<now, media, outbox, fin>> /\ objects \subseteq objects'
          /\ cover' = cover \/ \A n \in cover' : media[n].status = "READY"
      BY <1>3 DEF SetCover, AcceptUpload, StoreUpload, EndUpload, dbVars, storeVars
    <2>2. CallInv'
      BY <1>0, <2>1, CallFrame
    <2>3. ImageInv'
      BY <1>0, <2>1, ImageFrame
    <2> QED BY <2>2, <2>3
  <1> QED BY <1>1, <1>2, <1>3

LEMMA AdvanceKeeps == IInv /\ Advance => (CallInv /\ ImageInv)'
  <1> SUFFICES ASSUME IInv, Advance PROVE (CallInv /\ ImageInv)'
    OBVIOUS
  <1>1. UNCHANGED <<media, cover, outbox, objects, fin, overtaken>>
    BY DEF Advance, dbVars, storeVars
  <1> QED BY <1>1 DEF IInv, CallInv, ImageInv, OneImagePerCall, OneCallPerImage, ClaimIsKept,
             StoredIsThere, ReadyHasObject, CoverIsReady, ReadyKeyPublished, ReadyEventsWithdrawn

LEMMA FinalizersKeep ==
  ASSUME IInv, TypeOK', NEW f \in Finalizers, NEW m \in MediaIds,
         ClaimMedia(f, m) \/ DecodeImage(f, m) \/ StoreReady(f, m) \/ ProcessingFails(f)
           \/ RejectMedia(f, m) \/ PublishMedia(f, m) \/ PublishRefused(f, m) \/ PublishFails(f)
           \/ RemoveReady(f, m) \/ ReleaseClaim(f, m) \/ FinalizerDies(f)
  PROVE  (CallInv /\ ImageInv)'
  <1>0. /\ TypeOK /\ overtaken' = overtaken
        /\ \A g \in Finalizers : \A n \in fin[g].on : n \in MediaIds /\ fin[g].pc # "idle"
    <2>1. overtaken' = overtaken
      BY ZenonT(30) DEF ClaimMedia, DecodeImage, StoreReady, ProcessingFails, RejectMedia, PublishMedia,
         PublishRefused, PublishFails, RemoveReady, ReleaseClaim, FinalizerDies
    <2> QED BY <2>1, CalledImage DEF IInv
  <1>1. CASE ClaimMedia(f, m)
    <2>1. /\ media[m].status = "PENDING_UPLOAD"
          /\ m \notin overtaken =>
               media[m].key = "staging" /\ \A g \in Finalizers : m \notin fin[g].on
      BY <1>1, ClaimedImage, UnpublishedImage DEF ClaimMedia
    <2>2. /\ media'[m].status = "PROCESSING" /\ media'[m].key = media[m].key
          /\ \A n \in MediaIds : n # m => media'[n] = media[n]
      <3> DEFINE w == WithStatus(m, "PROCESSING")
      <3>1. /\ w[m].status = "PROCESSING" /\ w[m].key = media[m].key
            /\ \A n \in MediaIds : n # m => w[n] = media[n]
        BY <1>0, WithStatusRow DEF MediaStatus
      <3> QED BY <3>1, <1>1 DEF ClaimMedia
    <2>3. /\ fin'[f].pc = "claimed" /\ fin'[f].on = {m}
          /\ \A g \in Finalizers : g # f => fin'[g] = fin[g]
      BY <1>0, <1>1 DEF ClaimMedia, TypeOK
    <2>4. UNCHANGED <<now, cover, outbox, objects>>
      BY <1>1 DEF ClaimMedia, storeVars
    <2>5. OneImagePerCall' /\ OneCallPerImage'
      BY <1>0, <2>1, <2>3 DEF IInv, CallInv, OneImagePerCall, OneCallPerImage
    <2>6. ClaimIsKept'
      BY <1>0, <2>1, <2>2, <2>3 DEF IInv, CallInv, ClaimIsKept
    <2>7. StoredIsThere'
      BY <1>0, <2>3, <2>4 DEF IInv, CallInv, StoredIsThere
    <2>8. ImageInv'
      BY <1>0, <2>1, <2>2, <2>4, ImageFrame
    <2> QED BY <2>5, <2>6, <2>7, <2>8 DEF CallInv
  <1>2. CASE DecodeImage(f, m) \/ ProcessingFails(f) \/ PublishRefused(f, m) \/ PublishFails(f)
             \/ FinalizerDies(f)
    <2>1. UNCHANGED <<now, media, cover, outbox, objects>>
      BY <1>2 DEF DecodeImage, ProcessingFails, PublishRefused, PublishFails, FinalizerDies, dbVars, storeVars
    <2>2. /\ \/ fin'[f].on = {}
             \/ /\ fin'[f].on = fin[f].on
                /\ fin'[f].pc \notin {"idle", "stored"}
          /\ \A g \in Finalizers : g # f => fin'[g] = fin[g]
      BY <1>0, <1>2, SMTT(30) DEF DecodeImage, ProcessingFails, PublishRefused, PublishFails, FinalizerDies,
                        GoTo, FinalizerReturns, IdleCall, TypeOK, FinalizeCall
    <2>3. CallInv'
      BY <1>0, <2>1, <2>2, CallFrame
    <2>4. ImageInv'
      BY <1>0, <2>1, ImageFrame
    <2> QED BY <2>3, <2>4
  <1>3. CASE StoreReady(f, m)
    <2>1. /\ UNCHANGED <<now, media, cover, outbox>>
          /\ objects' = objects \cup {<<"ready", m>>}
      BY <1>3 DEF StoreReady, dbVars
    <2>2. /\ fin'[f].on = fin[f].on /\ fin'[f].pc = "stored"
          /\ \A g \in Finalizers : g # f => fin'[g] = fin[g]
      BY <1>0, <1>3 DEF StoreReady, GoTo, TypeOK, FinalizeCall
    <2>3. m \in fin[f].on /\ \A n \in fin[f].on : n = m
      BY <1>3, CalledImage DEF StoreReady
    <2>4. CallInv'
      BY <1>0, <2>1, <2>2, <2>3, CallFrame
    <2>5. ImageInv'
      BY <1>0, <2>1, ImageFrame
    <2> QED BY <2>4, <2>5
  <1>4. CASE RejectMedia(f, m) \/ ReleaseClaim(f, m)
    <2>1. /\ m \in fin[f].on /\ UNCHANGED <<now, cover, objects>>
          /\ fin'[f].on = {} /\ \A g \in Finalizers : g # f => fin'[g] = fin[g]
      BY <1>0, <1>4 DEF RejectMedia, ReleaseClaim, storeVars, FinalizerReturns, IdleCall, TypeOK
    <2>2. m \notin overtaken =>
            /\ media[m].key = "staging" /\ media[m].status # "READY"
            /\ \A g \in Finalizers : g # f => m \notin fin[g].on
      BY <2>1, ClaimedImage
    <2>3. /\ \A n \in MediaIds : n # m => media'[n] = media[n]
          /\ media'[m] = media[m] \/ (media'[m].status # "READY" /\ media'[m].key = media[m].key)
      <3>1. CASE RejectMedia(f, m)
        BY <1>0, <3>1, RejectedRows DEF RejectMedia
      <3>2. CASE ReleaseClaim(f, m)
        <4> DEFINE w == WithStatus(m, "PENDING_UPLOAD")
        <4>1. /\ w[m].status = "PENDING_UPLOAD" /\ w[m].key = media[m].key
              /\ \A n \in MediaIds : n # m => w[n] = media[n]
          BY <1>0, WithStatusRow DEF MediaStatus
        <4> HIDE DEF w
        <4>2. media' = w \/ media' = media
          BY <3>2 DEF ReleaseClaim, w
        <4> QED BY <4>1, <4>2
      <3> QED BY <1>4, <3>1, <3>2
    <2>4. \A i \in DOMAIN outbox' : outbox'[i].key = "ready" =>
            i \in DOMAIN outbox /\ outbox[i].key = "ready" /\ outbox'[i].media = outbox[i].media
      <3>1. CASE RejectMedia(f, m)
        <4>1. fin[f].expires \in Nat
          BY <1>0 DEF TypeOK, FinalizeCall
        <4> QED BY <1>0, <3>1, <4>1, CleanupAppended DEF RejectMedia
      <3>2. CASE ReleaseClaim(f, m)
        BY <3>2 DEF ReleaseClaim
      <3> QED BY <1>4, <3>1, <3>2
    <2>5. CallInv'
      BY <1>0, <2>1, <2>2, <2>3, CallFrame
    <2>6. ImageInv'
      BY <1>0, <2>1, <2>2, <2>3, <2>4, ImageFrame
    <2> QED BY <2>5, <2>6
  <1>5. CASE RemoveReady(f, m)
    <2>1. /\ m \in fin[f].on /\ UNCHANGED <<now, media, cover, outbox>>
          /\ \A n \in MediaIds : n # m /\ <<"ready", n>> \in objects => <<"ready", n>> \in objects'
      BY <1>5 DEF RemoveReady, dbVars
    <2>2. /\ fin'[f].on = fin[f].on /\ fin'[f].pc = "undone"
          /\ \A g \in Finalizers : g # f => fin'[g] = fin[g]
      BY <1>0, <1>5 DEF RemoveReady, GoTo, TypeOK, FinalizeCall
    <2>3. m \notin overtaken =>
            media[m].status # "READY" /\ \A g \in Finalizers : g # f => m \notin fin[g].on
      BY <2>1, ClaimedImage
    <2>4. CallInv'
      BY <1>0, <2>1, <2>2, <2>3, CallFrame
    <2>5. ImageInv'
      BY <1>0, <2>1, <2>3, ImageFrame
    <2> QED BY <2>4, <2>5
  <1>6. CASE PublishMedia(f, m)
    <2>1. /\ m \in fin[f].on /\ UNCHANGED <<now, cover, objects>> /\ fin[f].pc = "stored"
          /\ fin'[f].on = {} /\ \A g \in Finalizers : g # f => fin'[g] = fin[g]
      BY <1>0, <1>6 DEF PublishMedia, storeVars, FinalizerReturns, IdleCall, TypeOK
    <2>2. m \notin overtaken =>
            media[m].key = "staging" /\ \A g \in Finalizers : g # f => m \notin fin[g].on
      BY <2>1, ClaimedImage
    <2>3. /\ media'[m].status = "READY" /\ media'[m].key = "ready"
          /\ \A n \in MediaIds : n # m => media'[n] = media[n]
      BY <1>0, <1>6, PublishedRows DEF PublishMedia
    <2>4. CallInv'
      BY <1>0, <2>1, <2>2, <2>3, CallFrame
    <2>5. m \notin overtaken => <<"ready", m>> \in objects
      BY <2>1 DEF IInv, CallInv, StoredIsThere
    <2>6. ReadyHasObject' /\ ReadyKeyPublished' /\ CoverIsReady'
      BY <1>0, <2>1, <2>3, <2>5, ZenonT(40)
         DEF IInv, ImageInv, ReadyHasObject, ReadyKeyPublished, CoverIsReady, TypeOK
    <2>7. ReadyEventsWithdrawn'
      <3> SUFFICES ASSUME NEW i \in DOMAIN outbox', outbox'[i].key = "ready",
                          outbox'[i].media \notin overtaken
          PROVE  /\ media'[outbox'[i].media].key = "ready"
                 /\ media'[outbox'[i].media].status \in {"DELETE_PENDING", "DELETED"}
        BY <1>0 DEF ReadyEventsWithdrawn
      <3>1. fin[f].expires \in Nat
        BY <1>0 DEF TypeOK, FinalizeCall
      <3>2. i \in DOMAIN outbox /\ outbox[i].key = "ready" /\ outbox'[i].media = outbox[i].media
        BY <1>0, <1>6, <3>1, CleanupAppended DEF PublishMedia
      <3>3. outbox[i].media \in MediaIds
        <4>1. outbox[i] \in OutboxEvent
          BY <1>0, <3>2 DEF TypeOK
        <4> QED BY <4>1 DEF OutboxEvent
      <3>4. /\ media[outbox[i].media].key = "ready"
            /\ media[outbox[i].media].status \in {"DELETE_PENDING", "DELETED"}
        BY <3>2 DEF IInv, ImageInv, ReadyEventsWithdrawn
      <3> QED BY <2>2, <2>3, <3>2, <3>3, <3>4
    <2> QED BY <2>4, <2>6, <2>7 DEF ImageInv
  <1> QED BY <1>1, <1>2, <1>3, <1>4, <1>5, <1>6

LEMMA TicksKeep ==
  ASSUME IInv, TypeOK', NEW c \in Cleaners,
         \/ RecoverStaleProcessing(c) \/ FindExpired(c) \/ ReadBatch(c) \/ EndTick(c)
         \/ CleanerFails(c) \/ \E m \in MediaIds : ExpireUpload(c, m)
  PROVE  (CallInv /\ ImageInv)'
  <1>0. TypeOK /\ \A g \in Finalizers : \A n \in fin[g].on : n \in MediaIds /\ fin[g].pc # "idle"
    BY CalledImage DEF IInv
  <1>1. CASE RecoverStaleProcessing(c)
    <2>1. UNCHANGED <<now, cover, outbox, objects, fin>>
      BY <1>1 DEF RecoverStaleProcessing, storeVars
    <2>2. /\ overtaken \subseteq overtaken'
          /\ \A g \in Finalizers : \A n \in fin[g].on \ overtaken' : ~Stale(n)
      BY <1>0, <1>1 DEF RecoverStaleProcessing, BeingFinalized
    <2>3. \A n \in MediaIds :
            \/ ~Stale(n) /\ media'[n] = media[n]
            \/ /\ media[n].status = "PROCESSING"
               /\ media'[n].status = "PENDING_UPLOAD" /\ media'[n].key = media[n].key
      <3> SUFFICES ASSUME NEW n \in MediaIds, Stale(n)
          PROVE  /\ media[n].status = "PROCESSING"
                 /\ media'[n].status = "PENDING_UPLOAD" /\ media'[n].key = media[n].key
        BY <1>1 DEF RecoverStaleProcessing
      <3>1. media'[n] = [media[n] EXCEPT !.status = "PENDING_UPLOAD", !.updatedAt = now]
        BY <1>1 DEF RecoverStaleProcessing
      <3>2. media[n] \in MediaRow
        BY <1>0 DEF TypeOK
      <3> QED BY <3>1, <3>2 DEF Stale, MediaRow
    <2>4. CallInv'
      <3>1. ASSUME NEW g \in Finalizers, NEW n \in fin[g].on \ overtaken'
            PROVE  media'[n] = media[n]
        <4>1. ~Stale(n) /\ n \in MediaIds
          BY <1>0, <2>2
        <4> QED BY <1>1, <4>1 DEF RecoverStaleProcessing
      <3> QED BY <1>0, <2>1, <2>2, <3>1, CallFrame
    <2>5. ImageInv'
      BY <2>1, <2>2, <2>3, UnpublishedImage, ImageFrame
    <2> QED BY <2>4, <2>5
  <1>2. CASE FindExpired(c) \/ ReadBatch(c) \/ EndTick(c) \/ CleanerFails(c)
    <2>1. UNCHANGED <<now, media, cover, outbox, objects, fin, overtaken>>
      BY <1>2 DEF FindExpired, ReadBatch, EndTick, CleanerFails, dbVars, storeVars
    <2>2. CallInv'
      BY <1>0, <2>1, CallFrame
    <2>3. ImageInv'
      BY <2>1, ImageFrame
    <2> QED BY <2>2, <2>3
  <1>3. ASSUME NEW m \in MediaIds, ExpireUpload(c, m) PROVE (CallInv /\ ImageInv)'
    <2>1. UNCHANGED <<now, cover, objects, fin, overtaken>>
      BY <1>3 DEF ExpireUpload, storeVars
    <2>2. CASE media' = media /\ outbox' = outbox
      <3>1. CallInv'
        BY <1>0, <2>1, <2>2, CallFrame
      <3>2. ImageInv'
        BY <2>1, <2>2, ImageFrame
      <3> QED BY <3>1, <3>2
    <2>3. CASE /\ media[m].status = "PENDING_UPLOAD" /\ media' = Rejected(m)
               /\ outbox' = Append(outbox, Event("CLEANUP", m, "staging", now))
      <3>1. m \notin overtaken =>
              media[m].key = "staging" /\ \A g \in Finalizers : m \notin fin[g].on
        BY <2>3, ClaimedImage, UnpublishedImage
      <3>2. /\ media'[m].status = "REJECTED" /\ media'[m].key = media[m].key
            /\ \A n \in MediaIds : n # m => media'[n] = media[n]
        BY <1>0, <2>3, RejectedRows
      <3>3. \A i \in DOMAIN outbox' : outbox'[i].key = "ready" =>
              i \in DOMAIN outbox /\ outbox[i].key = "ready" /\ outbox'[i].media = outbox[i].media
        BY <1>0, <2>3, CleanupAppended DEF TypeOK
      <3>4. CallInv'
        BY <1>0, <2>1, <3>1, <3>2, CallFrame
      <3>5. ImageInv'
        BY <2>1, <2>3, <3>1, <3>2, <3>3, ImageFrame
      <3> QED BY <3>4, <3>5
    <2> QED BY <1>3, <2>2, <2>3 DEF ExpireUpload, Expired
  <1> QED BY <1>1, <1>2, <1>3

LEMMA DeliveriesKeep ==
  ASSUME IInv, TypeOK', NEW c \in Cleaners, NEW i \in DOMAIN outbox,
         TakeEvent(c, i) \/ DeleteObject(c, i) \/ CompleteEvent(c, i) \/ RetryEvent(c, i)
  PROVE  (CallInv /\ ImageInv)'
  <1>0. TypeOK /\ \A g \in Finalizers : \A n \in fin[g].on : n \in MediaIds /\ fin[g].pc # "idle"
    BY CalledImage DEF IInv
  <1>1. UNCHANGED <<now, cover, fin, overtaken>>
    BY DEF TakeEvent, DeleteObject, CompleteEvent, RetryEvent, dbVars, storeVars
  <1>2. objects' = objects \/ objects' = objects \ {<<outbox[i].key, outbox[i].media>>}
    BY DEF TakeEvent, DeleteObject, CompleteEvent, RetryEvent, storeVars
  <1>3. \A m \in MediaIds \ overtaken : media[m].key = "staging" \/ media[m].status = "READY" =>
          (<<"ready", m>> \in objects => <<"ready", m>> \in objects')
    <2> SUFFICES ASSUME NEW m \in MediaIds \ overtaken, outbox[i].key = "ready", outbox[i].media = m
        PROVE  media[m].key = "ready" /\ media[m].status # "READY"
      BY <1>2
    <2> QED BY DEF IInv, ImageInv, ReadyEventsWithdrawn
  <1>4. /\ DOMAIN outbox' = DOMAIN outbox
        /\ \A j \in DOMAIN outbox :
             outbox'[j].key = outbox[j].key /\ outbox'[j].media = outbox[j].media
        /\ \A m \in MediaIds :
             \/ media'[m] = media[m]
             \/ /\ media[m].status = "DELETE_PENDING" /\ media'[m].status = "DELETED"
                /\ media'[m].key = media[m].key
    BY <1>0, DeliveryStep
  <1>5. CallInv'
    <2>1. \A g \in Finalizers : \A n \in fin[g].on \ overtaken : media[n].key = "staging"
      BY ClaimedImage
    <2> QED BY <1>0, <1>1, <1>3, <1>4, <2>1, CallFrame
  <1>6. ImageInv'
    BY <1>1, <1>3, <1>4, ImageFrame
  <1> QED BY <1>5, <1>6

LEMMA NextIInv == IInv /\ [Next]_vars => IInv'
  <1>1. ASSUME IInv, Next PROVE IInv'
    <2>1. TypeOK'
      BY <1>1, NextTypes DEF IInv
    <2>2. CASE SetCover({}) \/ \E f \in Finalizers : ProcessingFails(f) \/ PublishFails(f) \/ FinalizerDies(f)
      <3>1. CASE MediaIds # {}
        BY <1>1, <2>1, <2>2, <3>1, CommandsKeep, FinalizersKeep DEF IInv
      <3>2. CASE MediaIds = {}
        <4>1. /\ overtaken' = overtaken
              /\ \A f \in Finalizers : fin[f].on = {} /\ fin'[f].on = {}
          <5>1. overtaken' = overtaken
            BY <2>2 DEF SetCover, ProcessingFails, PublishFails, FinalizerDies
          <5> QED BY <1>1, <2>1, <3>2, <5>1 DEF IInv, TypeOK, FinalizeCall
        <4>2. CallInv'
          BY <1>1, <2>1, <4>1, CallFrame
        <4>3. ImageInv'
          <5>1. DOMAIN outbox' = {} \/ outbox' = outbox
            BY <2>2 DEF SetCover, ProcessingFails, PublishFails, FinalizerDies, dbVars
          <5> QED BY <1>1, <2>1, <3>2, <4>1, <5>1, ImageFrame DEF TypeOK
        <4> QED BY <2>1, <4>2, <4>3 DEF IInv
      <3> QED BY <3>1, <3>2
    <2>3. CASE Advance
      BY <1>1, <2>1, <2>3, AdvanceKeeps DEF IInv
    <2> QED BY <1>1, <2>1, <2>2, <2>3, StepCases, CommandsKeep, FinalizersKeep, TicksKeep,
               DeliveriesKeep DEF IInv
  <1>2. IInv /\ UNCHANGED vars => IInv'
    BY DEF IInv, CallInv, ImageInv, TypeOK, OneImagePerCall, OneCallPerImage,
           ClaimIsKept, StoredIsThere, ReadyHasObject, CoverIsReady, ReadyKeyPublished,
           ReadyEventsWithdrawn, vars, dbVars, storeVars
  <1> QED BY <1>1, <1>2

(* ReadyHasObject: what is served exists, unless recovery has overtaken a  *)
(* finalization of the image.                                              *)
THEOREM ServedImageExists == Spec => []ReadyHasObject
  <1>1. IInv => ReadyHasObject
    BY DEF IInv, ImageInv
  <1> QED BY <1>1, InitIInv, NextIInv, PTL DEF Spec

(* CoverIsReady: nobody takes READY from the cover, with that exception.   *)
THEOREM CoverStaysReady == Spec => []CoverIsReady
  <1>1. IInv => CoverIsReady
    BY DEF IInv, ImageInv
  <1> QED BY <1>1, InitIInv, NextIInv, PTL DEF Spec

-----------------------------------------------------------------------------
(* The deleted image.                                                      *)

(* A deletion event names the key its image keeps from then on, ...        *)
DeletionsNameTheirKey ==
  \A i \in DOMAIN outbox : outbox[i].topic = "DELETE" =>
    /\ Withdrawn(media[outbox[i].media].status)
    /\ outbox[i].key = media[outbox[i].media].key

(* ... a worker handles one event at a time ...                            *)
OneEventAtATime == \A c \in Cleaners : \A i, j \in clean[c].event : i = j

(* ... and what it has removed under the ready key does not come back      *)
(* before it completes the event.                                          *)
RemovedIsGone ==
  \A c \in Cleaners : clean[c].pc = "removed" =>
    \A i \in clean[c].event :
      /\ i \in DOMAIN outbox
      /\ outbox[i].key = "ready" /\ outbox[i].media \notin overtaken =>
           <<"ready", outbox[i].media>> \notin objects

GoneInv == DeletedImageIsGone /\ DeletionsNameTheirKey /\ OneEventAtATime /\ RemovedIsGone

(* Every event in the outbox keeps what it is about; a new one cleans up a *)
(* staging object or names the key of the image that is being deleted.     *)
LEMMA EventSteps ==
  ASSUME TypeOK, Next
  PROVE  /\ DOMAIN outbox \subseteq DOMAIN outbox'
         /\ \A i \in DOMAIN outbox :
              /\ outbox'[i].topic = outbox[i].topic
              /\ outbox'[i].key = outbox[i].key /\ outbox'[i].media = outbox[i].media
         /\ \A i \in DOMAIN outbox' :
              \/ i \in DOMAIN outbox
              \/ outbox'[i].topic = "CLEANUP"
              \/ \E m \in MediaIds :
                   /\ outbox'[i].media = m /\ outbox'[i].key = media'[m].key
                   /\ media'[m].status = "DELETE_PENDING"
  <1> DEFINE Goal ==
        /\ DOMAIN outbox \subseteq DOMAIN outbox'
        /\ \A i \in DOMAIN outbox :
             /\ outbox'[i].topic = outbox[i].topic
             /\ outbox'[i].key = outbox[i].key /\ outbox'[i].media = outbox[i].media
        /\ \A i \in DOMAIN outbox' :
             \/ i \in DOMAIN outbox
             \/ outbox'[i].topic = "CLEANUP"
             \/ \E m \in MediaIds :
                  /\ outbox'[i].media = m /\ outbox'[i].key = media'[m].key
                  /\ media'[m].status = "DELETE_PENDING"
  <1>0. outbox \in Seq(OutboxEvent) /\ now \in Nat
    BY DEF TypeOK
  <1>1. CASE outbox' = outbox
    BY <1>1
  <1>2. ASSUME NEW m \in MediaIds, NEW t \in Nat,
               outbox' = Append(outbox, Event("CLEANUP", m, "staging", t))
        PROVE  Goal
    <2>1. PICK e \in OutboxEvent : e = Event("CLEANUP", m, "staging", t) /\ e.topic = "CLEANUP"
      BY EventRow
    <2>2. outbox' = Append(outbox, e)
      BY <1>2, <2>1
    <2> QED BY <1>0, <2>1, <2>2
  <1>3. ASSUME NEW m \in MediaIds, DeleteMedia(m) PROVE Goal
    <2>1. PICK t \in Nat : outbox' = Append(outbox, Event("DELETE", m, media[m].key, t))
      BY <1>3 DEF DeleteMedia, ExpirySeen, TypeOK, MediaRow
    <2>2. media[m].key \in {"staging", "ready"}
      BY DEF TypeOK, MediaRow
    <2>3. PICK e \in OutboxEvent :
            /\ e = Event("DELETE", m, media[m].key, t) /\ e.media = m /\ e.key = media[m].key
      BY <2>2, EventRow
    <2>4. outbox' = Append(outbox, e)
      BY <2>1, <2>3
    <2>5. /\ WithStatus(m, "DELETE_PENDING")[m].status = "DELETE_PENDING"
          /\ WithStatus(m, "DELETE_PENDING")[m].key = media[m].key
      BY WithStatusRow DEF MediaStatus
    <2>6. media'[m].status = "DELETE_PENDING" /\ media'[m].key = e.key
      BY <1>3, <2>3, <2>5 DEF DeleteMedia
    <2> QED BY <1>0, <2>3, <2>4, <2>6
  <1>4. ASSUME NEW f \in Finalizers, NEW m \in MediaIds, RejectMedia(f, m) \/ PublishMedia(f, m)
        PROVE  Goal
    <2>1. fin[f].expires \in Nat
      BY DEF TypeOK, FinalizeCall
    <2>2. outbox' = Append(outbox, Event("CLEANUP", m, "staging", fin[f].expires))
      BY <1>4 DEF RejectMedia, PublishMedia
    <2> QED BY <2>1, <2>2, <1>2
  <1>5. ASSUME NEW c \in Cleaners, NEW m \in MediaIds, ExpireUpload(c, m) PROVE Goal
    <2>1. outbox' = outbox \/ outbox' = Append(outbox, Event("CLEANUP", m, "staging", now))
      BY <1>5 DEF ExpireUpload
    <2> QED BY <1>0, <1>1, <1>2, <2>1
  <1>6. ASSUME NEW c \in Cleaners, NEW i \in DOMAIN outbox,
               TakeEvent(c, i) \/ DeleteObject(c, i) \/ CompleteEvent(c, i) \/ RetryEvent(c, i)
        PROVE  Goal
    BY <1>6, DeliveryStep
  <1>7. CASE \/ Advance \/ SetCover({})
             \/ \E n \in MediaIds :
                  \/ CreateUploadIntent(n) \/ SetCover({n}) \/ AcceptUpload(n) \/ StoreUpload(n)
                  \/ EndUpload(n)
             \/ \E f \in Finalizers : ProcessingFails(f) \/ PublishFails(f) \/ FinalizerDies(f)
             \/ \E f \in Finalizers, n \in MediaIds :
                  \/ ClaimMedia(f, n) \/ DecodeImage(f, n) \/ StoreReady(f, n)
                  \/ PublishRefused(f, n) \/ RemoveReady(f, n) \/ ReleaseClaim(f, n)
             \/ \E c \in Cleaners :
                  \/ RecoverStaleProcessing(c) \/ FindExpired(c) \/ ReadBatch(c) \/ EndTick(c)
                  \/ CleanerFails(c)
    <2>1. outbox' = outbox
      BY <1>7 DEF Advance, SetCover, CreateUploadIntent, AcceptUpload, StoreUpload, EndUpload,
                  ProcessingFails, PublishFails, FinalizerDies, ClaimMedia, DecodeImage, StoreReady,
                  PublishRefused, RemoveReady, ReleaseClaim, RecoverStaleProcessing, FindExpired,
                  ReadBatch, EndTick, CleanerFails, dbVars
    <2> QED BY <2>1, <1>1
  <1> QED BY StepCases, <1>3, <1>4, <1>5, <1>6, <1>7

(* What a step does to the event a worker holds.                           *)
LEMMA HeldEventSteps ==
  ASSUME TypeOK, Next, NEW c \in Cleaners
  PROVE  \/ /\ clean'[c].event = clean[c].event
            /\ clean'[c].pc = "removed" =>
                 clean[c].pc = "removed"
                   \/ \E i \in DOMAIN outbox : DeleteObject(c, i)
         \/ clean'[c].event = {}
         \/ \E i \in DOMAIN outbox : clean'[c].event = {i} /\ clean'[c].pc = "claimed"
  <1> DEFINE Goal ==
        \/ /\ clean'[c].event = clean[c].event
           /\ clean'[c].pc = "removed" =>
                clean[c].pc = "removed"
                  \/ \E i \in DOMAIN outbox : DeleteObject(c, i)
        \/ clean'[c].event = {}
        \/ \E i \in DOMAIN outbox : clean'[c].event = {i} /\ clean'[c].pc = "claimed"
  <1>0. clean \in [Cleaners -> CleanupTick] /\ clean[c] \in CleanupTick
    BY DEF TypeOK
  <1>1. CASE clean'[c] = clean[c]
    BY <1>1
  <1>2. ASSUME NEW d \in Cleaners,
               \/ RecoverStaleProcessing(d) \/ FindExpired(d) \/ ReadBatch(d) \/ EndTick(d)
               \/ CleanerFails(d) \/ \E m \in MediaIds : ExpireUpload(d, m)
        PROVE  Goal
    <2>1. CASE d # c
      <3>1. clean'[c] = clean[c]
        BY <1>0, <1>2, <2>1 DEF RecoverStaleProcessing, FindExpired, ReadBatch, EndTick,
                                CleanerFails, ExpireUpload
      <3> QED BY <3>1, <1>1
    <2>2. CASE d = c
      <3>1. CASE RecoverStaleProcessing(c)
        BY <1>0, <3>1 DEF RecoverStaleProcessing, CleanupTick
      <3>2. CASE FindExpired(c)
        <4>1. PICK expire : clean' = [clean EXCEPT ![c] =
                [@ EXCEPT !.pc = "expiring", !.at = now, !.expire = expire]]
          BY <3>2 DEF FindExpired
        <4> QED BY <1>0, <4>1 DEF CleanupTick
      <3>3. CASE ReadBatch(c)
        <4>1. PICK batch : clean' = [clean EXCEPT ![c] =
                [@ EXCEPT !.pc = "batch", !.at = now, !.batch = batch]]
          BY <3>3 DEF ReadBatch
        <4> QED BY <1>0, <4>1 DEF CleanupTick
      <3>4. CASE EndTick(c) \/ CleanerFails(c)
        BY <1>0, <3>4 DEF EndTick, CleanerFails, IdleTick
      <3>5. ASSUME NEW m \in MediaIds, ExpireUpload(c, m) PROVE Goal
        <4>1. clean'[c].event = clean[c].event /\ clean'[c].pc = "expiring"
          BY <1>0, <3>5 DEF ExpireUpload, CleanupTick
        <4> QED BY <4>1
      <3> QED BY <1>2, <2>2, <3>1, <3>2, <3>3, <3>4, <3>5
    <2> QED BY <2>1, <2>2
  <1>3. ASSUME NEW d \in Cleaners, NEW i \in DOMAIN outbox,
               TakeEvent(d, i) \/ DeleteObject(d, i) \/ CompleteEvent(d, i) \/ RetryEvent(d, i)
        PROVE  Goal
    <2>1. CASE d # c
      <3>1. clean'[c] = clean[c]
        BY <1>0, <1>3, <2>1 DEF TakeEvent, DeleteObject, CompleteEvent, RetryEvent, NextEvent
      <3> QED BY <3>1, <1>1
    <2>2. CASE d = c
      <3>1. CASE TakeEvent(c, i)
        <4>1. \/ clean'[c].event = {i} /\ clean'[c].pc = "claimed"
              \/ clean'[c].event = clean[c].event /\ clean'[c].pc = "batch"
          <5>1. CASE Due(outbox[i].row, clean[c].at)
            <6>1. clean' = [clean EXCEPT ![c] =
                     [@ EXCEPT !.pc = "claimed", !.batch = clean[c].batch \ {i}, !.event = {i}]]
              BY <3>1, <5>1 DEF TakeEvent
            <6> QED BY <1>0, <6>1 DEF CleanupTick
          <5>2. CASE ~Due(outbox[i].row, clean[c].at)
            <6>1. clean' = [clean EXCEPT ![c].batch = @ \ {i}] /\ clean[c].pc = "batch"
              BY <3>1, <5>2 DEF TakeEvent
            <6> QED BY <1>0, <6>1 DEF CleanupTick
          <5> QED BY <5>1, <5>2
        <4> QED BY <4>1
      <3>2. CASE DeleteObject(c, i)
        <4>1. clean'[c].event = clean[c].event
          BY <1>0, <3>2 DEF DeleteObject, CleanupTick
        <4> QED BY <3>2, <4>1
      <3>3. CASE CompleteEvent(c, i) \/ RetryEvent(c, i)
        <4>1. NextEvent(c)
          BY <3>3 DEF CompleteEvent, RetryEvent
        <4>2. clean'[c].event = {}
          BY <1>0, <4>1 DEF NextEvent, CleanupTick
        <4> QED BY <4>2
      <3> QED BY <1>3, <2>2, <3>1, <3>2, <3>3
    <2> QED BY <2>1, <2>2
  <1>4. CASE \/ Advance \/ SetCover({})
             \/ \E n \in MediaIds :
                  \/ CreateUploadIntent(n) \/ DeleteMedia(n) \/ SetCover({n}) \/ AcceptUpload(n)
                  \/ StoreUpload(n) \/ EndUpload(n)
             \/ \E f \in Finalizers : ProcessingFails(f) \/ PublishFails(f) \/ FinalizerDies(f)
             \/ \E f \in Finalizers, n \in MediaIds :
                  \/ ClaimMedia(f, n) \/ DecodeImage(f, n) \/ StoreReady(f, n)
                  \/ RejectMedia(f, n) \/ PublishMedia(f, n)
                  \/ PublishRefused(f, n) \/ RemoveReady(f, n) \/ ReleaseClaim(f, n)
    <2>1. clean' = clean
      BY <1>4, ZenonT(30) DEF Advance, SetCover, CreateUploadIntent, DeleteMedia, AcceptUpload, StoreUpload,
                  EndUpload, ProcessingFails, PublishFails, FinalizerDies, ClaimMedia, DecodeImage,
                  StoreReady, RejectMedia, PublishMedia, PublishRefused, RemoveReady, ReleaseClaim
    <2> QED BY <2>1, <1>1
  <1> QED BY StepCases, <1>2, <1>3, <1>4

(* Ready objects appear for images that have not been published.           *)
LEMMA ReadyObjectsAppear ==
  ASSUME IInv, Next, NEW m \in MediaIds \ overtaken, <<"ready", m>> \in objects',
         <<"ready", m>> \notin objects
  PROVE  media' = media /\ media[m].key = "staging"
  <1>1. CASE \E f \in Finalizers, n \in MediaIds : StoreReady(f, n)
    <2>1. PICK f \in Finalizers, n \in MediaIds : StoreReady(f, n)
      BY <1>1
    <2>2. m \in fin[f].on /\ media' = media
      BY <2>1 DEF StoreReady, dbVars
    <2> QED BY <2>2, ClaimedImage
  <1>2. CASE ~\E f \in Finalizers, n \in MediaIds : StoreReady(f, n)
    <2>1. \/ objects' \subseteq objects
          \/ \E n \in MediaIds : objects' = objects \cup {<<"staging", n>>}
      <3>1. CASE \/ Advance \/ SetCover({})
                 \/ \E n \in MediaIds :
                      \/ CreateUploadIntent(n) \/ DeleteMedia(n) \/ SetCover({n})
                      \/ AcceptUpload(n) \/ StoreUpload(n) \/ EndUpload(n)
        BY <3>1 DEF Advance, SetCover, CreateUploadIntent, DeleteMedia, AcceptUpload, StoreUpload,
                    EndUpload, storeVars
      <3>2. CASE \/ \E f \in Finalizers : ProcessingFails(f) \/ PublishFails(f) \/ FinalizerDies(f)
                 \/ \E f \in Finalizers, n \in MediaIds :
                      \/ ClaimMedia(f, n) \/ DecodeImage(f, n) \/ RejectMedia(f, n)
                      \/ PublishMedia(f, n) \/ PublishRefused(f, n) \/ RemoveReady(f, n)
                      \/ ReleaseClaim(f, n)
        BY <3>2, ZenonT(30) DEF ProcessingFails, PublishFails, FinalizerDies, ClaimMedia, DecodeImage,
                    RejectMedia, PublishMedia, PublishRefused, RemoveReady, ReleaseClaim, storeVars
      <3>3. CASE \E c \in Cleaners :
                   \/ RecoverStaleProcessing(c) \/ FindExpired(c) \/ ReadBatch(c) \/ EndTick(c)
                   \/ CleanerFails(c) \/ \E n \in MediaIds : ExpireUpload(c, n)
        BY <3>3 DEF RecoverStaleProcessing, FindExpired, ReadBatch, EndTick, CleanerFails,
                    ExpireUpload, storeVars
      <3>4. CASE \E c \in Cleaners, i \in DOMAIN outbox :
                   TakeEvent(c, i) \/ DeleteObject(c, i) \/ CompleteEvent(c, i) \/ RetryEvent(c, i)
        BY <3>4 DEF TakeEvent, DeleteObject, CompleteEvent, RetryEvent, storeVars
      <3> QED BY <1>2, <3>1, <3>2, <3>3, <3>4, StepCases
    <2> QED BY <2>1
  <1> QED BY <1>1, <1>2

(* An image becomes DELETED when its deletion event is completed.          *)
LEMMA DeletedByItsEvent ==
  ASSUME TypeOK, Next, NEW m \in MediaIds,
         media'[m].status = "DELETED", media[m].status # "DELETED"
  PROVE  /\ objects' = objects
         /\ \E c \in Cleaners, i \in DOMAIN outbox :
              /\ clean[c].pc = "removed" /\ i \in clean[c].event
              /\ outbox[i].topic = "DELETE" /\ outbox[i].media = m
              /\ media[m].status = "DELETE_PENDING"
  <1>1. PICK c \in Cleaners, i \in DOMAIN outbox : CompleteEvent(c, i)
    BY StatusSteps DEF EventCompleted
  <1>2. outbox[i] \in OutboxEvent
    BY DEF TypeOK
  <1>3. PICK n \in MediaIds : n = outbox[i].media
    BY <1>2 DEF OutboxEvent
  <1>4. media' # media
    OBVIOUS
  <1>5. /\ outbox[i].topic = "DELETE" /\ media[n].status = "DELETE_PENDING"
        /\ media' = WithStatus(n, "DELETED")
    BY <1>1, <1>3, <1>4 DEF CompleteEvent, CompletionWrites
  <1>6. m = n
    <2>1. \A k \in MediaIds : k # n => media'[k] = media[k]
      BY <1>5, WithStatusRow DEF MediaStatus
    <2> QED BY <2>1
  <1> QED BY <1>1, <1>3, <1>5, <1>6 DEF CompleteEvent, storeVars

(* No step brings back what its deletion has removed. *)
LEMMA GoneStep ==
  ASSUME IInv, GoneInv, Next
  PROVE  GoneInv'
  <1>0. TypeOK /\ overtaken \subseteq overtaken'
    BY OvertakenGrows DEF IInv
  <1>1. DeletedImageIsGone'
    <2> SUFFICES ASSUME NEW m \in MediaIds \ overtaken', media'[m].status = "DELETED", media'[m].key = "ready",
                        <<"ready", m>> \in objects'
        PROVE  FALSE
      BY DEF DeletedImageIsGone
    <2>1. m \notin overtaken /\ <<"ready", m>> \in objects
      BY <1>0, ReadyObjectsAppear
    <2>2. CASE media[m].status = "DELETED"
      <3>1. media[m].key = "ready"
        BY <1>0, <2>2, StatusSteps DEF Withdrawn
      <3> QED BY <2>1, <2>2, <3>1 DEF GoneInv, DeletedImageIsGone
    <2>3. CASE media[m].status # "DELETED"
      <3>1. PICK c \in Cleaners, i \in DOMAIN outbox :
              /\ clean[c].pc = "removed" /\ i \in clean[c].event
              /\ outbox[i].topic = "DELETE" /\ outbox[i].media = m
              /\ media[m].status = "DELETE_PENDING"
        BY <1>0, <2>3, DeletedByItsEvent
      <3>2. media[m].key = "ready"
        BY <1>0, <3>1, StatusSteps DEF Withdrawn
      <3>3. outbox[i].key = "ready"
        BY <3>1, <3>2 DEF GoneInv, DeletionsNameTheirKey
      <3> QED BY <2>1, <3>1, <3>3 DEF GoneInv, RemovedIsGone
    <2> QED BY <2>2, <2>3
  <1>2. DeletionsNameTheirKey'
    <2> SUFFICES ASSUME NEW i \in DOMAIN outbox', outbox'[i].topic = "DELETE"
        PROVE  /\ Withdrawn(media'[outbox'[i].media].status)
               /\ outbox'[i].key = media'[outbox'[i].media].key
      BY DEF DeletionsNameTheirKey, Withdrawn
    <2>1. CASE i \in DOMAIN outbox
      <3>1. /\ outbox[i].topic = "DELETE"
            /\ outbox'[i].key = outbox[i].key /\ outbox'[i].media = outbox[i].media
        BY <1>0, <2>1, EventSteps
      <3>2. outbox[i].media \in MediaIds
        <4>1. outbox[i] \in OutboxEvent
          BY <1>0, <2>1 DEF TypeOK
        <4> QED BY <4>1 DEF OutboxEvent
      <3>3. /\ Withdrawn(media[outbox[i].media].status)
            /\ outbox[i].key = media[outbox[i].media].key
        BY <2>1, <3>1 DEF GoneInv, DeletionsNameTheirKey
      <3> QED BY <1>0, <3>1, <3>2, <3>3, StatusSteps
    <2>2. CASE i \notin DOMAIN outbox
      <3>1. PICK m \in MediaIds :
              /\ outbox'[i].media = m /\ outbox'[i].key = media'[m].key
              /\ media'[m].status = "DELETE_PENDING"
        BY <1>0, <2>2, EventSteps
      <3> QED BY <3>1 DEF Withdrawn
    <2> QED BY <2>1, <2>2
  <1>3. OneEventAtATime'
    <2> SUFFICES ASSUME NEW c \in Cleaners PROVE \A i, j \in clean'[c].event : i = j
      BY DEF OneEventAtATime
    <2>1. \A i, j \in clean[c].event : i = j
      BY DEF GoneInv, OneEventAtATime
    <2> QED BY <1>0, <2>1, HeldEventSteps
  <1>4. RemovedIsGone'
    <2> SUFFICES ASSUME NEW c \in Cleaners, clean'[c].pc = "removed", NEW i \in clean'[c].event
        PROVE  /\ i \in DOMAIN outbox'
               /\ outbox'[i].key = "ready" /\ outbox'[i].media \notin overtaken' =>
                    <<"ready", outbox'[i].media>> \notin objects'
      BY DEF RemovedIsGone
    <2>1. i \in clean[c].event
          /\ (clean[c].pc = "removed" \/ \E j \in DOMAIN outbox : DeleteObject(c, j))
      BY <1>0, HeldEventSteps
    <2>2. /\ i \in DOMAIN outbox
          /\ outbox[i].key = "ready" /\ outbox[i].media \notin overtaken =>
               <<"ready", outbox[i].media>> \notin objects
                 \/ <<"ready", outbox[i].media>> \notin objects'
      <3>1. CASE clean[c].pc = "removed"
        BY <2>1, <3>1 DEF GoneInv, RemovedIsGone
      <3>2. ASSUME NEW j \in DOMAIN outbox, DeleteObject(c, j)
            PROVE  i = j /\ objects' = objects \ {<<outbox[j].key, outbox[j].media>>}
        BY <2>1, <3>2 DEF DeleteObject, GoneInv, OneEventAtATime
      <3> QED BY <2>1, <3>1, <3>2
    <2>3. outbox'[i].key = outbox[i].key /\ outbox'[i].media = outbox[i].media /\ i \in DOMAIN outbox'
      BY <1>0, <2>2, EventSteps
    <2>4. ASSUME outbox[i].key = "ready", outbox[i].media \notin overtaken,
                 <<"ready", outbox[i].media>> \in objects'
          PROVE  FALSE
      <3>1. outbox[i].media \in MediaIds
        <4>1. outbox[i] \in OutboxEvent
          BY <1>0, <2>2 DEF TypeOK
        <4> QED BY <4>1 DEF OutboxEvent
      <3>2. media[outbox[i].media].key = "ready"
        BY <2>2, <2>4 DEF IInv, ImageInv, ReadyEventsWithdrawn
      <3> QED BY <2>2, <2>4, <3>1, <3>2, ReadyObjectsAppear
    <2> QED BY <1>0, <2>3, <2>4
  <1> QED BY <1>1, <1>2, <1>3, <1>4 DEF GoneInv

(* DeletedImageIsGone: when the owner is told that a published image is    *)
(* deleted, its object has been removed and no finalization has stored it  *)
(* again, unless recovery has overtaken one.                               *)
THEOREM DeletedIsGone == Spec => []DeletedImageIsGone
  <1>1. Init => GoneInv
    BY DEF Init, NoMedia, IdleTick, GoneInv, DeletedImageIsGone, DeletionsNameTheirKey,
           OneEventAtATime, RemovedIsGone
  <1>2. IInv /\ GoneInv /\ [Next]_vars => GoneInv'
    <2>1. GoneInv /\ UNCHANGED vars => GoneInv'
      BY DEF GoneInv, DeletedImageIsGone, DeletionsNameTheirKey, OneEventAtATime, RemovedIsGone,
             Withdrawn, vars, dbVars, storeVars
    <2> QED BY <2>1, GoneStep
  <1>3. GoneInv => DeletedImageIsGone
    BY DEF GoneInv
  <1> QED BY <1>1, <1>2, <1>3, InitIInv, NextIInv, PTL DEF Spec

-----------------------------------------------------------------------------
(* The publication.                                                        *)

(* The checklist refuses undecided images: one that was there and not      *)
(* READY had been rejected or deleted by then, and stays so.               *)
LateAreWithdrawn == late \subseteq {m \in MediaIds : Withdrawn(media[m].status)}

SupplyInv == TypeOK /\ LateAreWithdrawn

LEMMA SupplyInit_Inv == SupplyInit => SupplyInv
BY InitIInv DEF SupplyInit, SupplyInv, IInv, LateAreWithdrawn

(* A decided image stays decided, before and after the publication.        *)
LEMMA SupplyStep_Inv == SupplyInv /\ [SupplyNext]_supplyVars => SupplyInv'
<1> SUFFICES ASSUME SupplyInv, [SupplyNext]_supplyVars PROVE SupplyInv'
  OBVIOUS
<1>1. CASE Publish
  <2>1. TypeOK' /\ UNCHANGED media
    BY <1>1 DEF Publish, SupplyInv, TypeOK, vars, dbVars, storeVars
  <2>2. ASSUME NEW m \in MediaIds, media[m].status \notin {"NONE", "READY"}
        PROVE  Withdrawn(media[m].status)
    <3>1. media[m].status \in MediaStatus
      BY DEF SupplyInv, TypeOK, MediaRow
    <3> QED BY <1>1, <2>2, <3>1 DEF Publish, Checklist, MediaStatus, Withdrawn
  <2> QED BY <1>1, <2>1, <2>2 DEF Publish, SupplyInv, LateAreWithdrawn
<1>2. CASE Next /\ UNCHANGED <<status, late>>
  <2>1. TypeOK'
    BY <1>2, NextTypes DEF SupplyInv
  <2>2. \A m \in MediaIds : Withdrawn(media[m].status) => Withdrawn(media'[m].status)
    BY <1>2, StatusSteps DEF SupplyInv
  <2> QED BY <1>2, <2>1, <2>2 DEF SupplyInv, LateAreWithdrawn
<1>3. CASE UNCHANGED supplyVars
  BY <1>3 DEF SupplyInv, LateAreWithdrawn, supplyVars, TypeOK, vars, dbVars, storeVars
<1> QED BY <1>1, <1>2, <1>3 DEF SupplyNext

(* WorkspacePublishingService.publish: nothing that the checklist had to   *)
(* wait for can appear in public later.                                    *)
THEOREM PublicationIsFinal == SupplySpec => []ChecklistIsFinal
<1>1. SupplyInv => ChecklistIsFinal
  BY DEF SupplyInv, LateAreWithdrawn, ChecklistIsFinal, Withdrawn
<1> QED BY SupplyInit_Inv, SupplyStep_Inv, <1>1, PTL DEF SupplySpec
=============================================================================
