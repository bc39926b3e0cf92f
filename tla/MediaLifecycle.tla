--------------------------- MODULE MediaLifecycle ---------------------------
(***************************************************************************)
(* The images of one Salon or Workspace of apps/api, from the upload       *)
(* intent to the removal of the stored objects: OwnerMediaService, the     *)
(* file adapter MediaStorageService and MediaCleanupService.  Transactions *)
(* that begin with lockParent (FOR UPDATE) take their snapshot under the   *)
(* lock, so each of them is one step, but for what ExpirySeen says;        *)
(* finalize claims the row before it works between transactions, for any   *)
(* time: it has no deadline, and recovery may meet it.                     *)
(***************************************************************************)
EXTENDS OutboxEvents, FiniteSets, Sequences

CONSTANTS
  MediaIds,
  MaxMedia,         \* MAX_MEDIA_PER_PARENT
  Finalizers,       \* finalize calls in flight at the same time
  Cleaners,         \* media-cleanup workers
  UploadTtl,        \* MEDIA_UPLOAD_TTL_SECONDS
  UploadGrace,      \* STALE_UPLOAD_GRACE_MS
  StaleProcessing,  \* STALE_PROCESSING_MS
  MaxTime           \* bound: last instant of the clock

ASSUME MediaAssumption ==
  /\ IsFiniteSet(MediaIds) /\ MaxMedia \in Nat /\ MaxTime \in Nat
  /\ UploadTtl \in Nat \ {0} /\ UploadGrace \in Nat
  /\ StaleProcessing \in Nat

VARIABLES
  now,      \* the clock
  media,    \* SalonMedia or WorkspaceMedia rows of the parent
  cover,    \* the parent's coverMediaId: {} or one id
  token,    \* until when each media's signed upload URL is accepted
  uploads,  \* media with an accepted PUT still streaming
  objects,  \* files in the storage root: <<"staging" or "ready", id>>
  outbox,   \* OutboxEvent rows of the media topics, in creation order
  fin,      \* finalize calls: [pc, on, expires]
  clean,    \* cleanup ticks: [pc, at, expire, batch, event]
  overtaken \* history: media taken for stale while a finalization of it ran

dbVars == <<media, cover, outbox>>
storeVars == <<token, uploads, objects>>
vars == <<now, dbVars, storeVars, fin, clean, overtaken>>

MediaStatus ==
  {"NONE", "PENDING_UPLOAD", "PROCESSING", "READY", "REJECTED", "DELETE_PENDING", "DELETED"}

(* uploadExpiresAt 0 stands for null. *)
MediaRow == [status: MediaStatus, key: {"staging", "ready"}, uploadExpiresAt: Nat, updatedAt: Nat]
NoMedia == [status |-> "NONE", key |-> "staging", uploadExpiresAt |-> 0, updatedAt |-> 0]

Event(topic, m, key, t) == [topic |-> topic, media |-> m, key |-> key, row |-> Pending(t)]

IdleCall == [pc |-> "idle", on |-> {}, expires |-> 0]
IdleTick == [pc |-> "idle", at |-> 0, expire |-> {}, batch |-> {}, event |-> {}]

Init ==
  /\ now = 0
  /\ media = [m \in MediaIds |-> NoMedia]
  /\ cover = {}
  /\ token = [m \in MediaIds |-> 0]
  /\ uploads = {} /\ objects = {} /\ outbox = <<>>
  /\ fin = [f \in Finalizers |-> IdleCall]
  /\ clean = [c \in Cleaners |-> IdleTick]
  /\ overtaken = {}

Advance ==
  /\ now < MaxTime
  /\ now' = now + 1
  /\ UNCHANGED <<dbVars, storeVars, fin, clean, overtaken>>

WithStatus(m, status) ==
  [media EXCEPT ![m] = [@ EXCEPT !.status = status, !.updatedAt = now]]
Rejected(m) ==
  [media EXCEPT ![m] = [@ EXCEPT !.status = "REJECTED", !.uploadExpiresAt = 0, !.updatedAt = now]]
Published(m) ==
  [media EXCEPT ![m] = [status |-> "READY", key |-> "ready", uploadExpiresAt |-> 0, updatedAt |-> now]]

-----------------------------------------------------------------------------
(* Owner commands under the parent lock.                                   *)

Active == {m \in MediaIds :
             media[m].status \in {"PENDING_UPLOAD", "PROCESSING", "READY", "DELETE_PENDING"}}

CreateUploadIntent(m) ==
  /\ media[m].status = "NONE"
  /\ Cardinality(Active) < MaxMedia
  /\ now + UploadTtl + UploadGrace <= MaxTime   \* bound: the clock reaches its expiry
  /\ media' = [media EXCEPT ![m] = [status |-> "PENDING_UPLOAD", key |-> "staging",
                                    uploadExpiresAt |-> now + UploadTtl, updatedAt |-> now]]
  /\ token' = [token EXCEPT ![m] = now + UploadTtl]
  /\ UNCHANGED <<now, cover, outbox, uploads, objects, fin, clean, overtaken>>

(* PUT cover with an id or with null. *)
SetCover(chosen) ==
  /\ \A m \in chosen : media[m].status = "READY"
  /\ cover' = chosen
  /\ UNCHANGED <<now, media, outbox, storeVars, fin, clean, overtaken>>

(* deleteMedia's read of the row is older than its update, and rejecting   *)
(* takes no lock on the parent: what it has read of a row that is REJECTED *)
(* by the time of the update may be the expiry from before the rejection.  *)
ExpirySeen(m) ==
  {media[m].uploadExpiresAt} \cup {t \in {token[m]} : media[m].status = "REJECTED"}

(* Mutant: the parent keeps its coverMediaId. *)
DeleteKeepsCover(m) ==
  /\ media[m].status \notin {"NONE", "DELETED", "DELETE_PENDING"}
  /\ media' = WithStatus(m, "DELETE_PENDING")
  /\ \E t \in ExpirySeen(m) :
       outbox' = Append(outbox, Event("DELETE", m, media[m].key, IF t > now THEN t ELSE now))
  /\ UNCHANGED <<now, cover, storeVars, fin, clean, overtaken>>

DeleteMedia(m) ==
  /\ media[m].status \notin {"NONE", "DELETED", "DELETE_PENDING"}
  /\ media' = WithStatus(m, "DELETE_PENDING")
  /\ cover' = cover \ {m}
  /\ \E t \in ExpirySeen(m) :
       outbox' = Append(outbox, Event("DELETE", m, media[m].key, IF t > now THEN t ELSE now))
  /\ UNCHANGED <<now, storeVars, fin, clean, overtaken>>

-----------------------------------------------------------------------------
(* The signed upload URL.  The token is checked when the PUT arrives, the  *)
(* object appears when the whole body has been written, and only if there  *)
(* is none yet (COPYFILE_EXCL).                                            *)

AcceptUpload(m) ==
  /\ media[m].status # "NONE" /\ now < token[m]
  /\ uploads' = uploads \cup {m}
  /\ UNCHANGED <<now, dbVars, token, objects, fin, clean, overtaken>>

StoreUpload(m) ==
  /\ m \in uploads /\ <<"staging", m>> \notin objects
  /\ objects' = objects \cup {<<"staging", m>>}
  /\ UNCHANGED <<now, dbVars, token, uploads, fin, clean, overtaken>>

(* The last PUT of m is over: stored, aborted or refused with EEXIST. *)
EndUpload(m) ==
  /\ uploads' = uploads \ {m}
  /\ uploads' # uploads
  /\ UNCHANGED <<now, dbVars, token, objects, fin, clean, overtaken>>

-----------------------------------------------------------------------------
(* finalize.                                                               *)

GoTo(f, pc) == fin' = [fin EXCEPT ![f].pc = pc]
FinalizerReturns(f) == fin' = [fin EXCEPT ![f] = IdleCall]

(* The read and the conditional claim.  One step: a row that is still      *)
(* PENDING_UPLOAD has the key and the expiry that the read returned.       *)
ClaimMedia(f, m) ==
  /\ fin[f].pc = "idle"
  /\ media[m].status = "PENDING_UPLOAD"
  /\ media' = WithStatus(m, "PROCESSING")
  /\ fin' = [fin EXCEPT ![f] = [pc |-> "claimed", on |-> {m},
                                expires |-> media[m].uploadExpiresAt]]
  /\ UNCHANGED <<now, cover, outbox, storeVars, clean, overtaken>>

(* processImage decodes the staging object ... *)
DecodeImage(f, m) ==
  /\ fin[f].pc = "claimed" /\ m \in fin[f].on
  /\ <<"staging", m>> \in objects
  /\ GoTo(f, "decoded")
  /\ UNCHANGED <<now, dbVars, storeVars, clean, overtaken>>

(* ... and moves its result to the ready key; *)
StoreReady(f, m) ==
  /\ fin[f].pc = "decoded" /\ m \in fin[f].on
  /\ objects' = objects \cup {<<"ready", m>>}
  /\ GoTo(f, "stored")
  /\ UNCHANGED <<now, dbVars, token, uploads, clean, overtaken>>

(* no object, no image, too large, the wrong format, or a failing disk.    *)
ProcessingFails(f) ==
  /\ fin[f].pc \in {"claimed", "decoded"}
  /\ GoTo(f, "rejecting")
  /\ UNCHANGED <<now, dbVars, storeVars, clean, overtaken>>

(* The catch block of processImage; its update names the row by id only.   *)
RejectMedia(f, m) ==
  /\ fin[f].pc = "rejecting" /\ m \in fin[f].on
  /\ media' = Rejected(m)
  /\ outbox' = Append(outbox, Event("CLEANUP", m, "staging", fin[f].expires))
  /\ FinalizerReturns(f)
  /\ UNCHANGED <<now, cover, storeVars, clean, overtaken>>

(* Mutant: the publishing update is not conditional on PROCESSING. *)
PublishAnyway(f, m) ==
  /\ fin[f].pc = "stored" /\ m \in fin[f].on
  /\ media' = Published(m)
  /\ outbox' = Append(outbox, Event("CLEANUP", m, "staging", fin[f].expires))
  /\ FinalizerReturns(f)
  /\ UNCHANGED <<now, cover, storeVars, clean, overtaken>>

(* Mutant: the cleanup event names the new key. *)
PublishAndCleanReady(f, m) ==
  /\ fin[f].pc = "stored" /\ m \in fin[f].on
  /\ media[m].status = "PROCESSING"
  /\ media' = Published(m)
  /\ outbox' = Append(outbox, Event("CLEANUP", m, "ready", fin[f].expires))
  /\ FinalizerReturns(f)
  /\ UNCHANGED <<now, cover, storeVars, clean, overtaken>>

(* The publishing transaction, under the parent lock. *)
PublishMedia(f, m) ==
  /\ fin[f].pc = "stored" /\ m \in fin[f].on
  /\ media[m].status = "PROCESSING"
  /\ media' = Published(m)
  /\ outbox' = Append(outbox, Event("CLEANUP", m, "staging", fin[f].expires))
  /\ FinalizerReturns(f)
  /\ UNCHANGED <<now, cover, storeVars, clean, overtaken>>

(* The row is PROCESSING no more ... *)
PublishRefused(f, m) ==
  /\ fin[f].pc = "stored" /\ m \in fin[f].on
  /\ media[m].status # "PROCESSING"
  /\ GoTo(f, "undoing")
  /\ UNCHANGED <<now, dbVars, storeVars, clean, overtaken>>

(* ... or the transaction fails and is rolled back. *)
PublishFails(f) ==
  /\ fin[f].pc = "stored" /\ \A m \in fin[f].on : media[m].status = "PROCESSING"
  /\ GoTo(f, "undoing")
  /\ UNCHANGED <<now, dbVars, storeVars, clean, overtaken>>

(* The catch block: the new object goes (a failure to remove it is         *)
(* ignored), then the row becomes retryable again if it is PROCESSING.     *)
RemoveReady(f, m) ==
  /\ fin[f].pc = "undoing" /\ m \in fin[f].on
  /\ objects' \in {objects, objects \ {<<"ready", m>>}}
  /\ GoTo(f, "undone")
  /\ UNCHANGED <<now, dbVars, token, uploads, clean, overtaken>>

ReleaseClaim(f, m) ==
  /\ fin[f].pc = "undone" /\ m \in fin[f].on
  /\ media' = IF media[m].status = "PROCESSING" THEN WithStatus(m, "PENDING_UPLOAD") ELSE media
  /\ FinalizerReturns(f)
  /\ UNCHANGED <<now, cover, outbox, storeVars, clean, overtaken>>

(* The API process dies, or an update of a catch block fails. *)
FinalizerDies(f) ==
  /\ fin[f].pc # "idle"
  /\ now + StaleProcessing <= MaxTime   \* bound: the clock reaches its recovery
  /\ FinalizerReturns(f)
  /\ UNCHANGED <<now, dbVars, storeVars, clean, overtaken>>

FinalizerStep(f) ==
  \E m \in MediaIds :
    \/ DecodeImage(f, m) \/ StoreReady(f, m) \/ RejectMedia(f, m)
    \/ PublishMedia(f, m) \/ PublishRefused(f, m) \/ RemoveReady(f, m) \/ ReleaseClaim(f, m)

-----------------------------------------------------------------------------
(* A tick of the media-cleanup worker: recoverStaleProcessing, then        *)
(* expireStaleUploads, then processBatch.                                  *)

BeingFinalized(m) == \E f \in Finalizers : m \in fin[f].on

(* Mutant: nothing that has an upload deadline is taken for stale. *)
StaleAfterExpiry(m) ==
  /\ media[m].status = "PROCESSING"
  /\ media[m].uploadExpiresAt = 0

Stale(m) ==
  /\ media[m].status = "PROCESSING"
  /\ media[m].updatedAt + StaleProcessing <= now

RecoverStaleProcessing(c) ==
  /\ clean[c].pc = "idle"
  /\ media' = [m \in MediaIds |->
                 IF Stale(m)
                 THEN [media[m] EXCEPT !.status = "PENDING_UPLOAD", !.updatedAt = now]
                 ELSE media[m]]
  /\ overtaken' = overtaken \cup {m \in MediaIds : Stale(m) /\ BeingFinalized(m)}
  /\ clean' = [clean EXCEPT ![c].pc = "recovered"]
  /\ UNCHANGED <<now, cover, outbox, storeVars, fin>>

Expired(m, t) ==
  /\ media[m].status = "PENDING_UPLOAD"
  /\ media[m].uploadExpiresAt + UploadGrace <= t

FindExpired(c) ==
  /\ clean[c].pc = "recovered"
  /\ clean' = [clean EXCEPT ![c] = [@ EXCEPT !.pc = "expiring", !.at = now,
                                            !.expire = {m \in MediaIds : Expired(m, now)}]]
  /\ UNCHANGED <<now, dbVars, storeVars, fin, overtaken>>

ExpireUpload(c, m) ==
  /\ clean[c].pc = "expiring" /\ m \in clean[c].expire
  /\ IF Expired(m, clean[c].at)
     THEN /\ media' = Rejected(m)
          /\ outbox' = Append(outbox, Event("CLEANUP", m, "staging", now))
     ELSE UNCHANGED <<media, outbox>>
  /\ clean' = [clean EXCEPT ![c].expire = @ \ {m}]
  /\ UNCHANGED <<now, cover, storeVars, fin, overtaken>>

ReadBatch(c) ==
  /\ clean[c].pc = "expiring" /\ clean[c].expire = {}
  /\ clean' = [clean EXCEPT ![c] = [@ EXCEPT !.pc = "batch", !.at = now,
                  !.batch = {i \in DOMAIN outbox : Due(outbox[i].row, now)}]]
  /\ UNCHANGED <<now, dbVars, storeVars, fin, overtaken>>

NextEvent(c) == clean' = [clean EXCEPT ![c] = [@ EXCEPT !.pc = "batch", !.event = {}]]

(* The oldest event of the batch, claimed or found taken. *)
TakeEvent(c, i) ==
  /\ clean[c].pc = "batch"
  /\ i \in clean[c].batch /\ \A j \in clean[c].batch : i <= j
  /\ IF Due(outbox[i].row, clean[c].at)
     THEN /\ outbox' = [outbox EXCEPT ![i].row = Claimed(@, clean[c].at)]
          /\ clean' = [clean EXCEPT ![c] =
                         [@ EXCEPT !.pc = "claimed", !.batch = clean[c].batch \ {i}, !.event = {i}]]
     ELSE /\ outbox' = outbox
          /\ clean' = [clean EXCEPT ![c].batch = @ \ {i}]
  /\ UNCHANGED <<now, media, cover, storeVars, fin, overtaken>>

EndTick(c) ==
  /\ clean[c].pc = "batch" /\ clean[c].batch = {}
  /\ clean' = [clean EXCEPT ![c] = IdleTick]
  /\ UNCHANGED <<now, dbVars, storeVars, fin, overtaken>>

(* rm with force: a missing object is no error. *)
DeleteObject(c, i) ==
  /\ clean[c].pc = "claimed" /\ i \in clean[c].event
  /\ objects' = objects \ {<<outbox[i].key, outbox[i].media>>}
  /\ clean' = [clean EXCEPT ![c].pc = "removed"]
  /\ UNCHANGED <<now, dbVars, token, uploads, fin, overtaken>>

(* What the completing transaction writes: nothing without the lease. *)
CompletionWrites(c, i) ==
  LET m == outbox[i].media
  IN IF Owns(outbox[i].row, clean[c].at)
     THEN /\ outbox' = [outbox EXCEPT ![i].row = Delivered(@)]
          /\ media' = IF outbox[i].topic = "DELETE" /\ media[m].status = "DELETE_PENDING"
                      THEN WithStatus(m, "DELETED") ELSE media
     ELSE UNCHANGED <<outbox, media>>

(* Mutant: the row is completed before the object is removed. *)
CompleteUnremoved(c, i) ==
  /\ clean[c].pc \in {"claimed", "removed"} /\ i \in clean[c].event
  /\ CompletionWrites(c, i)
  /\ NextEvent(c)
  /\ UNCHANGED <<now, cover, storeVars, fin, overtaken>>

CompleteEvent(c, i) ==
  /\ clean[c].pc = "removed" /\ i \in clean[c].event
  /\ CompletionWrites(c, i)
  /\ NextEvent(c)
  /\ UNCHANGED <<now, cover, storeVars, fin, overtaken>>

RetryEvent(c, i) ==
  /\ clean[c].pc \in {"claimed", "removed"} /\ i \in clean[c].event
  /\ \E d \in RetryDelays :
       /\ now + d <= MaxTime   \* bound: the clock reaches the next attempt
       /\ outbox' = [outbox EXCEPT ![i].row =
                       IF Owns(@, clean[c].at) THEN Postponed(@, now + d) ELSE @]
  /\ NextEvent(c)
  /\ UNCHANGED <<now, media, cover, storeVars, fin, overtaken>>

(* The worker dies or a statement outside the try block ends the tick. *)
CleanerFails(c) ==
  /\ clean[c].pc # "idle"
  /\ clean[c].at + Lease <= MaxTime   \* bound: the clock reaches the end of the lease
  /\ clean' = [clean EXCEPT ![c] = IdleTick]
  /\ UNCHANGED <<now, dbVars, storeVars, fin, overtaken>>

CleanerStep(c) ==
  \/ RecoverStaleProcessing(c) \/ FindExpired(c) \/ ReadBatch(c) \/ EndTick(c)
  \/ \E m \in MediaIds : ExpireUpload(c, m)
  \/ \E i \in DOMAIN outbox : TakeEvent(c, i) \/ DeleteObject(c, i) \/ CompleteEvent(c, i)

-----------------------------------------------------------------------------
Next ==
  \/ Advance
  \/ SetCover({})
  \/ \E m \in MediaIds :
       \/ CreateUploadIntent(m) \/ SetCover({m}) \/ DeleteMedia(m)
       \/ AcceptUpload(m) \/ StoreUpload(m) \/ EndUpload(m)
  \/ \E f \in Finalizers :
       \/ FinalizerStep(f) \/ ProcessingFails(f) \/ PublishFails(f) \/ FinalizerDies(f)
       \/ \E m \in MediaIds : ClaimMedia(f, m)
  \/ \E c \in Cleaners :
       \/ CleanerStep(c) \/ CleanerFails(c)
       \/ \E i \in DOMAIN outbox : RetryEvent(c, i)

Spec == Init /\ [][Next]_vars

(* The clock runs, PUTs end, every call runs to its end, and setInterval   *)
(* ticks again after every tick.  From some time on the database and the   *)
(* processes stay up.                                                      *)
Fairness ==
  /\ WF_vars(Advance)
  /\ \A m \in MediaIds : WF_vars(EndUpload(m))
  /\ \A f \in Finalizers :
       WF_vars(FinalizerStep(f) \/ ProcessingFails(f)) /\ <>[][~PublishFails(f)]_vars
  /\ \A c \in Cleaners : WF_vars(CleanerStep(c)) /\ <>[][~CleanerFails(c)]_vars

FairSpec == Spec /\ Fairness

-----------------------------------------------------------------------------
OutboxEvent == [topic: {"DELETE", "CLEANUP"}, media: MediaIds, key: {"staging", "ready"},
                row: DeliveryRow]
CallPhase == {"idle", "claimed", "decoded", "stored", "rejecting", "undoing", "undone"}
FinalizeCall == [pc: CallPhase, on: SUBSET MediaIds, expires: Nat]
TickPhase == {"idle", "recovered", "expiring", "batch", "claimed", "removed"}
CleanupTick == [pc: TickPhase, at: Nat, expire: SUBSET MediaIds, batch: SUBSET Nat,
                event: SUBSET Nat]

TypeOK ==
  /\ now \in Nat
  /\ media \in [MediaIds -> MediaRow]
  /\ cover \subseteq MediaIds
  /\ token \in [MediaIds -> Nat]
  /\ uploads \subseteq MediaIds
  /\ objects \subseteq {"staging", "ready"} \X MediaIds
  /\ outbox \in Seq(OutboxEvent)
  /\ fin \in [Finalizers -> FinalizeCall]
  /\ clean \in [Cleaners -> CleanupTick]
  /\ overtaken \subseteq MediaIds

(* What getPublic serves exists: a READY image has its object, although    *)
(* failed finalizations remove ready objects and workers remove the        *)
(* objects of older rows and events at any time.  Not so for an image      *)
(* whose finalization was still running when recoverStaleProcessing took   *)
(* the row back: a second one publishes it, the first one removes the      *)
(* object when it finds the row taken.                                     *)
ReadyHasObject ==
  \A m \in MediaIds \ overtaken :
    media[m].status = "READY" => media[m].key = "ready" /\ <<"ready", m>> \in objects

(* The cover is a READY image of the parent in every state, not only when  *)
(* it is chosen, although a failing finalization rejects its row by the id *)
(* alone and workers write without the parent's lock.  Only the overtaken  *)
(* finalization above can reject what another one has published.           *)
CoverIsReady == \A m \in cover \ overtaken : media[m].status = "READY"

(* At most MaxMedia images are on their way to the public or there,        *)
(* however intents, finalizations, expiry and recovery interleave.         *)
AtMostMaxMedia ==
  Cardinality({m \in MediaIds : media[m].status \in {"PENDING_UPLOAD", "PROCESSING", "READY"}})
    <= MaxMedia

Withdrawn(status) == status \in {"REJECTED", "DELETE_PENDING", "DELETED"}

(* An image that was rejected or deleted never comes back: no finalization *)
(* that was running at the time, no release and no recovery revives it.    *)
WithdrawnForGood ==
  [][\A m \in MediaIds : Withdrawn(media[m].status) => Withdrawn(media'[m].status)]_vars

(* DELETED tells the owner that the published image is gone from storage,  *)
(* with one exception: an overtaken finalization may store it once more.   *)
DeletedImageIsGone ==
  \A m \in MediaIds \ overtaken :
    media[m].status = "DELETED" /\ media[m].key = "ready" => <<"ready", m>> \notin objects

(* No upload stays undecided: abandoned, interrupted and failed ones are   *)
(* recovered and expired by the worker.  Only of an overtaken image the    *)
(* finalizations can undo each other for as long as the owner keeps        *)
(* calling.                                                                *)
Undecided(m) == media[m].status \in {"PENDING_UPLOAD", "PROCESSING"}

UploadsSettle ==
  \A m \in MediaIds :
    Undecided(m) ~> \/ ~Undecided(m)
                    \/ m \in overtaken /\ BeingFinalized(m)

(* A requested deletion is carried out to DELETED, through crashes, leases *)
(* and retries, once no finalization of the image is running any more: one *)
(* that is may still overwrite DELETE_PENDING with REJECTED (RejectMedia), *)
(* which ends the deletion in another way than its document says.          *)
DeletionsEnd ==
  \A m \in MediaIds :
    media[m].status = "DELETE_PENDING" /\ ~BeingFinalized(m) ~> media[m].status = "DELETED"

=============================================================================
