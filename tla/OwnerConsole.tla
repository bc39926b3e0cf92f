---------------------------- MODULE OwnerConsole ----------------------------
(***************************************************************************)
(* The Owner console of apps/web on one Salon: its asynchronous actions,   *)
(* runAuthorized with its refresh and retry, and the list it shows, against*)
(* the API.  A handler of the API is atomic (MediaLifecycle has its steps),*)
(* PROCESSING and the PUT to the media storage are part of the finalize    *)
(* request.  The photos are those of the first Workspace; createSalon and  *)
(* createWorkspace are one action, of which only the record made is kept.  *)
(* The schedule panel chooses one period of a day (BookingTransactions has *)
(* the batches), and a professional elsewhere may hold an open one.        *)
(* Only a list and an action's own answer change what is shown.            *)
(***************************************************************************)
EXTENDS Naturals, SequencesExt

CONSTANTS
  MaxActive,   \* MAX_MEDIA_PER_PARENT
  MaxTasks,    \* bound: asynchronous functions under way
  MaxActions,  \* bound: actions of the owner
  MaxImages,   \* bound: photos
  MaxDays,     \* bound: days that the panel chooses from
  MaxExpiries, \* bound: access tokens that expire
  MaxFaults    \* bound: lost answers, refused renewals, changes from elsewhere

ASSUME ConsoleAssumption ==
  /\ {MaxActive, MaxTasks, MaxActions, MaxImages, MaxDays, MaxExpiries, MaxFaults} \subseteq Nat
  /\ MaxDays > 0  \* the panel opens at the first
  /\ MaxTasks > 0 \* the load that the console begins with

VARIABLES
  images,    \* WorkspaceMedia rows: [status, place], by id
  cover,     \* Workspace.coverMediaId, 0 for null
  published, \* Workspace.status is PUBLISHED
  made,      \* number of further Workspaces
  slots,     \* AvailabilitySlot.status by day, ABSENT without a row
  expired,   \* access tokens up to this one are refused
  auth,      \* the console's access token, 0 without a session
  busy,      \* isLoading
  shown,     \* salons: [known, media, published, made]
  panel,     \* WorkspaceSchedule: [day, schedule]
  tasks,     \* the asynchronous functions under way
  actions, faults,
  version,   \* history: changes made by this console's requests
  upto,      \* history: the last of them that an answer has told of
  excuses,   \* history: why the list may differ, see QuietListAgrees
  reordered  \* history: the photos were reordered since the last list

server == <<images, cover, published, made, slots>>
history == <<version, upto, excuses, reordered>>
vars == <<server, expired, auth, busy, shown, panel, tasks, actions, faults, history>>

-----------------------------------------------------------------------------
(* What the API lists and what the console makes of an answer.             *)

Listed == {i \in DOMAIN images : images[i].status # "DELETING"}
Ready == {i \in DOMAIN images : images[i].status = "READY"}
Active == {i \in DOMAIN images : images[i].status # "REJECTED"}
Photo(i) == [id |-> i, status |-> images[i].status, cover |-> i = cover]

(* The elements of S in the order R, a set of pairs: the n-th of them has  *)
(* n - 1 before it. Not recursive, so that it can be proved about.         *)
InOrder(S, R) ==
  [n \in 1 .. Cardinality(S) |-> CHOOSE i \in S : Cardinality({j \in S : <<j, i>> \in R}) = n - 1]

(* What the list m has at the places in S, in their order: filter. *)
Sublist(m, S) ==
  LET at == InOrder(S, {r \in S \X S : r[1] < r[2]}) IN [n \in DOMAIN at |-> m[at[n]]]

(* ownerSalonSelection and publishSelection: orderBy sortOrder. *)
Ordered(S) ==
  InOrder(S, {r \in S \X S : \/ images[r[1]].place < images[r[2]].place
                             \/ images[r[1]].place = images[r[2]].place /\ r[1] < r[2]})

(* Mutant: orderBy is forgotten, the photos come as they were made. *)
PhotosByAge ==
  LET ids == InOrder(Listed, {r \in Listed \X Listed : r[1] < r[2]}) IN [n \in DOMAIN ids |-> Photo(ids[n])]

Photos == LET ids == Ordered(Listed) IN [n \in DOMAIN ids |-> Photo(ids[n])]

Nothing == [known |-> FALSE, media |-> <<>>, published |-> FALSE, made |-> <<>>]
Everything == [known |-> TRUE, media |-> Photos, published |-> published,
               made |-> [n \in 1 .. made |-> n]]

(* getSchedule and toScheduleResponse. *)
Schedule(d) == [day |-> d, status |-> slots[d]]
NoSchedule == [day |-> 0, status |-> "none"]

(* The panel as it is mounted, with the first day that can be chosen. *)
FreshPanel == [day |-> 1, schedule |-> NoSchedule]

NoReply == [verdict |-> "none", version |-> 0, id |-> 0, list |-> Nothing]
Idle == [kind |-> "idle", arg |-> <<>>, held |-> 0, stage |-> "none", step |-> "none",
         token |-> 0, again |-> FALSE, since |-> 0, reply |-> NoReply]

(* The first task that is free. *)
IsFree(t) == tasks[t] = Idle /\ \A s \in DOMAIN tasks : s < t => tasks[s] # Idle

Init ==
  /\ published \in BOOLEAN
  /\ \E n \in IF published THEN {0} ELSE 1 .. MaxImages - 1 : \* bound: few photos beside the panel
       images = [i \in 1 .. n |-> [status |-> "READY", place |-> i - 1]]
  /\ cover = 0 /\ made = 0
  /\ slots = [d \in 1 .. MaxDays |-> "ABSENT"]
  /\ expired = 0 /\ auth = 1 /\ busy = TRUE /\ shown = Nothing /\ panel = FreshPanel
  /\ tasks = [t \in 1 .. MaxTasks |->
                IF t # 1 THEN Idle
                ELSE [Idle EXCEPT !.kind = "load", !.stage = "list", !.held = 1,
                                  !.step = "sent", !.token = 1]]
  /\ actions = 0 /\ faults = 0
  /\ version = 0 /\ upto = 0 /\ excuses = {} /\ reordered = FALSE

-----------------------------------------------------------------------------
(* The owner starts an action; the buttons are disabled while isLoading.   *)

FirstStage(kind) ==
  CASE kind = "upload" -> "intent" [] kind = "publish" -> "checklist"
    [] kind = "load" -> "list" [] OTHER -> kind

Task(kind, arg, token) ==
  [Idle EXCEPT !.kind = kind, !.arg = arg, !.held = token, !.token = token,
               !.stage = FirstStage(kind), !.step = "sent"]

ShownReady ==
  Sublist(shown.media, {n \in DOMAIN shown.media : shown.media[n].status = "READY"})
ActiveCount == Cardinality({n \in DOMAIN shown.media : shown.media[n].status # "REJECTED"})
ReadyIds == [n \in DOMAIN ShownReady |-> ShownReady[n].id]

Swapped(n) == [ReadyIds EXCEPT ![n] = ReadyIds[n + 1], ![n + 1] = ReadyIds[n]]

OfPanel(k) == k.kind \in {"view", "open", "block"}

(* The panel that has asked is still mounted. *)
Asked(k) == OfPanel(k) /\ k.arg[2]

(* isReading: the panel has asked for a schedule and has no answer yet. *)
IsReading == \E t \in DOMAIN tasks : tasks[t].kind = "view" /\ Asked(tasks[t])

PanelKinds ==
  IF ~shown.published THEN {} ELSE {"open", "block"} \cup {"view" : b \in {IsReading} \cap {FALSE}}

(* The forms, selectFile, the cover buttons, move, Delete, Review &     *)
(* publish, and the buttons of the panel.                                  *)
Offered ==
  IF ~shown.known THEN {} ELSE
    {<<"create", <<>>>>}
    \cup {<<"publish", <<>>>> : b \in {shown.published} \cap {FALSE}}
    \cup {<<"upload", <<>>>> : n \in {ActiveCount} \cap 0 .. MaxActive - 1}
    \cup {<<"cover", IF m.cover THEN <<>> ELSE <<m.id>>>> : m \in ToSet(ShownReady)}
    \cup {<<"reorder", Swapped(n)>> : n \in 1 .. Len(ReadyIds) - 1}
    \cup {<<"delete", <<m.id>>>> : m \in ToSet(shown.media)}
    \cup {<<kind, <<panel.day, TRUE>>>> : kind \in PanelKinds}

(* Bound: an upload, which may be sent again, fits in. *)
Fits(kind) ==
  kind = "upload" =>
    Len(images) + 2 + 2 * Cardinality({t \in DOMAIN tasks : tasks[t].kind = "upload"}) <= MaxImages

Act(t, kind, arg) ==
  /\ auth # 0 /\ ~busy /\ IsFree(t) /\ actions < MaxActions /\ Fits(kind)
  /\ <<kind, arg>> \in Offered
  /\ actions' = actions + 1 /\ busy' = (kind # "view")
  /\ tasks' = [tasks EXCEPT ![t] = Task(kind, arg, auth)]
  /\ UNCHANGED <<server, expired, auth, shown, panel, faults, history>>

(* The owner chooses another day: what was shown is dropped. Bound: only   *)
(* where a schedule is shown or asked for, the days being alike.           *)
ChooseDay(d) ==
  /\ auth # 0 /\ shown.published /\ d # panel.day
  /\ panel.schedule # NoSchedule \/ \E t \in DOMAIN tasks : OfPanel(tasks[t])
  /\ actions < MaxActions /\ actions' = actions + 1
  /\ panel' = [panel EXCEPT !.day = d, !.schedule = NoSchedule]
  /\ UNCHANGED <<server, expired, auth, busy, shown, tasks, faults, history>>

(* setAuth(null), setSalons([]): the list and the panel in it are gone. *)
SessionOver(rest) ==
  /\ auth' = 0 /\ shown' = Nothing /\ panel' = FreshPanel
  /\ tasks' = [t \in DOMAIN rest |->
                 IF OfPanel(rest[t]) THEN [rest[t] EXCEPT !.arg[2] = FALSE] ELSE rest[t]]

(* signOut: whatever the answer, the list and the session are dropped. *)
SignOut ==
  /\ auth # 0
  /\ SessionOver(tasks)
  /\ UNCHANGED <<server, expired, busy, actions, faults, history>>

-----------------------------------------------------------------------------
(* The API answers.                                                        *)

Answer(t, verdict, change, id, list) ==
  tasks' = [tasks EXCEPT ![t].step = "answered",
              ![t].since = IF change # version /\ @ = 0 THEN change ELSE @,
              ![t].reply = [verdict |-> verdict, version |-> change, id |-> id, list |-> list]]

Reads(t, verdict, id, list) ==
  /\ Answer(t, verdict, version, id, list)
  /\ UNCHANGED <<server, version>>

Changes(t, id, list) ==
  /\ version' = version + 1
  /\ Answer(t, "ok", version + 1, id, list)

Refuse(t) == Reads(t, "refused", 0, Nothing)

(* AccessTokenGuard. *)
Unauthorized(t) == tasks[t].token <= expired /\ Reads(t, "unauthorized", 0, Nothing)

ListOwned(t) == Reads(t, "ok", 0, Everything)

(* createUploadIntent: the next place after every active photo. *)
NextPlace == Max({0} \cup {images[i].place + 1 : i \in Active})

CreateUploadIntent(t) ==
  IF Cardinality(Active) >= MaxActive THEN Refuse(t)
  ELSE /\ images' = Append(images, [status |-> "PENDING", place |-> NextPlace])
       /\ Changes(t, Len(images) + 1, Nothing)
       /\ UNCHANGED <<cover, published, made, slots>>

(* The PUT and finalize: the photo becomes READY, or is rejected, or the   *)
(* PUT failed and nothing is changed.                                      *)
Finalize(t, i) ==
  \/ Refuse(t)
  \/ /\ images[i].status = "PENDING"
     /\ \/ /\ images' = [images EXCEPT ![i].status = "READY"]
           /\ Changes(t, i, Nothing)
        \/ /\ images' = [images EXCEPT ![i].status = "REJECTED"]
           /\ version' = version + 1
           /\ Answer(t, "refused", version + 1, 0, Nothing)
     /\ UNCHANGED <<cover, published, made, slots>>

SetCover(t, arg) ==
  IF arg # <<>> /\ arg[1] \notin Ready THEN Refuse(t)
  ELSE /\ cover' = IF arg = <<>> THEN 0 ELSE arg[1]
       /\ Changes(t, cover', Nothing)
       /\ UNCHANGED <<images, published, made, slots>>

(* reorder: exactly the READY photos, at the places 0, 1, ... *)
Reorder(t, ids) ==
  IF ToSet(ids) # Ready \/ Len(ids) # Cardinality(Ready) THEN Refuse(t)
  ELSE /\ images' = [i \in DOMAIN images |->
                       IF i \in Ready
                       THEN [status |-> "READY", place |-> SelectInSeq(ids, LAMBDA id : id = i) - 1]
                       ELSE images[i]]
       /\ Changes(t, cover, Nothing)
       /\ UNCHANGED <<cover, published, made, slots>>

DeleteMedia(t, i) ==
  IF images[i].status = "DELETING" THEN Reads(t, "ok", i, Nothing)
  ELSE /\ images' = [images EXCEPT ![i].status = "DELETING"]
       /\ cover' = IF cover = i THEN 0 ELSE cover
       /\ Changes(t, i, Nothing)
       /\ UNCHANGED <<published, made, slots>>

(* buildChecklist, as far as it can fail here. *)
Eligible == \A i \in DOMAIN images : images[i].status # "PENDING"

Checklist(t) == Reads(t, IF Eligible THEN "ok" ELSE "refused", 0, Nothing)

Publish(t) ==
  IF ~Eligible THEN Refuse(t)
  ELSE /\ published' = TRUE
       /\ Changes(t, 0, [Everything EXCEPT !.published = TRUE])
       /\ UNCHANGED <<images, cover, made, slots>>

Create(t) ==
  /\ made' = made + 1
  /\ Changes(t, made + 1, Nothing)
  /\ UNCHANGED <<images, cover, published, slots>>

(* openFixedSlots, blockFixedSlots: not while the period is held or booked. *)
ChangeSlot(t, d, status) ==
  IF ~published \/ slots[d] \in {"HELD", "BOOKED"} THEN Refuse(t)
  ELSE /\ slots' = [slots EXCEPT ![d] = status]
       /\ Changes(t, d, [day |-> d, status |-> status])
       /\ UNCHANGED <<images, cover, published, made>>

Serve(t) ==
  /\ tasks[t].step = "sent"
  /\ \/ Unauthorized(t)
     \/ /\ tasks[t].token > expired
        /\ LET stage == tasks[t].stage
               arg == tasks[t].arg
           IN \/ stage = "list" /\ ListOwned(t)
              \/ stage = "intent" /\ CreateUploadIntent(t)
              \/ stage = "finalize" /\ Finalize(t, arg[1])
              \/ stage = "cover" /\ SetCover(t, arg)
              \/ stage = "reorder" /\ Reorder(t, arg)
              \/ stage = "delete" /\ DeleteMedia(t, arg[1])
              \/ stage = "checklist" /\ Checklist(t)
              \/ stage = "publish" /\ Publish(t)
              \/ stage = "create" /\ Create(t)
              \/ stage = "view" /\ Reads(t, "ok", arg[1], Schedule(arg[1]))
              \/ stage = "open" /\ ChangeSlot(t, arg[1], "OPEN")
              \/ stage = "block" /\ ChangeSlot(t, arg[1], "BLOCKED")
  /\ UNCHANGED <<expired, auth, busy, shown, panel, actions, faults, upto, excuses,
                 reordered>>

(* The request or its answer is lost: fetch throws. *)
Lose(t) ==
  /\ tasks[t].step \in {"sent", "answered"} /\ tasks[t].reply.verdict # "lost"
  /\ faults < MaxFaults /\ faults' = faults + 1
  /\ Answer(t, "lost", version, 0, Nothing)
  /\ UNCHANGED <<server, expired, auth, busy, shown, panel, actions, history>>

AccessExpires ==
  /\ auth > expired /\ expired < MaxExpiries
  /\ expired' = auth
  /\ UNCHANGED <<server, auth, busy, shown, panel, tasks, actions, faults, history>>

(* The worker rejects an expired upload, another device deletes a photo. *)
Elsewhere(i) ==
  /\ faults < MaxFaults /\ faults' = faults + 1
  /\ images[i].status \in {"PENDING", "READY"}
  /\ images' = [images EXCEPT ![i].status = IF @ = "PENDING" THEN "REJECTED" ELSE "DELETING"]
  /\ cover' = IF cover = i THEN 0 ELSE cover
  /\ excuses' = excuses \cup {"elsewhere"}
  /\ UNCHANGED <<published, made, slots, expired, auth, busy, shown, panel, tasks, actions,
                 version, upto, reordered>>

(* A professional holds the period of a day. *)
HeldElsewhere(d) ==
  /\ faults < MaxFaults /\ faults' = faults + 1
  /\ slots[d] = "OPEN" /\ slots' = [slots EXCEPT ![d] = "HELD"]
  /\ excuses' = excuses \cup {"schedule"}
  /\ UNCHANGED <<images, cover, published, made, expired, auth, busy, shown, panel, tasks,
                 actions, version, upto, reordered>>

-----------------------------------------------------------------------------
(* The console receives.                                                   *)

(* setSchedule, of the panel that asked if it is still there. *)
PanelAfter(k) ==
  IF Asked(k) THEN [panel EXCEPT !.schedule = k.reply.list] ELSE panel

(* Mutant: whatever day it is of. *)
ScheduleOfAnyDay == panel.schedule

(* The schedule that the panel shows for the day it stands at: only one of *)
(* that day, whatever was asked before the day was changed.                *)
ShownSchedule == IF panel.schedule.day = panel.day THEN panel.schedule ELSE NoSchedule

(* Mutant: what is deleted stays. *)
MergeKeepsDeleted(media, updated) ==
  [n \in DOMAIN media |->
     LET new == {u \in updated : u.id = media[n].id}
     IN IF new = {} THEN media[n] ELSE CHOOSE u \in new : TRUE]

(* mergeMedia: in place, and without what is deleted. *)
MergeMedia(media, updated) ==
  LET merged == [n \in DOMAIN media |->
                   LET new == {u \in updated : u.id = media[n].id}
                   IN IF new = {} THEN media[n] ELSE CHOOSE u \in new : TRUE]
  IN Sublist(merged, {n \in DOMAIN media : merged[n].status # "DELETING"})

(* The update of each action, on the list as it is when the answer comes. *)
MediaAfter(k) ==
  LET media == shown.media
      id == k.reply.id
      item(i, status) == [id |-> i, status |-> status, cover |-> i = id]
  IN CASE k.stage = "finalize" -> Append(media, [id |-> id, status |-> "READY", cover |-> FALSE])
       [] k.stage = "cover" -> [n \in DOMAIN media |-> [media[n] EXCEPT !.cover = media[n].id = id]]
       [] k.stage = "reorder" -> MergeMedia(media, {item(i, "READY") : i \in ToSet(k.arg)})
       [] k.stage = "delete" -> MergeMedia(media, {[item(id, "DELETING") EXCEPT !.cover = FALSE]})
       [] k.stage = "publish" -> k.reply.list.media
       [] OTHER -> media

Updated(k) ==
  IF k.stage = "list" THEN k.reply.list
  ELSE IF ~shown.known \/ OfPanel(k) THEN shown
  ELSE [shown EXCEPT !.media = MediaAfter(k),
                     !.published = IF k.stage = "publish" THEN k.reply.list.published ELSE @,
                     !.made = IF k.stage = "create" THEN Append(@, k.reply.id) ELSE @]

(* One answer has overtaken another: a list is older than what is shown,   *)
(* or a list shown already had what this action changed.                   *)
Crossed(k) ==
  \/ (k.stage \in {"list", "publish"} /\ k.reply.version < upto)
  \/ (k.stage # "list" /\ ~OfPanel(k) /\ k.since # 0 /\ k.since <= upto)

(* So has the answer for a panel: it is late, or the panel that asked is gone. *)
Misses(k) == k.reply.version < upto \/ ~Asked(k)

GoOn(t, stage, arg, token, again) ==
  tasks' = [tasks EXCEPT ![t].stage = stage, ![t].arg = arg, ![t].step = "sent",
                         ![t].token = token, ![t].again = again, ![t].reply = NoReply]

(* Mutant: the finally block is forgotten. *)
EndsBusy(t) == tasks' = [tasks EXCEPT ![t] = Idle] /\ UNCHANGED busy

Ends(t) == tasks' = [tasks EXCEPT ![t] = Idle] /\ busy' = (busy /\ tasks[t].kind = "view")

(* A step of an action succeeds: uploadMedia goes on with the same token,  *)
(* publish calls runAuthorized anew, with the token it began with.         *)
ReceiveStep(t) ==
  LET k == tasks[t]
  IN /\ k.step = "answered" /\ k.reply.verdict = "ok"
     /\ \/ k.stage = "intent" /\ GoOn(t, "finalize", <<k.reply.id>>, k.token, k.again)
        \/ k.stage = "checklist" /\ GoOn(t, "publish", k.arg, k.held, FALSE)
     /\ UNCHANGED <<server, expired, auth, busy, shown, panel, actions, faults, history>>

ReceiveResult(t) ==
  LET k == tasks[t]
  IN /\ k.step = "answered" /\ k.reply.verdict = "ok"
     /\ k.stage \notin {"intent", "checklist"}
     /\ shown' = Updated(k) /\ panel' = PanelAfter(k)
     /\ Ends(t)
     /\ upto' = Max({upto, k.reply.version})
     /\ excuses' = excuses \cup (IF Crossed(k) THEN {"crossed"} ELSE {})
                            \cup (IF OfPanel(k) /\ Misses(k) THEN {"schedule"} ELSE {})
     /\ reordered' = (k.stage = "reorder" \/ (reordered /\ k.stage \notin {"list", "publish"}))
     /\ UNCHANGED <<server, expired, auth, actions, faults, version>>

Receive401(t) ==
  /\ tasks[t].step = "answered" /\ tasks[t].reply.verdict = "unauthorized"
  /\ ~tasks[t].again
  /\ tasks' = [tasks EXCEPT ![t].step = "renewing", ![t].reply = NoReply]
  /\ UNCHANGED <<server, expired, auth, busy, shown, panel, actions, faults, history>>

Reloads(k) == k.kind \notin {"load", "publish"} /\ k.stage # "list" /\ ~OfPanel(k)

(* The catch block of an action: all but publish and those of the panel    *)
(* fetch the list again, with the token they began with.                   *)
AfterFailure(k) ==
  IF Reloads(k) THEN [k EXCEPT !.stage = "list", !.step = "sent", !.token = k.held,
                               !.again = FALSE, !.reply = NoReply]
  ELSE Idle

StaysBusy(k) == k.kind = "view" \/ AfterFailure(k) # Idle

(* Whether the list may be behind once this task has failed. *)
Blind(k) == k.stage = "list" \/ (k.stage = "publish" /\ k.reply.verdict = "lost")
BlindPanel(k) == k.kind \in {"open", "block"} /\ k.reply.verdict = "lost"

(* A refusal or a lost answer; of a request sent again, whatever it is,    *)
(* runAuthorized takes it for the end of the session.                      *)
ReceiveFailure(t) ==
  LET k == tasks[t]
  IN /\ k.step = "answered" /\ k.reply.verdict # "ok"
     /\ k.again \/ k.reply.verdict # "unauthorized"
     /\ busy' = (busy /\ StaysBusy(k))
     /\ LET rest == [tasks EXCEPT ![t] = AfterFailure(k)]
        IN IF k.again THEN SessionOver(rest) ELSE tasks' = rest /\ UNCHANGED <<auth, shown, panel>>
     /\ excuses' = excuses \cup (IF Blind(k) THEN {"blind"} ELSE {})
                            \cup (IF BlindPanel(k) THEN {"schedule"} ELSE {})
     /\ UNCHANGED <<server, expired, actions, faults, version, upto, reordered>>

(* The one refresh in flight answers every task that waits for it, and the *)
(* new session sets off a load beside the requests sent again.             *)
Renewing == {t \in DOMAIN tasks : tasks[t].step = "renewing"}

SentAgain(k, token) ==
  [k EXCEPT !.step = "sent", !.token = token, !.again = TRUE,
            !.stage = IF k.kind = "upload" /\ k.stage = "finalize" THEN "intent" ELSE @,
            !.since = 0]

RenewSucceeds(free) ==
  /\ Renewing # {} /\ IsFree(free)
  /\ auth' = expired + 1
  /\ busy' = TRUE
  /\ tasks' = [t \in DOMAIN tasks |->
                 IF t = free THEN Task("load", <<>>, expired + 1)
                 ELSE IF t \in Renewing THEN SentAgain(tasks[t], expired + 1)
                 ELSE tasks[t]]
  /\ UNCHANGED <<server, expired, shown, panel, actions, faults, history>>

RenewFails ==
  /\ Renewing # {}
  /\ faults < MaxFaults /\ faults' = faults + 1
  /\ SessionOver([t \in DOMAIN tasks |->
                    IF t \in Renewing THEN AfterFailure(tasks[t]) ELSE tasks[t]])
  /\ busy' = (busy /\ \A t \in Renewing : StaysBusy(tasks[t]))
  /\ excuses' = excuses \cup (IF \E t \in Renewing : tasks[t].stage = "list" THEN {"blind"} ELSE {})
  /\ UNCHANGED <<server, expired, actions, version, upto, reordered>>

TaskStep(t) ==
  Serve(t) \/ ReceiveStep(t) \/ ReceiveResult(t) \/ Receive401(t) \/ ReceiveFailure(t)

Next ==
  \/ \E t \in DOMAIN tasks :
       \/ \E c \in Offered : Act(t, c[1], c[2])
       \/ TaskStep(t) \/ Lose(t) \/ RenewSucceeds(t)
  \/ RenewFails
  \/ SignOut
  \/ \E d \in DOMAIN slots : ChooseDay(d) \/ HeldElsewhere(d)
  \/ AccessExpires \/ \E i \in DOMAIN images : Elsewhere(i)

Spec == Init /\ [][Next]_vars

(* As long as a request, an answer or a refresh is under way, one of them  *)
(* goes on.                                                                *)
FairSpec ==
  /\ Spec
  /\ WF_vars(\E t \in DOMAIN tasks : TaskStep(t) \/ RenewSucceeds(t))

-----------------------------------------------------------------------------
TypeOK ==
  /\ \A i \in DOMAIN images :
       images[i].status \in {"PENDING", "READY", "REJECTED", "DELETING"} /\ images[i].place \in Nat
  /\ cover \in 0 .. Len(images) /\ published \in BOOLEAN /\ made \in Nat
  /\ expired \in 0 .. MaxExpiries /\ auth \in 0 .. expired + 1 /\ busy \in BOOLEAN
  /\ \A t \in DOMAIN tasks : tasks[t].step \in {"none", "sent", "answered", "renewing"}
  /\ reordered \in BOOLEAN /\ excuses \subseteq {"crossed", "blind", "elsewhere", "schedule"}
  /\ slots \in [1 .. MaxDays -> {"ABSENT", "OPEN", "BLOCKED", "HELD"}]
  /\ panel.day \in 1 .. MaxDays /\ panel.schedule.day \in 0 .. MaxDays

AtRest == \A t \in DOMAIN tasks : tasks[t] = Idle

(* When nothing is under way, the console shows each photo and Workspace   *)
(* that the API lists once, with its status and cover, although each       *)
(* action changes the list on its own (updateTargetMedia, mergeMedia) and  *)
(* some are lost, refused or sent again: the list can be wrong only when   *)
(* a list was lost too, answers overtook one another, or somebody else     *)
(* changed the photos.  (The order of the photos is QuietOrderAgrees.)     *)
QuietListAgrees ==
  AtRest /\ auth # 0 /\ excuses \subseteq {"schedule"} =>
    /\ shown.known
    /\ ToSet(shown.media) = {Photo(i) : i \in Listed} /\ Len(shown.media) = Cardinality(Listed)
    /\ shown.published = published
    /\ shown.made = [n \in 1 .. made |-> n]

(* Then the READY photos stand in the API's order too, the one that move   *)
(* sends the next time: an uploaded photo is added at the end on both      *)
(* sides, others keep their places.  Except after a reorder: although the  *)
(* page says 'The photo order was updated.' (owner-console-page.tsx),      *)
(* mergeMedia leaves the photos where they were, until the next list; the  *)
(* next move starts from the old order.                                    *)
QuietOrderAgrees ==
  AtRest /\ auth # 0 /\ excuses \subseteq {"schedule"} /\ ~reordered => ReadyIds = Ordered(Ready)

(* When nothing is under way, a schedule that is shown for a day is the    *)
(* API's schedule of that day, although every button answers with a whole  *)
(* schedule, days are changed under a request, panels are unmounted and    *)
(* View runs beside other actions: except that a View which Open or Block  *)
(* have overtaken, a lost answer, which the panel does not make up for, an *)
(* answer to a panel that is gone, or somebody else's change may leave an  *)
(* old one.                                                                *)
QuietPanelAgrees ==
  AtRest /\ ShownSchedule # NoSchedule /\ "schedule" \notin excuses =>
    ShownSchedule = Schedule(panel.day)

(* Whatever expires or is lost, the console comes to rest and gives the    *)
(* buttons back: runAuthorized refreshes once for each request, and the    *)
(* loads that refreshes set off do not go round in circles.                *)
ConsoleSettles == []<>(AtRest /\ ~busy)
=============================================================================
