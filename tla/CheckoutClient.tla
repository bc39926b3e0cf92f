--------------------------- MODULE CheckoutClient ---------------------------
(***************************************************************************)
(* The booking page and the "my bookings" page of apps/web for one         *)
(* Professional, against the API: requests in flight, answers that are     *)
(* lost or overtaken, retries with the idempotency key that the page       *)
(* keeps, reloads that leave a request behind.  A transaction of the API   *)
(* is atomic here (BookingTransactions has its steps); its idempotency     *)
(* record is the key kept in the row it made.  A request refused by a      *)
(* guard (401, 403) and a lost one look the same to the page.  The clocks  *)
(* of browser and server agree, and every slot has the same start.         *)
(***************************************************************************)
EXTENDS Naturals, Sequences, FiniteSetsExt

CONSTANTS
  Slots,
  HoldTtl,      \* holdTtlSeconds
  CancelWindow, \* CANCELLATION_REOPEN_WINDOW_MS
  Spent,        \* slots with a CANCELLED Booking row of somebody else
  StartsAt,     \* startsAt of the slots
  MaxTime,      \* bound: last instant
  MaxActions,   \* bound: actions of the user
  MaxMounts,    \* bound: pages opened or reloaded
  MaxFaults     \* bound: lost requests or answers
ASSUME CheckoutAssumption ==
  /\ {HoldTtl, CancelWindow, StartsAt, MaxTime, MaxActions, MaxMounts, MaxFaults} \subseteq Nat
  /\ 0 \notin Slots   \* 0 is the slot of no attempt

VARIABLES
  now,
  rows,     \* SlotHold rows of this user, also the ones gone: [slot, until, end, key, try]
  bookings, \* Booking rows of this user: [slot, hold, status, key, try]
  rival,    \* slots that somebody else holds or has booked
  page,     \* [kind, auth, known, holds, bookings, offered, loading, busy, attempt, keys]
  calls,    \* the requests under way
  actions, mounts, faults,
  history   \* [version, owed, crossed, streak, mounted], see the properties

server == <<rows, bookings, rival>>
bounds == <<actions, mounts, faults>>
vars == <<now, server, page, calls, bounds, history>>

-----------------------------------------------------------------------------
Held == {h \in DOMAIN rows : rows[h].end = "held"}
Confirmed == {b \in DOMAIN bookings : bookings[b].status = "CONFIRMED"}
BookedBefore(s) == s \in Spent \/ \E b \in DOMAIN bookings : bookings[b].slot = s
Open == Slots \ ({rows[h].slot : h \in Held} \cup {bookings[b].slot : b \in Confirmed} \cup rival)

(* activeCheckoutHolds. *)
ActiveHolds(S) == {h \in S : rows[h].until > now}

None == [what |-> "none", arg |-> 0, key |-> 0, try |-> 0, step |-> "none", value |-> {}, at |-> 0]
Call(what, arg, key) ==
  [None EXCEPT !.what = what, !.arg = arg, !.key = key, !.try = actions + 1, !.step = "sent"]

Callers == {"detail", "session", "holds", "bookings", "act", "orphan"}
IsCalling(c) == calls[c].what # "none"

FreshPage(kind) ==
  [kind |-> kind, auth |-> FALSE, known |-> FALSE, holds |-> {}, bookings |-> {}, offered |-> {},
   loading |-> TRUE, busy |-> FALSE, attempt |-> [slot |-> 0, key |-> 0], keys |-> {}]

FreshCalls(kind, orphan) ==
  [c \in Callers |->
     CASE c = "session" -> [None EXCEPT !.what = "session", !.step = "sent"]
       [] c = "detail" /\ kind = "checkout" -> [None EXCEPT !.what = "detail", !.step = "sent"]
       [] c = "orphan" -> orphan
       [] OTHER -> None]

Init ==
  /\ now = 0 /\ rows = <<>> /\ bookings = <<>> /\ rival = {}
  /\ page = FreshPage("checkout") /\ calls = FreshCalls("checkout", None)
  /\ actions = 0 /\ mounts = 1 /\ faults = 0
  /\ history = [version |-> 0, owed |-> {}, crossed |-> FALSE, streak |-> 0, mounted |-> 0]

(* A reload, or the way to the other page: the state of the page is gone,  *)
(* a request that was sent may still be served.                            *)
Mount(kind) ==
  /\ mounts < MaxMounts /\ mounts' = mounts + 1
  /\ page' = FreshPage(kind)
  /\ calls' = FreshCalls(kind, IF IsCalling("act") /\ calls["act"].step = "sent"
                               THEN calls["act"] ELSE calls["orphan"])
  /\ history' = [history EXCEPT !.streak = actions, !.mounted = actions]
  /\ UNCHANGED <<now, server, actions, faults>>

-----------------------------------------------------------------------------
(* The user acts.  Buttons are disabled while isActioning; slots also      *)
(* while a hold is shown, and are hidden while the detail is loading.      *)

Begin(call, kept, streak) ==
  /\ actions < MaxActions /\ actions' = actions + 1
  /\ page.auth /\ ~page.busy
  /\ calls' = [calls EXCEPT !["act"] = call]
  /\ page' = [kept EXCEPT !.busy = TRUE]
  /\ history' = [history EXCEPT !.streak = streak]
  /\ UNCHANGED <<now, server, mounts, faults>>

(* Mutant: a fresh key for each attempt. *)
FreshAttempt(s) == [slot |-> s, key |-> actions + 1]

(* holdAttempt: its key is kept for another try of the same slot. *)
AttemptFor(s) ==
  IF page.attempt.slot = s THEN page.attempt ELSE [slot |-> s, key |-> actions + 1]

TakeHold(s) ==
  /\ page.kind = "checkout" /\ ~page.loading
  /\ ActiveHolds(page.holds) = {} /\ s \in page.offered
  /\ Begin(Call("hold", s, AttemptFor(s).key), [page EXCEPT !.attempt = AttemptFor(s)],
           IF page.attempt.slot \in {0, s} THEN history.streak ELSE actions)

(* confirmKeys: one key for each hold. *)
KeyFor(h) ==
  LET kept == {k \in page.keys : k[1] = h}
  IN IF kept = {} THEN actions + 1 ELSE (CHOOSE k \in kept : TRUE)[2]

Confirm(h) ==
  /\ page.kind = "checkout"
  /\ h \in ActiveHolds(page.holds)
  /\ Begin(Call("confirm", h, KeyFor(h)), [page EXCEPT !.keys = @ \cup {<<h, KeyFor(h)>>}],
           history.streak)

Cancel(b) ==
  /\ <<b, "CONFIRMED">> \in page.bookings
  /\ Begin(Call("cancel", b, actions + 1), page, history.streak)

(* signOut, on both pages; to sign in again, the user leaves the page. *)
SignOut ==
  /\ page.auth
  /\ page' = [page EXCEPT !.auth = FALSE, !.known = FALSE, !.holds = {}, !.bookings = {}]
  /\ UNCHANGED <<now, server, calls, bounds, history>>

-----------------------------------------------------------------------------
(* The API serves a request.                                               *)

Answer(c, verdict, value) ==
  calls' = [calls EXCEPT ![c] = IF c = "orphan" THEN None
                                ELSE [@ EXCEPT !.step = verdict, !.value = value,
                                               !.at = history.version]]

Owe(what, id) ==
  history' = [history EXCEPT !.version = @ + 1,
                             !.owed = @ \cup {[what |-> what, id |-> id, at |-> history.version + 1]}]

Replies(c, verdict, value) == Answer(c, verdict, value) /\ UNCHANGED <<server, history>>

(* SlotHoldsService.create, with findReplay. *)
CreateHold(c) ==
  LET s == calls[c].arg
      replay == {h \in DOMAIN rows : rows[h].slot = s /\ rows[h].key = calls[c].key}
  IN IF replay # {} THEN Replies(c, "ok", replay)
     ELSE IF s \notin Open \/ StartsAt <= now THEN Replies(c, "refused", {})
     ELSE /\ rows' = Append(rows, [slot |-> s, until |-> now + HoldTtl, end |-> "held",
                                   key |-> calls[c].key, try |-> calls[c].try])
          /\ Answer(c, "ok", {Len(rows) + 1})
          /\ Owe("hold", Len(rows) + 1)
          /\ UNCHANGED <<bookings, rival>>

(* BookingsService.confirm; Booking.availabilitySlotId is unique, so that a *)
(* slot is booked once, whatever became of the booking.                    *)
ConfirmHold(c) ==
  LET h == calls[c].arg
      replay == {b \in DOMAIN bookings : bookings[b].hold = h /\ bookings[b].key = calls[c].key}
  IN IF replay # {} THEN Replies(c, "ok", {<<b, "CONFIRMED">> : b \in replay})
     ELSE IF h \notin ActiveHolds(Held) \/ BookedBefore(rows[h].slot) THEN Replies(c, "refused", {})
     ELSE /\ rows' = [rows EXCEPT ![h].end = "booked"]
          /\ bookings' = Append(bookings, [slot |-> rows[h].slot, hold |-> h, status |-> "CONFIRMED",
                                           key |-> calls[c].key, try |-> calls[c].try])
          /\ Answer(c, "ok", {<<Len(bookings) + 1, "CONFIRMED">>})
          /\ Owe("booking", Len(bookings) + 1)
          /\ UNCHANGED rival

(* BookingsService.cancel: its key is fresh, so that nothing is replayed. *)
CancelBooking(c) ==
  LET b == calls[c].arg
  IN IF b \notin Confirmed \/ StartsAt <= now + CancelWindow THEN Replies(c, "refused", {})
     ELSE /\ bookings' = [bookings EXCEPT ![b].status = "CANCELLED"]
          /\ Answer(c, "ok", {<<b, "CANCELLED">>})
          /\ Owe("cancel", b)
          /\ UNCHANGED <<rows, rival>>

(* Mutant: one hold only, the one that expires first. *)
FirstOf(S) == {h \in S : \A g \in S : rows[h].until < rows[g].until \/ (rows[h].until = rows[g].until /\ h <= g)}
GetFirstHold(c) == Replies(c, "ok", FirstOf(ActiveHolds(Held)))

GetMyHolds(c) == Replies(c, "ok", ActiveHolds(Held))
GetMyBookings(c) == Replies(c, "ok", {<<b, bookings[b].status>> : b \in DOMAIN bookings})
GetDetail(c) == Replies(c, "ok", IF StartsAt > now THEN Open ELSE {})

Serve(c) ==
  /\ calls[c].step = "sent"
  /\ LET what == calls[c].what
     IN \/ what = "session" /\ (Replies(c, "ok", {}) \/ Replies(c, "refused", {}))
        \/ what = "detail" /\ GetDetail(c)
        \/ what = "holds" /\ GetMyHolds(c)
        \/ what = "bookings" /\ GetMyBookings(c)
        \/ what = "hold" /\ CreateHold(c)
        \/ what = "confirm" /\ ConfirmHold(c)
        \/ what = "cancel" /\ CancelBooking(c)
  /\ UNCHANGED <<now, page, bounds>>

Lose(c) ==
  /\ IsCalling(c) /\ calls[c].step \in {"sent", "ok", "refused"}
  /\ faults < MaxFaults /\ faults' = faults + 1
  /\ Answer(c, "lost", {})
  /\ UNCHANGED <<now, server, page, actions, mounts, history>>

(* expireBatch on a hold of this user, and what others do to a slot. *)
Expire(h) ==
  /\ h \in Held /\ rows[h].until <= now
  /\ rows' = [rows EXCEPT ![h].end = "expired"]
  /\ UNCHANGED <<now, bookings, rival, page, calls, bounds, history>>

RivalTakes(s) ==
  /\ s \in Open /\ rival = {} /\ rival' = {s}
  /\ UNCHANGED <<now, rows, bookings, page, calls, bounds, history>>

Tick == now < MaxTime /\ now' = now + 1 /\ UNCHANGED <<server, page, calls, bounds, history>>

-----------------------------------------------------------------------------
(* The page receives.                                                      *)

Failed(c) == calls[c].step \in {"refused", "lost"}

(* restore; then the effect on auth calls loadPersonalState. *)
ReceiveSession ==
  /\ calls["session"].step = "ok"
  /\ page' = [page EXCEPT !.auth = TRUE]
  /\ calls' = [calls EXCEPT !["session"] = None,
                            !["holds"] = IF page.kind = "checkout"
                                         THEN [None EXCEPT !.what = "holds", !.step = "sent"] ELSE None,
                            !["bookings"] = [None EXCEPT !.what = "bookings", !.step = "sent"]]
  /\ UNCHANGED <<now, server, bounds, history>>

NoSession ==
  /\ Failed("session")
  /\ calls' = [calls EXCEPT !["session"] = None]
  /\ UNCHANGED <<now, server, page, bounds, history>>

(* What a list taken at versions S does not tell is owed still, unless it  *)
(* was told before.                                                        *)
Told(S) ==
  LET owed == {o \in history.owed : o.at > Min(S)}
  IN [history EXCEPT !.owed = owed,
        !.crossed = Cardinality(owed) < history.version - Min(S) \/ \E o \in owed : o.at <= Max(S)]

(* loadPersonalState waits for both lists and puts them in place of what   *)
(* is shown; loadBookings of the other page has one list.                  *)
ReceiveMine ==
  LET lists == {c \in {"holds", "bookings"} : IsCalling(c)}
  IN /\ lists # {} /\ \A c \in lists : calls[c].step = "ok"
     /\ page' = [page EXCEPT !.holds = ActiveHolds(calls["holds"].value),
                             !.bookings = calls["bookings"].value,
                             !.known = page.auth]
     /\ calls' = [calls EXCEPT !["holds"] = None, !["bookings"] = None]
     /\ history' = Told({calls[c].at : c \in lists})
     /\ UNCHANGED <<now, server, bounds>>

MineFails ==
  /\ \E c \in {"holds", "bookings"} : Failed(c)
  /\ calls' = [calls EXCEPT !["holds"] = None, !["bookings"] = None]
  /\ UNCHANGED <<now, server, page, bounds, history>>

(* loadDetail on mount. *)
ReceiveDetail(c) ==
  /\ calls[c].what = "detail" /\ calls[c].step \in {"ok", "lost"}
  /\ page' = [page EXCEPT !.offered = calls[c].value, !.loading = FALSE,
                          !.busy = IF c = "act" THEN FALSE ELSE @]
  /\ calls' = [calls EXCEPT ![c] = None]
  /\ UNCHANGED <<now, server, bounds, history>>

(* An action succeeds: its answer is worked in, and loadDetail follows     *)
(* before isActioning is reset (not on the page of bookings).              *)
GoesOn(shown) ==
  /\ page' = [shown EXCEPT !.loading = page.kind = "checkout" \/ @,
                           !.busy = page.kind = "checkout"]
  /\ calls' = [calls EXCEPT !["act"] = IF page.kind = "checkout"
                                       THEN [None EXCEPT !.what = "detail", !.step = "sent"] ELSE None]
  /\ UNCHANGED <<now, server, bounds>>

Paid(what, id) == {o \in history.owed : ~(o.what = what /\ o.id = id)}

(* Mutant: the attempt is not forgotten. *)
KeepsAttempt ==
  /\ calls["act"].what = "hold" /\ calls["act"].step = "ok"
  /\ \E h \in calls["act"].value :
       /\ GoesOn([page EXCEPT !.holds = ActiveHolds(@ \cup {h})])
       /\ history' = [history EXCEPT !.owed = Paid("hold", h), !.streak = actions,
                                     !.crossed = @ \/ rows[h].end = "booked"]

ReceiveHold ==
  /\ calls["act"].what = "hold" /\ calls["act"].step = "ok"
  /\ \E h \in calls["act"].value :
       /\ GoesOn([page EXCEPT !.holds = ActiveHolds(@ \cup {h}), !.attempt = [slot |-> 0, key |-> 0]])
       /\ history' = [history EXCEPT !.owed = Paid("hold", h), !.streak = actions,
                                     !.crossed = @ \/ rows[h].end = "booked"]

ReceiveConfirm ==
  /\ calls["act"].what = "confirm" /\ calls["act"].step = "ok"
  /\ \E b \in calls["act"].value :
       /\ GoesOn([page EXCEPT !.bookings = {o \in @ : o[1] # b[1]} \cup {b},
                              !.holds = @ \ {calls["act"].arg},
                              !.keys = {k \in @ : k[1] # calls["act"].arg}])
       /\ history' = [history EXCEPT !.owed = Paid("booking", b[1])]

ReceiveCancel ==
  /\ calls["act"].what = "cancel" /\ calls["act"].step = "ok"
  /\ \E b \in calls["act"].value :
       /\ GoesOn([page EXCEPT !.bookings = {IF o[1] = b[1] THEN b ELSE o : o \in @}])
       /\ history' = [history EXCEPT !.owed = Paid("cancel", b[1])]

ActFails ==
  /\ calls["act"].what \in {"hold", "confirm", "cancel"} /\ Failed("act")
  /\ page' = [page EXCEPT !.busy = FALSE]
  /\ calls' = [calls EXCEPT !["act"] = None]
  /\ UNCHANGED <<now, server, bounds, history>>

Receive ==
  \/ ReceiveSession \/ NoSession \/ ReceiveMine \/ MineFails
  \/ ReceiveDetail("detail") \/ ReceiveDetail("act")
  \/ ReceiveHold \/ ReceiveConfirm \/ ReceiveCancel \/ ActFails

Next ==
  \/ \E kind \in {"checkout", "mine"} : Mount(kind)
  \/ \E s \in Slots : TakeHold(s) \/ RivalTakes(s)
  \/ \E h \in DOMAIN rows : Confirm(h) \/ Expire(h)
  \/ \E b \in DOMAIN bookings : Cancel(b)
  \/ \E c \in Callers : Serve(c) \/ Lose(c)
  \/ Receive \/ SignOut \/ Tick

Spec == Init /\ [][Next]_vars

-----------------------------------------------------------------------------
(* A slot has one taker: a live hold, a booking that stands, or somebody   *)
(* else.                                                                   *)
OneTaker ==
  /\ \A g, h \in Held : rows[g].slot = rows[h].slot => g = h
  /\ \A b, c \in Confirmed : bookings[b].slot = bookings[c].slot => b = c
  /\ \A h \in Held : rows[h].slot \notin rival
  /\ \A b \in Confirmed : bookings[b].slot \notin rival
  /\ \A h \in Held, b \in Confirmed : rows[h].slot # bookings[b].slot

TypeOK ==
  /\ \A h \in DOMAIN rows : rows[h].end \in {"held", "booked", "expired"} /\ rows[h].slot \in Slots
  /\ \A b \in DOMAIN bookings : bookings[b].status \in {"CONFIRMED", "CANCELLED"}
  /\ OneTaker
  /\ page.holds \subseteq DOMAIN rows /\ page.offered \subseteq Slots
  /\ \A c \in Callers : calls[c].step \in {"none", "sent", "ok", "refused", "lost"}

Quiet == \A c \in Callers \ {"orphan"} : ~IsCalling(c)
Owed(what, id) == \E o \in history.owed : o.what = what /\ o.id = id
HoldUntold(h) == rows[h].end = "booked" /\ \E b \in DOMAIN bookings : bookings[b].hold = h /\ Owed("booking", b)

(* When nothing is under way, a page with a session shows exactly the      *)
(* user's unexpired holds and their bookings with their status, except for *)
(* a change whose answer never came (it was lost, or a reload left it      *)
(* behind), and unless the lists of the mount were taken before a change   *)
(* that the page had been told of: activeCheckoutHolds, loadPersonalState  *)
(* and the updates of takeHold, confirm and cancel keep the page true to   *)
(* the server through errors, retries and reloads.                         *)
QuietPageAgrees ==
  Quiet /\ page.known /\ ~history.crossed =>
    /\ page.kind = "checkout" =>
         ActiveHolds(page.holds) =
           {h \in ActiveHolds(DOMAIN rows) : ~Owed("hold", h) /\ (h \in Held \/ HoldUntold(h))}
    /\ page.bookings =
         {<<b, IF Owed("cancel", b) THEN "CONFIRMED" ELSE bookings[b].status>> :
            b \in {c \in DOMAIN bookings : ~Owed("booking", c)}}

(* A try is not refused on account of an earlier try of the same thing: as *)
(* long as the page stays and no other slot is tried, the slot is not      *)
(* reported taken by the user's own hold, nor the hold gone into their own *)
(* booking, because holdAttempt and confirmKeys keep the key over an       *)
(* error.  A live hold is refused in one case only: its slot was booked    *)
(* before, by anybody, and that booking cancelled (Booking is unique per   *)
(* slot).  (Where an older list brings a confirmed hold back, its key is   *)
(* forgotten.)                                                             *)
RetryIsNotRefused ==
  calls["act"].step = "refused" =>
    /\ calls["act"].what = "hold" /\ ~history.crossed =>
         ~\E h \in DOMAIN rows : rows[h].slot = calls["act"].arg /\ rows[h].try > history.streak
    /\ calls["act"].what = "confirm" /\ ~history.crossed =>
         ~\E b \in DOMAIN bookings :
            bookings[b].hold = calls["act"].arg /\ bookings[b].try > history.mounted
    /\ calls["act"].what = "confirm" /\ calls["act"].arg \in ActiveHolds(Held) =>
         BookedBefore(rows[calls["act"].arg].slot)

(* The hold that a try is answered with was made by this try or by one     *)
(* whose answer is still missing, never by one already answered: takeHold  *)
(* forgets the attempt on success, so that "your time is reserved" is not  *)
(* said of a hold that has come and gone.                                  *)
AnswerIsOfThisAttempt ==
  calls["act"].what = "hold" /\ calls["act"].step = "ok" =>
    \A h \in calls["act"].value : rows[h].try > history.streak
=============================================================================
