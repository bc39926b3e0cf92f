------------------------ MODULE CheckoutClientProofs ------------------------
(***************************************************************************)
(* The booking page for any number of slots, actions, reloads and faults:  *)
(* what a retry is answered, and that a page at rest shows what the server *)
(* has.                                                                    *)
(***************************************************************************)
EXTENDS CheckoutClient, FiniteSetTheorems, TLAPS

BookingStatus == {"CONFIRMED", "CANCELLED"}
HoldRow == [slot: Slots, until: Nat, end: {"held", "booked", "expired"}, key: Nat, try: Nat]
BookingRow == [slot: Slots, hold: Nat, status: BookingStatus, key: Nat, try: Nat]
Kind == {"none", "detail", "session", "holds", "bookings", "hold", "confirm", "cancel"}
Answers == Nat \cup Slots \cup (Nat \X BookingStatus)
CallRow == [what: Kind, arg: Nat \cup Slots, key: Nat, try: Nat,
            step: {"none", "sent", "ok", "refused", "lost"}, value: SUBSET Answers, at: Nat]
Page == [kind: {"checkout", "mine"}, auth: BOOLEAN, known: BOOLEAN, holds: SUBSET Nat,
         bookings: SUBSET (Nat \X BookingStatus), offered: SUBSET Answers, loading: BOOLEAN,
         busy: BOOLEAN, attempt: [slot: Slots \cup {0}, key: Nat], keys: SUBSET (Nat \X Nat)]
Change == [what: {"hold", "booking", "cancel"}, id: Nat, at: Nat]
History == [version: Nat, owed: SUBSET Change, crossed: BOOLEAN, streak: Nat, mounted: Nat]

Types ==
  /\ now \in Nat /\ actions \in Nat
  /\ rows \in Seq(HoldRow) /\ bookings \in Seq(BookingRow)
  /\ calls \in [Callers -> CallRow]
  /\ page \in Page /\ history \in History

(* Each caller has its own requests; a request of the page that may change *)
(* something keeps it busy.                                                *)
KindsOf(c) ==
  CASE c \in {"act", "orphan"} -> {"none", "detail", "hold", "confirm", "cancel"}
    [] OTHER -> {"none", c}
CallShapes ==
  /\ \A c \in Callers : calls[c].what \in KindsOf(c)
  /\ \A c \in Callers : calls[c].step = "none" <=> calls[c].what = "none"
  /\ IsCalling("act") => page.busy
  /\ calls["orphan"].step \in {"none", "sent"}
  /\ page.kind = "mine" => ~IsCalling("holds")
  /\ page.kind = "checkout" => (IsCalling("holds") <=> IsCalling("bookings"))
  /\ IsCalling("session") => ~IsCalling("holds") /\ ~IsCalling("bookings")
  /\ \A c \in Callers : calls[c].what = "confirm" => calls[c].arg \in DOMAIN rows
  /\ \A c \in Callers : calls[c].what = "cancel" => calls[c].arg \in DOMAIN bookings

(* Keys are numbered with the actions that made them. *)
Counted ==
  /\ history.mounted <= history.streak /\ history.streak <= actions
  /\ \A h \in DOMAIN rows : rows[h].key <= rows[h].try /\ rows[h].try <= actions
  /\ \A b \in DOMAIN bookings : bookings[b].key <= bookings[b].try /\ bookings[b].try <= actions
  /\ \A c \in Callers : calls[c].key <= calls[c].try /\ calls[c].try <= actions
  /\ calls["orphan"].try <= history.mounted
  /\ calls["orphan"].what = "cancel" => bookings[calls["orphan"].arg].key <= history.mounted
  /\ page.attempt.slot # 0 => history.streak < page.attempt.key /\ page.attempt.key <= actions
  /\ \A k \in page.keys : history.mounted < k[2] /\ k[2] <= actions

(* Rows name rows: a booking its hold, a change what it changed.           *)
RowsAgree ==
  /\ \A h \in DOMAIN rows : rows[h].end = "expired" => rows[h].until <= now
  /\ \A b \in DOMAIN bookings : bookings[b].hold \in DOMAIN rows /\ rows[bookings[b].hold].end = "booked"
  /\ \A b, c \in DOMAIN bookings : bookings[b].hold = bookings[c].hold => b = c
  /\ page.holds \subseteq DOMAIN rows
  /\ \A o \in page.bookings : o[1] \in DOMAIN bookings

Changes ==
  /\ \A o \in history.owed :
       /\ 0 < o.at /\ o.at <= history.version
       /\ o.what = "hold" => o.id \in DOMAIN rows
       /\ o.what # "hold" => o.id \in DOMAIN bookings
  /\ \A o, p \in history.owed : o.at = p.at => o = p
  /\ \A c \in {"holds", "bookings"} : calls[c].at <= history.version

(* The attempt: every row of the present streak is its row. *)
Attempts ==
  /\ calls["act"].what = "hold" =>
       page.attempt.slot = calls["act"].arg /\ page.attempt.key = calls["act"].key
         /\ calls["act"].arg \in Slots
  /\ \A h \in DOMAIN rows : rows[h].try > history.streak =>
       rows[h].slot = page.attempt.slot /\ rows[h].key = page.attempt.key
  /\ calls["orphan"].what = "hold" => calls["orphan"].arg \in Slots

(* What an answer of the page's own action says. *)
AnswersNow ==
  calls["act"].step = "ok" => \A x \in calls["act"].value :
    /\ calls["act"].what = "hold" =>
         /\ x \in DOMAIN rows
         /\ rows[x].slot = calls["act"].arg /\ rows[x].key = calls["act"].key
    /\ calls["act"].what = "confirm" =>
         /\ x[1] \in DOMAIN bookings /\ x = <<x[1], "CONFIRMED">>
         /\ bookings[x[1]].hold = calls["act"].arg /\ bookings[x[1]].key = calls["act"].key
    /\ calls["act"].what = "cancel" =>
         x = <<calls["act"].arg, "CANCELLED">> /\ bookings[calls["act"].arg].status = "CANCELLED"

HoldTriedInVain ==
  calls["act"].what = "hold" /\ calls["act"].step = "refused" =>
    \A h \in DOMAIN rows : rows[h].slot = calls["act"].arg => rows[h].try <= history.streak

-----------------------------------------------------------------------------
(* The lists of the mount have not come yet. *)
Fresh == \E c \in {"session", "holds", "bookings"} : IsCalling(c)

(* The page has not taken a list that was older than what it had been told. *)
Trusted == Fresh \/ ~history.crossed

Among(P, what, id) == \E o \in P : o.what = what /\ o.id = id
ShownHolds(P) ==
  {h \in ActiveHolds(DOMAIN rows) :
     /\ ~Among(P, "hold", h)
     /\ \/ h \in Held
        \/ \E b \in DOMAIN bookings : bookings[b].hold = h /\ Among(P, "booking", b)}
ShownBookings(P) ==
  {<<b, IF Among(P, "cancel", b) THEN "CONFIRMED" ELSE bookings[b].status>> :
     b \in {c \in DOMAIN bookings : ~Among(P, "booking", c)}}

Since(v) == {o \in history.owed : o.at > v}
NothingTold(v) == \A u \in (v + 1)..history.version : \E o \in history.owed : o.at = u

(* A list under way tells of its version, if the page was told of nothing  *)
(* since.                                                                  *)
ListsTell ==
  /\ calls["holds"].step = "ok" /\ NothingTold(calls["holds"].at) =>
       /\ calls["holds"].value \subseteq DOMAIN rows
       /\ ActiveHolds(calls["holds"].value) = ShownHolds(Since(calls["holds"].at))
  /\ calls["bookings"].step = "ok" /\ NothingTold(calls["bookings"].at) =>
       calls["bookings"].value = ShownBookings(Since(calls["bookings"].at))

ListTypes ==
  /\ calls["holds"].step = "ok" => calls["holds"].value \subseteq DOMAIN rows
  /\ calls["bookings"].step = "ok" => \A o \in calls["bookings"].value : o \in (DOMAIN bookings) \X BookingStatus
  /\ calls["holds"].what = "none" => calls["holds"].value = {}

(* A booking that is cancelled, or about to be, was told before any list   *)
(* under way was taken.                                                    *)
Cancelling(b) ==
  \/ bookings[b].status = "CANCELLED"
  \/ \E c \in {"act", "orphan"} : calls[c].what = "cancel" /\ calls[c].arg = b
CancelledIsOld ==
  \A o \in history.owed : o.what = "booking" /\ Cancelling(o.id) =>
    \A c \in {"holds", "bookings"} : calls[c].step = "ok" => o.at <= calls[c].at
ToldIsPaid ==
  Fresh => \A o \in page.bookings : ~Among(history.owed, "booking", o[1])

(* Before the lists, a hold the page has not been told of is untouched. *)
UntoldIsUntouched ==
  Fresh => \A h \in DOMAIN rows : rows[h].try > history.streak =>
    /\ rows[h].end # "booked" /\ h \notin page.holds
    /\ \A c \in {"act", "orphan"} : calls[c].what = "confirm" => calls[c].arg # h

(* The keys of confirmations. *)
Keys ==
  /\ \A k, l \in page.keys : k[1] = l[1] => k = l
  /\ calls["act"].what = "confirm" => <<calls["act"].arg, calls["act"].key>> \in page.keys
  /\ \A b \in DOMAIN bookings : bookings[b].try > history.mounted /\ Among(history.owed, "booking", b) =>
       <<bookings[b].hold, bookings[b].key>> \in page.keys

(* A hold on the page: its booking, if there is one already, is the one of *)
(* the kept key, it stands, and the page does not show it as well.         *)
HoldsOnPage ==
  Trusted => \A h \in ActiveHolds(page.holds) : \A b \in DOMAIN bookings : bookings[b].hold = h =>
    /\ bookings[b].try > history.mounted => <<h, bookings[b].key>> \in page.keys
    /\ ~Cancelling(b)
    /\ \A o \in page.bookings : o[1] # b

(* A confirmation under way: likewise.                                     *)
ConfirmUnderWay ==
  Trusted /\ calls["act"].what = "confirm" =>
    \A b \in DOMAIN bookings : bookings[b].hold = calls["act"].arg =>
      /\ bookings[b].try > history.mounted => bookings[b].key = calls["act"].key
      /\ bookings[b].key = calls["act"].key => bookings[b].status = "CONFIRMED"
      /\ calls["act"].step = "refused" => bookings[b].try <= history.mounted

PageAgrees ==
  page.known /\ ~history.crossed =>
    /\ page.kind = "checkout" => ActiveHolds(page.holds) = ShownHolds(history.owed)
    /\ page.bookings = ShownBookings(history.owed)

IInv ==
  /\ CallShapes /\ Counted /\ RowsAgree /\ Changes /\ Attempts /\ AnswersNow /\ HoldTriedInVain
  /\ ListTypes /\ ListsTell /\ CancelledIsOld /\ ToldIsPaid /\ UntoldIsUntouched
  /\ Keys /\ HoldsOnPage /\ ConfirmUnderWay /\ PageAgrees

-----------------------------------------------------------------------------
(* What the pieces of the actions do, field by field.                      *)

(* The value of a call that is over. *)
LEMMA NoneIsCall ==
  /\ None \in CallRow /\ None.what = "none" /\ None.step = "none" /\ None.value = {}
  /\ None.key = 0 /\ None.try = 0 /\ None.at = 0
  BY DEF None, CallRow, Kind

(* A hold row that ends keeps its type and its other fields. *)
LEMMA RowEnds ==
  ASSUME NEW s \in Seq(HoldRow), NEW h \in DOMAIN s, NEW e \in {"held", "booked", "expired"}
  PROVE  LET t == [s EXCEPT ![h].end = e]
         IN /\ t \in Seq(HoldRow) /\ DOMAIN t = DOMAIN s
            /\ \A g \in DOMAIN s :
                 /\ t[g].slot = s[g].slot /\ t[g].until = s[g].until
                 /\ t[g].key = s[g].key /\ t[g].try = s[g].try
                 /\ t[g].end = IF g = h THEN e ELSE s[g].end
  <1> DEFINE r == [s[h] EXCEPT !.end = e]
  <1>1. /\ r \in HoldRow /\ r.end = e /\ r.slot = s[h].slot
        /\ r.until = s[h].until /\ r.key = s[h].key /\ r.try = s[h].try
    <2>1. s[h] \in HoldRow
      OBVIOUS
    <2> QED BY <2>1 DEF HoldRow
  <1> HIDE DEF r
  <1>2. [s EXCEPT ![h].end = e] = [s EXCEPT ![h] = r]
    BY DEF r
  <1>3. /\ [s EXCEPT ![h] = r] \in Seq(HoldRow) /\ DOMAIN [s EXCEPT ![h] = r] = DOMAIN s
        /\ \A g \in DOMAIN s : [s EXCEPT ![h] = r][g] = IF g = h THEN r ELSE s[g]
    BY <1>1
  <1> QED BY <1>1, <1>2, <1>3

(* So does a booking that is cancelled. *)
LEMMA BookingCancelled ==
  ASSUME NEW s \in Seq(BookingRow), NEW b \in DOMAIN s
  PROVE  LET t == [s EXCEPT ![b].status = "CANCELLED"]
         IN /\ t \in Seq(BookingRow) /\ DOMAIN t = DOMAIN s
            /\ \A c \in DOMAIN s :
                 /\ t[c].hold = s[c].hold /\ t[c].key = s[c].key /\ t[c].try = s[c].try
                 /\ t[c].status = IF c = b THEN "CANCELLED" ELSE s[c].status
  <1> DEFINE r == [s[b] EXCEPT !.status = "CANCELLED"]
  <1>1. /\ r \in BookingRow /\ r.status = "CANCELLED"
        /\ r.hold = s[b].hold /\ r.key = s[b].key /\ r.try = s[b].try
    <2>1. s[b] \in BookingRow
      OBVIOUS
    <2> QED BY <2>1 DEF BookingRow, BookingStatus
  <1> HIDE DEF r
  <1>2. [s EXCEPT ![b].status = "CANCELLED"] = [s EXCEPT ![b] = r]
    BY DEF r
  <1>3. /\ [s EXCEPT ![b] = r] \in Seq(BookingRow) /\ DOMAIN [s EXCEPT ![b] = r] = DOMAIN s
        /\ \A c \in DOMAIN s : [s EXCEPT ![b] = r][c] = IF c = b THEN r ELSE s[c]
    BY <1>1
  <1> QED BY <1>1, <1>2, <1>3

(* The answer to a request. *)
LEMMA Answering ==
  ASSUME Types, NEW c \in Callers, NEW verdict \in {"ok", "refused", "lost"},
         NEW value \in SUBSET Answers, Answer(c, verdict, value)
  PROVE  /\ calls' \in [Callers -> CallRow]
         /\ \A d \in Callers : d # c => calls'[d] = calls[d]
         /\ c = "orphan" => calls'[c] = None
         /\ c # "orphan" =>
              /\ calls'[c].what = calls[c].what /\ calls'[c].arg = calls[c].arg
              /\ calls'[c].key = calls[c].key /\ calls'[c].try = calls[c].try
              /\ calls'[c].step = verdict /\ calls'[c].value = value
              /\ calls'[c].at = history.version
  <1>1. calls[c] \in CallRow /\ history.version \in Nat
    BY DEF Types, History
  <1> DEFINE r == [calls[c] EXCEPT !.step = verdict, !.value = value, !.at = history.version]
  <1>2. /\ r \in CallRow
        /\ r.what = calls[c].what /\ r.arg = calls[c].arg /\ r.key = calls[c].key
        /\ r.try = calls[c].try /\ r.step = verdict /\ r.value = value /\ r.at = history.version
    BY <1>1 DEF CallRow
  <1>3. calls' = [calls EXCEPT ![c] = IF c = "orphan" THEN None ELSE r]
    BY DEF Answer
  <1> HIDE DEF r
  <1> QED BY <1>2, <1>3, NoneIsCall DEF Types

(* A change is owed to the page from now on.                               *)
LEMMA Owing ==
  ASSUME Types, NEW what \in {"hold", "booking", "cancel"}, NEW id \in Nat, Owe(what, id)
  PROVE  \E o \in Change :
           /\ o.what = what /\ o.id = id /\ o.at = history.version + 1
           /\ history' \in History /\ history'.version = history.version + 1
           /\ history'.owed = history.owed \cup {o}
           /\ history'.crossed = history.crossed /\ history'.streak = history.streak
           /\ history'.mounted = history.mounted
  <1>1. history \in History
    BY DEF Types
  <1> DEFINE o == [what |-> what, id |-> id, at |-> history.version + 1]
  <1>2. o \in Change /\ o.what = what /\ o.id = id /\ o.at = history.version + 1
    BY <1>1 DEF History, Change
  <1>3. history' = [history EXCEPT !.version = history.version + 1, !.owed = history.owed \cup {o}]
    BY DEF Owe
  <1> HIDE DEF o
  <1>4. history.owed \cup {o} \in SUBSET Change /\ history.version + 1 \in Nat
    BY <1>1, <1>2 DEF History
  <1> DEFINE P == history.owed \cup {o}
  <1>5. history' = [history EXCEPT !.version = history.version + 1, !.owed = P] /\ P \in SUBSET Change
    BY <1>3, <1>4
  <1> HIDE DEF P
  <1>6. /\ history' \in History /\ history'.version = history.version + 1 /\ history'.owed = P
        /\ history'.crossed = history.crossed /\ history'.streak = history.streak
        /\ history'.mounted = history.mounted
    BY <1>1, <1>4, <1>5 DEF History
  <1> QED BY <1>2, <1>6 DEF P

-----------------------------------------------------------------------------
(* What the API may answer without a change, ...                           *)
ReplyOf(c, verdict, value) ==
  /\ calls[c].what = "holds" => verdict = "ok" /\ value = ActiveHolds(Held)
  /\ calls[c].what = "bookings" =>
       verdict = "ok" /\ value = {<<b, bookings[b].status>> : b \in DOMAIN bookings}
  /\ calls[c].what = "hold" =>
       LET replay == {h \in DOMAIN rows : rows[h].slot = calls[c].arg /\ rows[h].key = calls[c].key}
       IN IF replay = {} THEN verdict = "refused" /\ value = {} ELSE verdict = "ok" /\ value = replay
  /\ calls[c].what = "confirm" =>
       LET replay == {b \in DOMAIN bookings :
                        bookings[b].hold = calls[c].arg /\ bookings[b].key = calls[c].key}
       IN IF replay = {} THEN verdict = "refused" /\ value = {}
          ELSE verdict = "ok" /\ value = {<<b, "CONFIRMED">> : b \in replay}
  /\ calls[c].what = "cancel" => verdict = "refused" /\ value = {}

Replied(c) ==
  /\ \E verdict \in {"ok", "refused"}, value \in SUBSET Answers :
       Answer(c, verdict, value) /\ ReplyOf(c, verdict, value)
  /\ UNCHANGED <<rows, bookings, history>>

(* ... and the three changes it makes.                                     *)
HoldMade(c) ==
  /\ calls[c].what = "hold" /\ UNCHANGED bookings
  /\ \E r \in HoldRow :
       /\ rows' = Append(rows, r) /\ r.slot = calls[c].arg /\ r.end = "held"
       /\ r.key = calls[c].key /\ r.try = calls[c].try
  /\ Answer(c, "ok", {Len(rows) + 1}) /\ Owe("hold", Len(rows) + 1)

BookingMade(c) ==
  /\ calls[c].what = "confirm" /\ calls[c].arg \in Held
  /\ \E r \in BookingRow :
       /\ bookings' = Append(bookings, r) /\ r.hold = calls[c].arg /\ r.status = "CONFIRMED"
       /\ r.key = calls[c].key /\ r.try = calls[c].try
  /\ rows' = [rows EXCEPT ![calls[c].arg].end = "booked"]
  /\ Answer(c, "ok", {<<Len(bookings) + 1, "CONFIRMED">>}) /\ Owe("booking", Len(bookings) + 1)

BookingEnded(c) ==
  /\ calls[c].what = "cancel" /\ calls[c].arg \in Confirmed /\ UNCHANGED rows
  /\ bookings' = [bookings EXCEPT ![calls[c].arg].status = "CANCELLED"]
  /\ Answer(c, "ok", {<<calls[c].arg, "CANCELLED">>}) /\ Owe("cancel", calls[c].arg)

(* What a handler that changes nothing answers. *)
LEMMA RepliesReply ==
  ASSUME NEW c, NEW verdict \in {"ok", "refused"}, NEW value \in SUBSET Answers,
         Replies(c, verdict, value), ReplyOf(c, verdict, value)
  PROVE  Replied(c)
  <1>1. Answer(c, verdict, value) /\ UNCHANGED <<rows, bookings, history>>
    BY DEF Replies, server
  <1>2. \E w \in {"ok", "refused"}, v \in SUBSET Answers : Answer(c, w, v) /\ ReplyOf(c, w, v)
    BY <1>1
  <1> QED BY <1>1, <1>2 DEF Replied

(* What the API does with a request: it answers, or makes a row, or ends   *)
(* one.                                                                    *)
LEMMA ServeCases ==
  ASSUME Types, CallShapes, NEW c \in Callers, Serve(c)
  PROVE  /\ calls[c].step = "sent" /\ UNCHANGED <<now, page, actions>>
         /\ Replied(c) \/ HoldMade(c) \/ BookingMade(c) \/ BookingEnded(c)
  <1> SUFFICES Replied(c) \/ HoldMade(c) \/ BookingMade(c) \/ BookingEnded(c)
    BY DEF Serve, bounds
  <1>0. /\ rows \in Seq(HoldRow) /\ bookings \in Seq(BookingRow) /\ now \in Nat
        /\ calls[c] \in CallRow
    BY DEF Types
  <1>1. CASE calls[c].what = "session" /\ (Replies(c, "ok", {}) \/ Replies(c, "refused", {}))
    <2>1. {} \in SUBSET Answers
      OBVIOUS
    <2>2. PICK verdict \in {"ok", "refused"} : Replies(c, verdict, {})
      BY <1>1
    <2>3. ReplyOf(c, verdict, {})
      BY <1>1 DEF ReplyOf
    <2> QED BY <2>1, <2>2, <2>3, RepliesReply
  <1>2. CASE calls[c].what = "detail" /\ GetDetail(c)
    <2>1. PICK value \in SUBSET Answers : Replies(c, "ok", value)
      <3>1. Open \in SUBSET Answers /\ {} \in SUBSET Answers
        BY DEF Open, Answers
      <3> QED BY <1>2, <3>1 DEF GetDetail
    <2>2. ReplyOf(c, "ok", value)
      BY <1>2 DEF ReplyOf
    <2> QED BY <2>1, <2>2, RepliesReply
  <1>3. CASE calls[c].what = "holds" /\ GetMyHolds(c)
    <2>1. ActiveHolds(Held) \in SUBSET Answers
      BY <1>0 DEF ActiveHolds, Held, Answers
    <2>2. ReplyOf(c, "ok", ActiveHolds(Held))
      BY <1>3 DEF ReplyOf
    <2> QED BY <1>3, <2>1, <2>2, RepliesReply DEF GetMyHolds
  <1>4. CASE calls[c].what = "bookings" /\ GetMyBookings(c)
    <2> DEFINE list == {<<b, bookings[b].status>> : b \in DOMAIN bookings}
    <2>1. list \in SUBSET Answers
      <3>1. ASSUME NEW b \in DOMAIN bookings
            PROVE  b \in Nat /\ bookings[b].status \in BookingStatus
        <4>1. b \in Nat /\ bookings[b] \in BookingRow
          BY <1>0
        <4> QED BY <4>1 DEF BookingRow
      <3> QED BY <3>1 DEF Answers
    <2>2. ReplyOf(c, "ok", list)
      BY <1>4 DEF ReplyOf
    <2>3. Replies(c, "ok", list)
      BY <1>4 DEF GetMyBookings
    <2> QED BY <2>1, <2>2, <2>3, RepliesReply
  <1>5. CASE calls[c].what = "hold" /\ CreateHold(c)
    <2> DEFINE replay ==
          {h \in DOMAIN rows : rows[h].slot = calls[c].arg /\ rows[h].key = calls[c].key}
    <2>1. replay \in SUBSET Answers /\ {} \in SUBSET Answers
      BY <1>0 DEF Answers
    <2>2. CASE replay # {} /\ Replies(c, "ok", replay)
      <3>1. ReplyOf(c, "ok", replay)
        BY <1>5, <2>2 DEF ReplyOf
      <3> QED BY <2>1, <2>2, <3>1, RepliesReply
    <2>3. CASE replay = {} /\ Replies(c, "refused", {})
      <3>1. ReplyOf(c, "refused", {})
        BY <1>5, <2>3 DEF ReplyOf
      <3> QED BY <2>1, <2>3, <3>1, RepliesReply
    <2>4. CASE replay = {} /\ calls[c].arg \in Open /\ ~Replies(c, "refused", {})
      <3> DEFINE r == [slot |-> calls[c].arg, until |-> now + HoldTtl, end |-> "held",
                       key |-> calls[c].key, try |-> calls[c].try]
      <3>1. now + HoldTtl \in Nat /\ calls[c].arg \in Slots
        BY <1>0, <2>4, CheckoutAssumption DEF Open
      <3>2. /\ r \in HoldRow /\ r.slot = calls[c].arg /\ r.end = "held"
            /\ r.key = calls[c].key /\ r.try = calls[c].try
        BY <1>0, <3>1 DEF HoldRow, CallRow
      <3>3. rows' = Append(rows, r) /\ Answer(c, "ok", {Len(rows) + 1})
            /\ Owe("hold", Len(rows) + 1) /\ UNCHANGED bookings
        BY <1>5, <2>4 DEF CreateHold
      <3> HIDE DEF r
      <3> QED BY <1>5, <3>2, <3>3 DEF HoldMade
    <2> QED BY <1>5, <2>2, <2>3, <2>4 DEF CreateHold
  <1>6. CASE calls[c].what = "confirm" /\ ConfirmHold(c)
    <2> DEFINE h == calls[c].arg
               replay == {b \in DOMAIN bookings :
                            bookings[b].hold = h /\ bookings[b].key = calls[c].key}
               said == {<<b, "CONFIRMED">> : b \in replay}
    <2>1. said \in SUBSET Answers /\ {} \in SUBSET Answers
      BY <1>0 DEF Answers, BookingStatus
    <2>2. CASE replay # {}
      <3>1. Replies(c, "ok", said)
        BY <1>6, <2>2 DEF ConfirmHold
      <3>2. ReplyOf(c, "ok", said)
        BY <1>6, <2>2 DEF ReplyOf
      <3> QED BY <2>1, <3>1, <3>2, RepliesReply
    <2>3. CASE replay = {} /\ (h \notin ActiveHolds(Held) \/ BookedBefore(rows[h].slot))
      <3>1. Replies(c, "refused", {})
        BY <1>6, <2>3 DEF ConfirmHold
      <3>2. ReplyOf(c, "refused", {})
        BY <1>6, <2>3 DEF ReplyOf
      <3> QED BY <2>1, <3>1, <3>2, RepliesReply
    <2>4. CASE replay = {} /\ h \in ActiveHolds(Held) /\ ~BookedBefore(rows[h].slot)
      <3> DEFINE r == [slot |-> rows[h].slot, hold |-> h, status |-> "CONFIRMED",
                       key |-> calls[c].key, try |-> calls[c].try]
      <3>1. h \in Held /\ h \in Nat /\ rows[h] \in HoldRow
        BY <1>0, <2>4 DEF ActiveHolds, Held
      <3>2. /\ r \in BookingRow /\ r.hold = h /\ r.status = "CONFIRMED"
            /\ r.key = calls[c].key /\ r.try = calls[c].try
        BY <1>0, <3>1 DEF HoldRow, BookingRow, BookingStatus, CallRow
      <3>3. /\ bookings' = Append(bookings, r) /\ rows' = [rows EXCEPT ![h].end = "booked"]
            /\ Answer(c, "ok", {<<Len(bookings) + 1, "CONFIRMED">>})
            /\ Owe("booking", Len(bookings) + 1)
        BY <1>6, <2>4 DEF ConfirmHold
      <3> HIDE DEF r
      <3> QED BY <1>6, <3>1, <3>2, <3>3 DEF BookingMade
    <2> QED BY <2>2, <2>3, <2>4
  <1>7. CASE calls[c].what = "cancel" /\ CancelBooking(c)
    <2>1. CASE Replies(c, "refused", {})
      <3>1. ReplyOf(c, "refused", {}) /\ {} \in SUBSET Answers
        BY <1>7 DEF ReplyOf
      <3> QED BY <2>1, <3>1, RepliesReply
    <2>2. CASE ~Replies(c, "refused", {})
      BY <1>7, <2>2 DEF CancelBooking, BookingEnded
    <2> QED BY <2>1, <2>2
  <1> QED BY <1>1, <1>2, <1>3, <1>4, <1>5, <1>6, <1>7 DEF Serve

-----------------------------------------------------------------------------
(* The server makes a hold.                                                *)

(* Only an action, in sight or forgotten by its page, changes rows.        *)
LEMMA ChangersAct ==
  ASSUME CallShapes, NEW c \in Callers, calls[c].what \in {"hold", "confirm", "cancel"}
  PROVE  c \in {"act", "orphan"}
  BY DEF CallShapes, KindsOf, Callers

(* A change that the page does not know of yet leaves what it and the      *)
(* lists under way should show as it is.                                   *)
LEMMA UntoldChange ==
  ASSUME Types, IInv, NEW o \in Change, o.at = history.version + 1,
         history'.owed = history.owed \cup {o}, history'.version = history.version + 1,
         history'.crossed = history.crossed, UNCHANGED <<now, page>>,
         calls'["holds"] = calls["holds"], calls'["bookings"] = calls["bookings"],
         \A h \in DOMAIN rows : h \in DOMAIN rows' /\ rows'[h].until = rows[h].until,
         DOMAIN bookings \subseteq DOMAIN bookings',
         \A P \in SUBSET Change :
           /\ ShownHolds(P \cup {o})' = ShownHolds(P)
           /\ ShownBookings(P \cup {o})' = ShownBookings(P)
  PROVE  ListTypes' /\ ListsTell' /\ PageAgrees'
  <1>0. history.version \in Nat /\ history.owed \in SUBSET Change
    BY DEF Types, History
  <1>1. ListTypes'
    BY DEF IInv, ListTypes
  <1>2. \A S \in SUBSET DOMAIN rows : ActiveHolds(S)' = ActiveHolds(S)
    BY DEF ActiveHolds
  <1>3. ASSUME NEW v \in Nat, v <= history.version, NothingTold(v)'
        PROVE  /\ NothingTold(v)
               /\ ShownHolds(Since(v))' = ShownHolds(Since(v))
               /\ ShownBookings(Since(v))' = ShownBookings(Since(v))
    <2>1. NothingTold(v)
      BY <1>0, <1>3 DEF NothingTold, Change
    <2>2. PICK P \in SUBSET Change : P = Since(v)
      BY <1>0 DEF Since
    <2>3. Since(v)' = P \cup {o}
      BY <1>0, <1>3, <2>2 DEF Since
    <2>4. ShownHolds(Since(v))' = ShownHolds(P \cup {o})'
      BY <2>3 DEF ShownHolds, Among
    <2>5. ShownBookings(Since(v))' = ShownBookings(P \cup {o})'
      BY <2>3 DEF ShownBookings, Among
    <2> QED BY <2>1, <2>2, <2>4, <2>5
  <1>4. ListsTell'
    <2>1. /\ calls["holds"].at \in Nat /\ calls["holds"].at <= history.version
          /\ calls["bookings"].at \in Nat /\ calls["bookings"].at <= history.version
      BY DEF IInv, Changes, Types, CallRow, Callers
    <2>2. (calls["holds"].step = "ok" /\ NothingTold(calls["holds"].at) =>
            /\ calls["holds"].value \subseteq DOMAIN rows
            /\ ActiveHolds(calls["holds"].value) = ShownHolds(Since(calls["holds"].at)))'
      <3> SUFFICES ASSUME calls["holds"].step = "ok", NothingTold(calls["holds"].at)'
          PROVE  /\ calls["holds"].value \subseteq DOMAIN rows'
                 /\ ActiveHolds(calls["holds"].value)' = ShownHolds(Since(calls["holds"].at))'
        OBVIOUS
      <3>1. PICK v \in Nat : v = calls["holds"].at /\ v <= history.version
        BY <2>1
      <3>2. NothingTold(v)'
        BY <3>1 DEF NothingTold
      <3>3. NothingTold(v) /\ ShownHolds(Since(v))' = ShownHolds(Since(v))
        BY <1>3, <3>1, <3>2
      <3>4. calls["holds"].value \subseteq DOMAIN rows
            /\ ActiveHolds(calls["holds"].value) = ShownHolds(Since(v))
        BY <3>1, <3>3 DEF IInv, ListsTell
      <3>5. PICK S \in SUBSET DOMAIN rows : S = calls["holds"].value
        BY <3>4
      <3>6. ActiveHolds(S)' = ActiveHolds(S)
        BY <1>2
      <3>7. ActiveHolds(calls["holds"].value)' = ActiveHolds(S)'
        BY <3>5 DEF ActiveHolds
      <3>8. ShownHolds(Since(calls["holds"].at))' = ShownHolds(Since(v))'
        BY <3>1 DEF ShownHolds, Since, Among
      <3> QED BY <3>3, <3>4, <3>5, <3>6, <3>7, <3>8
    <2>3. (calls["bookings"].step = "ok" /\ NothingTold(calls["bookings"].at) =>
             calls["bookings"].value = ShownBookings(Since(calls["bookings"].at)))'
      <3> SUFFICES ASSUME calls["bookings"].step = "ok", NothingTold(calls["bookings"].at)'
          PROVE  calls["bookings"].value = ShownBookings(Since(calls["bookings"].at))'
        OBVIOUS
      <3>1. PICK v \in Nat : v = calls["bookings"].at /\ v <= history.version
        BY <2>1
      <3>2. NothingTold(v)'
        BY <3>1 DEF NothingTold
      <3>3. NothingTold(v) /\ ShownBookings(Since(v))' = ShownBookings(Since(v))
        BY <1>3, <3>1, <3>2
      <3>4. calls["bookings"].value = ShownBookings(Since(v))
        BY <3>1, <3>3 DEF IInv, ListsTell
      <3>5. ShownBookings(Since(calls["bookings"].at))' = ShownBookings(Since(v))'
        BY <3>1 DEF ShownBookings, Since, Among
      <3> QED BY <3>3, <3>4, <3>5
    <2> QED BY <2>2, <2>3 DEF ListsTell
  <1>5. PageAgrees'
    <2> SUFFICES ASSUME page.known, ~history.crossed
        PROVE  /\ page.kind = "checkout" => ActiveHolds(page.holds)' = ShownHolds(history.owed)'
               /\ page.bookings = ShownBookings(history.owed)'
      BY DEF PageAgrees
    <2>1. /\ page.kind = "checkout" => ActiveHolds(page.holds) = ShownHolds(history.owed)
          /\ page.bookings = ShownBookings(history.owed)
      BY DEF IInv, PageAgrees
    <2>2. PICK P \in SUBSET Change : P = history.owed
      BY <1>0
    <2>3. ShownHolds(history.owed)' = ShownHolds(P \cup {o})'
      BY <2>2 DEF ShownHolds, Among
    <2>4. ShownBookings(history.owed)' = ShownBookings(P \cup {o})'
      BY <2>2 DEF ShownBookings, Among
    <2>5. PICK S \in SUBSET DOMAIN rows : S = page.holds
      BY DEF IInv, RowsAgree
    <2>6. ActiveHolds(page.holds)' = ActiveHolds(S)'
      BY <2>5 DEF ActiveHolds
    <2>7. ActiveHolds(S)' = ActiveHolds(page.holds)
      BY <1>2, <2>5
    <2> QED BY <2>1, <2>2, <2>3, <2>4, <2>6, <2>7
  <1> QED BY <1>1, <1>4, <1>5

(* A new hold row, told by its answer or owed to the page. *)
LEMMA HoldMadeKeeps ==
  ASSUME Types, IInv, NEW c \in Callers, calls[c].step = "sent", HoldMade(c),
         UNCHANGED <<now, page, actions>>
  PROVE  Types' /\ IInv'
  <1>0. /\ rows \in Seq(HoldRow) /\ bookings \in Seq(BookingRow) /\ now \in Nat /\ actions \in Nat
        /\ history \in History /\ history.version \in Nat /\ calls[c] \in CallRow
        /\ c \in {"act", "orphan"}
    BY ChangersAct DEF Types, History, IInv, HoldMade
  <1>1. PICK n \in Nat : n = Len(rows) + 1
    BY <1>0
  <1>2. PICK r \in HoldRow : /\ rows' = Append(rows, r) /\ r.slot = calls[c].arg /\ r.end = "held"
                             /\ r.key = calls[c].key /\ r.try = calls[c].try
    BY DEF HoldMade
  <1>3. /\ rows' \in Seq(HoldRow) /\ DOMAIN rows' = DOMAIN rows \cup {n} /\ n \notin DOMAIN rows
        /\ rows'[n] = r /\ \A h \in DOMAIN rows : rows'[h] = rows[h] /\ h \in Nat
    BY <1>0, <1>1, <1>2
  <1>4. /\ calls' \in [Callers -> CallRow]
        /\ \A d \in Callers : d # c => calls'[d] = calls[d]
        /\ c = "orphan" => calls'[c] = None
        /\ c # "orphan" =>
              /\ calls'[c].what = calls[c].what /\ calls'[c].arg = calls[c].arg
              /\ calls'[c].key = calls[c].key /\ calls'[c].try = calls[c].try
              /\ calls'[c].step = "ok" /\ calls'[c].value = {n}
              /\ calls'[c].at = history.version
    <2>1. {n} \in SUBSET Answers /\ Answer(c, "ok", {n})
      BY <1>1 DEF Answers, HoldMade
    <2> QED BY <2>1, Answering
  <1>5. PICK o \in Change :
           /\ o.what = "hold" /\ o.id = n /\ o.at = history.version + 1
           /\ history' \in History /\ history'.version = history.version + 1
           /\ history'.owed = history.owed \cup {o}
           /\ history'.crossed = history.crossed /\ history'.streak = history.streak
           /\ history'.mounted = history.mounted
    <2>1. Owe("hold", n)
      BY <1>1 DEF HoldMade
    <2> QED BY <2>1, Owing
  <1>6. UNCHANGED bookings /\ calls[c].what = "hold"
    BY DEF HoldMade
  <1>7. Types'
    BY <1>0, <1>3, <1>4, <1>5, <1>6 DEF Types
  <1>8. CallShapes'
    BY <1>0, <1>3, <1>4, <1>6, NoneIsCall DEF IInv, CallShapes, IsCalling, Callers, KindsOf
  <1>9. Counted'
    <2>0. Counted
      BY DEF IInv
    <2>1. (history.mounted <= history.streak /\ history.streak <= actions)'
      BY <1>5, <2>0 DEF Counted
    <2>2. (\A h \in DOMAIN rows : rows[h].key <= rows[h].try /\ rows[h].try <= actions)'
      BY <1>2, <1>3, <2>0 DEF Counted
    <2>3. (\A b \in DOMAIN bookings : bookings[b].key <= bookings[b].try /\ bookings[b].try <= actions)'
      BY <1>6, <2>0 DEF Counted
    <2>4. (\A d \in Callers : calls[d].key <= calls[d].try /\ calls[d].try <= actions)'
      BY <1>0, <1>4, <2>0, NoneIsCall DEF Counted
    <2>5. (calls["orphan"].try <= history.mounted)'
      BY <1>0, <1>4, <1>5, <2>0, NoneIsCall DEF Counted, Callers, History
    <2>6. (page.attempt.slot # 0 => history.streak < page.attempt.key /\ page.attempt.key <= actions)'
      BY <1>5, <2>0 DEF Counted
    <2>7. (\A k \in page.keys : history.mounted < k[2] /\ k[2] <= actions)'
      BY <1>5, <2>0 DEF Counted
    <2>8. (calls["orphan"].what = "cancel" =>
             bookings[calls["orphan"].arg].key <= history.mounted)'
      BY <1>0, <1>4, <1>5, <1>6, <2>0, NoneIsCall DEF Counted, Callers
    <2> QED BY <2>1, <2>2, <2>3, <2>4, <2>5, <2>6, <2>7, <2>8 DEF Counted
  <1>10. RowsAgree'
    BY <1>0, <1>2, <1>3, <1>6 DEF IInv, RowsAgree
  <1>11. Changes'
    <2>0. Changes
      BY DEF IInv
    <2>1. (\A p \in history.owed :
             /\ 0 < p.at /\ p.at <= history.version
             /\ p.what = "hold" => p.id \in DOMAIN rows
             /\ p.what # "hold" => p.id \in DOMAIN bookings)'
      BY <1>0, <1>3, <1>5, <1>6, <2>0 DEF Changes, History, Change
    <2>2. (\A p, q \in history.owed : p.at = q.at => p = q)'
      BY <1>0, <1>5, <2>0 DEF Changes, History, Change
    <2>3. (\A d \in {"holds", "bookings"} : calls[d].at <= history.version)'
      <3>1. ASSUME NEW d \in {"holds", "bookings"} PROVE calls'[d] = calls[d] /\ calls[d] \in CallRow
        BY <1>0, <1>4 DEF Callers, Types
      <3> QED BY <1>0, <1>5, <2>0, <3>1, SMTT(30) DEF Changes, CallRow
    <2> QED BY <2>1, <2>2, <2>3 DEF Changes
  <1>12. Attempts'
    <2>0. Attempts /\ Counted
      BY DEF IInv
    <2>1. (calls["act"].what = "hold" =>
             page.attempt.slot = calls["act"].arg /\ page.attempt.key = calls["act"].key
               /\ calls["act"].arg \in Slots)'
      BY <1>0, <1>4, <2>0, NoneIsCall DEF Attempts, Callers
    <2>2. (\A h \in DOMAIN rows : rows[h].try > history.streak =>
             rows[h].slot = page.attempt.slot /\ rows[h].key = page.attempt.key)'
      <3>1. c = "orphan" => ~(r.try > history.streak)
        BY <1>0, <1>2, <2>0 DEF Counted, History, CallRow
      <3>2. c = "act" => r.slot = page.attempt.slot /\ r.key = page.attempt.key
        BY <1>2, <1>6, <2>0 DEF Attempts
      <3> QED BY <1>0, <1>3, <1>5, <2>0, <3>1, <3>2 DEF Attempts
    <2>3. (calls["orphan"].what = "hold" => calls["orphan"].arg \in Slots)'
      BY <1>0, <1>4, <2>0, NoneIsCall DEF Attempts, Callers
    <2> QED BY <2>1, <2>2, <2>3 DEF Attempts
  <1>13. AnswersNow'
    <2>0. AnswersNow
      BY DEF IInv
    <2>1. CASE c = "act"
      <3>1. /\ calls'["act"].what = "hold" /\ calls'["act"].value = {n}
            /\ rows'[n].slot = calls'["act"].arg /\ rows'[n].key = calls'["act"].key
        BY <1>2, <1>3, <1>4, <1>6, <2>1 DEF Callers
      <3> QED BY <1>3, <3>1 DEF AnswersNow
    <2>2. CASE c = "orphan"
      <3>1. calls'["act"] = calls["act"]
        BY <1>4, <2>2 DEF Callers
      <3> QED BY <1>3, <1>6, <2>0, <3>1 DEF AnswersNow
    <2> QED BY <1>0, <2>1, <2>2
  <1>14. HoldTriedInVain'
    <2>1. CASE c = "act"
      BY <1>4, <2>1 DEF HoldTriedInVain, Callers
    <2>2. CASE c = "orphan"
      <3>1. calls'["act"] = calls["act"]
        BY <1>4, <2>2 DEF Callers
      <3>2. r.try <= history.streak
        BY <1>0, <1>2, <2>2 DEF IInv, Counted, History, HoldRow
      <3> QED BY <1>3, <1>5, <3>1, <3>2 DEF HoldTriedInVain, IInv
    <2> QED BY <1>0, <2>1, <2>2
  <1>15. calls'["holds"] = calls["holds"] /\ calls'["bookings"] = calls["bookings"]
         /\ calls'["session"] = calls["session"]
    BY <1>0, <1>4 DEF Callers
  <1>17. ListTypes' /\ ListsTell' /\ PageAgrees'
    <2>1. ASSUME NEW P \in SUBSET Change
          PROVE  /\ ShownHolds(P \cup {o})' = ShownHolds(P)
                 /\ ShownBookings(P \cup {o})' = ShownBookings(P)
      <3>1. \A b \in DOMAIN bookings : bookings[b].hold \in DOMAIN rows
        BY DEF IInv, RowsAgree
      <3>2. ShownHolds(P \cup {o})' = ShownHolds(P)
        BY <1>0, <1>2, <1>3, <1>5, <1>6, <3>1 DEF ShownHolds, Among, ActiveHolds, Held
      <3>3. ShownBookings(P \cup {o})' = ShownBookings(P)
        BY <1>5, <1>6 DEF ShownBookings, Among
      <3> QED BY <3>2, <3>3
    <2> QED BY <1>3, <1>5, <1>6, <1>15, <2>1, UntoldChange
  <1>18. \A b : Cancelling(b)' => Cancelling(b)
    <2>1. \A d \in {"act", "orphan"} : calls'[d].what = "cancel" => calls'[d] = calls[d]
      BY <1>0, <1>4, <1>6, NoneIsCall DEF Callers
    <2> QED BY <1>6, <2>1 DEF Cancelling
  <1>19. Fresh' = Fresh /\ Trusted' = Trusted
    BY <1>5, <1>15 DEF Fresh, Trusted, IsCalling
  <1>20. CancelledIsOld'
    BY <1>5, <1>15, <1>18 DEF IInv, CancelledIsOld
  <1>21. ToldIsPaid'
    BY <1>5, <1>19 DEF IInv, ToldIsPaid, Among
  <1>22. UntoldIsUntouched'
    <2>1. \A d \in {"act", "orphan"} : calls'[d].what = "confirm" =>
            calls[d].what = "confirm" /\ calls'[d].arg = calls[d].arg /\ calls[d].arg \in DOMAIN rows
      BY <1>0, <1>4, <1>6, NoneIsCall DEF Callers, IInv, CallShapes
    <2>2. page.holds \subseteq DOMAIN rows
      BY DEF IInv, RowsAgree
    <2> QED BY <1>2, <1>3, <1>5, <1>19, <2>1, <2>2 DEF IInv, UntoldIsUntouched
  <1>23. Keys'
    <2>1. calls'["act"].what = "confirm" => calls'["act"] = calls["act"]
      BY <1>0, <1>4, <1>6 DEF Callers
    <2> QED BY <1>5, <1>6, <2>1 DEF IInv, Keys, Among
  <1>24. HoldsOnPage'
    <2>1. ActiveHolds(page.holds)' = ActiveHolds(page.holds)
      BY <1>3 DEF ActiveHolds, IInv, RowsAgree
    <2> QED BY <1>5, <1>6, <1>18, <1>19, <2>1 DEF IInv, HoldsOnPage
  <1>25. ConfirmUnderWay'
    <2>1. calls'["act"].what = "confirm" => calls'["act"] = calls["act"]
      BY <1>0, <1>4, <1>6 DEF Callers
    <2> QED BY <1>5, <1>6, <1>19, <2>1 DEF IInv, ConfirmUnderWay
  <1> QED BY <1>7, <1>8, <1>9, <1>10, <1>11, <1>12, <1>13, <1>14, <1>17, <1>20, <1>21, <1>22, <1>23,
             <1>24, <1>25 DEF IInv

(* A new booking, which ends its hold. *)
LEMMA BookingMadeKeeps ==
  ASSUME Types, IInv, NEW c \in Callers, calls[c].step = "sent", BookingMade(c),
         UNCHANGED <<now, page, actions>>
  PROVE  Types' /\ IInv'
  <1>0. /\ rows \in Seq(HoldRow) /\ bookings \in Seq(BookingRow) /\ now \in Nat /\ actions \in Nat
        /\ history \in History /\ history.version \in Nat /\ calls[c] \in CallRow
        /\ c \in {"act", "orphan"}
    BY ChangersAct DEF Types, History, IInv, BookingMade
  <1>1. PICK m \in Nat : m = Len(bookings) + 1
    BY <1>0
  <1>2. PICK g \in DOMAIN rows : g = calls[c].arg /\ rows[g].end = "held"
    BY DEF BookingMade, Held
  <1>3. PICK r \in BookingRow : /\ bookings' = Append(bookings, r) /\ r.hold = g
                                /\ r.status = "CONFIRMED" /\ r.key = calls[c].key
                                /\ r.try = calls[c].try
    BY <1>2 DEF BookingMade
  <1>4. /\ bookings' \in Seq(BookingRow) /\ DOMAIN bookings' = DOMAIN bookings \cup {m}
        /\ m \notin DOMAIN bookings /\ bookings'[m] = r
        /\ \A b \in DOMAIN bookings : bookings'[b] = bookings[b] /\ b \in Nat
    BY <1>0, <1>1, <1>3
  <1>5. /\ rows' \in Seq(HoldRow) /\ DOMAIN rows' = DOMAIN rows
        /\ \A h \in DOMAIN rows :
             /\ rows'[h].slot = rows[h].slot /\ rows'[h].until = rows[h].until
             /\ rows'[h].key = rows[h].key /\ rows'[h].try = rows[h].try
             /\ rows'[h].end = IF h = g THEN "booked" ELSE rows[h].end
    <2>1. rows' = [rows EXCEPT ![g].end = "booked"]
      BY <1>2 DEF BookingMade
    <2>2. "booked" \in {"held", "booked", "expired"}
      OBVIOUS
    <2>3. LET t == [rows EXCEPT ![g].end = "booked"]
          IN /\ t \in Seq(HoldRow) /\ DOMAIN t = DOMAIN rows
             /\ \A h \in DOMAIN rows :
                  /\ t[h].slot = rows[h].slot /\ t[h].until = rows[h].until
                  /\ t[h].key = rows[h].key /\ t[h].try = rows[h].try
                  /\ t[h].end = IF h = g THEN "booked" ELSE rows[h].end
      BY <1>0, <2>2, RowEnds, ZenonT(60)
    <2> QED BY <2>1, <2>3
  <1>6. /\ calls' \in [Callers -> CallRow]
        /\ \A d \in Callers : d # c => calls'[d] = calls[d]
        /\ c = "orphan" => calls'[c] = None
        /\ c # "orphan" =>
              /\ calls'[c].what = calls[c].what /\ calls'[c].arg = calls[c].arg
              /\ calls'[c].key = calls[c].key /\ calls'[c].try = calls[c].try
              /\ calls'[c].step = "ok" /\ calls'[c].value = {<<m, "CONFIRMED">>}
              /\ calls'[c].at = history.version
    <2>1. {<<m, "CONFIRMED">>} \in SUBSET Answers /\ Answer(c, "ok", {<<m, "CONFIRMED">>})
      BY <1>1 DEF Answers, BookingStatus, BookingMade
    <2> QED BY <2>1, Answering
  <1>7. PICK o \in Change :
           /\ o.what = "booking" /\ o.id = m /\ o.at = history.version + 1
           /\ history' \in History /\ history'.version = history.version + 1
           /\ history'.owed = history.owed \cup {o}
           /\ history'.crossed = history.crossed /\ history'.streak = history.streak
           /\ history'.mounted = history.mounted
    <2>1. Owe("booking", m)
      BY <1>1 DEF BookingMade
    <2> QED BY <2>1, Owing
  <1>8. calls[c].what = "confirm"
    BY DEF BookingMade
  <1>9. /\ calls'["holds"] = calls["holds"] /\ calls'["bookings"] = calls["bookings"]
        /\ calls'["session"] = calls["session"]
        /\ c = "act" => calls'["orphan"] = calls["orphan"]
        /\ c = "orphan" => calls'["act"] = calls["act"]
    BY <1>0, <1>6 DEF Callers
  <1>10. \A b \in DOMAIN bookings : bookings[b].hold # g
    BY <1>2 DEF IInv, RowsAgree
  <1>11. Types'
    BY <1>0, <1>4, <1>5, <1>6, <1>7 DEF Types
  <1>12. CallShapes'
    <2>0. CallShapes
      BY DEF IInv
    <2>1. (\A d \in Callers : calls[d].what \in KindsOf(d) /\ (calls[d].step = "none" <=> calls[d].what = "none"))'
      BY <1>0, <1>6, <1>8, <2>0, NoneIsCall DEF CallShapes, KindsOf
    <2>2. (/\ IsCalling("act") => page.busy
           /\ calls["orphan"].step \in {"none", "sent"}
           /\ page.kind = "mine" => ~IsCalling("holds")
           /\ page.kind = "checkout" => (IsCalling("holds") <=> IsCalling("bookings"))
           /\ IsCalling("session") => ~IsCalling("holds") /\ ~IsCalling("bookings"))'
      BY <1>0, <1>6, <1>8, <1>9, <2>0, NoneIsCall DEF CallShapes, IsCalling, Callers
    <2>3. (/\ \A d \in Callers : calls[d].what = "confirm" => calls[d].arg \in DOMAIN rows
           /\ \A d \in Callers : calls[d].what = "cancel" => calls[d].arg \in DOMAIN bookings)'
      <3>1. \A d \in Callers : calls'[d].what # "none" =>
              calls'[d].what = calls[d].what /\ calls'[d].arg = calls[d].arg
        BY <1>6, NoneIsCall
      <3> QED BY <1>4, <1>5, <2>0, <3>1, ZenonT(60) DEF CallShapes
    <2> QED BY <2>1, <2>2, <2>3 DEF CallShapes
  <1>13. Counted'
    <2>0. Counted
      BY DEF IInv
    <2>1. (history.mounted <= history.streak /\ history.streak <= actions)'
      BY <1>7, <2>0 DEF Counted
    <2>2. (\A h \in DOMAIN rows : rows[h].key <= rows[h].try /\ rows[h].try <= actions)'
      BY <1>5, <2>0 DEF Counted
    <2>3. (\A b \in DOMAIN bookings : bookings[b].key <= bookings[b].try /\ bookings[b].try <= actions)'
      BY <1>3, <1>4, <2>0 DEF Counted
    <2>4. (\A d \in Callers : calls[d].key <= calls[d].try /\ calls[d].try <= actions)'
      BY <1>0, <1>6, <2>0, NoneIsCall DEF Counted
    <2>5. (calls["orphan"].try <= history.mounted)'
      BY <1>0, <1>6, <1>7, <2>0, NoneIsCall DEF Counted, Callers, History
    <2>6. (page.attempt.slot # 0 => history.streak < page.attempt.key /\ page.attempt.key <= actions)'
      BY <1>7, <2>0 DEF Counted
    <2>7. (\A k \in page.keys : history.mounted < k[2] /\ k[2] <= actions)'
      BY <1>7, <2>0 DEF Counted
    <2>8. (calls["orphan"].what = "cancel" =>
             bookings[calls["orphan"].arg].key <= history.mounted)'
      <3>1. calls'["orphan"].what = "cancel" =>
              calls'["orphan"] = calls["orphan"] /\ calls["orphan"].arg \in DOMAIN bookings
        BY <1>0, <1>6, <1>8, <1>9, NoneIsCall DEF IInv, CallShapes, Callers
      <3> QED BY <1>4, <1>7, <2>0, <3>1 DEF Counted
    <2> QED BY <2>1, <2>2, <2>3, <2>4, <2>5, <2>6, <2>7, <2>8 DEF Counted
  <1>14. RowsAgree'
    <2>0. RowsAgree
      BY DEF IInv
    <2>1. (\A h \in DOMAIN rows : rows[h].end = "expired" => rows[h].until <= now)'
      BY <1>5, <2>0 DEF RowsAgree
    <2>2. (\A b \in DOMAIN bookings :
             bookings[b].hold \in DOMAIN rows /\ rows[bookings[b].hold].end = "booked")'
      <3> SUFFICES ASSUME NEW b \in DOMAIN bookings'
          PROVE  bookings'[b].hold \in DOMAIN rows /\ rows'[bookings'[b].hold].end = "booked"
        BY <1>5
      <3>1. bookings'[b].hold \in DOMAIN rows
            /\ (bookings'[b].hold = g \/ rows[bookings'[b].hold].end = "booked")
        BY <1>3, <1>4, <2>0 DEF RowsAgree
      <3> QED BY <1>5, <3>1
    <2>3. (\A b, d \in DOMAIN bookings : bookings[b].hold = bookings[d].hold => b = d)'
      BY <1>3, <1>4, <1>10, <2>0 DEF RowsAgree
    <2>4. (page.holds \subseteq DOMAIN rows /\ \A x \in page.bookings : x[1] \in DOMAIN bookings)'
      BY <1>4, <1>5, <2>0 DEF RowsAgree
    <2> QED BY <2>1, <2>2, <2>3, <2>4 DEF RowsAgree
  <1>15. Changes'
    <2>0. Changes
      BY DEF IInv
    <2>1. (\A p \in history.owed :
             /\ 0 < p.at /\ p.at <= history.version
             /\ p.what = "hold" => p.id \in DOMAIN rows
             /\ p.what # "hold" => p.id \in DOMAIN bookings)'
      BY <1>0, <1>4, <1>5, <1>7, <2>0 DEF Changes, History, Change
    <2>2. (\A p, q \in history.owed : p.at = q.at => p = q)'
      BY <1>0, <1>7, <2>0 DEF Changes, History, Change
    <2>3. (\A d \in {"holds", "bookings"} : calls[d].at <= history.version)'
      <3>1. ASSUME NEW d \in {"holds", "bookings"} PROVE calls'[d] = calls[d] /\ calls[d] \in CallRow
        BY <1>0, <1>6 DEF Callers, Types
      <3>2. \A d \in {"holds", "bookings"} :
              calls[d].at \in Nat /\ calls[d].at <= history.version /\ calls'[d].at = calls[d].at
        BY <2>0, <3>1 DEF Changes, CallRow
      <3> QED BY <1>0, <1>7, <3>2
    <2> QED BY <2>1, <2>2, <2>3 DEF Changes
  <1>16. Attempts'
    <2>1. calls'["act"].what = "hold" => calls'["act"] = calls["act"]
      BY <1>0, <1>6, <1>8, <1>9, NoneIsCall
    <2>2. calls'["orphan"].what = "hold" => calls'["orphan"] = calls["orphan"]
      BY <1>0, <1>6, <1>8, <1>9, NoneIsCall
    <2> QED BY <1>5, <1>7, <2>1, <2>2 DEF IInv, Attempts
  <1>17. AnswersNow'
    <2>1. CASE c = "act"
      BY <1>3, <1>4, <1>6, <1>8, <1>2, <2>1 DEF AnswersNow
    <2>2. CASE c = "orphan"
      BY <1>4, <1>5, <1>9, <2>2 DEF AnswersNow, IInv, CallShapes, Callers
    <2> QED BY <1>0, <2>1, <2>2
  <1>18. HoldTriedInVain'
    <2>1. calls'["act"].what = "hold" => calls'["act"] = calls["act"]
      BY <1>0, <1>6, <1>8, <1>9
    <2> QED BY <1>5, <1>7, <2>1 DEF IInv, HoldTriedInVain
  <1>19. ListTypes' /\ ListsTell' /\ PageAgrees'
    <2>1. ASSUME NEW P \in SUBSET Change
          PROVE  /\ ShownHolds(P \cup {o})' = ShownHolds(P)
                 /\ ShownBookings(P \cup {o})' = ShownBookings(P)
      <3>1. ShownHolds(P \cup {o})' = ShownHolds(P)
        <4> SUFFICES ASSUME NEW h \in DOMAIN rows
            PROVE  (h \in ShownHolds(P \cup {o})') <=> (h \in ShownHolds(P))
          BY <1>5 DEF ShownHolds, ActiveHolds
        <4>1. CASE h = g
          BY <1>2, <1>3, <1>4, <1>5, <1>7, <4>1 DEF ShownHolds, Among, ActiveHolds, Held
        <4>2. CASE h # g
          BY <1>2, <1>3, <1>4, <1>5, <1>7, <4>2 DEF ShownHolds, Among, ActiveHolds, Held
        <4> QED BY <4>1, <4>2
      <3>2. ShownBookings(P \cup {o})' = ShownBookings(P)
        BY <1>4, <1>7 DEF ShownBookings, Among
      <3> QED BY <3>1, <3>2
    <2> QED BY <1>4, <1>5, <1>7, <1>9, <2>1, UntoldChange
  <1>20. /\ \A b \in DOMAIN bookings : Cancelling(b)' => Cancelling(b)
         /\ ~Cancelling(m)'
    <2>1. \A d \in {"act", "orphan"} : calls'[d].what = "cancel" =>
            calls'[d] = calls[d] /\ calls[d].arg \in DOMAIN bookings
      BY <1>0, <1>6, <1>8, NoneIsCall DEF Callers, IInv, CallShapes
    <2> QED BY <1>3, <1>4, <2>1 DEF Cancelling
  <1>21. Fresh' = Fresh /\ Trusted' = Trusted
    BY <1>7, <1>9 DEF Fresh, Trusted, IsCalling
  <1>22. \A p \in history.owed : p.what = "booking" => p.id \in DOMAIN bookings /\ p.id # m
    BY <1>4 DEF IInv, Changes
  <1>23. CancelledIsOld'
    BY <1>7, <1>9, <1>20, <1>22 DEF IInv, CancelledIsOld
  <1>24. \A x \in page.bookings : x[1] \in DOMAIN bookings /\ x[1] # m
    BY <1>4 DEF IInv, RowsAgree
  <1>25. ToldIsPaid'
    BY <1>7, <1>21, <1>24 DEF IInv, ToldIsPaid, Among
  <1>26. UntoldIsUntouched'
    <2>1. \A d \in {"act", "orphan"} : calls'[d].what = "confirm" =>
            calls[d].what = "confirm" /\ calls'[d].arg = calls[d].arg
      BY <1>0, <1>6, <1>8, NoneIsCall DEF Callers
    <2>2. Fresh => ~(rows[g].try > history.streak)
      BY <1>0, <1>2, <1>8 DEF IInv, UntoldIsUntouched
    <2> QED BY <1>5, <1>7, <1>21, <2>1, <2>2 DEF IInv, UntoldIsUntouched
  <1>27. c = "act" => <<g, r.key>> \in page.keys
    BY <1>2, <1>3, <1>8 DEF IInv, Keys
  <1>28. c = "orphan" => ~(r.try > history.mounted) /\ r.try <= history.mounted
    BY <1>0, <1>3 DEF IInv, Counted, History, BookingRow
  <1>29. Keys'
    <2>1. (\A k, l \in page.keys : k[1] = l[1] => k = l)'
      BY DEF IInv, Keys
    <2>2. (calls["act"].what = "confirm" => <<calls["act"].arg, calls["act"].key>> \in page.keys)'
      BY <1>0, <1>6, <1>9 DEF IInv, Keys
    <2>3. (\A b \in DOMAIN bookings : bookings[b].try > history.mounted /\ Among(history.owed, "booking", b) =>
             <<bookings[b].hold, bookings[b].key>> \in page.keys)'
      <3> SUFFICES ASSUME NEW b \in DOMAIN bookings', bookings'[b].try > history.mounted,
                          Among(history'.owed, "booking", b)
          PROVE  <<bookings'[b].hold, bookings'[b].key>> \in page.keys
        BY <1>7
      <3>1. CASE b = m
        BY <1>0, <1>3, <1>4, <1>27, <1>28, <3>1
      <3>2. CASE b \in DOMAIN bookings
        <4>1. b # m /\ bookings'[b] = bookings[b]
          BY <1>4, <3>2
        <4>2. Among(history.owed, "booking", b)
          BY <1>7, <4>1 DEF Among
        <4> QED BY <3>2, <4>1, <4>2 DEF IInv, Keys
      <3> QED BY <1>4, <3>1, <3>2
    <2> QED BY <2>1, <2>2, <2>3 DEF Keys
  <1>30. HoldsOnPage'
    <2>1. ActiveHolds(page.holds)' = ActiveHolds(page.holds)
      BY <1>5 DEF ActiveHolds, IInv, RowsAgree
    <2> SUFFICES ASSUME Trusted, NEW h \in ActiveHolds(page.holds), NEW b \in DOMAIN bookings',
                        bookings'[b].hold = h
        PROVE  /\ bookings'[b].try > history.mounted => <<h, bookings'[b].key>> \in page.keys
               /\ ~Cancelling(b)'
               /\ \A x \in page.bookings : x[1] # b
      BY <1>7, <1>21, <2>1 DEF HoldsOnPage
    <2>2. CASE b = m
      BY <1>0, <1>3, <1>4, <1>20, <1>24, <1>27, <1>28, <2>2
    <2>3. CASE b \in DOMAIN bookings
      BY <1>4, <1>20, <2>3 DEF IInv, HoldsOnPage
    <2> QED BY <1>4, <2>2, <2>3
  <1>31. ConfirmUnderWay'
    <2> SUFFICES ASSUME Trusted, calls'["act"].what = "confirm", NEW b \in DOMAIN bookings',
                        bookings'[b].hold = calls'["act"].arg
        PROVE  /\ bookings'[b].try > history.mounted => bookings'[b].key = calls'["act"].key
               /\ bookings'[b].key = calls'["act"].key => bookings'[b].status = "CONFIRMED"
               /\ calls'["act"].step = "refused" => bookings'[b].try <= history.mounted
      BY <1>7, <1>21 DEF ConfirmUnderWay
    <2>1. CASE c = "act"
      <3>1. b = m
        BY <1>2, <1>4, <1>6, <1>10, <2>1
      <3> QED BY <1>3, <1>4, <1>6, <2>1, <3>1
    <2>2. CASE c = "orphan" /\ b = m
      BY <1>3, <1>4, <1>28, <2>2
    <2>3. CASE c = "orphan" /\ b \in DOMAIN bookings
      BY <1>4, <1>9, <2>3 DEF IInv, ConfirmUnderWay
    <2> QED BY <1>0, <1>4, <2>1, <2>2, <2>3
  <1> QED BY <1>11, <1>12, <1>13, <1>14, <1>15, <1>16, <1>17, <1>18, <1>19, <1>23, <1>25, <1>26, <1>29,
             <1>30, <1>31 DEF IInv

(* A cancelled booking. *)
LEMMA BookingEndedKeeps ==
  ASSUME Types, IInv, NEW c \in Callers, calls[c].step = "sent", BookingEnded(c),
         UNCHANGED <<now, page, actions>>
  PROVE  Types' /\ IInv'
  <1>0. /\ rows \in Seq(HoldRow) /\ bookings \in Seq(BookingRow) /\ now \in Nat /\ actions \in Nat
        /\ history \in History /\ history.version \in Nat /\ calls[c] \in CallRow
        /\ c \in {"act", "orphan"}
    BY ChangersAct DEF Types, History, IInv, BookingEnded
  <1>1. PICK g \in DOMAIN bookings : g = calls[c].arg /\ bookings[g].status = "CONFIRMED" /\ g \in Nat
    BY <1>0 DEF BookingEnded, Confirmed
  <1>2. /\ bookings' \in Seq(BookingRow) /\ DOMAIN bookings' = DOMAIN bookings
        /\ \A b \in DOMAIN bookings :
             /\ bookings'[b].hold = bookings[b].hold /\ bookings'[b].key = bookings[b].key
             /\ bookings'[b].try = bookings[b].try
             /\ bookings'[b].status = IF b = g THEN "CANCELLED" ELSE bookings[b].status
    <2>1. bookings' = [bookings EXCEPT ![g].status = "CANCELLED"]
      BY <1>1 DEF BookingEnded
    <2> QED BY <1>0, <2>1, BookingCancelled
  <1>3. UNCHANGED rows /\ calls[c].what = "cancel"
    BY DEF BookingEnded
  <1>4. /\ calls' \in [Callers -> CallRow]
        /\ \A d \in Callers : d # c => calls'[d] = calls[d]
        /\ c = "orphan" => calls'[c] = None
        /\ c # "orphan" =>
              /\ calls'[c].what = calls[c].what /\ calls'[c].arg = calls[c].arg
              /\ calls'[c].key = calls[c].key /\ calls'[c].try = calls[c].try
              /\ calls'[c].step = "ok" /\ calls'[c].value = {<<g, "CANCELLED">>}
              /\ calls'[c].at = history.version
    <2>1. {<<g, "CANCELLED">>} \in SUBSET Answers /\ Answer(c, "ok", {<<g, "CANCELLED">>})
      BY <1>1 DEF Answers, BookingStatus, BookingEnded
    <2> QED BY <2>1, Answering
  <1>5. PICK o \in Change :
           /\ o.what = "cancel" /\ o.id = g /\ o.at = history.version + 1
           /\ history' \in History /\ history'.version = history.version + 1
           /\ history'.owed = history.owed \cup {o}
           /\ history'.crossed = history.crossed /\ history'.streak = history.streak
           /\ history'.mounted = history.mounted
    <2>1. Owe("cancel", g)
      BY <1>1 DEF BookingEnded
    <2> QED BY <1>1, <2>1, Owing
  <1>6. /\ calls'["holds"] = calls["holds"] /\ calls'["bookings"] = calls["bookings"]
        /\ calls'["session"] = calls["session"]
        /\ c = "act" => calls'["orphan"] = calls["orphan"]
        /\ c = "orphan" => calls'["act"] = calls["act"]
    BY <1>0, <1>4 DEF Callers
  <1>7. \A d \in {"act", "orphan"} : calls'[d].what # "none" =>
          calls'[d].what = calls[d].what /\ calls'[d].arg = calls[d].arg /\ calls'[d].key = calls[d].key
    BY <1>0, <1>4, <1>6, NoneIsCall
  <1>8. Types'
    BY <1>0, <1>2, <1>3, <1>4, <1>5 DEF Types
  <1>9. CallShapes'
    BY <1>0, <1>2, <1>3, <1>4, NoneIsCall, SMTT(30) DEF IInv, CallShapes, IsCalling, Callers, KindsOf
  <1>10. Counted'
    <2>0. Counted
      BY DEF IInv
    <2>1. (history.mounted <= history.streak /\ history.streak <= actions)'
      BY <1>5, <2>0 DEF Counted
    <2>2. (\A h \in DOMAIN rows : rows[h].key <= rows[h].try /\ rows[h].try <= actions)'
      BY <1>3, <2>0 DEF Counted
    <2>3. (\A b \in DOMAIN bookings : bookings[b].key <= bookings[b].try /\ bookings[b].try <= actions)'
      BY <1>2, <2>0 DEF Counted
    <2>4. (\A d \in Callers : calls[d].key <= calls[d].try /\ calls[d].try <= actions)'
      BY <1>0, <1>4, <2>0, NoneIsCall DEF Counted
    <2>5. (calls["orphan"].try <= history.mounted)'
      BY <1>0, <1>4, <1>5, <2>0, NoneIsCall DEF Counted, Callers, History
    <2>6. (page.attempt.slot # 0 => history.streak < page.attempt.key /\ page.attempt.key <= actions)'
      BY <1>5, <2>0 DEF Counted
    <2>7. (\A k \in page.keys : history.mounted < k[2] /\ k[2] <= actions)'
      BY <1>5, <2>0 DEF Counted
    <2>8. (calls["orphan"].what = "cancel" =>
             bookings[calls["orphan"].arg].key <= history.mounted)'
      <3>1. calls'["orphan"].what = "cancel" =>
              calls'["orphan"] = calls["orphan"] /\ calls["orphan"].arg \in DOMAIN bookings
        BY <1>0, <1>4, <1>6, NoneIsCall DEF IInv, CallShapes, Callers
      <3> QED BY <1>2, <1>5, <2>0, <3>1 DEF Counted
    <2> QED BY <2>1, <2>2, <2>3, <2>4, <2>5, <2>6, <2>7, <2>8 DEF Counted
  <1>11. RowsAgree'
    BY <1>2, <1>3 DEF IInv, RowsAgree
  <1>12. Changes'
    <2>0. Changes
      BY DEF IInv
    <2>1. (\A p \in history.owed :
             /\ 0 < p.at /\ p.at <= history.version
             /\ p.what = "hold" => p.id \in DOMAIN rows
             /\ p.what # "hold" => p.id \in DOMAIN bookings)'
      BY <1>0, <1>1, <1>2, <1>3, <1>5, <2>0 DEF Changes, History, Change
    <2>2. (\A p, q \in history.owed : p.at = q.at => p = q)'
      BY <1>0, <1>5, <2>0 DEF Changes, History, Change
    <2>3. (\A d \in {"holds", "bookings"} : calls[d].at <= history.version)'
      <3>1. ASSUME NEW d \in {"holds", "bookings"} PROVE calls'[d] = calls[d] /\ calls[d] \in CallRow
        BY <1>0, <1>4 DEF Callers, Types
      <3>2. \A d \in {"holds", "bookings"} :
              calls[d].at \in Nat /\ calls[d].at <= history.version /\ calls'[d].at = calls[d].at
        BY <2>0, <3>1 DEF Changes, CallRow
      <3> QED BY <1>0, <1>5, <3>2
    <2> QED BY <2>1, <2>2, <2>3 DEF Changes
  <1>13. Attempts'
    <2>1. calls'["act"].what = "hold" => calls'["act"] = calls["act"]
      BY <1>0, <1>3, <1>4, <1>6, NoneIsCall
    <2>2. calls'["orphan"].what = "hold" => calls'["orphan"] = calls["orphan"]
      BY <1>0, <1>3, <1>4, <1>6, NoneIsCall
    <2> QED BY <1>3, <1>5, <2>1, <2>2 DEF IInv, Attempts
  <1>14. AnswersNow'
    <2>1. CASE c = "act"
      BY <1>1, <1>2, <1>3, <1>4, <2>1 DEF AnswersNow
    <2>2. CASE c = "orphan"
      <3>1. AnswersNow /\ calls'["act"] = calls["act"]
        BY <1>6, <2>2 DEF IInv
      <3>2. calls["act"].what = "cancel" => calls["act"].arg \in DOMAIN bookings
        BY DEF IInv, CallShapes, Callers
      <3> QED BY <1>2, <1>3, <3>1, <3>2 DEF AnswersNow
    <2> QED BY <1>0, <2>1, <2>2
  <1>15. HoldTriedInVain'
    <2>1. calls'["act"].what = "hold" => calls'["act"] = calls["act"]
      BY <1>0, <1>3, <1>4, <1>6, NoneIsCall
    <2> QED BY <1>3, <1>5, <2>1 DEF IInv, HoldTriedInVain
  <1>16. ListTypes' /\ ListsTell' /\ PageAgrees'
    <2>1. ASSUME NEW P \in SUBSET Change
          PROVE  /\ ShownHolds(P \cup {o})' = ShownHolds(P)
                 /\ ShownBookings(P \cup {o})' = ShownBookings(P)
      <3>1. ShownHolds(P \cup {o})' = ShownHolds(P)
        BY <1>2, <1>3, <1>5 DEF ShownHolds, Among, ActiveHolds, Held
      <3>2. ShownBookings(P \cup {o})' = ShownBookings(P)
        <4>1. \A b \in DOMAIN bookings :
                (IF Among(P \cup {o}, "cancel", b) THEN "CONFIRMED" ELSE bookings'[b].status)
                  = IF Among(P, "cancel", b) THEN "CONFIRMED" ELSE bookings[b].status
          BY <1>1, <1>2, <1>5 DEF Among
        <4>2. \A b \in DOMAIN bookings : Among(P \cup {o}, "booking", b) <=> Among(P, "booking", b)
          BY <1>5 DEF Among
        <4> QED BY <1>2, <1>5, <4>1, <4>2 DEF ShownBookings, Among
      <3> QED BY <3>1, <3>2
    <2> QED BY <1>2, <1>3, <1>5, <1>6, <2>1, UntoldChange
  <1>17. \A b \in DOMAIN bookings : Cancelling(b)' => Cancelling(b)
    <2>1. \A b \in DOMAIN bookings : bookings'[b].status = "CANCELLED" => Cancelling(b)
      BY <1>0, <1>1, <1>2, <1>3 DEF Cancelling
    <2> QED BY <1>7, <2>1 DEF Cancelling
  <1>18. Fresh' = Fresh /\ Trusted' = Trusted
    BY <1>5, <1>6 DEF Fresh, Trusted, IsCalling
  <1>19. CancelledIsOld'
    <2>1. \A p \in history'.owed : p.what = "booking" => p \in history.owed /\ p.id \in DOMAIN bookings
      BY <1>5 DEF IInv, Changes
    <2> QED BY <1>6, <1>17, <2>1 DEF IInv, CancelledIsOld
  <1>20. ToldIsPaid'
    BY <1>5, <1>18 DEF IInv, ToldIsPaid, Among
  <1>21. UntoldIsUntouched'
    <2>1. \A d \in {"act", "orphan"} : calls'[d].what = "confirm" =>
            calls[d].what = "confirm" /\ calls'[d].arg = calls[d].arg
      BY <1>7
    <2> QED BY <1>3, <1>5, <1>18, <2>1 DEF IInv, UntoldIsUntouched
  <1>22. Keys'
    <2>1. (\A k, l \in page.keys : k[1] = l[1] => k = l)'
      BY DEF IInv, Keys
    <2>2. (calls["act"].what = "confirm" => <<calls["act"].arg, calls["act"].key>> \in page.keys)'
      BY <1>7 DEF IInv, Keys
    <2>3. (\A b \in DOMAIN bookings : bookings[b].try > history.mounted /\ Among(history.owed, "booking", b) =>
             <<bookings[b].hold, bookings[b].key>> \in page.keys)'
      BY <1>2, <1>5 DEF IInv, Keys, Among
    <2> QED BY <2>1, <2>2, <2>3 DEF Keys
  <1>23. HoldsOnPage'
    <2>1. ActiveHolds(page.holds)' = ActiveHolds(page.holds)
      BY <1>3 DEF ActiveHolds
    <2> SUFFICES ASSUME Trusted, NEW h \in ActiveHolds(page.holds), NEW b \in DOMAIN bookings',
                        bookings'[b].hold = h
        PROVE  /\ bookings'[b].try > history.mounted => <<h, bookings'[b].key>> \in page.keys
               /\ ~Cancelling(b)'
               /\ \A x \in page.bookings : x[1] # b
      BY <1>5, <1>18, <2>1 DEF HoldsOnPage
    <2> QED BY <1>2, <1>17 DEF IInv, HoldsOnPage
  <1>24. ConfirmUnderWay'
    <2> SUFFICES ASSUME Trusted, calls'["act"].what = "confirm", NEW b \in DOMAIN bookings,
                        bookings[b].hold = calls'["act"].arg
        PROVE  /\ bookings[b].try > history.mounted => bookings[b].key = calls'["act"].key
               /\ bookings[b].key = calls'["act"].key => bookings'[b].status = "CONFIRMED"
               /\ calls'["act"].step = "refused" => bookings[b].try <= history.mounted
      BY <1>2, <1>5, <1>18 DEF ConfirmUnderWay
    <2>1. c = "orphan" /\ calls'["act"] = calls["act"]
      BY <1>0, <1>3, <1>4, <1>6
    <2>2. /\ bookings[b].try > history.mounted => bookings[b].key = calls["act"].key
          /\ bookings[b].key = calls["act"].key => bookings[b].status = "CONFIRMED"
          /\ calls["act"].step = "refused" => bookings[b].try <= history.mounted
      BY <2>1 DEF IInv, ConfirmUnderWay
    <2>3. bookings[b].key = calls["act"].key => b # g
      <3>1. bookings[g].key <= history.mounted
        BY <1>1, <1>3, <2>1 DEF IInv, Counted
      <3>2. history.mounted < calls["act"].key
        BY <2>1 DEF IInv, Counted, Keys
      <3>3. calls["act"].key \in Nat /\ history.mounted \in Nat /\ bookings[g].key \in Nat
        <4>1. calls["act"] \in CallRow /\ bookings[g] \in BookingRow
          BY <1>0, <1>1 DEF Types, Callers
        <4> QED BY <1>0, <4>1 DEF History, BookingRow, CallRow
      <3> QED BY <3>1, <3>2, <3>3
    <2> QED BY <1>2, <2>1, <2>2, <2>3
  <1> QED BY <1>8, <1>9, <1>10, <1>11, <1>12, <1>13, <1>14, <1>15, <1>16, <1>19, <1>20, <1>21, <1>22,
             <1>23, <1>24 DEF IInv

-----------------------------------------------------------------------------
(* Requests that end, or follow on the session, while the page at most     *)
(* forgets what it shows.                                                  *)
AskList(d) == [None EXCEPT !.what = d, !.step = "sent"]

Settles ==
  /\ UNCHANGED <<now, rows, bookings, actions, history>>
  /\ \A d \in Callers :
       \/ calls'[d] = calls[d]
       \/ calls'[d] = None
       \/ d \in {"holds", "bookings"} /\ calls'[d] = AskList(d)
  /\ page'.attempt = page.attempt /\ page'.keys = page.keys
  /\ page'.holds \subseteq page.holds /\ page'.bookings \subseteq page.bookings
  /\ page'.known => /\ page.known /\ page'.kind = page.kind
                    /\ page'.holds = page.holds /\ page'.bookings = page.bookings

(* What holds of the lists the session asks for. *)
LEMMA AskingLists ==
  ASSUME NEW d \in {"holds", "bookings", "detail"}
  PROVE  LET k == AskList(d)
         IN /\ k \in CallRow /\ k.what = d /\ k.step = "sent" /\ k.value = {}
            /\ k.key = 0 /\ k.try = 0 /\ k.at = 0
  BY DEF AskList, None, CallRow, Kind

(* Lists that nobody touches stay what they were. *)
LEMMA ListsStay ==
  ASSUME ListsTell, UNCHANGED <<now, rows, bookings>>,
         history'.owed = history.owed, history'.version = history.version,
         \A d \in {"holds", "bookings"} : calls'[d].step = "ok" => calls'[d] = calls[d]
  PROVE  ListsTell'
  <1>1. (calls["holds"].step = "ok" /\ NothingTold(calls["holds"].at) =>
          /\ calls["holds"].value \subseteq DOMAIN rows
          /\ ActiveHolds(calls["holds"].value) = ShownHolds(Since(calls["holds"].at)))'
    <2>1. CASE calls'["holds"] = calls["holds"]
      BY <2>1 DEF ListsTell, NothingTold, Since, Among, ShownHolds, ActiveHolds, Held
    <2>2. CASE calls'["holds"].step # "ok"
      BY <2>2
    <2> QED BY <2>1, <2>2
  <1>2. (calls["bookings"].step = "ok" /\ NothingTold(calls["bookings"].at) =>
           calls["bookings"].value = ShownBookings(Since(calls["bookings"].at)))'
    <2>1. CASE calls'["bookings"] = calls["bookings"]
      BY <2>1 DEF ListsTell, NothingTold, Since, Among, ShownBookings
    <2>2. CASE calls'["bookings"].step # "ok"
      BY <2>2
    <2> QED BY <2>1, <2>2
  <1> QED BY <1>1, <1>2 DEF ListsTell

(* An answer that only ends its call, or starts the lists. *)
LEMMA SettlesKeeps ==
  ASSUME Types, IInv, Settles, Types', CallShapes', Fresh' => Fresh
  PROVE  IInv'
  <1> Trusted' => Trusted
    BY DEF Trusted, Settles
  <1>0. history \in History /\ page \in Page /\ page' \in Page /\ rows \in Seq(HoldRow)
        /\ bookings \in Seq(BookingRow) /\ actions \in Nat
    BY DEF Types
  <1>1. UNCHANGED <<now, rows, bookings, actions, history>>
    BY DEF Settles
  <1>2. \A d \in {"act", "orphan"} : calls'[d] = calls[d] \/ calls'[d] = None
    BY DEF Settles, Callers
  <1>3. \A d \in {"holds", "bookings"} :
          \/ calls'[d] = calls[d]
          \/ calls'[d].step # "ok" /\ calls'[d].at = 0 /\ calls'[d].value = {}
    BY NoneIsCall, AskingLists DEF Settles, Callers
  <1>4. \A d \in {"act", "orphan"} : calls'[d].what # "none" => calls'[d] = calls[d]
    BY <1>2, NoneIsCall
  <1>5. \A d \in {"act", "orphan"} : calls'[d].step # "none" => calls'[d] = calls[d]
    BY <1>2, NoneIsCall
  <1>6. page'.attempt = page.attempt /\ page'.keys = page.keys
        /\ page'.holds \subseteq page.holds /\ page'.bookings \subseteq page.bookings
    BY DEF Settles
  <1>7. Counted'
    <2>0. Counted
      BY DEF IInv
    <2>1. (\A d \in Callers : calls[d].key <= calls[d].try /\ calls[d].try <= actions)'
      <3> SUFFICES ASSUME NEW d \in Callers
          PROVE  calls'[d].key <= calls'[d].try /\ calls'[d].try <= actions
        BY <1>1
      <3>1. calls'[d] = calls[d] \/ (calls'[d].key = 0 /\ calls'[d].try = 0)
        BY NoneIsCall, AskingLists DEF Settles
      <3> QED BY <1>0, <2>0, <3>1 DEF Counted
    <2>2. (calls["orphan"].try <= history.mounted)'
      BY <1>0, <1>1, <1>2, <2>0, NoneIsCall DEF Counted, History
    <2>3. (calls["orphan"].what = "cancel" => bookings[calls["orphan"].arg].key <= history.mounted)'
      BY <1>1, <1>4, <2>0 DEF Counted
    <2> QED BY <1>1, <1>6, <2>0, <2>1, <2>2, <2>3 DEF Counted
  <1>8. RowsAgree'
    BY <1>1, <1>6 DEF IInv, RowsAgree
  <1>9. Changes'
    <2>1. (\A d \in {"holds", "bookings"} : calls[d].at <= history.version)'
      BY <1>0, <1>1, <1>3 DEF IInv, Changes, History
    <2> QED BY <1>1, <2>1 DEF IInv, Changes
  <1>10. Attempts' /\ AnswersNow' /\ HoldTriedInVain'
    BY <1>1, <1>4, <1>5, <1>6 DEF IInv, Attempts, AnswersNow, HoldTriedInVain
  <1>11. ListTypes'
    BY <1>1, <1>3 DEF IInv, ListTypes
  <1>12. ListsTell'
    BY <1>1, <1>3, ListsStay DEF IInv
  <1>13. \A b : Cancelling(b)' => Cancelling(b)
    BY <1>1, <1>4 DEF Cancelling
  <1>14. CancelledIsOld'
    BY <1>1, <1>3, <1>13 DEF IInv, CancelledIsOld
  <1>15. ToldIsPaid' /\ UntoldIsUntouched'
    BY <1>1, <1>4, <1>6 DEF IInv, ToldIsPaid, UntoldIsUntouched
  <1>16. Keys'
    BY <1>1, <1>4, <1>6 DEF IInv, Keys
  <1>17. HoldsOnPage'
    <2>1. ActiveHolds(page.holds)' \subseteq ActiveHolds(page.holds)
      BY <1>1, <1>6 DEF ActiveHolds
    <2> QED BY <1>1, <1>6, <1>13, <2>1 DEF IInv, HoldsOnPage
  <1>18. ConfirmUnderWay'
    BY <1>1, <1>4 DEF IInv, ConfirmUnderWay
  <1>19. PageAgrees'
    BY <1>1 DEF IInv, PageAgrees, Settles, ShownHolds, ShownBookings, ActiveHolds, Held
  <1> QED BY <1>7, <1>8, <1>9, <1>10, <1>11, <1>12, <1>14, <1>15, <1>16, <1>17, <1>18, <1>19 DEF IInv

(* Which of the receiving steps are of that kind. *)
LEMMA SettlesCases ==
  ASSUME Types, CallShapes,
         \/ ReceiveSession \/ NoSession \/ MineFails \/ ActFails \/ SignOut
         \/ ReceiveDetail("detail") \/ ReceiveDetail("act")
  PROVE  Settles /\ Types' /\ CallShapes' /\ (Fresh' => Fresh)
  <1>0. calls \in [Callers -> CallRow] /\ page \in Page
    BY DEF Types
  <1>1. CASE ReceiveSession
    <2>1. Fresh
      BY <1>1 DEF ReceiveSession, Fresh, IsCalling, CallShapes, Callers
    <2>2. page' \in Page /\ page' = [page EXCEPT !.auth = TRUE]
      BY <1>0, <1>1 DEF ReceiveSession, Page
    <2>3. /\ calls' \in [Callers -> CallRow]
          /\ calls'["session"] = None /\ calls'["bookings"] = AskList("bookings")
          /\ calls'["holds"] = IF page.kind = "checkout" THEN AskList("holds") ELSE None
          /\ \A d \in {"detail", "act", "orphan"} : calls'[d] = calls[d]
      <3>1. calls' = [calls EXCEPT !["session"] = None,
                            !["holds"] = IF page.kind = "checkout" THEN AskList("holds") ELSE None,
                            !["bookings"] = AskList("bookings")]
        BY <1>1 DEF ReceiveSession, AskList
      <3>2. None \in CallRow /\ AskList("holds") \in CallRow /\ AskList("bookings") \in CallRow
        BY NoneIsCall, AskingLists
      <3> QED BY <1>0, <3>1, <3>2 DEF Callers
    <2>4. UNCHANGED <<now, rows, bookings, actions, history>>
      BY <1>1 DEF ReceiveSession, server, bounds
    <2>5. Types'
      BY <2>2, <2>3, <2>4 DEF Types
    <2>6. page'.kind = page.kind /\ page'.busy = page.busy /\ page'.attempt = page.attempt
          /\ page'.keys = page.keys /\ page'.holds = page.holds /\ page'.bookings = page.bookings
          /\ page'.known = page.known
      BY <1>0, <2>2 DEF Page
    <2>7. Settles
      <3>1. \A d \in Callers :
              \/ calls'[d] = calls[d]
              \/ calls'[d] = None
              \/ d \in {"holds", "bookings"} /\ calls'[d] = AskList(d)
        <4>1. calls'["holds"] = AskList("holds") \/ calls'["holds"] = None
          BY <2>3
        <4> SUFFICES ASSUME NEW d \in Callers
            PROVE  \/ calls'[d] = calls[d]
                   \/ calls'[d] = None
                   \/ d \in {"holds", "bookings"} /\ calls'[d] = AskList(d)
          OBVIOUS
        <4>2. CASE d \in {"detail", "act", "orphan"}
          BY <2>3, <4>2
        <4>3. CASE d \in {"session", "holds", "bookings"}
          BY <2>3, <4>1, <4>3
        <4> QED BY <4>2, <4>3 DEF Callers
      <3> QED BY <2>4, <2>6, <3>1 DEF Settles
    <2>8. CallShapes'
      BY <1>0, <2>3, <2>4, <2>6, NoneIsCall, AskingLists DEF CallShapes, KindsOf, Callers, IsCalling, Page
    <2> QED BY <2>1, <2>5, <2>7, <2>8
  <1>2. CASE NoSession \/ MineFails
    <2>1. Fresh
      BY <1>2 DEF NoSession, MineFails, Failed, Fresh, IsCalling, CallShapes, Callers
    <2>2. /\ calls' \in [Callers -> CallRow]
          /\ \A d \in Callers : calls'[d] = calls[d] \/ calls'[d] = None
          /\ calls'["act"] = calls["act"] /\ calls'["orphan"] = calls["orphan"]
          /\ (calls'["holds"] = None /\ calls'["bookings"] = None)
               \/ (calls'["holds"] = calls["holds"] /\ calls'["bookings"] = calls["bookings"])
      BY <1>0, <1>2, NoneIsCall DEF NoSession, MineFails, Callers
    <2>3. UNCHANGED <<now, rows, bookings, actions, history, page>>
      BY <1>2 DEF NoSession, MineFails, server, bounds
    <2>4. Types' /\ Settles
      <3>1. Types'
        BY <2>2, <2>3 DEF Types
      <3>2. Settles
        <4>1. /\ page'.holds \subseteq page.holds /\ page'.bookings \subseteq page.bookings
              /\ page'.attempt = page.attempt /\ page'.keys = page.keys
          BY <2>3
        <4> QED BY <2>2, <2>3, <4>1 DEF Settles
      <3> QED BY <3>1, <3>2
    <2>5. CallShapes'
      BY <2>2, <2>3, NoneIsCall DEF CallShapes, KindsOf, Callers, IsCalling
    <2> QED BY <2>1, <2>4, <2>5
  <1>3. CASE ActFails \/ ReceiveDetail("detail") \/ ReceiveDetail("act")
    <2>1. PICK c \in {"act", "detail"} :
             /\ calls' = [calls EXCEPT ![c] = None]
             /\ ActFails => c = "act"
             /\ ~ActFails => ReceiveDetail(c)
      BY <1>3 DEF ActFails, ReceiveDetail
    <2>2. /\ calls' \in [Callers -> CallRow] /\ calls'[c] = None
          /\ \A d \in Callers : d # c => calls'[d] = calls[d]
      BY <1>0, <2>1, NoneIsCall DEF Callers
    <2>3. UNCHANGED <<now, rows, bookings, actions, history>>
      BY <1>3 DEF ActFails, ReceiveDetail, server, bounds
    <2>4. /\ page' \in Page
          /\ page'.kind = page.kind /\ page'.attempt = page.attempt
          /\ page'.keys = page.keys /\ page'.holds = page.holds /\ page'.bookings = page.bookings
          /\ page'.known = page.known /\ (c # "act" => page'.busy = page.busy)
      <3>1. CASE ActFails
        BY <1>0, <2>1, <3>1 DEF ActFails, Page
      <3>2. CASE ~ActFails
        <4>1. PICK list \in SUBSET Answers : list = calls[c].value
          BY <1>0 DEF CallRow, Callers
        <4>2. PICK b \in BOOLEAN : b = (IF c = "act" THEN FALSE ELSE page.busy)
          BY <1>0 DEF Page
        <4>3. page' = [page EXCEPT !.offered = list, !.loading = FALSE, !.busy = b]
          BY <2>1, <3>2, <4>1, <4>2 DEF ReceiveDetail
        <4> QED BY <1>0, <4>2, <4>3 DEF Page
      <3> QED BY <3>1, <3>2
    <2>5. Types' /\ Settles
      <3>1. Types'
        BY <2>2, <2>3, <2>4 DEF Types
      <3>2. \A d \in Callers : calls'[d] = calls[d] \/ calls'[d] = None
        BY <2>2
      <3>3. Settles
        <4>1. page'.holds \subseteq page.holds /\ page'.bookings \subseteq page.bookings
          BY <2>4
        <4> QED BY <2>3, <2>4, <3>2, <4>1 DEF Settles
      <3> QED BY <3>1, <3>3
    <2>6. CallShapes'
      BY <2>2, <2>3, <2>4, NoneIsCall DEF CallShapes, KindsOf, Callers, IsCalling
    <2>7. Fresh' => Fresh
      BY <2>2 DEF Fresh, IsCalling, Callers
    <2> QED BY <2>5, <2>6, <2>7
  <1>4. CASE SignOut
    <2>1. UNCHANGED <<now, rows, bookings, actions, history, calls>>
      BY <1>4 DEF SignOut, server, bounds
    <2>2. /\ page' \in Page /\ page'.kind = page.kind /\ page'.busy = page.busy
          /\ page'.attempt = page.attempt /\ page'.keys = page.keys
          /\ page'.holds = {} /\ page'.bookings = {} /\ page'.known = FALSE
      BY <1>0, <1>4 DEF SignOut, Page
    <2>3. Types'
      BY <2>1, <2>2 DEF Types
    <2>4. Settles
      <3>1. page'.holds \subseteq page.holds /\ page'.bookings \subseteq page.bookings
        BY <2>2
      <3>2. \A d \in Callers : calls'[d] = calls[d]
        BY <2>1
      <3> QED BY <2>1, <2>2, <3>1, <3>2 DEF Settles
    <2>5. CallShapes'
      BY <2>1, <2>2 DEF CallShapes, KindsOf, IsCalling
    <2> QED BY <2>1, <2>3, <2>4, <2>5 DEF Fresh, IsCalling
  <1> QED BY <1>1, <1>2, <1>3, <1>4

-----------------------------------------------------------------------------
(* Time passes, a hold expires, others take a slot.                        *)
Passes ==
  /\ UNCHANGED <<calls, page, history, bookings, actions>>
  /\ now' \in Nat /\ now <= now'
  /\ rows' \in Seq(HoldRow) /\ DOMAIN rows' = DOMAIN rows
  /\ \A h \in DOMAIN rows :
       /\ rows'[h].slot = rows[h].slot /\ rows'[h].until = rows[h].until
       /\ rows'[h].key = rows[h].key /\ rows'[h].try = rows[h].try
       /\ \/ rows'[h].end = rows[h].end
          \/ rows[h].end = "held" /\ rows'[h].end = "expired" /\ rows[h].until <= now'

(* The clock, an expiry and a rival leave the calls and the page alone.    *)
LEMMA PassesCases ==
  ASSUME Types, Tick \/ (\E h \in DOMAIN rows : Expire(h)) \/ (\E s \in Slots : RivalTakes(s))
  PROVE  Passes
  <1>0. now \in Nat /\ rows \in Seq(HoldRow)
    BY DEF Types
  <1>1. CASE Tick
    BY <1>0, <1>1 DEF Tick, Passes, server, bounds
  <1>2. CASE \E s \in Slots : RivalTakes(s)
    BY <1>0, <1>2 DEF RivalTakes, Passes, bounds
  <1>3. CASE \E h \in DOMAIN rows : Expire(h)
    <2>1. PICK h \in DOMAIN rows : Expire(h)
      BY <1>3
    <2>2. /\ rows' = [rows EXCEPT ![h].end = "expired"] /\ rows[h].end = "held" /\ rows[h].until <= now
          /\ UNCHANGED <<now, calls, page, history, bookings, actions>>
      BY <2>1 DEF Expire, Held, bounds
    <2>3. "expired" \in {"held", "booked", "expired"}
      OBVIOUS
    <2>4. LET t == [rows EXCEPT ![h].end = "expired"]
          IN /\ t \in Seq(HoldRow) /\ DOMAIN t = DOMAIN rows
             /\ \A g \in DOMAIN rows :
                  /\ t[g].slot = rows[g].slot /\ t[g].until = rows[g].until
                  /\ t[g].key = rows[g].key /\ t[g].try = rows[g].try
                  /\ t[g].end = IF g = h THEN "expired" ELSE rows[g].end
      BY <1>0, <2>3, RowEnds, ZenonT(60)
    <2> QED BY <1>0, <2>2, <2>4 DEF Passes
  <1> QED BY <1>1, <1>2, <1>3

(* They keep the invariant. *)
LEMMA PassesKeeps ==
  ASSUME Types, IInv, Passes
  PROVE  Types' /\ IInv'
  <1>0. /\ now \in Nat /\ now' \in Nat /\ now <= now' /\ DOMAIN rows' = DOMAIN rows
        /\ UNCHANGED <<calls, page, history, bookings, actions>>
        /\ \A h \in DOMAIN rows : rows[h] \in HoldRow /\ rows[h].until \in Nat
    <2>1. \A h \in DOMAIN rows : rows[h] \in HoldRow
      BY DEF Types
    <2> QED BY <2>1 DEF Passes, Types, HoldRow
  <1>1. \A h \in DOMAIN rows :
          /\ rows'[h].slot = rows[h].slot /\ rows'[h].until = rows[h].until
          /\ rows'[h].key = rows[h].key /\ rows'[h].try = rows[h].try
          /\ rows'[h].end = "booked" <=> rows[h].end = "booked"
    BY DEF Passes
  <1>2. Types'
    BY DEF Passes, Types
  <1>3. \A S \in SUBSET DOMAIN rows :
          ActiveHolds(S)' = {h \in ActiveHolds(S) : rows[h].until > now'}
    BY <1>0, <1>1 DEF ActiveHolds
  <1>4. \A P : ShownHolds(P)' = {h \in ShownHolds(P) : rows[h].until > now'}
    <2> TAKE P
    <2> SUFFICES ASSUME NEW h \in DOMAIN rows
        PROVE  h \in ShownHolds(P)' <=> h \in ShownHolds(P) /\ rows[h].until > now'
      BY <1>0 DEF ShownHolds, ActiveHolds
    <2>1. rows[h].until > now' => (rows'[h].end = "held" <=> rows[h].end = "held")
      BY <1>0 DEF Passes
    <2> QED BY <1>0, <1>1, <2>1 DEF ShownHolds, ActiveHolds, Held, Among
  <1>5. CallShapes' /\ Counted'
    BY <1>0, <1>1 DEF IInv, CallShapes, Counted, IsCalling
  <1>6. RowsAgree'
    <2>1. \A h \in DOMAIN rows : rows'[h].end = "expired" => rows[h].until <= now'
      BY <1>0 DEF Passes, IInv, RowsAgree
    <2> QED BY <1>0, <1>1, <2>1 DEF IInv, RowsAgree
  <1>7. Changes' /\ Attempts' /\ AnswersNow' /\ HoldTriedInVain' /\ ListTypes'
    BY <1>0, <1>1 DEF IInv, Changes, Attempts, AnswersNow, HoldTriedInVain, ListTypes
  <1>8. ListsTell'
    <2>1. (calls["holds"].step = "ok" /\ NothingTold(calls["holds"].at) =>
            /\ calls["holds"].value \subseteq DOMAIN rows
            /\ ActiveHolds(calls["holds"].value) = ShownHolds(Since(calls["holds"].at)))'
      <3> SUFFICES ASSUME calls["holds"].step = "ok", NothingTold(calls["holds"].at)
          PROVE  /\ calls["holds"].value \subseteq DOMAIN rows'
                 /\ ActiveHolds(calls["holds"].value)' = ShownHolds(Since(calls["holds"].at))'
        BY <1>0 DEF NothingTold
      <3>1. /\ calls["holds"].value \subseteq DOMAIN rows
            /\ ActiveHolds(calls["holds"].value) = ShownHolds(Since(calls["holds"].at))
        BY DEF IInv, ListsTell
      <3>2. PICK S \in SUBSET DOMAIN rows : S = calls["holds"].value
        BY <3>1
      <3>3. PICK P : P = Since(calls["holds"].at)
        OBVIOUS
      <3>4. ActiveHolds(calls["holds"].value)' = ActiveHolds(S)'
        BY <1>0, <3>2 DEF ActiveHolds
      <3>5. ShownHolds(Since(calls["holds"].at))' = ShownHolds(P)'
        BY <1>0, <3>3 DEF ShownHolds, Since, Among
      <3> QED BY <1>0, <1>3, <1>4, <3>1, <3>2, <3>3, <3>4, <3>5
    <2>2. (calls["bookings"].step = "ok" /\ NothingTold(calls["bookings"].at) =>
             calls["bookings"].value = ShownBookings(Since(calls["bookings"].at)))'
      BY <1>0 DEF IInv, ListsTell, NothingTold, Since, ShownBookings, Among
    <2> QED BY <2>1, <2>2 DEF ListsTell
  <1>9. CancelledIsOld' /\ ToldIsPaid'
    BY <1>0 DEF IInv, CancelledIsOld, Cancelling, ToldIsPaid, Fresh, IsCalling, Among
  <1>10. UntoldIsUntouched' /\ Keys'
    BY <1>0, <1>1 DEF IInv, UntoldIsUntouched, Fresh, IsCalling, Keys, Among
  <1>11. HoldsOnPage'
    <2>1. ActiveHolds(page.holds)' \subseteq ActiveHolds(page.holds)
      BY <1>0, <1>1 DEF ActiveHolds, IInv, RowsAgree
    <2> QED BY <1>0, <2>1 DEF IInv, HoldsOnPage, Trusted, Fresh, IsCalling, Cancelling
  <1>12. ConfirmUnderWay'
    BY <1>0 DEF IInv, ConfirmUnderWay, Trusted, Fresh, IsCalling
  <1>13. PageAgrees'
    <2>1. PICK S \in SUBSET DOMAIN rows : S = page.holds
      BY DEF IInv, RowsAgree
    <2>2. PICK P : P = history.owed
      OBVIOUS
    <2>3. ActiveHolds(page.holds)' = ActiveHolds(S)' /\ ShownHolds(history.owed)' = ShownHolds(P)'
      BY <1>0, <2>1, <2>2 DEF ActiveHolds, ShownHolds, Among
    <2>4. ShownBookings(history.owed)' = ShownBookings(history.owed)
      BY <1>0 DEF ShownBookings, Among
    <2> QED BY <1>0, <1>3, <1>4, <2>1, <2>2, <2>3, <2>4 DEF IInv, PageAgrees
  <1> QED BY <1>2, <1>5, <1>6, <1>7, <1>8, <1>9, <1>10, <1>11, <1>12, <1>13 DEF IInv

-----------------------------------------------------------------------------
(* A request is answered, or lost, with no change on the server.           *)
Answered(c) ==
  /\ UNCHANGED <<now, rows, bookings, page, history, actions>>
  /\ calls[c].step \in {"sent", "ok", "refused"}
  /\ \E verdict \in {"ok", "refused", "lost"}, value \in SUBSET Answers :
       Answer(c, verdict, value) /\ (verdict # "lost" => ReplyOf(c, verdict, value))

(* A lost request or answer is an answer too. *)
LEMMA LoseAnswers ==
  ASSUME NEW c \in Callers, Lose(c)
  PROVE  Answered(c)
  <1>1. Answer(c, "lost", {}) /\ {} \in SUBSET Answers /\ "lost" \in {"ok", "refused", "lost"}
    BY DEF Lose
  <1>2. \E verdict \in {"ok", "refused", "lost"}, value \in SUBSET Answers :
          Answer(c, verdict, value) /\ (verdict # "lost" => ReplyOf(c, verdict, value))
    BY <1>1
  <1> QED BY <1>2 DEF Lose, Answered, server

(* An answer that changes no row keeps the invariant. *)
LEMMA AnsweredKeeps ==
  ASSUME Types, IInv, NEW c \in Callers, Answered(c)
  PROVE  Types' /\ IInv'
  <1>0. /\ rows \in Seq(HoldRow) /\ bookings \in Seq(BookingRow) /\ history \in History
        /\ history.version \in Nat /\ history.owed \in SUBSET Change /\ actions \in Nat
        /\ calls[c].what # "none"
    BY DEF Types, History, Answered, IInv, CallShapes
  <1>1. UNCHANGED <<now, rows, bookings, page, history, actions>>
    BY DEF Answered
  <1>2. PICK verdict \in {"ok", "refused", "lost"}, value \in SUBSET Answers :
           Answer(c, verdict, value) /\ (verdict # "lost" => ReplyOf(c, verdict, value))
    BY DEF Answered
  <1>3. /\ calls' \in [Callers -> CallRow]
        /\ \A d \in Callers : d # c => calls'[d] = calls[d]
        /\ c = "orphan" => calls'[c] = None
        /\ c # "orphan" =>
              /\ calls'[c].what = calls[c].what /\ calls'[c].arg = calls[c].arg
              /\ calls'[c].key = calls[c].key /\ calls'[c].try = calls[c].try
              /\ calls'[c].step = verdict /\ calls'[c].value = value
              /\ calls'[c].at = history.version
    BY <1>2, Answering
  <1>4. \A d \in Callers : calls'[d].what # "none" =>
          /\ calls'[d].what = calls[d].what /\ calls'[d].arg = calls[d].arg
          /\ calls'[d].key = calls[d].key
    BY <1>3, NoneIsCall
  <1>5. \A d \in Callers : d # "orphan" =>
          calls'[d].what = calls[d].what /\ calls'[d].arg = calls[d].arg /\ calls'[d].key = calls[d].key
    BY <1>3
  <1>6. Types'
    BY <1>1, <1>3 DEF Types
  <1>7. CallShapes'
    <2>0. CallShapes
      BY DEF IInv
    <2>1. (\A d \in Callers : calls[d].what \in KindsOf(d) /\ (calls[d].step = "none" <=> calls[d].what = "none"))'
      BY <1>0, <1>3, <2>0, NoneIsCall DEF CallShapes, KindsOf
    <2>2. (/\ IsCalling("act") => page.busy
           /\ calls["orphan"].step \in {"none", "sent"}
           /\ page.kind = "mine" => ~IsCalling("holds")
           /\ page.kind = "checkout" => (IsCalling("holds") <=> IsCalling("bookings"))
           /\ IsCalling("session") => ~IsCalling("holds") /\ ~IsCalling("bookings"))'
      BY <1>1, <1>3, <1>5, <2>0, NoneIsCall DEF CallShapes, IsCalling, Callers
    <2>3. (/\ \A d \in Callers : calls[d].what = "confirm" => calls[d].arg \in DOMAIN rows
           /\ \A d \in Callers : calls[d].what = "cancel" => calls[d].arg \in DOMAIN bookings)'
      BY <1>1, <1>4, <2>0 DEF CallShapes
    <2> QED BY <2>1, <2>2, <2>3 DEF CallShapes
  <1>8. Counted'
    <2>0. Counted
      BY DEF IInv
    <2>1. (\A d \in Callers : calls[d].key <= calls[d].try /\ calls[d].try <= actions)'
      BY <1>0, <1>1, <1>3, <2>0, NoneIsCall DEF Counted
    <2>2. (calls["orphan"].try <= history.mounted)'
      BY <1>0, <1>1, <1>3, <2>0, NoneIsCall DEF Counted, Callers, History
    <2>3. (calls["orphan"].what = "cancel" => bookings[calls["orphan"].arg].key <= history.mounted)'
      BY <1>1, <1>4, <2>0 DEF Counted, Callers
    <2> QED BY <1>1, <2>0, <2>1, <2>2, <2>3 DEF Counted
  <1>9. RowsAgree'
    BY <1>1 DEF IInv, RowsAgree
  <1>10. Changes'
    <2>1. (\A d \in {"holds", "bookings"} : calls[d].at <= history.version)'
      <3>1. \A d \in {"holds", "bookings"} :
              calls'[d].at = history.version \/ calls'[d].at = calls[d].at
        BY <1>3 DEF Callers
      <3> QED BY <1>0, <1>1, <3>1 DEF IInv, Changes
    <2> QED BY <1>1, <2>1 DEF IInv, Changes
  <1>11. Attempts'
    BY <1>1, <1>4 DEF IInv, Attempts, Callers
  <1>12. c = "act" => calls'["act"].step = verdict /\ calls'["act"].value = value
    BY <1>3
  <1>13. c # "act" => calls'["act"] = calls["act"]
    BY <1>3 DEF Callers
  <1>14. AnswersNow'
    <2>1. CASE c = "act" /\ verdict = "ok"
      <3>1. ReplyOf("act", "ok", value)
        BY <1>2, <2>1
      <3>2. \A x \in value :
              /\ calls["act"].what = "hold" =>
                   /\ x \in DOMAIN rows
                   /\ rows[x].slot = calls["act"].arg /\ rows[x].key = calls["act"].key
              /\ calls["act"].what = "confirm" =>
                   \E b \in DOMAIN bookings : /\ x = <<b, "CONFIRMED">>
                                             /\ bookings[b].hold = calls["act"].arg
                                             /\ bookings[b].key = calls["act"].key
              /\ calls["act"].what # "cancel"
        BY <3>1 DEF ReplyOf
      <3>3. \A x \in value : calls["act"].what = "confirm" =>
              /\ x[1] \in DOMAIN bookings /\ x = <<x[1], "CONFIRMED">>
              /\ bookings[x[1]].hold = calls["act"].arg /\ bookings[x[1]].key = calls["act"].key
        BY <3>2
      <3> QED BY <1>1, <1>5, <1>12, <2>1, <3>2, <3>3 DEF AnswersNow, Callers
    <2>2. CASE c = "act" /\ verdict # "ok"
      BY <1>12, <2>2 DEF AnswersNow
    <2>3. CASE c # "act"
      BY <1>1, <1>13, <2>3 DEF IInv, AnswersNow
    <2> QED BY <2>1, <2>2, <2>3
  <1>15. HoldTriedInVain'
    <2>1. CASE c = "act"
      <3> SUFFICES ASSUME calls["act"].what = "hold", verdict = "refused",
                          NEW h \in DOMAIN rows, rows[h].slot = calls["act"].arg
          PROVE  rows[h].try <= history.streak
        BY <1>1, <1>5, <1>12, <2>1 DEF HoldTriedInVain, Callers
      <3>1. rows[h].key # calls["act"].key
        BY <1>2, <2>1 DEF ReplyOf
      <3>2. ~(rows[h].try > history.streak)
        BY <3>1 DEF IInv, Attempts
      <3>3. rows[h] \in HoldRow
        BY <1>0
      <3> QED BY <1>0, <3>2, <3>3 DEF HoldRow, History
    <2>2. CASE c # "act"
      BY <1>1, <1>13, <2>2 DEF IInv, HoldTriedInVain
    <2> QED BY <2>1, <2>2
  <1>16. Since(history.version) = {}
    BY <1>0 DEF IInv, Changes, Since, Change
  <1>17. ListTypes'
    <2>1. (calls["holds"].step = "ok" => calls["holds"].value \subseteq DOMAIN rows)'
      <3>1. CASE c = "holds" /\ verdict = "ok"
        <4>1. value = ActiveHolds(Held)
          BY <1>0, <1>2, <3>1 DEF ReplyOf, IInv, CallShapes, KindsOf, Callers
        <4> QED BY <1>1, <1>3, <3>1, <4>1 DEF ActiveHolds, Held
      <3>2. CASE c = "holds" /\ verdict # "ok"
        BY <1>3, <3>2
      <3>3. CASE c # "holds"
        BY <1>1, <1>3, <3>3 DEF IInv, ListTypes, Callers
      <3> QED BY <3>1, <3>2, <3>3
    <2>2. (calls["bookings"].step = "ok" =>
             \A x \in calls["bookings"].value : x \in (DOMAIN bookings) \X BookingStatus)'
      <3>1. CASE c = "bookings" /\ verdict = "ok"
        <4>1. value = {<<b, bookings[b].status>> : b \in DOMAIN bookings}
          BY <1>0, <1>2, <3>1 DEF ReplyOf, IInv, CallShapes, KindsOf, Callers
        <4>2. \A b \in DOMAIN bookings : bookings[b].status \in BookingStatus
          <5>1. \A b \in DOMAIN bookings : bookings[b] \in BookingRow
            BY <1>0
          <5> QED BY <5>1 DEF BookingRow
        <4> QED BY <1>1, <1>3, <3>1, <4>1, <4>2
      <3>2. CASE c = "bookings" /\ verdict # "ok"
        BY <1>3, <3>2
      <3>3. CASE c # "bookings"
        BY <1>1, <1>3, <3>3 DEF IInv, ListTypes, Callers
      <3> QED BY <3>1, <3>2, <3>3
    <2>3. (calls["holds"].what = "none" => calls["holds"].value = {})'
      <3>1. CASE c = "holds"
        BY <1>0, <1>5, <3>1 DEF Callers
      <3>2. CASE c # "holds"
        BY <1>3, <3>2 DEF IInv, ListTypes, Callers
      <3> QED BY <3>1, <3>2
    <2> QED BY <2>1, <2>2, <2>3 DEF ListTypes
  <1>18. ListsTell'
    <2>1. (calls["holds"].step = "ok" /\ NothingTold(calls["holds"].at) =>
            /\ calls["holds"].value \subseteq DOMAIN rows
            /\ ActiveHolds(calls["holds"].value) = ShownHolds(Since(calls["holds"].at)))'
      <3>1. CASE c = "holds" /\ verdict = "ok"
        <4>1. value = ActiveHolds(Held)
          BY <1>0, <1>2, <3>1 DEF ReplyOf, IInv, CallShapes, KindsOf, Callers
        <4>2. calls'["holds"].value = ActiveHolds(Held) /\ calls'["holds"].at = history.version
          BY <1>3, <3>1, <4>1
        <4>3. Since(calls["holds"].at)' = {}
          BY <1>1, <1>16, <4>2 DEF Since
        <4>4. ShownHolds(Since(calls["holds"].at))' = ActiveHolds(Held)
          BY <1>1, <4>3 DEF ShownHolds, Among, ActiveHolds, Held
        <4>5. ActiveHolds(calls["holds"].value)' = ActiveHolds(Held) /\ ActiveHolds(Held) \subseteq DOMAIN rows
          BY <1>1, <4>2 DEF ActiveHolds, Held
        <4> QED BY <1>1, <4>2, <4>4, <4>5
      <3>2. CASE c = "holds" /\ verdict # "ok"
        BY <1>3, <3>2
      <3>3. CASE calls'["holds"] = calls["holds"]
        BY <1>1, <3>3 DEF IInv, ListsTell, NothingTold, Since, Among, ShownHolds, ActiveHolds, Held
      <3> QED BY <1>3, <3>1, <3>2, <3>3 DEF Callers
    <2>2. (calls["bookings"].step = "ok" /\ NothingTold(calls["bookings"].at) =>
             calls["bookings"].value = ShownBookings(Since(calls["bookings"].at)))'
      <3>1. CASE c = "bookings" /\ verdict = "ok"
        <4>1. value = {<<b, bookings[b].status>> : b \in DOMAIN bookings}
          BY <1>0, <1>2, <3>1 DEF ReplyOf, IInv, CallShapes, KindsOf, Callers
        <4>2. calls'["bookings"].value = value /\ calls'["bookings"].at = history.version
          BY <1>3, <3>1
        <4>3. Since(calls["bookings"].at)' = {}
          BY <1>1, <1>16, <4>2 DEF Since
        <4>4. ShownBookings(Since(calls["bookings"].at))' = {<<b, bookings[b].status>> : b \in DOMAIN bookings}
          BY <1>1, <4>3 DEF ShownBookings, Among
        <4> QED BY <4>1, <4>2, <4>4
      <3>2. CASE c = "bookings" /\ verdict # "ok"
        BY <1>3, <3>2
      <3>3. CASE calls'["bookings"] = calls["bookings"]
        BY <1>1, <3>3 DEF IInv, ListsTell, NothingTold, Since, Among, ShownBookings
      <3> QED BY <1>3, <3>1, <3>2, <3>3 DEF Callers
    <2> QED BY <2>1, <2>2 DEF ListsTell
  <1>19. \A b : Cancelling(b)' => Cancelling(b)
    BY <1>1, <1>4 DEF Cancelling, Callers
  <1>20. Fresh' = Fresh /\ Trusted' = Trusted
    BY <1>1, <1>5 DEF Fresh, Trusted, IsCalling, Callers
  <1>21. CancelledIsOld'
    <2> SUFFICES ASSUME NEW p \in history.owed, p.what = "booking", Cancelling(p.id)',
                        NEW d \in {"holds", "bookings"}, calls'[d].step = "ok"
        PROVE  p.at <= calls'[d].at
      BY <1>1 DEF CancelledIsOld
    <2>1. CASE calls'[d] = calls[d]
      BY <1>19, <2>1 DEF IInv, CancelledIsOld
    <2>2. CASE calls'[d].at = history.version
      BY <2>2 DEF IInv, Changes
    <2> QED BY <1>3, <2>1, <2>2 DEF Callers
  <1>22. ToldIsPaid'
    BY <1>1, <1>20 DEF IInv, ToldIsPaid
  <1>23. UntoldIsUntouched'
    BY <1>1, <1>4, <1>20 DEF IInv, UntoldIsUntouched, Callers
  <1>24. Keys'
    BY <1>1, <1>5 DEF IInv, Keys, Callers
  <1>25. HoldsOnPage'
    BY <1>1, <1>19, <1>20 DEF IInv, HoldsOnPage, ActiveHolds
  <1>26. ConfirmUnderWay'
    <2>1. CASE c = "act"
      <3> SUFFICES ASSUME Trusted, calls["act"].what = "confirm", NEW b \in DOMAIN bookings,
                          bookings[b].hold = calls["act"].arg
          PROVE  /\ bookings[b].try > history.mounted => bookings[b].key = calls["act"].key
                 /\ bookings[b].key = calls["act"].key => bookings[b].status = "CONFIRMED"
                 /\ verdict = "refused" => bookings[b].try <= history.mounted
        BY <1>1, <1>5, <1>12, <1>20, <2>1 DEF ConfirmUnderWay, Callers
      <3>1. /\ bookings[b].try > history.mounted => bookings[b].key = calls["act"].key
            /\ bookings[b].key = calls["act"].key => bookings[b].status = "CONFIRMED"
        BY DEF IInv, ConfirmUnderWay
      <3>2. verdict = "refused" => bookings[b].key # calls["act"].key
        BY <1>2, <2>1 DEF ReplyOf
      <3>3. bookings[b] \in BookingRow
        BY <1>0
      <3>4. bookings[b].try \in Nat /\ history.mounted \in Nat
        BY <1>0, <3>3 DEF BookingRow, History
      <3> QED BY <3>1, <3>2, <3>4
    <2>2. CASE c # "act"
      BY <1>1, <1>13, <1>20, <2>2 DEF IInv, ConfirmUnderWay
    <2> QED BY <2>1, <2>2
  <1>27. PageAgrees'
    BY <1>1 DEF IInv, PageAgrees, ShownHolds, ShownBookings, ActiveHolds, Held
  <1> QED BY <1>6, <1>7, <1>8, <1>9, <1>10, <1>11, <1>14, <1>15, <1>17, <1>18, <1>21, <1>22, <1>23, <1>24,
             <1>25, <1>26, <1>27 DEF IInv

-----------------------------------------------------------------------------
(* The user acts.                                                          *)
Begins(what, arg, key) ==
  /\ UNCHANGED <<now, rows, bookings>> /\ actions' = actions + 1 /\ ~page.busy
  /\ calls' \in [Callers -> CallRow]
  /\ \A d \in Callers : d # "act" => calls'[d] = calls[d]
  /\ calls'["act"].what = what /\ calls'["act"].arg = arg /\ calls'["act"].key = key
  /\ calls'["act"].try = actions + 1 /\ calls'["act"].step = "sent"
  /\ page' \in Page /\ page'.busy = TRUE
  /\ page'.kind = page.kind /\ page'.known = page.known
  /\ page'.holds = page.holds /\ page'.bookings = page.bookings
  /\ history' \in History
  /\ history'.owed = history.owed /\ history'.version = history.version
  /\ history'.crossed = history.crossed /\ history'.mounted = history.mounted

(* An action of the professional starts one call and marks the page busy.  *)
LEMMA Beginning ==
  ASSUME Types, NEW what \in {"hold", "confirm", "cancel"}, NEW arg \in Nat \cup Slots, NEW key \in Nat,
         NEW kept \in Page, NEW streak \in Nat, Begin(Call(what, arg, key), kept, streak),
         kept.kind = page.kind, kept.known = page.known,
         kept.holds = page.holds, kept.bookings = page.bookings
  PROVE  /\ Begins(what, arg, key)
         /\ page'.attempt = kept.attempt /\ page'.keys = kept.keys /\ history'.streak = streak
  <1>0. actions \in Nat /\ calls \in [Callers -> CallRow] /\ history \in History
    BY DEF Types
  <1>1. PICK n \in Nat : n = actions + 1
    BY <1>0
  <1> DEFINE r == [None EXCEPT !.what = what, !.arg = arg, !.key = key, !.try = n, !.step = "sent"]
  <1>2. /\ r \in CallRow /\ r.what = what /\ r.arg = arg /\ r.key = key /\ r.try = n /\ r.step = "sent"
    BY DEF None, CallRow, Kind
  <1>3. Call(what, arg, key) = r
    BY <1>1 DEF Call
  <1> HIDE DEF r
  <1>4. /\ calls' \in [Callers -> CallRow] /\ calls'["act"] = r
        /\ \A d \in Callers : d # "act" => calls'[d] = calls[d]
    BY <1>0, <1>2, <1>3 DEF Begin, Callers
  <1>5. /\ page' \in Page /\ page'.busy = TRUE
        /\ page'.kind = kept.kind /\ page'.known = kept.known
        /\ page'.holds = kept.holds /\ page'.bookings = kept.bookings
        /\ page'.attempt = kept.attempt /\ page'.keys = kept.keys
    BY DEF Begin, Page
  <1>6. /\ history' \in History /\ history'.streak = streak
        /\ history'.owed = history.owed /\ history'.version = history.version
        /\ history'.crossed = history.crossed /\ history'.mounted = history.mounted
    BY <1>0 DEF Begin, History
  <1>7. UNCHANGED <<now, rows, bookings>> /\ actions' = actions + 1 /\ ~page.busy
    BY DEF Begin, server
  <1> QED BY <1>1, <1>2, <1>4, <1>5, <1>6, <1>7 DEF Begins

(* What no action of the user disturbs. *)
LEMMA BeginsKeeps ==
  ASSUME Types, IInv, NEW what \in {"hold", "confirm", "cancel"}, NEW arg \in Nat \cup Slots, NEW key \in Nat,
         Begins(what, arg, key),
         what = "confirm" => arg \in DOMAIN rows, what = "cancel" => arg \in DOMAIN bookings
  PROVE  /\ Types' /\ CallShapes' /\ RowsAgree' /\ Changes' /\ AnswersNow' /\ HoldTriedInVain'
         /\ ListTypes' /\ ListsTell' /\ ToldIsPaid' /\ PageAgrees'
         /\ Fresh' = Fresh /\ Trusted' = Trusted
         /\ calls["act"].what = "none" /\ calls'["orphan"] = calls["orphan"]
         /\ calls'["holds"] = calls["holds"] /\ calls'["bookings"] = calls["bookings"]
  <1>1. /\ calls["act"].what = "none" /\ calls'["orphan"] = calls["orphan"]
        /\ calls'["holds"] = calls["holds"] /\ calls'["bookings"] = calls["bookings"]
        /\ calls'["session"] = calls["session"] /\ calls'["detail"] = calls["detail"]
    BY DEF Begins, Callers, IInv, CallShapes, IsCalling
  <1>2. Types'
    BY DEF Begins, Types
  <1>3. CallShapes'
    BY <1>1 DEF Begins, IInv, CallShapes, KindsOf, Callers, IsCalling
  <1>4. RowsAgree'
    BY DEF Begins, IInv, RowsAgree
  <1>5. Changes'
    BY <1>1 DEF Begins, IInv, Changes
  <1>6. AnswersNow' /\ HoldTriedInVain'
    BY DEF Begins, AnswersNow, HoldTriedInVain
  <1>7. ListTypes'
    BY <1>1 DEF Begins, IInv, ListTypes
  <1>8. ListsTell'
    BY <1>1, ListsStay DEF Begins, IInv
  <1>9. Fresh' = Fresh /\ Trusted' = Trusted
    BY <1>1 DEF Begins, Fresh, Trusted, IsCalling
  <1>10. ToldIsPaid'
    BY <1>9 DEF Begins, IInv, ToldIsPaid
  <1>11. PageAgrees'
    BY DEF Begins, IInv, PageAgrees, ShownHolds, ShownBookings, ActiveHolds, Held
  <1> QED BY <1>1, <1>2, <1>3, <1>4, <1>5, <1>6, <1>7, <1>8, <1>9, <1>10, <1>11

(* Keys are counted on with the actions. *)
LEMMA BeginsCounted ==
  ASSUME Types, Counted, NEW what, NEW arg, NEW key \in Nat, Begins(what, arg, key), key <= actions + 1,
         history.streak <= history'.streak, history'.streak <= actions,
         page'.attempt.slot # 0 => history'.streak < page'.attempt.key /\ page'.attempt.key <= actions + 1,
         \A k \in page'.keys : k \in page.keys \/ k[2] = actions + 1
  PROVE  Counted'
  <1>0. /\ actions \in Nat /\ actions' = actions + 1 /\ history.mounted \in Nat
        /\ history.streak \in Nat /\ history'.streak \in Nat /\ history'.mounted = history.mounted
        /\ calls'["orphan"] = calls["orphan"]
    BY DEF Types, History, Begins, Callers
  <1>1. (history.mounted <= history.streak /\ history.streak <= actions)'
    BY <1>0 DEF Counted
  <1>2. (\A h \in DOMAIN rows : rows[h].key <= rows[h].try /\ rows[h].try <= actions)'
    <2>1. \A h \in DOMAIN rows : rows[h].key \in Nat /\ rows[h].try \in Nat
      <3>1. \A h \in DOMAIN rows : rows[h] \in HoldRow
        BY DEF Types
      <3> QED BY <3>1 DEF HoldRow
    <2> QED BY <1>0, <2>1 DEF Counted, Begins
  <1>3. (\A b \in DOMAIN bookings : bookings[b].key <= bookings[b].try /\ bookings[b].try <= actions)'
    <2>1. \A b \in DOMAIN bookings : bookings[b].key \in Nat /\ bookings[b].try \in Nat
      <3>1. \A b \in DOMAIN bookings : bookings[b] \in BookingRow
        BY DEF Types
      <3> QED BY <3>1 DEF BookingRow
    <2> QED BY <1>0, <2>1 DEF Counted, Begins
  <1>4. (\A d \in Callers : calls[d].key <= calls[d].try /\ calls[d].try <= actions)'
    <2> SUFFICES ASSUME NEW d \in Callers
        PROVE  calls'[d].key <= calls'[d].try /\ calls'[d].try <= actions'
      OBVIOUS
    <2>1. CASE d = "act"
      BY <1>0, <2>1 DEF Begins
    <2>2. CASE d # "act"
      <3>1. calls[d] \in CallRow /\ calls'[d] = calls[d]
        BY <2>2 DEF Types, Begins
      <3> QED BY <1>0, <3>1 DEF Counted, CallRow
    <2> QED BY <2>1, <2>2
  <1>5. (/\ calls["orphan"].try <= history.mounted
         /\ calls["orphan"].what = "cancel" => bookings[calls["orphan"].arg].key <= history.mounted)'
    BY <1>0 DEF Counted, Begins
  <1>6. (page.attempt.slot # 0 => history.streak < page.attempt.key /\ page.attempt.key <= actions)'
    BY <1>0
  <1>7. (\A k \in page.keys : history.mounted < k[2] /\ k[2] <= actions)'
    <2> SUFFICES ASSUME NEW k \in page'.keys
        PROVE  history.mounted < k[2] /\ k[2] <= actions + 1
      BY <1>0
    <2>1. k[2] \in Nat
      BY DEF Begins, Page
    <2> QED BY <1>0, <1>1, <2>1 DEF Counted
  <1> QED BY <1>1, <1>2, <1>3, <1>4, <1>5, <1>6, <1>7 DEF Counted

(* A hold is tried, with the key of the attempt or a new one. *)
LEMMA TakeHoldKeeps ==
  ASSUME Types, IInv, NEW s \in Slots, TakeHold(s)
  PROVE  Types' /\ IInv'
  <1>0. /\ page \in Page /\ actions \in Nat /\ history.streak \in Nat /\ history.mounted \in Nat
        /\ s # 0 /\ page.attempt \in [slot: Slots \cup {0}, key: Nat] /\ actions + 1 \in Nat
    BY CheckoutAssumption, SMTT(30) DEF Types, History, Page
  <1>1. PICK a \in [slot: Slots \cup {0}, key: Nat] :
           /\ a = AttemptFor(s) /\ a.slot = s
           /\ IF page.attempt.slot = s THEN a = page.attempt ELSE a.key = actions + 1
    <2>1. [slot |-> s, key |-> actions + 1] \in [slot: Slots \cup {0}, key: Nat]
      BY <1>0
    <2> QED BY <1>0, <2>1 DEF AttemptFor
  <1>2. PICK streak \in Nat :
           streak = IF page.attempt.slot \in {0, s} THEN history.streak ELSE actions
    BY <1>0
  <1> DEFINE kept == [page EXCEPT !.attempt = a]
  <1>3. /\ kept \in Page
        /\ kept.kind = page.kind /\ kept.known = page.known /\ kept.holds = page.holds
        /\ kept.bookings = page.bookings /\ kept.attempt = a /\ kept.keys = page.keys
    BY <1>0, <1>1 DEF Page
  <1>4. Begin(Call("hold", s, a.key), kept, streak)
    BY <1>1, <1>2 DEF TakeHold
  <1> HIDE DEF kept
  <1>5. /\ Begins("hold", s, a.key)
        /\ page'.attempt = a /\ page'.keys = page.keys /\ history'.streak = streak
    <2>1. PICK k \in Nat : k = a.key
      BY <1>1
    <2>2. Begin(Call("hold", s, k), kept, streak)
      BY <1>4, <2>1
    <2>3. s \in Nat \cup Slots
      OBVIOUS
    <2>4. /\ Begins("hold", s, k)
          /\ page'.attempt = kept.attempt /\ page'.keys = kept.keys /\ history'.streak = streak
      BY <1>3, <2>2, <2>3, Beginning, SMTT(30)
    <2> QED BY <1>3, <2>1, <2>4
  <1>6. /\ Types' /\ CallShapes' /\ RowsAgree' /\ Changes' /\ AnswersNow' /\ HoldTriedInVain'
        /\ ListTypes' /\ ListsTell' /\ ToldIsPaid' /\ PageAgrees'
        /\ Fresh' = Fresh /\ Trusted' = Trusted
        /\ calls["act"].what = "none" /\ calls'["orphan"] = calls["orphan"]
        /\ calls'["holds"] = calls["holds"] /\ calls'["bookings"] = calls["bookings"]
    BY <1>1, <1>5, BeginsKeeps
  <1>7. /\ UNCHANGED <<now, rows, bookings>> /\ calls'["act"].what = "hold" /\ calls'["act"].arg = s
        /\ calls'["act"].key = a.key
        /\ page'.holds = page.holds /\ page'.bookings = page.bookings
        /\ history'.owed = history.owed /\ history'.mounted = history.mounted
    BY <1>5 DEF Begins
  <1>8. history.streak <= streak /\ streak <= actions /\ a.key <= actions + 1 /\ streak < a.key
    BY <1>0, <1>1, <1>2 DEF IInv, Counted
  <1>9. Counted'
    BY <1>1, <1>5, <1>8, BeginsCounted DEF IInv
  <1>10. Attempts'
    <2>1. (calls["act"].what = "hold" =>
             page.attempt.slot = calls["act"].arg /\ page.attempt.key = calls["act"].key
               /\ calls["act"].arg \in Slots)'
      BY <1>1, <1>5, <1>7
    <2>2. (\A h \in DOMAIN rows : rows[h].try > history.streak =>
             rows[h].slot = page.attempt.slot /\ rows[h].key = page.attempt.key)'
      <3> SUFFICES ASSUME NEW h \in DOMAIN rows, rows[h].try > streak
          PROVE  rows[h].slot = a.slot /\ rows[h].key = a.key
        BY <1>5, <1>7
      <3>1. rows[h] \in HoldRow /\ rows[h].slot \in Slots /\ rows[h].try \in Nat
        <4>1. rows[h] \in HoldRow
          BY DEF Types
        <4> QED BY <4>1 DEF HoldRow
      <3>2. rows[h].try > history.streak /\ streak # actions
        BY <1>0, <1>8, <3>1 DEF IInv, Counted
      <3>3. rows[h].slot = page.attempt.slot /\ rows[h].key = page.attempt.key
        BY <3>2 DEF IInv, Attempts
      <3> QED BY <1>1, <1>2, <3>1, <3>2, <3>3, CheckoutAssumption
    <2>3. (calls["orphan"].what = "hold" => calls["orphan"].arg \in Slots)'
      BY <1>6 DEF IInv, Attempts
    <2> QED BY <2>1, <2>2, <2>3 DEF Attempts
  <1>11. \A b : Cancelling(b)' => Cancelling(b)
    BY <1>6, <1>7 DEF Cancelling
  <1>12. CancelledIsOld'
    BY <1>6, <1>7, <1>11 DEF IInv, CancelledIsOld
  <1>13. UntoldIsUntouched'
    <2>1. \A h \in DOMAIN rows : rows[h].try > streak => rows[h].try > history.streak
      <3>1. \A h \in DOMAIN rows : rows[h].try \in Nat
        <4>1. \A h \in DOMAIN rows : rows[h] \in HoldRow
          BY DEF Types
        <4> QED BY <4>1 DEF HoldRow
      <3> QED BY <1>0, <1>8, <3>1
    <2> QED BY <1>5, <1>6, <1>7, <2>1 DEF IInv, UntoldIsUntouched
  <1>14. Keys'
    BY <1>5, <1>7 DEF IInv, Keys
  <1>15. HoldsOnPage'
    BY <1>5, <1>6, <1>7, <1>11 DEF IInv, HoldsOnPage, ActiveHolds
  <1>16. ConfirmUnderWay'
    BY <1>7 DEF ConfirmUnderWay
  <1> QED BY <1>6, <1>9, <1>10, <1>12, <1>13, <1>14, <1>15, <1>16 DEF IInv

(* A confirmation is tried, with the key the page keeps for its hold or a  *)
(* new one.                                                                *)
LEMMA ConfirmKeeps ==
  ASSUME Types, IInv, NEW h \in DOMAIN rows, Confirm(h)
  PROVE  Types' /\ IInv'
  <1>0. /\ page \in Page /\ actions \in Nat /\ history.streak \in Nat /\ history.mounted \in Nat
        /\ h \in Nat /\ actions + 1 \in Nat /\ page.keys \in SUBSET (Nat \X Nat)
        /\ h \in ActiveHolds(page.holds) /\ h \in page.holds
    BY SMTT(30) DEF Types, History, Page, Confirm, ActiveHolds
  <1>1. PICK k \in Nat :
           /\ k = KeyFor(h)
           /\ <<h, k>> \in page.keys \/ (k = actions + 1 /\ \A l \in page.keys : l[1] # h)
    <2> DEFINE kept == {l \in page.keys : l[1] = h}
    <2>1. CASE kept = {}
      BY <1>0, <2>1 DEF KeyFor
    <2>2. CASE kept # {}
      <3>1. PICK l \in kept : l = CHOOSE m \in kept : TRUE
        BY <2>2
      <3>2. KeyFor(h) = l[2] /\ l \in Nat \X Nat /\ l \in page.keys /\ l[1] = h
        BY <1>0, <2>2, <3>1 DEF KeyFor
      <3>3. l = <<h, l[2]>> /\ l[2] \in Nat
        BY <3>2
      <3> QED BY <3>2, <3>3
    <2> QED BY <2>1, <2>2
  <1>2. PICK keys \in SUBSET (Nat \X Nat) : keys = page.keys \cup {<<h, k>>}
    <2>1. page.keys \cup {<<h, k>>} \in SUBSET (Nat \X Nat)
      BY <1>0, <1>1
    <2> QED BY <2>1
  <1> DEFINE kept == [page EXCEPT !.keys = keys]
  <1>3. /\ kept \in Page
        /\ kept.kind = page.kind /\ kept.known = page.known /\ kept.holds = page.holds
        /\ kept.bookings = page.bookings /\ kept.attempt = page.attempt /\ kept.keys = keys
    BY <1>0, <1>2 DEF Page
  <1>4. Begin(Call("confirm", h, k), kept, history.streak)
    BY <1>1, <1>2 DEF Confirm
  <1> HIDE DEF kept
  <1>5. /\ Begins("confirm", h, k)
        /\ page'.attempt = page.attempt /\ page'.keys = keys /\ history'.streak = history.streak
    BY <1>0, <1>3, <1>4, Beginning
  <1>6. /\ Types' /\ CallShapes' /\ RowsAgree' /\ Changes' /\ AnswersNow' /\ HoldTriedInVain'
        /\ ListTypes' /\ ListsTell' /\ ToldIsPaid' /\ PageAgrees'
        /\ Fresh' = Fresh /\ Trusted' = Trusted
        /\ calls["act"].what = "none" /\ calls'["orphan"] = calls["orphan"]
        /\ calls'["holds"] = calls["holds"] /\ calls'["bookings"] = calls["bookings"]
    BY <1>0, <1>5, BeginsKeeps
  <1>7. /\ UNCHANGED <<now, rows, bookings>> /\ calls'["act"].what = "confirm" /\ calls'["act"].arg = h
        /\ calls'["act"].key = k /\ calls'["act"].step = "sent"
        /\ page'.holds = page.holds /\ page'.bookings = page.bookings
        /\ history'.owed = history.owed /\ history'.mounted = history.mounted
    BY <1>5 DEF Begins
  <1>8. Counted'
    <2>1. k <= actions + 1
      BY <1>0, <1>1 DEF IInv, Counted
    <2>2. \A l \in page'.keys : l \in page.keys \/ l[2] = actions + 1
      BY <1>1, <1>2, <1>5
    <2>3. page'.attempt.slot # 0 => history'.streak < page'.attempt.key /\ page'.attempt.key <= actions + 1
      <3>1. page.attempt \in [slot: Slots \cup {0}, key: Nat]
        BY <1>0 DEF Page
      <3> QED BY <1>0, <1>5, <3>1 DEF IInv, Counted
    <2> QED BY <1>0, <1>5, <2>1, <2>2, <2>3, BeginsCounted DEF IInv, Counted
  <1>9. Attempts'
    BY <1>5, <1>6, <1>7 DEF IInv, Attempts
  <1>10. \A b : Cancelling(b)' => Cancelling(b)
    BY <1>6, <1>7 DEF Cancelling
  <1>11. CancelledIsOld'
    BY <1>6, <1>7, <1>10 DEF IInv, CancelledIsOld
  <1>12. UntoldIsUntouched'
    <2>1. Fresh => ~(rows[h].try > history.streak)
      BY <1>0 DEF IInv, UntoldIsUntouched
    <2> QED BY <1>5, <1>6, <1>7, <2>1 DEF IInv, UntoldIsUntouched
  <1>13. Keys'
    <2>1. (\A l, m \in page.keys : l[1] = m[1] => l = m)'
      <3>1. CASE <<h, k>> \in page.keys
        BY <1>2, <1>5, <3>1 DEF IInv, Keys
      <3>2. CASE \A l \in page.keys : l[1] # h
        BY <1>2, <1>5, <3>2 DEF IInv, Keys
      <3> QED BY <1>1, <3>1, <3>2
    <2>2. (calls["act"].what = "confirm" => <<calls["act"].arg, calls["act"].key>> \in page.keys)'
      BY <1>2, <1>5, <1>7
    <2>3. (\A b \in DOMAIN bookings : bookings[b].try > history.mounted /\ Among(history.owed, "booking", b) =>
             <<bookings[b].hold, bookings[b].key>> \in page.keys)'
      BY <1>2, <1>5, <1>7 DEF IInv, Keys, Among
    <2> QED BY <2>1, <2>2, <2>3 DEF Keys
  <1>14. HoldsOnPage'
    <2>1. ActiveHolds(page.holds)' = ActiveHolds(page.holds)
      BY <1>7 DEF ActiveHolds
    <2> QED BY <1>2, <1>5, <1>6, <1>7, <1>10, <2>1 DEF IInv, HoldsOnPage
  <1>15. ConfirmUnderWay'
    <2> SUFFICES ASSUME Trusted, NEW b \in DOMAIN bookings, bookings[b].hold = h
        PROVE  /\ bookings[b].try > history.mounted => bookings[b].key = k
               /\ bookings[b].key = k => bookings[b].status = "CONFIRMED"
      BY <1>6, <1>7 DEF ConfirmUnderWay
    <2>1. /\ bookings[b].try > history.mounted => <<h, bookings[b].key>> \in page.keys
          /\ ~Cancelling(b)
      BY <1>0 DEF IInv, HoldsOnPage
    <2>2. bookings[b].status = "CONFIRMED"
      <3>1. bookings[b] \in BookingRow
        BY DEF Types
      <3> QED BY <2>1, <3>1 DEF Cancelling, BookingRow, BookingStatus
    <2>3. <<h, bookings[b].key>> \in page.keys => bookings[b].key = k
      <3> SUFFICES ASSUME NEW l, l = <<h, bookings[b].key>>, l \in page.keys
          PROVE  l[2] = k
        OBVIOUS
      <3>1. \A m \in page.keys : l[1] = m[1] => l = m
        BY DEF IInv, Keys
      <3> QED BY <1>1, <3>1
    <2> QED BY <2>1, <2>2, <2>3
  <1> QED BY <1>6, <1>8, <1>9, <1>11, <1>12, <1>13, <1>14, <1>15 DEF IInv

(* A cancellation is tried, with a key of its own. *)
LEMMA CancelKeeps ==
  ASSUME Types, IInv, NEW b \in DOMAIN bookings, Cancel(b)
  PROVE  Types' /\ IInv'
  <1>0. /\ page \in Page /\ actions \in Nat /\ history.streak \in Nat /\ history.mounted \in Nat
        /\ b \in Nat /\ actions + 1 \in Nat
    BY DEF Types, History
  <1>1. PICK x \in page.bookings : x = <<b, "CONFIRMED">> /\ x[1] = b
    BY DEF Cancel
  <1>2. Begin(Call("cancel", b, actions + 1), page, history.streak)
    BY DEF Cancel
  <1>3. /\ Begins("cancel", b, actions + 1)
        /\ page'.attempt = page.attempt /\ page'.keys = page.keys /\ history'.streak = history.streak
    BY <1>0, <1>2, Beginning
  <1>4. /\ Types' /\ CallShapes' /\ RowsAgree' /\ Changes' /\ AnswersNow' /\ HoldTriedInVain'
        /\ ListTypes' /\ ListsTell' /\ ToldIsPaid' /\ PageAgrees'
        /\ Fresh' = Fresh /\ Trusted' = Trusted
        /\ calls["act"].what = "none" /\ calls'["orphan"] = calls["orphan"]
        /\ calls'["holds"] = calls["holds"] /\ calls'["bookings"] = calls["bookings"]
    BY <1>0, <1>3, BeginsKeeps
  <1>5. /\ UNCHANGED <<now, rows, bookings>> /\ calls'["act"].what = "cancel" /\ calls'["act"].arg = b
        /\ page'.holds = page.holds /\ page'.bookings = page.bookings
        /\ history'.owed = history.owed /\ history'.mounted = history.mounted
    BY <1>3 DEF Begins
  <1>6. Counted'
    <2>1. page'.attempt.slot # 0 => history'.streak < page'.attempt.key /\ page'.attempt.key <= actions + 1
      <3>1. page.attempt \in [slot: Slots \cup {0}, key: Nat]
        BY <1>0 DEF Page
      <3> QED BY <1>0, <1>3, <3>1 DEF IInv, Counted
    <2> QED BY <1>0, <1>3, <2>1, BeginsCounted DEF IInv, Counted
  <1>7. Attempts'
    BY <1>3, <1>4, <1>5 DEF IInv, Attempts
  <1>8. \A d : Cancelling(d)' => d = b \/ Cancelling(d)
    BY <1>4, <1>5 DEF Cancelling
  <1>9. CancelledIsOld'
    <2> SUFFICES ASSUME NEW o \in history.owed, o.what = "booking", Cancelling(o.id)',
                        NEW c \in {"holds", "bookings"}, calls[c].step = "ok"
        PROVE  o.at <= calls[c].at
      BY <1>4, <1>5 DEF CancelledIsOld
    <2>1. Fresh
      BY DEF Fresh, IsCalling, IInv, CallShapes, Callers
    <2>2. o.id # b
      BY <1>1, <2>1 DEF IInv, ToldIsPaid, Among
    <2> QED BY <1>8, <2>2 DEF IInv, CancelledIsOld
  <1>10. UntoldIsUntouched'
    BY <1>3, <1>4, <1>5 DEF IInv, UntoldIsUntouched
  <1>11. Keys'
    BY <1>3, <1>5 DEF IInv, Keys
  <1>12. HoldsOnPage'
    <2>1. ActiveHolds(page.holds)' = ActiveHolds(page.holds)
      BY <1>5 DEF ActiveHolds
    <2> SUFFICES ASSUME Trusted, NEW h \in ActiveHolds(page.holds), NEW d \in DOMAIN bookings,
                        bookings[d].hold = h
        PROVE  /\ bookings[d].try > history.mounted => <<h, bookings[d].key>> \in page.keys
               /\ ~Cancelling(d)'
               /\ \A y \in page.bookings : y[1] # d
      BY <1>3, <1>4, <1>5, <2>1 DEF HoldsOnPage
    <2>2. /\ bookings[d].try > history.mounted => <<h, bookings[d].key>> \in page.keys
          /\ ~Cancelling(d)
          /\ \A y \in page.bookings : y[1] # d
      BY DEF IInv, HoldsOnPage
    <2> QED BY <1>1, <1>8, <2>2
  <1>13. ConfirmUnderWay'
    BY <1>5 DEF ConfirmUnderWay
  <1> QED BY <1>4, <1>6, <1>7, <1>9, <1>10, <1>11, <1>12, <1>13 DEF IInv

-----------------------------------------------------------------------------
(* A page is opened: the first one, or after a reload.                     *)
Opened(kind, orphan) ==
  /\ calls' = FreshCalls(kind, orphan) /\ page' = FreshPage(kind)
  /\ history'.streak = actions /\ history'.mounted = actions

IsFreshPage(q, kind) ==
  /\ q \in Page /\ q.kind = kind /\ q.known = FALSE /\ q.holds = {} /\ q.bookings = {}
  /\ q.attempt.slot = 0 /\ q.keys = {}

AreFreshCalls(r, orphan) ==
  /\ r \in [Callers -> CallRow] /\ r["orphan"] = orphan
  /\ r["act"] = None /\ r["holds"] = None /\ r["bookings"] = None
  /\ r["session"].what = "session" /\ r["session"].step = "sent"
  /\ r["detail"] = None \/ (r["detail"].what = "detail" /\ r["detail"].step = "sent")
  /\ \A d \in {"session", "detail"} : r[d].key = 0 /\ r[d].try = 0

(* The values of a mount. *)
LEMMA FreshFields ==
  ASSUME NEW kind \in {"checkout", "mine"}, NEW orphan \in CallRow
  PROVE  IsFreshPage(FreshPage(kind), kind) /\ AreFreshCalls(FreshCalls(kind, orphan), orphan)
  <1>1. FreshPage(kind) \in Page
    <2>1. [slot |-> 0, key |-> 0] \in [slot: Slots \cup {0}, key: Nat]
      OBVIOUS
    <2> QED BY <2>1 DEF FreshPage, Page
  <1>2. LET q == FreshPage(kind)
        IN /\ q.kind = kind /\ q.known = FALSE /\ q.holds = {} /\ q.bookings = {}
           /\ q.attempt.slot = 0 /\ q.keys = {}
    BY DEF FreshPage
  <1> DEFINE u == [None EXCEPT !.what = "session", !.step = "sent"]
             v == [None EXCEPT !.what = "detail", !.step = "sent"]
             r == FreshCalls(kind, orphan)
  <1>3. /\ u \in CallRow /\ u.what = "session" /\ u.step = "sent" /\ u.key = 0 /\ u.try = 0
        /\ v \in CallRow /\ v.what = "detail" /\ v.step = "sent" /\ v.key = 0 /\ v.try = 0
    BY DEF None, CallRow, Kind
  <1>4. r = [c \in Callers |->
               CASE c = "session" -> u
                 [] c = "detail" /\ kind = "checkout" -> v
                 [] c = "orphan" -> orphan
                 [] OTHER -> None]
    BY DEF FreshCalls
  <1> HIDE DEF u, v, r
  <1>5. /\ r["session"] = u /\ r["orphan"] = orphan /\ r["act"] = None /\ r["holds"] = None
        /\ r["bookings"] = None /\ r["detail"] = IF kind = "checkout" THEN v ELSE None
    BY <1>4 DEF Callers
  <1>6. r \in [Callers -> CallRow]
    <2>1. \A c \in Callers : r[c] \in CallRow
      BY <1>3, <1>5, NoneIsCall DEF Callers
    <2> QED BY <1>4, <2>1
  <1>7. FreshCalls(kind, orphan) = r
    BY DEF r
  <1>8. IsFreshPage(FreshPage(kind), kind)
    BY <1>1, <1>2 DEF IsFreshPage
  <1>9. AreFreshCalls(r, orphan)
    BY <1>3, <1>5, <1>6, NoneIsCall DEF AreFreshCalls
  <1> QED BY <1>7, <1>8, <1>9

(* What a page that is mounted needs of the rows and of the call it        *)
(* inherits.                                                               *)
LEMMA OpenedKeeps ==
  ASSUME Types', NEW kind \in {"checkout", "mine"}, NEW orphan \in CallRow, Opened(kind, orphan),
         orphan.what \in KindsOf("orphan"), orphan.step \in {"none", "sent"},
         orphan.step = "none" <=> orphan.what = "none",
         orphan.what = "confirm" => orphan.arg \in DOMAIN rows',
         orphan.what = "cancel" => orphan.arg \in DOMAIN bookings' /\ bookings'[orphan.arg].key <= actions,
         orphan.what = "hold" => orphan.arg \in Slots,
         orphan.key <= orphan.try, orphan.try <= actions, actions \in Nat, actions' = actions,
         \A h \in DOMAIN rows' : rows'[h].key <= rows'[h].try /\ rows'[h].try <= actions,
         \A b \in DOMAIN bookings' : bookings'[b].key <= bookings'[b].try /\ bookings'[b].try <= actions,
         \A h \in DOMAIN rows' : rows'[h].end = "expired" => rows'[h].until <= now',
         \A b \in DOMAIN bookings' : /\ bookings'[b].hold \in DOMAIN rows'
                                     /\ rows'[bookings'[b].hold].end = "booked",
         \A b, c \in DOMAIN bookings' : bookings'[b].hold = bookings'[c].hold => b = c,
         \A o \in history'.owed : /\ 0 < o.at /\ o.at <= history'.version
                                  /\ o.what = "hold" => o.id \in DOMAIN rows'
                                  /\ o.what # "hold" => o.id \in DOMAIN bookings',
         \A o, p \in history'.owed : o.at = p.at => o = p
  PROVE  IInv'
  <1>1. /\ page' \in Page /\ page'.kind = kind /\ page'.known = FALSE /\ page'.holds = {}
        /\ page'.bookings = {} /\ page'.attempt.slot = 0 /\ page'.keys = {}
        /\ calls' \in [Callers -> CallRow] /\ calls'["orphan"] = orphan
        /\ calls'["act"] = None /\ calls'["holds"] = None /\ calls'["bookings"] = None
        /\ calls'["session"].what = "session" /\ calls'["session"].step = "sent"
        /\ calls'["detail"] = None \/ (calls'["detail"].what = "detail" /\ calls'["detail"].step = "sent")
        /\ \A d \in {"session", "detail"} : calls'[d].key = 0 /\ calls'[d].try = 0
    <2>1. IsFreshPage(page', kind) /\ AreFreshCalls(calls', orphan)
      BY FreshFields DEF Opened
    <2> QED BY <2>1 DEF IsFreshPage, AreFreshCalls
  <1>2. history'.streak = actions /\ history'.mounted = actions /\ history'.version \in Nat
    BY DEF Opened, Types, History
  <1>3. CallShapes'
    BY <1>1, NoneIsCall DEF CallShapes, KindsOf, Callers, IsCalling
  <1>4. Counted'
    <2>1. (\A d \in Callers : calls[d].key <= calls[d].try /\ calls[d].try <= actions)'
      BY <1>1, NoneIsCall DEF Callers
    <2> QED BY <1>1, <1>2, <2>1 DEF Counted
  <1>5. RowsAgree'
    BY <1>1 DEF RowsAgree
  <1>6. Changes'
    BY <1>1, <1>2, NoneIsCall DEF Changes
  <1>7. \A h \in DOMAIN rows' : ~(rows'[h].try > history'.streak)
    <2>1. \A h \in DOMAIN rows' : rows'[h].try \in Nat
      <3>1. \A h \in DOMAIN rows' : rows'[h] \in HoldRow
        BY DEF Types
      <3> QED BY <3>1 DEF HoldRow
    <2> QED BY <1>2, <2>1
  <1>8. \A b \in DOMAIN bookings' : ~(bookings'[b].try > history'.mounted)
    <2>1. \A b \in DOMAIN bookings' : bookings'[b].try \in Nat
      <3>1. \A b \in DOMAIN bookings' : bookings'[b] \in BookingRow
        BY DEF Types
      <3> QED BY <3>1 DEF BookingRow
    <2> QED BY <1>2, <2>1
  <1>9. Attempts'
    BY <1>1, <1>7, NoneIsCall DEF Attempts
  <1>10. AnswersNow' /\ HoldTriedInVain' /\ ListTypes' /\ ListsTell' /\ CancelledIsOld'
    BY <1>1, NoneIsCall DEF AnswersNow, HoldTriedInVain, ListTypes, ListsTell, CancelledIsOld
  <1>11. ToldIsPaid' /\ UntoldIsUntouched' /\ Keys' /\ ConfirmUnderWay' /\ PageAgrees'
    BY <1>1, <1>7, <1>8, NoneIsCall DEF ToldIsPaid, UntoldIsUntouched, Keys, ConfirmUnderWay, PageAgrees
  <1>12. HoldsOnPage'
    BY <1>1 DEF HoldsOnPage, ActiveHolds
  <1> QED BY <1>3, <1>4, <1>5, <1>6, <1>9, <1>10, <1>11, <1>12 DEF IInv

(* A mount forgets the page; a request that was sent goes on without it.   *)
LEMMA MountKeeps ==
  ASSUME Types, IInv, NEW kind \in {"checkout", "mine"}, Mount(kind)
  PROVE  Types' /\ IInv'
  <1>0. /\ actions \in Nat /\ history \in History /\ history.version \in Nat /\ history.streak \in Nat
        /\ history.mounted \in Nat /\ calls \in [Callers -> CallRow]
    BY DEF Types, History
  <1>1. PICK orphan \in CallRow :
           /\ orphan = IF IsCalling("act") /\ calls["act"].step = "sent" THEN calls["act"] ELSE calls["orphan"]
           /\ calls' = FreshCalls(kind, orphan)
    BY <1>0 DEF Mount, Callers
  <1>2. /\ history' \in History /\ history'.streak = actions /\ history'.mounted = actions
        /\ history'.owed = history.owed /\ history'.version = history.version
    BY <1>0 DEF Mount, History
  <1>3. UNCHANGED <<now, rows, bookings, actions>> /\ Opened(kind, orphan)
    BY <1>1, <1>2 DEF Mount, server, Opened
  <1>4. Types'
    <2>1. page' \in Page /\ calls' \in [Callers -> CallRow]
      BY <1>3, FreshFields DEF Opened, IsFreshPage, AreFreshCalls
    <2> QED BY <1>2, <1>3, <2>1 DEF Types
  <1>5. /\ orphan.what \in KindsOf("orphan") /\ orphan.step \in {"none", "sent"}
        /\ orphan.step = "none" <=> orphan.what = "none"
        /\ orphan.what = "confirm" => orphan.arg \in DOMAIN rows
        /\ orphan.what = "cancel" => orphan.arg \in DOMAIN bookings
    BY <1>1 DEF IInv, CallShapes, KindsOf, Callers
  <1>6. \A b \in DOMAIN bookings :
          bookings[b].key <= actions /\ bookings[b].key <= bookings[b].try /\ bookings[b].try <= actions
    <2>1. \A b \in DOMAIN bookings : bookings[b] \in BookingRow
      BY DEF Types
    <2> QED BY <1>0, <2>1 DEF IInv, Counted, BookingRow
  <1>7. orphan.what = "hold" => orphan.arg \in Slots
    BY <1>1 DEF IInv, Attempts
  <1>8. orphan.key <= orphan.try /\ orphan.try <= actions
    BY <1>1 DEF IInv, Counted, Callers
  <1>9. /\ \A h \in DOMAIN rows : rows[h].key <= rows[h].try /\ rows[h].try <= actions
        /\ \A h \in DOMAIN rows : rows[h].end = "expired" => rows[h].until <= now
        /\ \A b \in DOMAIN bookings : bookings[b].hold \in DOMAIN rows /\ rows[bookings[b].hold].end = "booked"
        /\ \A b, c \in DOMAIN bookings : bookings[b].hold = bookings[c].hold => b = c
    BY DEF IInv, Counted, RowsAgree
  <1>10. /\ \A o \in history.owed : /\ 0 < o.at /\ o.at <= history.version
                                    /\ o.what = "hold" => o.id \in DOMAIN rows
                                    /\ o.what # "hold" => o.id \in DOMAIN bookings
         /\ \A o, p \in history.owed : o.at = p.at => o = p
    BY DEF IInv, Changes
  <1>11. UNCHANGED <<now, rows, bookings, actions>> /\ history'.owed = history.owed
         /\ history'.version = history.version
    BY <1>2, <1>3
  <1> HIDE DEF Opened
  <1>12. IInv'
    BY <1>0, <1>3, <1>4, <1>5, <1>6, <1>7, <1>8, <1>9, <1>10, <1>11, OpenedKeeps
  <1> QED BY <1>4, <1>12

(* The first page. *)
LEMMA InitHolds ==
  ASSUME Init
  PROVE  Types /\ IInv
  <1>0. rows = <<>> /\ bookings = <<>> /\ now = 0 /\ actions = 0 /\ page = FreshPage("checkout")
        /\ calls = FreshCalls("checkout", None)
        /\ history = [version |-> 0, owed |-> {}, crossed |-> FALSE, streak |-> 0, mounted |-> 0]
    BY DEF Init
  <1>1. /\ page \in Page /\ page.kind = "checkout" /\ page.known = FALSE /\ page.holds = {}
        /\ page.bookings = {} /\ page.attempt.slot = 0 /\ page.keys = {}
        /\ calls \in [Callers -> CallRow] /\ calls["orphan"] = None
        /\ calls["act"] = None /\ calls["holds"] = None /\ calls["bookings"] = None
        /\ calls["session"].what = "session" /\ calls["session"].step = "sent"
        /\ calls["detail"] = None \/ (calls["detail"].what = "detail" /\ calls["detail"].step = "sent")
        /\ \A d \in {"session", "detail"} : calls[d].key = 0 /\ calls[d].try = 0
    <2>1. IsFreshPage(page, "checkout") /\ AreFreshCalls(calls, None)
      BY <1>0, FreshFields, NoneIsCall
    <2> QED BY <2>1 DEF IsFreshPage, AreFreshCalls
  <1>2. history \in History /\ history.owed = {} /\ history.streak = 0 /\ history.mounted = 0
        /\ history.version = 0
    BY <1>0 DEF History
  <1>3. DOMAIN rows = {} /\ DOMAIN bookings = {} /\ rows \in Seq(HoldRow) /\ bookings \in Seq(BookingRow)
    BY <1>0
  <1>4. Types
    BY <1>0, <1>1, <1>2, <1>3 DEF Types
  <1>5. CallShapes
    BY <1>1, NoneIsCall DEF CallShapes, KindsOf, Callers, IsCalling
  <1>6. Counted
    <2>1. \A d \in Callers : calls[d].key <= calls[d].try /\ calls[d].try <= actions
      BY <1>0, <1>1, NoneIsCall DEF Callers
    <2> QED BY <1>0, <1>1, <1>2, <1>3, <2>1, NoneIsCall DEF Counted
  <1>7. RowsAgree /\ Changes /\ Attempts
    BY <1>1, <1>2, <1>3, NoneIsCall DEF RowsAgree, Changes, Attempts
  <1>8. AnswersNow /\ HoldTriedInVain /\ ListTypes /\ ListsTell /\ CancelledIsOld
    BY <1>1, NoneIsCall DEF AnswersNow, HoldTriedInVain, ListTypes, ListsTell, CancelledIsOld
  <1>9. ToldIsPaid /\ UntoldIsUntouched /\ Keys /\ ConfirmUnderWay /\ PageAgrees
    BY <1>1, <1>3, NoneIsCall DEF ToldIsPaid, UntoldIsUntouched, Keys, ConfirmUnderWay, PageAgrees
  <1>10. HoldsOnPage
    BY <1>1 DEF HoldsOnPage, ActiveHolds
  <1> QED BY <1>4, <1>5, <1>6, <1>7, <1>8, <1>9, <1>10 DEF IInv

-----------------------------------------------------------------------------
(* An action of the user succeeds: the page is told of a change.           *)
WorkedIn ==
  /\ UNCHANGED <<now, rows, bookings, actions>>
  /\ calls' \in [Callers -> CallRow]
  /\ \A d \in Callers : d # "act" => calls'[d] = calls[d]
  /\ calls'["act"].what \in {"none", "detail"} /\ calls'["act"].step \in {"none", "sent"}
  /\ calls'["act"].step = "none" <=> calls'["act"].what = "none"
  /\ calls'["act"].key = 0 /\ calls'["act"].try = 0
  /\ calls'["act"].what # "none" => page'.busy
  /\ page' \in Page /\ page'.kind = page.kind /\ page'.known = page.known
  /\ history' \in History /\ history'.owed \subseteq history.owed
  /\ history'.version = history.version /\ history'.mounted = history.mounted

(* An answer worked in ends the call of the action. *)
LEMMA GoingOn ==
  ASSUME Types, NEW shown \in Page, GoesOn(shown), shown.kind = page.kind, shown.known = page.known,
         history' \in History, history'.owed \subseteq history.owed,
         history'.version = history.version, history'.mounted = history.mounted
  PROVE  /\ WorkedIn
         /\ page'.holds = shown.holds /\ page'.bookings = shown.bookings
         /\ page'.attempt = shown.attempt /\ page'.keys = shown.keys
  <1>1. PICK loading, busy \in BOOLEAN :
           /\ loading = (page.kind = "checkout" \/ shown.loading) /\ busy = (page.kind = "checkout")
    BY DEF Page
  <1>2. page' = [shown EXCEPT !.loading = loading, !.busy = busy]
    BY <1>1 DEF GoesOn
  <1>3. /\ page' \in Page /\ page'.kind = page.kind /\ page'.known = page.known /\ page'.busy = busy
        /\ page'.holds = shown.holds /\ page'.bookings = shown.bookings
        /\ page'.attempt = shown.attempt /\ page'.keys = shown.keys
    BY <1>1, <1>2 DEF Page
  <1>4. PICK call \in CallRow :
           /\ call = IF page.kind = "checkout" THEN AskList("detail") ELSE None
           /\ calls' = [calls EXCEPT !["act"] = call]
    BY AskingLists, NoneIsCall DEF GoesOn, AskList
  <1>5. /\ call.what \in {"none", "detail"} /\ call.step \in {"none", "sent"}
        /\ call.step = "none" <=> call.what = "none"
        /\ call.key = 0 /\ call.try = 0
        /\ call.what # "none" => busy
    BY <1>1, <1>4, AskingLists, NoneIsCall
  <1>6. /\ calls' \in [Callers -> CallRow] /\ calls'["act"] = call
        /\ \A d \in Callers : d # "act" => calls'[d] = calls[d]
    BY <1>4 DEF Types, Callers
  <1>7. UNCHANGED <<now, rows, bookings, actions>>
    BY DEF GoesOn, server, bounds
  <1> QED BY <1>3, <1>5, <1>6, <1>7 DEF WorkedIn

(* What a list under way should tell is not changed by a change that the   *)
(* page is told of.                                                        *)
LEMMA ToldLists ==
  ASSUME Types, Changes, ListsTell, UNCHANGED <<now, rows, bookings>>,
         history'.owed \subseteq history.owed, history'.version = history.version,
         calls'["holds"] = calls["holds"], calls'["bookings"] = calls["bookings"]
  PROVE  ListsTell'
  <1>0. history.version \in Nat /\ history.owed \in SUBSET Change
        /\ calls["holds"].at \in Nat /\ calls["bookings"].at \in Nat
    BY DEF Types, History, CallRow, Callers
  <1>1. ASSUME NEW v \in Nat, NothingTold(v)'
        PROVE  NothingTold(v) /\ Since(v)' = Since(v)
    <2>1. NothingTold(v)
      BY <1>1 DEF NothingTold
    <2>2. ASSUME NEW o \in history.owed, o.at > v
          PROVE  o \in history'.owed
      <3>1. o.at \in (v + 1)..history.version
        BY <1>0, <2>2 DEF Changes, Change
      <3>2. PICK p \in history'.owed : p.at = o.at
        BY <1>1, <3>1 DEF NothingTold
      <3> QED BY <3>2 DEF Changes
    <2> QED BY <2>1, <2>2 DEF Since
  <1>2. (calls["holds"].step = "ok" /\ NothingTold(calls["holds"].at) =>
          /\ calls["holds"].value \subseteq DOMAIN rows
          /\ ActiveHolds(calls["holds"].value) = ShownHolds(Since(calls["holds"].at)))'
    <2>1. PICK v \in Nat : v = calls["holds"].at
      BY <1>0
    <2> SUFFICES ASSUME calls["holds"].step = "ok", NothingTold(v)'
        PROVE  /\ calls["holds"].value \subseteq DOMAIN rows
               /\ ActiveHolds(calls["holds"].value)' = ShownHolds(Since(v))'
      BY <2>1 DEF NothingTold, ShownHolds, Since, Among
    <2>2. NothingTold(v) /\ Since(v)' = Since(v)
      BY <1>1
    <2>3. /\ calls["holds"].value \subseteq DOMAIN rows
          /\ ActiveHolds(calls["holds"].value) = ShownHolds(Since(v))
      BY <2>1, <2>2 DEF ListsTell
    <2>4. ShownHolds(Since(v))' = ShownHolds(Since(v))
      BY <2>2 DEF ShownHolds, Among, ActiveHolds, Held
    <2>5. ActiveHolds(calls["holds"].value)' = ActiveHolds(calls["holds"].value)
      BY DEF ActiveHolds
    <2> QED BY <2>3, <2>4, <2>5
  <1>3. (calls["bookings"].step = "ok" /\ NothingTold(calls["bookings"].at) =>
           calls["bookings"].value = ShownBookings(Since(calls["bookings"].at)))'
    <2>1. PICK v \in Nat : v = calls["bookings"].at
      BY <1>0
    <2> SUFFICES ASSUME calls["bookings"].step = "ok", NothingTold(v)'
        PROVE  calls["bookings"].value = ShownBookings(Since(v))'
      BY <2>1 DEF NothingTold, ShownBookings, Since, Among
    <2>2. NothingTold(v) /\ Since(v)' = Since(v)
      BY <1>1
    <2>3. calls["bookings"].value = ShownBookings(Since(v))
      BY <2>1, <2>2 DEF ListsTell
    <2>4. ShownBookings(Since(v))' = ShownBookings(Since(v))
      BY <2>2 DEF ShownBookings, Among
    <2> QED BY <2>3, <2>4
  <1> QED BY <1>2, <1>3 DEF ListsTell

(* What every answer worked in leaves alone. *)
LEMMA WorkedInKeeps ==
  ASSUME Types, IInv, WorkedIn
  PROVE  /\ Types' /\ CallShapes' /\ Changes' /\ AnswersNow' /\ HoldTriedInVain'
         /\ ListTypes' /\ ListsTell' /\ CancelledIsOld' /\ ConfirmUnderWay'
         /\ Fresh' = Fresh /\ \A b : Cancelling(b)' => Cancelling(b)
         /\ UNCHANGED <<now, rows, bookings, actions>>
         /\ history'.mounted = history.mounted /\ calls'["orphan"] = calls["orphan"]
         /\ calls'["act"].what \in {"none", "detail"}
  <1>0. UNCHANGED <<now, rows, bookings, actions>>
    BY DEF WorkedIn
  <1>1. /\ calls'["orphan"] = calls["orphan"] /\ calls'["session"] = calls["session"]
        /\ calls'["holds"] = calls["holds"] /\ calls'["bookings"] = calls["bookings"]
        /\ calls'["detail"] = calls["detail"]
    BY DEF WorkedIn, Callers
  <1>2. Types'
    BY DEF WorkedIn, Types
  <1>3. CallShapes'
    BY <1>0, <1>1 DEF WorkedIn, IInv, CallShapes, KindsOf, Callers, IsCalling
  <1>4. Changes'
    <2>1. \A o \in history'.owed : o \in history.owed
      BY DEF WorkedIn
    <2> QED BY <1>0, <1>1, <2>1 DEF WorkedIn, IInv, Changes
  <1>5. AnswersNow' /\ HoldTriedInVain' /\ ConfirmUnderWay'
    BY DEF WorkedIn, AnswersNow, HoldTriedInVain, ConfirmUnderWay
  <1>6. ListTypes'
    BY <1>0, <1>1 DEF IInv, ListTypes
  <1>7. ListsTell'
    BY <1>0, <1>1, ToldLists DEF WorkedIn, IInv
  <1>8. \A b : Cancelling(b)' => Cancelling(b)
    BY <1>0, <1>1 DEF WorkedIn, Cancelling
  <1>9. CancelledIsOld'
    BY <1>0, <1>1, <1>8 DEF WorkedIn, IInv, CancelledIsOld
  <1>10. Fresh' = Fresh
    BY <1>1 DEF Fresh, IsCalling
  <1> QED BY <1>0, <1>1, <1>2, <1>3, <1>4, <1>5, <1>6, <1>7, <1>8, <1>9, <1>10 DEF WorkedIn

(* The answer of a hold puts it on the page. *)
LEMMA ReceiveHoldKeeps ==
  ASSUME Types, IInv, ReceiveHold
  PROVE  Types' /\ IInv'
  <1>0. /\ page \in Page /\ history \in History /\ actions \in Nat /\ history.streak \in Nat
        /\ calls["act"].what = "hold" /\ calls["act"].step = "ok"
    BY DEF Types, History, ReceiveHold
  <1>1. PICK h \in calls["act"].value :
           /\ GoesOn([page EXCEPT !.holds = ActiveHolds(@ \cup {h}), !.attempt = [slot |-> 0, key |-> 0]])
           /\ history' = [history EXCEPT !.owed = Paid("hold", h), !.streak = actions,
                                         !.crossed = @ \/ rows[h].end = "booked"]
    BY DEF ReceiveHold
  <1>2. h \in DOMAIN rows /\ h \in Nat /\ rows[h].slot = calls["act"].arg /\ rows[h].key = calls["act"].key
    <2>1. h \in DOMAIN rows /\ rows[h].slot = calls["act"].arg /\ rows[h].key = calls["act"].key
      BY <1>0 DEF IInv, AnswersNow
    <2> QED BY <2>1 DEF Types
  <1>3. PICK S \in SUBSET Nat : S = ActiveHolds(page.holds \cup {h})
    BY <1>0, <1>2 DEF ActiveHolds, Page
  <1>4. PICK a \in [slot: Slots \cup {0}, key: Nat] : a = [slot |-> 0, key |-> 0] /\ a.slot = 0
    <2>1. [slot |-> 0, key |-> 0] \in [slot: Slots \cup {0}, key: Nat]
      OBVIOUS
    <2> QED BY <2>1
  <1> DEFINE shown == [page EXCEPT !.holds = S, !.attempt = a]
  <1>5. /\ shown \in Page /\ shown.kind = page.kind /\ shown.known = page.known /\ shown.holds = S
        /\ shown.bookings = page.bookings /\ shown.attempt = a /\ shown.keys = page.keys
    BY <1>0 DEF Page
  <1>6. GoesOn(shown)
    BY <1>1, <1>3, <1>4
  <1> HIDE DEF shown
  <1>7. PICK crossed \in BOOLEAN : crossed = (history.crossed \/ rows[h].end = "booked")
    BY <1>0 DEF History
  <1>8. PICK P \in SUBSET Change : P = Paid("hold", h) /\ P \subseteq history.owed
    BY <1>0 DEF Paid, History
  <1>9. /\ history' \in History /\ history'.owed = P /\ history'.streak = actions
        /\ history'.crossed = crossed /\ history'.version = history.version
        /\ history'.mounted = history.mounted
    <2>1. history' = [history EXCEPT !.owed = P, !.streak = actions, !.crossed = crossed]
      BY <1>1, <1>7, <1>8
    <2> QED BY <1>0, <2>1 DEF History
  <1>10. /\ WorkedIn
         /\ page'.holds = S /\ page'.bookings = page.bookings
         /\ page'.attempt = a /\ page'.keys = page.keys
    <2>1. history'.owed \subseteq history.owed
      BY <1>8, <1>9
    <2> QED BY <1>5, <1>6, <1>9, <2>1, GoingOn
  <1>11. /\ Types' /\ CallShapes' /\ Changes' /\ AnswersNow' /\ HoldTriedInVain'
         /\ ListTypes' /\ ListsTell' /\ CancelledIsOld' /\ ConfirmUnderWay'
         /\ Fresh' = Fresh /\ \A b : Cancelling(b)' => Cancelling(b)
         /\ UNCHANGED <<now, rows, bookings, actions>>
         /\ history'.mounted = history.mounted /\ calls'["orphan"] = calls["orphan"]
         /\ calls'["act"].what \in {"none", "detail"}
    BY <1>10, WorkedInKeeps
  <1>12. Counted'
    <2>1. (\A d \in Callers : calls[d].key <= calls[d].try /\ calls[d].try <= actions)'
      BY <1>0, <1>10, <1>11 DEF WorkedIn, IInv, Counted
    <2>2. history.mounted <= actions
      BY <1>0 DEF IInv, Counted, History
    <2>3. actions <= actions
      BY <1>0
    <2> QED BY <1>4, <1>9, <1>10, <1>11, <2>1, <2>2, <2>3 DEF IInv, Counted
  <1>13. RowsAgree'
    BY <1>2, <1>3, <1>10, <1>11 DEF IInv, RowsAgree, ActiveHolds
  <1>14. \A g \in DOMAIN rows : ~(rows[g].try > actions)
    <2>1. \A g \in DOMAIN rows : rows[g] \in HoldRow
      BY DEF Types
    <2> QED BY <1>0, <2>1 DEF IInv, Counted, HoldRow
  <1>15. Attempts'
    BY <1>9, <1>11, <1>14 DEF IInv, Attempts
  <1>16. ToldIsPaid'
    BY <1>8, <1>9, <1>10, <1>11 DEF IInv, ToldIsPaid, Among
  <1>17. UntoldIsUntouched'
    BY <1>9, <1>11, <1>14 DEF UntoldIsUntouched
  <1>18. Keys'
    BY <1>8, <1>9, <1>10, <1>11 DEF IInv, Keys, Among
  <1>19. Fresh => rows[h].end # "booked"
    <2>1. rows[h].try > history.streak
      <3>1. calls["act"].arg \in Slots /\ page.attempt.slot = calls["act"].arg
            /\ page.attempt.key = rows[h].key
        BY <1>0, <1>2 DEF IInv, Attempts
      <3>2. history.streak < rows[h].key /\ rows[h].key <= rows[h].try
        BY <1>2, <3>1, CheckoutAssumption DEF IInv, Counted
      <3>3. rows[h] \in HoldRow
        BY <1>2 DEF Types
      <3> QED BY <1>0, <3>2, <3>3 DEF HoldRow
    <2> QED BY <1>2, <2>1 DEF IInv, UntoldIsUntouched
  <1>20. Trusted' => Trusted /\ rows[h].end # "booked"
    BY <1>7, <1>9, <1>11, <1>19 DEF Trusted
  <1>21. HoldsOnPage'
    <2> SUFFICES ASSUME Trusted', NEW g \in ActiveHolds(page.holds)', NEW b \in DOMAIN bookings,
                        bookings[b].hold = g
        PROVE  /\ bookings[b].try > history.mounted => <<g, bookings[b].key>> \in page.keys
               /\ ~Cancelling(b)'
               /\ \A o \in page.bookings : o[1] # b
      BY <1>9, <1>10, <1>11 DEF HoldsOnPage
    <2>1. rows[g].end = "booked"
      BY DEF IInv, RowsAgree
    <2>2. g \in ActiveHolds(page.holds)
      BY <1>3, <1>10, <1>11, <1>20, <2>1 DEF ActiveHolds
    <2>3. /\ bookings[b].try > history.mounted => <<g, bookings[b].key>> \in page.keys
          /\ ~Cancelling(b)
          /\ \A o \in page.bookings : o[1] # b
      BY <1>20, <2>2 DEF IInv, HoldsOnPage
    <2> QED BY <1>11, <2>3
  <1>22. PageAgrees'
    <2> SUFFICES ASSUME page'.known, ~history'.crossed
        PROVE  /\ page.kind = "checkout" => ActiveHolds(page.holds)' = ShownHolds(history.owed)'
               /\ page.bookings = ShownBookings(history.owed)'
      BY <1>10 DEF PageAgrees, WorkedIn
    <2>1. ~history.crossed /\ rows[h].end # "booked" /\ page.known
      BY <1>7, <1>9, <1>10 DEF WorkedIn
    <2>2. /\ page.kind = "checkout" => ActiveHolds(page.holds) = ShownHolds(history.owed)
          /\ page.bookings = ShownBookings(history.owed)
      BY <2>1 DEF IInv, PageAgrees
    <2>3. page.kind = "checkout" => ActiveHolds(page.holds)' = ShownHolds(history.owed)'
      <3> SUFFICES ASSUME page.kind = "checkout", NEW g \in DOMAIN rows
          PROVE  g \in ActiveHolds(page.holds)' <=> g \in ShownHolds(history.owed)'
        <4>1. ActiveHolds(page.holds)' \subseteq DOMAIN rows /\ ShownHolds(history.owed)' \subseteq DOMAIN rows
          BY <1>11, <1>13 DEF RowsAgree, ActiveHolds, ShownHolds
        <4> QED BY <4>1
      <3>1. ShownHolds(history.owed)' = ShownHolds(P)
        BY <1>9, <1>11 DEF ShownHolds, Among, ActiveHolds, Held
      <3>2. g \in ActiveHolds(page.holds)' <=> g \in ActiveHolds(page.holds) \/ (g = h /\ rows[h].until > now)
        BY <1>3, <1>10, <1>11 DEF ActiveHolds
      <3>3. CASE g = h
        <4>1. rows[h].until > now => rows[h].end = "held"
          <5>1. rows[h] \in HoldRow /\ now \in Nat
            BY <1>2 DEF Types
          <5> QED BY <1>2, <2>1, <5>1 DEF IInv, RowsAgree, HoldRow
        <4>2. ~Among(P, "hold", h)
          BY <1>8 DEF Among, Paid
        <4>3. g \in ShownHolds(P) <=> rows[h].until > now
          BY <1>2, <2>1, <3>3, <4>1, <4>2 DEF ShownHolds, ActiveHolds, Held, IInv, RowsAgree
        <4>4. g \in ActiveHolds(page.holds) => rows[h].until > now
          BY <3>3 DEF ActiveHolds
        <4> QED BY <3>1, <3>2, <3>3, <4>3, <4>4
      <3>4. CASE g # h
        <4>1. /\ Among(P, "hold", g) <=> Among(history.owed, "hold", g)
              /\ \A b : Among(P, "booking", b) <=> Among(history.owed, "booking", b)
          BY <1>8, <3>4 DEF Among, Paid
        <4>2. g \in ShownHolds(P) <=> g \in ShownHolds(history.owed)
          BY <4>1 DEF ShownHolds
        <4> QED BY <2>2, <3>1, <3>2, <3>4, <4>2
      <3> QED BY <3>3, <3>4
    <2>4. ShownBookings(history.owed)' = ShownBookings(history.owed)
      <3>1. \A b : /\ Among(P, "cancel", b) <=> Among(history.owed, "cancel", b)
                   /\ Among(P, "booking", b) <=> Among(history.owed, "booking", b)
        BY <1>8 DEF Among, Paid
      <3>2. ShownBookings(history.owed)' = ShownBookings(P)
        BY <1>9, <1>11 DEF ShownBookings, Among
      <3> QED BY <3>1, <3>2 DEF ShownBookings
    <2> QED BY <2>2, <2>3, <2>4
  <1> QED BY <1>11, <1>12, <1>13, <1>15, <1>16, <1>17, <1>18, <1>21, <1>22 DEF IInv

(* The answer of a confirmation replaces the hold on the page by a         *)
(* booking.                                                                *)
LEMMA ReceiveConfirmKeeps ==
  ASSUME Types, IInv, ReceiveConfirm
  PROVE  Types' /\ IInv'
  <1>0. /\ page \in Page /\ history \in History /\ actions \in Nat /\ history.streak \in Nat
        /\ calls["act"].what = "confirm" /\ calls["act"].step = "ok"
    BY DEF Types, History, ReceiveConfirm
  <1>1. PICK x \in calls["act"].value :
           /\ GoesOn([page EXCEPT !.bookings = {o \in @ : o[1] # x[1]} \cup {x},
                                  !.holds = @ \ {calls["act"].arg},
                                  !.keys = {k \in @ : k[1] # calls["act"].arg}])
           /\ history' = [history EXCEPT !.owed = Paid("booking", x[1])]
    BY DEF ReceiveConfirm
  <1>2. PICK b \in DOMAIN bookings, g \in DOMAIN rows :
           /\ b = x[1] /\ x = <<b, "CONFIRMED">> /\ g = calls["act"].arg
           /\ bookings[b].hold = g /\ bookings[b].key = calls["act"].key /\ b \in Nat
    <2>1. x[1] \in DOMAIN bookings /\ x = <<x[1], "CONFIRMED">>
          /\ bookings[x[1]].hold = calls["act"].arg /\ bookings[x[1]].key = calls["act"].key
      BY <1>0 DEF IInv, AnswersNow
    <2>2. x[1] \in Nat /\ calls["act"].arg \in DOMAIN rows
      BY <1>0, <2>1 DEF Types, IInv, RowsAgree
    <2> QED BY <2>1, <2>2
  <1>3. PICK list \in SUBSET (Nat \X BookingStatus) :
           list = {o \in page.bookings : o[1] # b} \cup {<<b, "CONFIRMED">>}
    <2>1. {o \in page.bookings : o[1] # b} \cup {<<b, "CONFIRMED">>} \in SUBSET (Nat \X BookingStatus)
      BY <1>0, <1>2 DEF Page, BookingStatus
    <2> QED BY <2>1
  <1>4. PICK S \in SUBSET Nat : S = page.holds \ {g}
    BY <1>0 DEF Page
  <1>5. PICK keys \in SUBSET (Nat \X Nat) : keys = {k \in page.keys : k[1] # g}
    BY <1>0 DEF Page
  <1> DEFINE shown == [page EXCEPT !.bookings = list, !.holds = S, !.keys = keys]
  <1>6. /\ shown \in Page /\ shown.kind = page.kind /\ shown.known = page.known /\ shown.holds = S
        /\ shown.bookings = list /\ shown.attempt = page.attempt /\ shown.keys = keys
    BY <1>0 DEF Page
  <1>7. GoesOn(shown)
    BY <1>1, <1>2, <1>3, <1>4, <1>5
  <1> HIDE DEF shown
  <1>8. PICK P \in SUBSET Change : P = Paid("booking", b) /\ P \subseteq history.owed
    BY <1>0 DEF Paid, History
  <1>9. /\ history' \in History /\ history'.owed = P /\ history'.streak = history.streak
        /\ history'.crossed = history.crossed /\ history'.version = history.version
        /\ history'.mounted = history.mounted
    <2>1. history' = [history EXCEPT !.owed = P]
      BY <1>1, <1>2, <1>8
    <2> QED BY <1>0, <2>1 DEF History
  <1>10. /\ WorkedIn
         /\ page'.holds = S /\ page'.bookings = list
         /\ page'.attempt = page.attempt /\ page'.keys = keys
    <2>1. history'.owed \subseteq history.owed
      BY <1>8, <1>9
    <2> QED BY <1>6, <1>7, <1>9, <2>1, GoingOn
  <1>11. /\ Types' /\ CallShapes' /\ Changes' /\ AnswersNow' /\ HoldTriedInVain'
         /\ ListTypes' /\ ListsTell' /\ CancelledIsOld' /\ ConfirmUnderWay'
         /\ Fresh' = Fresh /\ \A d : Cancelling(d)' => Cancelling(d)
         /\ UNCHANGED <<now, rows, bookings, actions>>
         /\ history'.mounted = history.mounted /\ calls'["orphan"] = calls["orphan"]
         /\ calls'["act"].what \in {"none", "detail"}
    BY <1>10, WorkedInKeeps
  <1>12. Trusted' = Trusted
    BY <1>9, <1>11 DEF Trusted
  <1>13. Counted'
    <2>1. (\A d \in Callers : calls[d].key <= calls[d].try /\ calls[d].try <= actions)'
      BY <1>0, <1>10, <1>11 DEF WorkedIn, IInv, Counted
    <2> QED BY <1>5, <1>9, <1>10, <1>11, <2>1 DEF IInv, Counted
  <1>14. RowsAgree'
    <2>1. (page.holds \subseteq DOMAIN rows)'
      BY <1>4, <1>10, <1>11 DEF IInv, RowsAgree
    <2>2. (\A o \in page.bookings : o[1] \in DOMAIN bookings)'
      BY <1>2, <1>3, <1>10, <1>11 DEF IInv, RowsAgree
    <2> QED BY <1>11, <2>1, <2>2 DEF IInv, RowsAgree
  <1>15. Attempts'
    BY <1>9, <1>10, <1>11 DEF IInv, Attempts
  <1>16. ~Among(P, "booking", b)
         /\ \A what, id : what # "booking" \/ id # b => (Among(P, what, id) <=> Among(history.owed, what, id))
    BY <1>8 DEF Among, Paid
  <1>17. ToldIsPaid'
    <2> SUFFICES ASSUME Fresh, NEW o \in list
        PROVE  ~Among(P, "booking", o[1])
      BY <1>9, <1>10, <1>11 DEF ToldIsPaid
    <2>1. CASE o = <<b, "CONFIRMED">>
      BY <1>16, <2>1
    <2>2. CASE o \in page.bookings
      BY <1>16, <2>2 DEF IInv, ToldIsPaid
    <2> QED BY <1>3, <2>1, <2>2
  <1>18. UntoldIsUntouched'
    BY <1>4, <1>9, <1>10, <1>11 DEF IInv, UntoldIsUntouched
  <1>19. Keys'
    <2>1. (\A k, l \in page.keys : k[1] = l[1] => k = l)'
      BY <1>5, <1>10 DEF IInv, Keys
    <2>2. (\A d \in DOMAIN bookings : bookings[d].try > history.mounted /\ Among(history.owed, "booking", d) =>
             <<bookings[d].hold, bookings[d].key>> \in page.keys)'
      <3> SUFFICES ASSUME NEW d \in DOMAIN bookings, bookings[d].try > history.mounted, Among(P, "booking", d)
          PROVE  <<bookings[d].hold, bookings[d].key>> \in keys
        BY <1>9, <1>10, <1>11 DEF Among
      <3>1. d # b /\ Among(history.owed, "booking", d)
        BY <1>16
      <3>2. <<bookings[d].hold, bookings[d].key>> \in page.keys
        BY <3>1 DEF IInv, Keys
      <3>3. bookings[d].hold # g
        BY <1>2, <3>1 DEF IInv, RowsAgree
      <3> QED BY <1>5, <3>2, <3>3
    <2> QED BY <1>11, <2>1, <2>2 DEF Keys
  <1>20. HoldsOnPage'
    <2> SUFFICES ASSUME Trusted, NEW h \in ActiveHolds(page.holds)', NEW d \in DOMAIN bookings,
                        bookings[d].hold = h
        PROVE  /\ bookings[d].try > history.mounted => <<h, bookings[d].key>> \in keys
               /\ ~Cancelling(d)'
               /\ \A o \in list : o[1] # d
      BY <1>9, <1>10, <1>11, <1>12 DEF HoldsOnPage
    <2>1. h \in ActiveHolds(page.holds) /\ h # g /\ d # b
      BY <1>2, <1>4, <1>10, <1>11 DEF ActiveHolds
    <2>2. /\ bookings[d].try > history.mounted => <<h, bookings[d].key>> \in page.keys
          /\ ~Cancelling(d)
          /\ \A o \in page.bookings : o[1] # d
      BY <2>1 DEF IInv, HoldsOnPage
    <2>3. bookings[d].try > history.mounted => <<h, bookings[d].key>> \in keys
      BY <1>5, <2>1, <2>2
    <2>4. \A o \in list : o[1] # d
      BY <1>3, <2>1, <2>2
    <2> QED BY <1>11, <2>2, <2>3, <2>4
  <1>21. PageAgrees'
    <2> SUFFICES ASSUME page.known, ~history.crossed
        PROVE  /\ page.kind = "checkout" => ActiveHolds(page.holds)' = ShownHolds(history.owed)'
               /\ list = ShownBookings(history.owed)'
      BY <1>9, <1>10 DEF PageAgrees, WorkedIn
    <2>1. /\ page.kind = "checkout" => ActiveHolds(page.holds) = ShownHolds(history.owed)
          /\ page.bookings = ShownBookings(history.owed)
      BY DEF IInv, PageAgrees
    <2>2. page.kind = "checkout" => ActiveHolds(page.holds)' = ShownHolds(history.owed)'
      <3> SUFFICES ASSUME page.kind = "checkout", NEW h \in DOMAIN rows
          PROVE  h \in ActiveHolds(page.holds)' <=> h \in ShownHolds(history.owed)'
        <4>1. ActiveHolds(page.holds)' \subseteq DOMAIN rows /\ ShownHolds(history.owed)' \subseteq DOMAIN rows
          BY <1>11, <1>14 DEF RowsAgree, ActiveHolds, ShownHolds
        <4> QED BY <4>1
      <3>1. ShownHolds(history.owed)' = ShownHolds(P)
        BY <1>9, <1>11 DEF ShownHolds, Among, ActiveHolds, Held
      <3>2. h \in ActiveHolds(page.holds)' <=> h \in ActiveHolds(page.holds) /\ h # g
        BY <1>4, <1>10, <1>11 DEF ActiveHolds
      <3>3. CASE h = g
        <4>1. rows[g].end = "booked" /\ \A d \in DOMAIN bookings : bookings[d].hold = g => d = b
          BY <1>2 DEF IInv, RowsAgree
        <4>2. h \notin ShownHolds(P)
          BY <1>16, <3>3, <4>1 DEF ShownHolds, Held
        <4> QED BY <3>1, <3>2, <3>3, <4>2
      <3>4. CASE h # g
        <4>1. /\ Among(P, "hold", h) <=> Among(history.owed, "hold", h)
              /\ \A d \in DOMAIN bookings : bookings[d].hold = h =>
                   (Among(P, "booking", d) <=> Among(history.owed, "booking", d))
          BY <1>2, <1>16, <3>4
        <4>2. h \in ShownHolds(P) <=> h \in ShownHolds(history.owed)
          BY <4>1 DEF ShownHolds
        <4> QED BY <2>1, <3>1, <3>2, <3>4, <4>2
      <3> QED BY <3>3, <3>4
    <2>3. list = ShownBookings(history.owed)'
      <3>1. bookings[b].status = "CONFIRMED"
        BY <1>0, <1>2 DEF IInv, ConfirmUnderWay, Trusted
      <3>2. ShownBookings(history.owed)' = ShownBookings(P)
        BY <1>9, <1>11 DEF ShownBookings, Among
      <3>3. ASSUME NEW o \in list
            PROVE  o \in ShownBookings(P)
        <4>1. CASE o = <<b, "CONFIRMED">>
          BY <1>16, <3>1, <4>1 DEF ShownBookings
        <4>2. CASE o \in page.bookings /\ o[1] # b
          BY <1>16, <2>1, <4>2 DEF ShownBookings
        <4> QED BY <1>3, <4>1, <4>2
      <3>4. ASSUME NEW o \in ShownBookings(P)
            PROVE  o \in list
        <4>1. PICK d \in DOMAIN bookings :
                 /\ ~Among(P, "booking", d)
                 /\ o = <<d, IF Among(P, "cancel", d) THEN "CONFIRMED" ELSE bookings[d].status>>
          BY DEF ShownBookings
        <4>2. CASE d = b
          BY <1>3, <3>1, <4>1, <4>2
        <4>3. CASE d # b
          <5>1. o \in page.bookings /\ o[1] # b
            BY <1>16, <2>1, <4>1, <4>3 DEF ShownBookings
          <5> QED BY <1>3, <5>1
        <4> QED BY <4>2, <4>3
      <3> QED BY <3>2, <3>3, <3>4
    <2> QED BY <2>2, <2>3
  <1> QED BY <1>11, <1>13, <1>14, <1>15, <1>17, <1>18, <1>19, <1>20, <1>21 DEF IInv

(* The answer of a cancellation replaces the booking by the cancelled one. *)
LEMMA ReceiveCancelKeeps ==
  ASSUME Types, IInv, ReceiveCancel
  PROVE  Types' /\ IInv'
  <1>0. /\ page \in Page /\ history \in History /\ actions \in Nat /\ history.streak \in Nat
        /\ calls["act"].what = "cancel" /\ calls["act"].step = "ok"
    BY DEF Types, History, ReceiveCancel
  <1>1. PICK x \in calls["act"].value :
           /\ GoesOn([page EXCEPT !.bookings = {IF o[1] = x[1] THEN x ELSE o : o \in @}])
           /\ history' = [history EXCEPT !.owed = Paid("cancel", x[1])]
    BY DEF ReceiveCancel
  <1>2. PICK b \in DOMAIN bookings :
           b = x[1] /\ x = <<b, "CANCELLED">> /\ bookings[b].status = "CANCELLED" /\ b \in Nat
    <2>1. x = <<calls["act"].arg, "CANCELLED">> /\ bookings[calls["act"].arg].status = "CANCELLED"
      BY <1>0 DEF IInv, AnswersNow
    <2>2. calls["act"].arg \in DOMAIN bookings
      BY <1>0 DEF IInv, CallShapes, Callers
    <2>3. calls["act"].arg \in Nat
      BY <2>2 DEF Types
    <2> QED BY <2>1, <2>2, <2>3
  <1>3. PICK list \in SUBSET (Nat \X BookingStatus) :
           list = {IF o[1] = b THEN <<b, "CANCELLED">> ELSE o : o \in page.bookings}
    <2>1. {IF o[1] = b THEN <<b, "CANCELLED">> ELSE o : o \in page.bookings} \in SUBSET (Nat \X BookingStatus)
      BY <1>0, <1>2 DEF Page, BookingStatus
    <2> QED BY <2>1
  <1> DEFINE shown == [page EXCEPT !.bookings = list]
  <1>4. /\ shown \in Page /\ shown.kind = page.kind /\ shown.known = page.known
        /\ shown.holds = page.holds
        /\ shown.bookings = list /\ shown.attempt = page.attempt /\ shown.keys = page.keys
    BY <1>0 DEF Page
  <1>5. GoesOn(shown)
    BY <1>1, <1>2, <1>3
  <1> HIDE DEF shown
  <1>6. PICK P \in SUBSET Change : P = Paid("cancel", b) /\ P \subseteq history.owed
    BY <1>0 DEF Paid, History
  <1>7. /\ history' \in History /\ history'.owed = P /\ history'.streak = history.streak
        /\ history'.crossed = history.crossed /\ history'.version = history.version
        /\ history'.mounted = history.mounted
    <2>1. history' = [history EXCEPT !.owed = P]
      BY <1>1, <1>2, <1>6
    <2> QED BY <1>0, <2>1 DEF History
  <1>8. /\ WorkedIn
        /\ page'.holds = page.holds /\ page'.bookings = list
        /\ page'.attempt = page.attempt /\ page'.keys = page.keys
    <2>1. history'.owed \subseteq history.owed
      BY <1>6, <1>7
    <2> QED BY <1>4, <1>5, <1>7, <2>1, GoingOn
  <1>9. /\ Types' /\ CallShapes' /\ Changes' /\ AnswersNow' /\ HoldTriedInVain'
        /\ ListTypes' /\ ListsTell' /\ CancelledIsOld' /\ ConfirmUnderWay'
        /\ Fresh' = Fresh /\ \A d : Cancelling(d)' => Cancelling(d)
        /\ UNCHANGED <<now, rows, bookings, actions>>
        /\ history'.mounted = history.mounted /\ calls'["orphan"] = calls["orphan"]
        /\ calls'["act"].what \in {"none", "detail"}
    BY <1>8, WorkedInKeeps
  <1>10. Trusted' = Trusted
    BY <1>7, <1>9 DEF Trusted
  <1>11. \A o \in list : \E q \in page.bookings : o[1] = q[1]
    BY <1>3
  <1>12. Counted'
    <2>1. (\A d \in Callers : calls[d].key <= calls[d].try /\ calls[d].try <= actions)'
      BY <1>0, <1>8, <1>9 DEF WorkedIn, IInv, Counted
    <2> QED BY <1>7, <1>8, <1>9, <2>1 DEF IInv, Counted
  <1>13. RowsAgree'
    BY <1>8, <1>9, <1>11 DEF IInv, RowsAgree
  <1>14. Attempts'
    BY <1>7, <1>8, <1>9 DEF IInv, Attempts
  <1>15. \A what, id : what # "cancel" \/ id # b => (Among(P, what, id) <=> Among(history.owed, what, id))
    BY <1>6 DEF Among, Paid
  <1>16. ~Among(P, "cancel", b)
    BY <1>6 DEF Among, Paid
  <1>17. ToldIsPaid'
    BY <1>7, <1>8, <1>9, <1>11, <1>15 DEF IInv, ToldIsPaid, Among
  <1>18. UntoldIsUntouched'
    BY <1>7, <1>8, <1>9 DEF IInv, UntoldIsUntouched
  <1>19. Keys'
    <2>1. \A d : Among(history.owed, "booking", d)' <=> Among(history.owed, "booking", d)
      <3> TAKE d
      <3>1. Among(history.owed, "booking", d)' <=> Among(P, "booking", d)
        BY <1>7 DEF Among
      <3> QED BY <1>15, <3>1
    <2> QED BY <1>8, <1>9, <2>1 DEF IInv, Keys
  <1>20. HoldsOnPage'
    <2> SUFFICES ASSUME Trusted, NEW h \in ActiveHolds(page.holds), NEW d \in DOMAIN bookings,
                        bookings[d].hold = h
        PROVE  /\ bookings[d].try > history.mounted => <<h, bookings[d].key>> \in page.keys
               /\ ~Cancelling(d)'
               /\ \A o \in list : o[1] # d
      BY <1>7, <1>8, <1>9, <1>10 DEF HoldsOnPage, ActiveHolds
    <2> QED BY <1>9, <1>11 DEF IInv, HoldsOnPage
  <1>21. PageAgrees'
    <2> SUFFICES ASSUME page.known, ~history.crossed
        PROVE  /\ page.kind = "checkout" => ActiveHolds(page.holds)' = ShownHolds(history.owed)'
               /\ list = ShownBookings(history.owed)'
      BY <1>7, <1>8 DEF PageAgrees, WorkedIn
    <2>1. /\ page.kind = "checkout" => ActiveHolds(page.holds) = ShownHolds(history.owed)
          /\ page.bookings = ShownBookings(history.owed)
      BY DEF IInv, PageAgrees
    <2>2. ActiveHolds(page.holds)' = ActiveHolds(page.holds)
      BY <1>8, <1>9 DEF ActiveHolds
    <2>3. ShownHolds(history.owed)' = ShownHolds(history.owed)
      <3>1. ShownHolds(history.owed)' = ShownHolds(P)
        BY <1>7, <1>9 DEF ShownHolds, Among, ActiveHolds, Held
      <3>2. ShownHolds(P) = ShownHolds(history.owed)
        BY <1>15 DEF ShownHolds
      <3> QED BY <3>1, <3>2
    <2>4. ShownBookings(history.owed)' = ShownBookings(P)
      BY <1>7, <1>9 DEF ShownBookings, Among
    <2>5. ASSUME NEW o \in list
          PROVE  o \in ShownBookings(P)
      <3>1. PICK q \in page.bookings : o = IF q[1] = b THEN <<b, "CANCELLED">> ELSE q
        BY <1>3
      <3>2. PICK d \in DOMAIN bookings :
               /\ ~Among(history.owed, "booking", d)
               /\ q = <<d, IF Among(history.owed, "cancel", d) THEN "CONFIRMED" ELSE bookings[d].status>>
        BY <2>1 DEF ShownBookings
      <3>3. CASE d = b
        BY <1>2, <1>15, <1>16, <3>1, <3>2, <3>3 DEF ShownBookings
      <3>4. CASE d # b
        BY <1>15, <3>1, <3>2, <3>4 DEF ShownBookings
      <3> QED BY <3>3, <3>4
    <2>6. ASSUME NEW o \in ShownBookings(P)
          PROVE  o \in list
      <3>1. PICK d \in DOMAIN bookings :
               /\ ~Among(P, "booking", d)
               /\ o = <<d, IF Among(P, "cancel", d) THEN "CONFIRMED" ELSE bookings[d].status>>
        BY DEF ShownBookings
      <3>2. PICK q \in page.bookings :
               q = <<d, IF Among(history.owed, "cancel", d) THEN "CONFIRMED" ELSE bookings[d].status>>
        BY <1>15, <2>1, <3>1 DEF ShownBookings
      <3>3. CASE d = b
        BY <1>2, <1>3, <1>16, <3>1, <3>2, <3>3
      <3>4. CASE d # b
        BY <1>3, <1>15, <3>1, <3>2, <3>4
      <3> QED BY <3>3, <3>4
    <2> QED BY <2>1, <2>2, <2>3, <2>4, <2>5, <2>6
  <1> QED BY <1>9, <1>12, <1>13, <1>14, <1>17, <1>18, <1>19, <1>20, <1>21 DEF IInv

-----------------------------------------------------------------------------
(* The lists of the mount are put in place of what is shown.               *)

(* The extremes of two numbers. *)
LEMMA MinMax ==
  ASSUME NEW x \in Nat, NEW y \in Nat, NEW S, S = {x, y}
  PROVE  /\ Min(S) \in S /\ Max(S) \in S
         /\ Min(S) <= x /\ Min(S) <= y /\ x <= Max(S) /\ y <= Max(S)
  <1>1. \E m \in S : \A z \in S : m <= z
    BY DEF Min
  <1>2. \E m \in S : \A z \in S : m >= z
    OBVIOUS
  <1>3. Min(S) \in S /\ \A z \in S : Min(S) <= z
    BY <1>1 DEF Min
  <1>4. Max(S) \in S /\ \A z \in S : Max(S) >= z
    BY <1>2 DEF Max
  <1> QED BY <1>3, <1>4

(* As many changes as versions since v: none of them has been told.        *)
LEMMA AllOwed ==
  ASSUME Types, Changes, NEW v \in Nat, v <= history.version,
         ~(Cardinality(Since(v)) < history.version - v)
  PROVE  NothingTold(v)
  <1>0. history.version \in Nat /\ history.owed \in SUBSET Change
    BY DEF Types, History
  <1> SUFFICES ASSUME NEW u \in (v + 1)..history.version, \A o \in history.owed : o.at # u
      PROVE  FALSE
    BY DEF NothingTold
  <1>1. PICK n \in Nat : n = history.version
    BY <1>0
  <1>2. PICK P \in SUBSET Change : P = Since(v)
    BY <1>0 DEF Since
  <1>3. PICK T : T = ((v + 1)..n) \ {u}
    OBVIOUS
  <1>4. IsFiniteSet(T) /\ Cardinality(T) = n - v - 1
    <2>1. v + 1 \in Int /\ n \in Int /\ ~(v + 1 > n) /\ u \in (v + 1)..n
      BY <1>1
    <2>2. IsFiniteSet((v + 1)..n) /\ Cardinality((v + 1)..n) = n - v
      BY <1>1, <2>1, FS_Interval
    <2>3. IsFiniteSet(T) /\ Cardinality(T) = Cardinality((v + 1)..n) - 1
      BY <1>3, <2>1, <2>2, FS_RemoveElement
    <2> QED BY <2>2, <2>3
  <1>5. \A o \in P : o.at \in T
    BY <1>0, <1>1, <1>2, <1>3 DEF Since, Changes, Change
  <1>6. \A o, p \in P : o.at = p.at => o = p
    BY <1>2 DEF Since, Changes
  <1>7. PICK f : f = [o \in P |-> o.at]
    OBVIOUS
  <1>8. f \in Injection(P, T)
    BY <1>5, <1>6, <1>7 DEF Injection, IsInjective
  <1>9. Cardinality(P) <= n - v - 1 /\ Cardinality(P) \in Nat
    <2>1. IsFiniteSet(P) /\ Cardinality(P) <= Cardinality(T)
      BY <1>4, <1>8, FS_Injection
    <2> QED BY <1>4, <2>1, FS_CardinalityType
  <1> QED BY <1>1, <1>2, <1>9

(* The two lists are as good as one, when the page is not crossed.         *)
LEMMA ListsAgree ==
  ASSUME Types, Changes, ListTypes, ListsTell, NEW x \in Nat, NEW y \in Nat, NEW S, S = {x, y},
         x <= history.version, y <= history.version,
         ~(Cardinality(Since(Min(S))) < history.version - Min(S)),
         \A o \in Since(Min(S)) : ~(o.at <= Max(S))
  PROVE  x = Min(S) /\ y = Min(S) /\ NothingTold(Min(S))
  <1>0. history.version \in Nat
    BY DEF Types, History
  <1>1. PICK m \in Nat, n \in Nat : /\ m = Min(S) /\ n = Max(S) /\ m <= x /\ m <= y /\ x <= n /\ y <= n
                                    /\ m <= history.version /\ n <= history.version
    BY MinMax
  <1>2. NothingTold(m)
    BY <1>1, AllOwed
  <1>3. ~(m < n)
    <2> SUFFICES ASSUME m < n
        PROVE  FALSE
      OBVIOUS
    <2>1. n \in (m + 1)..history.version
      BY <1>0, <1>1
    <2>2. PICK o \in history.owed : o.at = n
      BY <1>2, <2>1 DEF NothingTold
    <2>3. o \in Since(m) /\ o.at <= n
      BY <1>1, <2>2 DEF Since
    <2> QED BY <1>1, <2>3
  <1> QED BY <1>1, <1>2, <1>3

(* Both lists replace what was shown. *)
LEMMA ReceiveMineKeeps ==
  ASSUME Types, IInv, ReceiveMine
  PROVE  Types' /\ IInv'
  <1> DEFINE lists == {c \in {"holds", "bookings"} : IsCalling(c)}
  <1>0. /\ page \in Page /\ history \in History /\ actions \in Nat /\ history.version \in Nat
        /\ calls["holds"] \in CallRow /\ calls["bookings"] \in CallRow
    BY DEF Types, History, Callers
  <1>1. /\ lists # {} /\ \A c \in lists : calls[c].step = "ok"
        /\ UNCHANGED <<now, rows, bookings, actions>>
        /\ history' = Told({calls[c].at : c \in lists})
    BY DEF ReceiveMine, server, bounds
  <1>2. /\ calls' \in [Callers -> CallRow] /\ calls'["holds"] = None /\ calls'["bookings"] = None
        /\ \A d \in {"detail", "session", "act", "orphan"} : calls'[d] = calls[d]
    BY NoneIsCall DEF ReceiveMine, Types, Callers
  <1>3. PICK x \in Nat, y \in Nat :
           /\ {calls[c].at : c \in lists} = {x, y}
           /\ x <= history.version /\ y <= history.version
           /\ IsCalling("holds") => x = calls["holds"].at
           /\ IsCalling("bookings") => y = calls["bookings"].at
    <2>1. PICK p \in Nat, q \in Nat : /\ p = calls["holds"].at /\ q = calls["bookings"].at
                                      /\ p <= history.version /\ q <= history.version
      BY <1>0 DEF CallRow, IInv, Changes
    <2>2. CASE IsCalling("holds") /\ IsCalling("bookings")
      <3>1. {calls[c].at : c \in lists} = {p, q}
        BY <2>1, <2>2
      <3> QED BY <2>1, <3>1
    <2>3. CASE IsCalling("holds") /\ ~IsCalling("bookings")
      <3>1. {calls[c].at : c \in lists} = {p, p}
        BY <2>1, <2>3
      <3> QED BY <2>1, <2>3, <3>1
    <2>4. CASE ~IsCalling("holds") /\ IsCalling("bookings")
      <3>1. {calls[c].at : c \in lists} = {q, q}
        BY <2>1, <2>4
      <3> QED BY <2>1, <2>4, <3>1
    <2> QED BY <1>1, <2>2, <2>3, <2>4
  <1>4. PICK S : S = {x, y} /\ history' = Told(S)
    BY <1>1, <1>3
  <1>5. PICK v \in Nat, w \in Nat : v = Min(S) /\ w = Max(S)
    BY <1>4, MinMax
  <1>6. IsCalling("bookings") /\ ~IsCalling("session") /\ (page.kind = "checkout" <=> IsCalling("holds"))
    BY <1>0, <1>1 DEF IInv, CallShapes, Page
  <1> HIDE DEF lists
  <1>7. PICK P \in SUBSET Change : P = Since(v) /\ P \subseteq history.owed
    BY <1>0 DEF Since, History
  <1>8. PICK crossed \in BOOLEAN :
           crossed = (Cardinality(P) < history.version - v \/ \E o \in P : o.at <= w)
    OBVIOUS
  <1>9. /\ history' \in History /\ history'.owed = P /\ history'.crossed = crossed
        /\ history'.version = history.version /\ history'.streak = history.streak
        /\ history'.mounted = history.mounted
    <2>1. history' = [history EXCEPT !.owed = P, !.crossed = crossed]
      BY <1>4, <1>5, <1>7, <1>8 DEF Told, Since
    <2> QED BY <1>0, <2>1 DEF History
  <1>10. PICK held \in SUBSET DOMAIN rows :
            /\ held = ActiveHolds(calls["holds"].value)
            /\ page.kind = "mine" => held = {}
    <2>1. calls["holds"].value \subseteq DOMAIN rows
      <3>1. CASE IsCalling("holds")
        BY <1>1, <3>1 DEF IInv, ListTypes, lists
      <3>2. CASE ~IsCalling("holds")
        BY <3>2 DEF IInv, ListTypes, IsCalling
      <3> QED BY <3>1, <3>2
    <2>2. page.kind = "mine" => calls["holds"].value = {}
      BY DEF IInv, CallShapes, ListTypes, IsCalling
    <2> QED BY <2>1, <2>2 DEF ActiveHolds
  <1>11. PICK list \in SUBSET (Nat \X BookingStatus) :
            list = calls["bookings"].value /\ \A o \in list : o[1] \in DOMAIN bookings
    <2>1. \A o \in calls["bookings"].value : o \in (DOMAIN bookings) \X BookingStatus
      BY <1>1, <1>6 DEF IInv, ListTypes, lists
    <2>2. DOMAIN bookings \subseteq Nat
      BY DEF Types
    <2> QED BY <2>1, <2>2
  <1>12. /\ page' \in Page /\ page'.holds = held /\ page'.bookings = list /\ page'.kind = page.kind
         /\ page'.busy = page.busy /\ page'.attempt = page.attempt /\ page'.keys = page.keys
    <2>1. PICK K \in SUBSET Nat, known \in BOOLEAN : K = held /\ known = page.auth
      <3>1. held \in SUBSET Nat
        BY DEF Types
      <3> QED BY <1>0, <3>1 DEF Page
    <2>2. page' = [page EXCEPT !.holds = K, !.bookings = list, !.known = known]
      BY <1>10, <1>11, <2>1 DEF ReceiveMine
    <2> QED BY <1>0, <2>1, <2>2 DEF Page
  <1>13. Types'
    BY <1>1, <1>2, <1>9, <1>12 DEF Types
  <1>14. CallShapes'
    BY <1>1, <1>2, <1>12, NoneIsCall DEF IInv, CallShapes, KindsOf, Callers, IsCalling
  <1>15. Counted'
    <2>1. (\A d \in Callers : calls[d].key <= calls[d].try /\ calls[d].try <= actions)'
      BY <1>0, <1>1, <1>2, NoneIsCall DEF IInv, Counted, Callers
    <2> QED BY <1>1, <1>2, <1>9, <1>12, <2>1 DEF IInv, Counted
  <1>16. RowsAgree'
    BY <1>1, <1>11, <1>12 DEF IInv, RowsAgree
  <1>17. Changes'
    <2>1. (\A d \in {"holds", "bookings"} : calls[d].at <= history.version)'
      BY <1>0, <1>2, <1>9, NoneIsCall
    <2> QED BY <1>1, <1>7, <1>9, <2>1 DEF IInv, Changes
  <1>18. Attempts' /\ AnswersNow' /\ HoldTriedInVain'
    <2>1. calls'["act"] = calls["act"] /\ calls'["orphan"] = calls["orphan"]
      BY <1>2
    <2>2. Attempts'
      BY <1>1, <1>9, <1>12, <2>1 DEF IInv, Attempts
    <2>3. AnswersNow'
      BY <1>1, <2>1 DEF IInv, AnswersNow
    <2>4. HoldTriedInVain'
      BY <1>1, <1>9, <2>1 DEF IInv, HoldTriedInVain
    <2> QED BY <2>2, <2>3, <2>4
  <1>19. ListTypes' /\ ListsTell' /\ CancelledIsOld'
    BY <1>2, NoneIsCall DEF ListTypes, ListsTell, CancelledIsOld
  <1>20. ~Fresh'
    BY <1>2, <1>6, NoneIsCall DEF Fresh, IsCalling
  <1>21. ToldIsPaid' /\ UntoldIsUntouched'
    BY <1>20 DEF ToldIsPaid, UntoldIsUntouched
  <1>22. Keys'
    BY <1>1, <1>2, <1>7, <1>9, <1>12 DEF IInv, Keys, Among
  <1>23. ~crossed => x = v /\ y = v /\ NothingTold(v)
    <2> SUFFICES ASSUME ~crossed
        PROVE  x = v /\ y = v /\ NothingTold(v)
      OBVIOUS
    <2>1. ~(Cardinality(Since(Min(S))) < history.version - Min(S))
          /\ \A o \in Since(Min(S)) : ~(o.at <= Max(S))
      BY <1>5, <1>7, <1>8
    <2> QED BY <1>3, <1>4, <1>5, <2>1, ListsAgree DEF IInv
  <1>24. ~crossed => /\ page.kind = "checkout" => held = ShownHolds(P)
                     /\ list = ShownBookings(P)
    <2> SUFFICES ASSUME ~crossed
        PROVE  /\ page.kind = "checkout" => held = ShownHolds(P)
               /\ list = ShownBookings(P)
      OBVIOUS
    <2>1. list = ShownBookings(P)
      <3>1. calls["bookings"].step = "ok" /\ calls["bookings"].at = v
        BY <1>1, <1>3, <1>6, <1>23 DEF lists
      <3> QED BY <1>7, <1>11, <1>23, <3>1 DEF IInv, ListsTell
    <2>2. page.kind = "checkout" => held = ShownHolds(P)
      <3> SUFFICES ASSUME page.kind = "checkout"
          PROVE  held = ShownHolds(P)
        OBVIOUS
      <3>1. calls["holds"].step = "ok" /\ calls["holds"].at = v
        BY <1>1, <1>3, <1>6, <1>23 DEF lists
      <3> QED BY <1>7, <1>10, <1>23, <3>1 DEF IInv, ListsTell
    <2> QED BY <2>1, <2>2
  <1>25. /\ ShownHolds(history.owed)' = ShownHolds(P) /\ ShownBookings(history.owed)' = ShownBookings(P)
         /\ ActiveHolds(page.holds)' = held
    <2>1. ShownHolds(history.owed)' = ShownHolds(P)
      BY <1>1, <1>9 DEF ShownHolds, Among, ActiveHolds, Held
    <2>2. ShownBookings(history.owed)' = ShownBookings(P)
      BY <1>1, <1>9 DEF ShownBookings, Among
    <2>3. ActiveHolds(page.holds)' = held
      BY <1>1, <1>10, <1>12 DEF ActiveHolds
    <2> QED BY <2>1, <2>2, <2>3
  <1>26. PageAgrees'
    BY <1>9, <1>12, <1>24, <1>25 DEF PageAgrees
  <1>27. \A b : Cancelling(b)' => Cancelling(b)
    BY <1>1, <1>2 DEF Cancelling
  <1>28. HoldsOnPage'
    <2> SUFFICES ASSUME ~crossed, NEW h \in held, NEW b \in DOMAIN bookings, bookings[b].hold = h
        PROVE  /\ bookings[b].try > history.mounted => <<h, bookings[b].key>> \in page.keys
               /\ ~Cancelling(b)
               /\ \A o \in list : o[1] # b
      BY <1>1, <1>9, <1>12, <1>20, <1>25, <1>27 DEF HoldsOnPage, Trusted
    <2>1. page.kind = "checkout"
      BY <1>0, <1>10 DEF Page
    <2>2. h \in ShownHolds(P) /\ list = ShownBookings(P) /\ IsCalling("holds") /\ calls["holds"].at = v
          /\ calls["holds"].step = "ok"
      BY <1>1, <1>3, <1>6, <1>23, <1>24, <2>1 DEF lists
    <2>3. rows[h].end = "booked" /\ \A d \in DOMAIN bookings : bookings[d].hold = h => d = b
      BY DEF IInv, RowsAgree
    <2>4. Among(P, "booking", b)
      BY <2>2, <2>3 DEF ShownHolds, Held
    <2>5. PICK o \in P : o.what = "booking" /\ o.id = b
      BY <2>4 DEF Among
    <2>6. o \in history.owed /\ o.at > v /\ Among(history.owed, "booking", b)
      BY <1>7, <2>5 DEF Since, Among
    <2>7. bookings[b].try > history.mounted => <<h, bookings[b].key>> \in page.keys
      BY <2>6 DEF IInv, Keys
    <2>8. ~Cancelling(b)
      <3>1. Cancelling(b) => o.at <= v
        BY <2>2, <2>5, <2>6 DEF IInv, CancelledIsOld
      <3>2. o.at \in Nat
        BY <1>7 DEF Change
      <3> QED BY <2>6, <3>1, <3>2
    <2>9. \A q \in list : q[1] # b
      BY <2>2, <2>4 DEF ShownBookings
    <2> QED BY <2>7, <2>8, <2>9
  <1>29. ConfirmUnderWay'
    <2>1. Trusted
      BY <1>6 DEF Trusted, Fresh
    <2> QED BY <1>1, <1>2, <1>9, <2>1 DEF IInv, ConfirmUnderWay
  <1> QED BY <1>13, <1>14, <1>15, <1>16, <1>17, <1>18, <1>19, <1>21, <1>22, <1>26, <1>28, <1>29 DEF IInv

-----------------------------------------------------------------------------
(* The API keeps the invariant. *)
LEMMA ServeKeeps ==
  ASSUME Types, IInv, NEW c \in Callers, Serve(c)
  PROVE  Types' /\ IInv'
  <1>1. /\ calls[c].step = "sent" /\ UNCHANGED <<now, page, actions>>
        /\ Replied(c) \/ HoldMade(c) \/ BookingMade(c) \/ BookingEnded(c)
    BY ServeCases DEF IInv
  <1>2. CASE Replied(c)
    <2>1. PICK verdict \in {"ok", "refused"}, value \in SUBSET Answers :
             Answer(c, verdict, value) /\ ReplyOf(c, verdict, value)
      BY <1>2 DEF Replied
    <2>2. \E v \in {"ok", "refused", "lost"}, a \in SUBSET Answers :
            Answer(c, v, a) /\ (v # "lost" => ReplyOf(c, v, a))
      BY <2>1
    <2>3. Answered(c)
      BY <1>1, <1>2, <2>2 DEF Replied, Answered
    <2> QED BY <2>3, AnsweredKeeps
  <1> QED BY <1>1, <1>2, HoldMadeKeeps, BookingMadeKeeps, BookingEndedKeeps

(* So does every step. *)
LEMMA StepKeeps ==
  ASSUME Types, IInv, [Next]_vars
  PROVE  Types' /\ IInv'
  <1>1. ASSUME NEW kind \in {"checkout", "mine"}, Mount(kind)
        PROVE  Types' /\ IInv'
    BY <1>1, MountKeeps
  <1>2. ASSUME NEW s \in Slots, TakeHold(s)
        PROVE  Types' /\ IInv'
    BY <1>2, TakeHoldKeeps
  <1>3. ASSUME NEW h \in DOMAIN rows, Confirm(h)
        PROVE  Types' /\ IInv'
    BY <1>3, ConfirmKeeps
  <1>4. ASSUME NEW b \in DOMAIN bookings, Cancel(b)
        PROVE  Types' /\ IInv'
    BY <1>4, CancelKeeps
  <1>5. ASSUME NEW c \in Callers, Serve(c)
        PROVE  Types' /\ IInv'
    BY <1>5, ServeKeeps
  <1>6. ASSUME NEW c \in Callers, Lose(c)
        PROVE  Types' /\ IInv'
    BY <1>6, LoseAnswers, AnsweredKeeps
  <1>7. CASE Tick \/ (\E h \in DOMAIN rows : Expire(h)) \/ (\E s \in Slots : RivalTakes(s))
    BY <1>7, PassesCases, PassesKeeps
  <1>8. CASE \/ ReceiveSession \/ NoSession \/ MineFails \/ ActFails \/ SignOut
             \/ ReceiveDetail("detail") \/ ReceiveDetail("act")
    <2>1. CallShapes
      BY DEF IInv
    <2>2. Settles /\ Types' /\ CallShapes' /\ (Fresh' => Fresh)
      BY <1>8, <2>1, SettlesCases
    <2> QED BY <2>2, SettlesKeeps
  <1>9. CASE ReceiveMine
    BY <1>9, ReceiveMineKeeps
  <1>10. CASE ReceiveHold
    BY <1>10, ReceiveHoldKeeps
  <1>11. CASE ReceiveConfirm
    BY <1>11, ReceiveConfirmKeeps
  <1>12. CASE ReceiveCancel
    BY <1>12, ReceiveCancelKeeps
  <1>13. CASE UNCHANGED vars
    <2>1. UNCHANGED <<now, rows, bookings, page, calls, actions, history>>
      BY <1>13 DEF vars, server, bounds
    <2>2. now <= now /\ now \in Nat /\ rows \in Seq(HoldRow)
      BY DEF Types
    <2>3. Passes
      BY <2>1, <2>2 DEF Passes
    <2> QED BY <2>3, PassesKeeps
  <1> QED BY <1>1, <1>2, <1>3, <1>4, <1>5, <1>6, <1>7, <1>8, <1>9, <1>10, <1>11, <1>12, <1>13
         DEF Next, Receive

(* The inductive invariant of the page, for any bounds.                    *)
THEOREM PageInvariant == Spec => [](Types /\ IInv)
  <1>1. Init => Types /\ IInv
    BY InitHolds
  <1>2. Types /\ IInv /\ [Next]_vars => (Types /\ IInv)'
    BY StepKeeps
  <1> QED BY <1>1, <1>2, PTL DEF Spec

(* takeHold says "your time is reserved" only of a hold that this try made *)
(* or an earlier try whose answer is still missing.                        *)
THEOREM ReservedNow == Spec => []AnswerIsOfThisAttempt
  <1>1. Types /\ IInv => AnswerIsOfThisAttempt
    <2> SUFFICES ASSUME Types, IInv, calls["act"].what = "hold", calls["act"].step = "ok",
                        NEW h \in calls["act"].value
        PROVE  rows[h].try > history.streak
      BY DEF AnswerIsOfThisAttempt
    <2>1. h \in DOMAIN rows /\ rows[h].slot = calls["act"].arg /\ rows[h].key = calls["act"].key
      BY DEF IInv, AnswersNow
    <2>2. calls["act"].arg \in Slots /\ page.attempt.slot = calls["act"].arg
          /\ page.attempt.key = rows[h].key
      BY <2>1 DEF IInv, Attempts
    <2>3. history.streak < rows[h].key /\ rows[h].key <= rows[h].try
      BY <2>1, <2>2, CheckoutAssumption DEF IInv, Counted
    <2>4. rows[h] \in HoldRow /\ history.streak \in Nat
      BY <2>1 DEF Types, History
    <2> QED BY <2>3, <2>4 DEF HoldRow
  <1> QED BY <1>1, PageInvariant, PTL

-----------------------------------------------------------------------------
(* A confirmation refused although its hold lives: the slot was booked     *)
(* before.                                                                 *)
LiveRefusal ==
  calls["act"].step = "refused" /\ calls["act"].what = "confirm"
    /\ calls["act"].arg \in ActiveHolds(Held) => BookedBefore(rows[calls["act"].arg].slot)

(* Rows stay what they are but for their end; no booking goes away.        *)
RowsGrow ==
  /\ now <= now'
  /\ DOMAIN rows \subseteq DOMAIN rows'
  /\ \A h \in DOMAIN rows :
       /\ rows'[h].slot = rows[h].slot /\ rows'[h].until = rows[h].until
       /\ rows'[h].end = "held" => rows[h].end = "held"
  /\ \A s \in Slots : BookedBefore(s) => BookedBefore(s)'

LEMMA RowsUntouched ==
  ASSUME Types, now <= now', UNCHANGED <<rows, bookings>>
  PROVE  RowsGrow
  BY DEF RowsGrow, BookedBefore

LEMMA ServeGrows ==
  ASSUME Types, CallShapes, NEW c \in Callers, Serve(c)
  PROVE  RowsGrow
  <1>0. rows \in Seq(HoldRow) /\ bookings \in Seq(BookingRow) /\ now \in Nat /\ now' = now
    BY ServeCases DEF Types
  <1>1. CASE Replied(c)
    BY <1>0, <1>1, RowsUntouched DEF Replied
  <1>2. CASE HoldMade(c)
    <2>1. PICK r \in HoldRow : rows' = Append(rows, r) /\ bookings' = bookings
      BY <1>2 DEF HoldMade
    <2>2. DOMAIN rows \subseteq DOMAIN rows' /\ \A h \in DOMAIN rows : rows'[h] = rows[h]
      BY <1>0, <2>1
    <2> QED BY <1>0, <2>1, <2>2 DEF RowsGrow, BookedBefore
  <1>3. CASE BookingMade(c)
    <2>1. PICK r \in BookingRow : bookings' = Append(bookings, r)
      BY <1>3 DEF BookingMade
    <2>2. /\ DOMAIN rows' = DOMAIN rows
          /\ \A g \in DOMAIN rows :
               /\ rows'[g].slot = rows[g].slot /\ rows'[g].until = rows[g].until
               /\ rows'[g].end = "held" => rows[g].end = "held"
      <3>1. calls[c].arg \in DOMAIN rows /\ "booked" \in {"held", "booked", "expired"}
        BY <1>3 DEF BookingMade, Held
      <3> QED BY <1>0, <1>3, <3>1, RowEnds DEF BookingMade
    <2>3. \A b \in DOMAIN bookings : b \in DOMAIN bookings' /\ bookings'[b] = bookings[b]
      BY <1>0, <2>1
    <2> QED BY <1>0, <2>2, <2>3 DEF RowsGrow, BookedBefore
  <1>4. CASE BookingEnded(c)
    <2>1. PICK b \in DOMAIN bookings : bookings' = [bookings EXCEPT ![b].status = "CANCELLED"]
      BY <1>4 DEF BookingEnded, Confirmed
    <2>2. \A a \in DOMAIN bookings : a \in DOMAIN bookings' /\ bookings'[a].slot = bookings[a].slot
      <3>1. bookings[b] \in BookingRow
        BY <1>0
      <3>2. [bookings[b] EXCEPT !.status = "CANCELLED"].slot = bookings[b].slot
        BY <3>1 DEF BookingRow
      <3> QED BY <1>0, <2>1, <3>2
    <2>3. rows' = rows
      BY <1>4 DEF BookingEnded
    <2> QED BY <1>0, <2>2, <2>3 DEF RowsGrow, BookedBefore
  <1> QED BY <1>1, <1>2, <1>3, <1>4, ServeCases

LEMMA StepGrows ==
  ASSUME Types, CallShapes, [Next]_vars
  PROVE  RowsGrow
  <1>0. now \in Nat
    BY DEF Types
  <1>1. ASSUME NEW c \in Callers, Serve(c) PROVE RowsGrow
    BY <1>1, ServeGrows
  <1>2. CASE Tick \/ (\E h \in DOMAIN rows : Expire(h)) \/ (\E s \in Slots : RivalTakes(s))
    <2>1. Passes
      BY <1>2, PassesCases
    <2> QED BY <2>1 DEF Passes, RowsGrow, BookedBefore
  <1>3. ASSUME \/ \E kind \in {"checkout", "mine"} : Mount(kind)
               \/ \E s \in Slots : TakeHold(s)
               \/ \E h \in DOMAIN rows : Confirm(h)
               \/ \E b \in DOMAIN bookings : Cancel(b)
               \/ \E c \in Callers : Lose(c)
               \/ SignOut \/ UNCHANGED vars
        PROVE  RowsGrow
    <2>1. UNCHANGED <<now, server>>
      BY <1>3 DEF Mount, TakeHold, Confirm, Cancel, Begin, Lose, SignOut, vars
    <2> QED BY <1>0, <2>1, RowsUntouched DEF server
  <1>4. CASE Receive
    <2>1. UNCHANGED <<now, server>>
      BY <1>4 DEF Receive, ReceiveSession, NoSession, ReceiveMine, MineFails, ReceiveDetail, ReceiveHold,
                  ReceiveConfirm, ReceiveCancel, ActFails, GoesOn
    <2> QED BY <1>0, <2>1, RowsUntouched DEF server
  <1> QED BY <1>1, <1>2, <1>3, <1>4 DEF Next

(* A refusal seen before stays justified.                                  *)
LEMMA RefusalStays ==
  ASSUME Types, Types', CallShapes, LiveRefusal, RowsGrow, calls'["act"] = calls["act"]
  PROVE  LiveRefusal'
  <1>0. PICK h : h = calls["act"].arg
    OBVIOUS
  <1> SUFFICES ASSUME calls["act"].step = "refused", calls["act"].what = "confirm", h \in ActiveHolds(Held)'
      PROVE  BookedBefore(rows[h].slot)'
    BY <1>0 DEF LiveRefusal
  <1>1. h \in DOMAIN rows /\ rows[h] \in HoldRow /\ now \in Nat /\ now' \in Nat
    BY <1>0 DEF CallShapes, Types, Callers
  <1>2. h \in DOMAIN rows' /\ rows'[h].end = "held" /\ rows'[h].until > now'
    BY DEF ActiveHolds, Held
  <1>3. h \in ActiveHolds(Held)
    BY <1>1, <1>2 DEF RowsGrow, ActiveHolds, Held, HoldRow
  <1>4. BookedBefore(rows[h].slot) /\ rows[h].slot \in Slots
    BY <1>0, <1>1, <1>3 DEF LiveRefusal, HoldRow
  <1>5. rows'[h].slot = rows[h].slot
    BY <1>1 DEF RowsGrow
  <1> QED BY <1>4, <1>5 DEF RowsGrow, BookedBefore

(* The API refuses a live hold for nothing else.                           *)
LEMMA ServeRefuses ==
  ASSUME Types, Types', CallShapes, LiveRefusal, Serve("act")
  PROVE  LiveRefusal'
  <1>0. "act" \in Callers /\ calls["act"] \in CallRow /\ calls["act"].step = "sent"
    BY DEF Callers, Types, Serve
  <1> SUFFICES ASSUME calls'["act"].step = "refused", calls'["act"].what = "confirm"
      PROVE  calls'["act"].arg \in ActiveHolds(Held)' => BookedBefore(rows[calls["act"].arg].slot)'
    BY DEF LiveRefusal
  <1>1. PICK verdict, value : verdict \in {"ok", "refused"} /\ Answer("act", verdict, value)
    <2>1. Replied("act") \/ HoldMade("act") \/ BookingMade("act") \/ BookingEnded("act")
      BY <1>0, ServeCases
    <2>2. CASE Replied("act")
      BY <2>2 DEF Replied
    <2>3. CASE HoldMade("act")
      BY <2>3 DEF HoldMade
    <2>4. CASE BookingMade("act")
      BY <2>4 DEF BookingMade
    <2>5. CASE BookingEnded("act")
      BY <2>5 DEF BookingEnded
    <2> QED BY <2>1, <2>2, <2>3, <2>4, <2>5
  <1>2. /\ calls'["act"].what = calls["act"].what /\ calls'["act"].arg = calls["act"].arg
        /\ verdict = "refused"
    BY <1>0, <1>1 DEF Answer, CallRow, Types
  <1>3. ConfirmHold("act")
    BY <1>2 DEF Serve
  <1>a. ASSUME NEW said, Answer("act", "ok", said) PROVE FALSE
    BY <1>0, <1>a DEF Answer, CallRow, Types
  <1>4. Replies("act", "refused", {})
    BY <1>3, <1>a DEF ConfirmHold, Replies
  <1>5. calls["act"].arg \in ActiveHolds(Held) => BookedBefore(rows[calls["act"].arg].slot)
    BY <1>3, <1>a DEF ConfirmHold, Replies
  <1>6. UNCHANGED <<now, rows, bookings>>
    BY <1>4 DEF Replies, server, Serve
  <1> QED BY <1>2, <1>5, <1>6 DEF ActiveHolds, Held, BookedBefore

LEMMA StepRefuses ==
  ASSUME Types, IInv, LiveRefusal, [Next]_vars
  PROVE  LiveRefusal'
  <1>0. Types' /\ CallShapes /\ RowsGrow /\ calls \in [Callers -> CallRow]
    BY StepKeeps, StepGrows DEF IInv, Types
  <1>1. CASE calls'["act"] = calls["act"]
    BY <1>0, <1>1, RefusalStays
  <1>2. CASE calls'["act"].step # "refused"
    BY <1>2 DEF LiveRefusal
  <1>3. CASE Serve("act")
    BY <1>0, <1>3, ServeRefuses
  <1>4. ASSUME NEW c \in Callers, Serve(c), c # "act" PROVE calls'["act"] = calls["act"]
    <2>1. PICK verdict, value : Answer(c, verdict, value)
      BY <1>0, <1>4, ServeCases DEF Replied, HoldMade, BookingMade, BookingEnded
    <2> QED BY <1>0, <1>4, <2>1 DEF Answer, Callers
  <1>5. ASSUME NEW c \in Callers, Lose(c)
        PROVE  calls'["act"] = calls["act"] \/ calls'["act"].step # "refused"
    <2>1. Answer(c, "lost", {})
      BY <1>5 DEF Lose
    <2> QED BY <1>0, <2>1 DEF Answer, Callers, CallRow
  <1>6. ASSUME \/ \E s \in Slots : TakeHold(s)
               \/ \E h \in DOMAIN rows : Confirm(h)
               \/ \E b \in DOMAIN bookings : Cancel(b)
        PROVE  calls'["act"].step # "refused"
    <2>1. ASSUME NEW what, NEW arg, NEW key, NEW kept, NEW streak, Begin(Call(what, arg, key), kept, streak)
          PROVE  calls'["act"].step = "sent"
      <3>1. calls'["act"] = Call(what, arg, key)
        BY <1>0, <2>1 DEF Begin, Callers
      <3> QED BY <3>1 DEF Call, None
    <2>2. CASE \E s \in Slots : TakeHold(s)
      BY <2>1, <2>2 DEF TakeHold
    <2>3. CASE \E h \in DOMAIN rows : Confirm(h)
      BY <2>1, <2>3 DEF Confirm
    <2>4. CASE \E b \in DOMAIN bookings : Cancel(b)
      BY <2>1, <2>4 DEF Cancel
    <2> QED BY <1>6, <2>2, <2>3, <2>4
  <1>7. ASSUME NEW kind, Mount(kind) PROVE calls'["act"].step # "refused"
    BY <1>7 DEF Mount, FreshCalls, Callers, None
  <1>8. CASE \/ ReceiveSession \/ NoSession \/ MineFails \/ ActFails \/ SignOut
             \/ ReceiveDetail("detail") \/ ReceiveDetail("act")
    <2>1. calls'["act"] = calls["act"] \/ calls'["act"] = None
      BY <1>0, <1>8, SettlesCases DEF Settles, Callers
    <2> QED BY <1>1, <1>2, <2>1, NoneIsCall
  <1>9. CASE ReceiveMine
    BY <1>0, <1>1, <1>9 DEF ReceiveMine, Callers
  <1>10. CASE ReceiveHold \/ ReceiveConfirm \/ ReceiveCancel
    <2>1. PICK shown : GoesOn(shown)
      BY <1>10 DEF ReceiveHold, ReceiveConfirm, ReceiveCancel
    <2> QED BY <1>0, <1>2, <2>1 DEF GoesOn, None, Callers
  <1>11. CASE \/ UNCHANGED vars \/ Tick \/ (\E h \in DOMAIN rows : Expire(h))
              \/ (\E s \in Slots : RivalTakes(s))
    BY <1>1, <1>11 DEF vars, Tick, Expire, RivalTakes
  <1> QED BY <1>1, <1>2, <1>3, <1>4, <1>5, <1>6, <1>7, <1>8, <1>9, <1>10, <1>11 DEF Next, Receive

(* A retry with the kept key is not refused for what an earlier try of the *)
(* same thing did; a live hold is refused only where its slot was booked   *)
(* before.                                                                 *)
THEOREM RetriesSucceed == Spec => []RetryIsNotRefused
  <1>1. Types /\ IInv /\ LiveRefusal => RetryIsNotRefused
    <2> SUFFICES ASSUME Types, IInv, LiveRefusal, calls["act"].step = "refused"
        PROVE  /\ calls["act"].what = "hold" /\ ~history.crossed =>
                    ~\E h \in DOMAIN rows : rows[h].slot = calls["act"].arg /\ rows[h].try > history.streak
               /\ calls["act"].what = "confirm" /\ ~history.crossed =>
                    ~\E b \in DOMAIN bookings :
                       bookings[b].hold = calls["act"].arg /\ bookings[b].try > history.mounted
               /\ calls["act"].what = "confirm" /\ calls["act"].arg \in ActiveHolds(Held) =>
                    BookedBefore(rows[calls["act"].arg].slot)
      BY DEF RetryIsNotRefused
    <2>0. history.streak \in Nat /\ history.mounted \in Nat
      BY DEF Types, History
    <2>1. ASSUME calls["act"].what = "hold", NEW h \in DOMAIN rows, rows[h].slot = calls["act"].arg
          PROVE  ~(rows[h].try > history.streak)
      <3>1. rows[h].try <= history.streak
        BY <2>1 DEF IInv, HoldTriedInVain
      <3>2. rows[h] \in HoldRow
        BY DEF Types
      <3> QED BY <2>0, <3>1, <3>2 DEF HoldRow
    <2>2. ASSUME ~history.crossed, calls["act"].what = "confirm", NEW b \in DOMAIN bookings,
                 bookings[b].hold = calls["act"].arg
          PROVE  ~(bookings[b].try > history.mounted)
      <3>1. bookings[b].try <= history.mounted
        BY <2>2 DEF IInv, ConfirmUnderWay, Trusted
      <3>2. bookings[b] \in BookingRow
        BY DEF Types
      <3> QED BY <2>0, <3>1, <3>2 DEF BookingRow
    <2>3. calls["act"].what = "confirm" /\ calls["act"].arg \in ActiveHolds(Held) =>
            BookedBefore(rows[calls["act"].arg].slot)
      BY DEF LiveRefusal
    <2> QED BY <2>1, <2>2, <2>3
  <1>2. Init => LiveRefusal
    BY DEF Init, FreshCalls, Callers, None, LiveRefusal
  <1>3. Types /\ IInv /\ LiveRefusal /\ [Next]_vars => LiveRefusal'
    BY StepRefuses
  <1>4. Spec => []LiveRefusal
    BY <1>2, <1>3, PageInvariant, PTL DEF Spec
  <1> QED BY <1>1, <1>4, PageInvariant, PTL

(* A page at rest agrees with the server but for the changes it owes.      *)
THEOREM QuietPageIsTrue == Spec => []QuietPageAgrees
  <1>1. Types /\ IInv => QuietPageAgrees
    <2> SUFFICES ASSUME IInv, page.known, ~history.crossed
        PROVE  /\ page.kind = "checkout" =>
                    ActiveHolds(page.holds) =
                      {h \in ActiveHolds(DOMAIN rows) : ~Owed("hold", h) /\ (h \in Held \/ HoldUntold(h))}
               /\ page.bookings =
                    {<<b, IF Owed("cancel", b) THEN "CONFIRMED" ELSE bookings[b].status>> :
                       b \in {c \in DOMAIN bookings : ~Owed("booking", c)}}
      BY DEF QuietPageAgrees
    <2>1. /\ page.kind = "checkout" => ActiveHolds(page.holds) = ShownHolds(history.owed)
          /\ page.bookings = ShownBookings(history.owed)
      BY DEF IInv, PageAgrees
    <2>2. ShownHolds(history.owed) =
            {h \in ActiveHolds(DOMAIN rows) : ~Owed("hold", h) /\ (h \in Held \/ HoldUntold(h))}
      <3>1. \A b \in DOMAIN bookings : rows[bookings[b].hold].end = "booked"
        BY DEF IInv, RowsAgree
      <3> QED BY <3>1 DEF ShownHolds, Among, Owed, HoldUntold
    <2>3. ShownBookings(history.owed) =
            {<<b, IF Owed("cancel", b) THEN "CONFIRMED" ELSE bookings[b].status>> :
               b \in {c \in DOMAIN bookings : ~Owed("booking", c)}}
      BY DEF ShownBookings, Among, Owed
    <2> QED BY <2>1, <2>2, <2>3
  <1> QED BY <1>1, PageInvariant, PTL

-----------------------------------------------------------------------------
(* The types that are left, and that a slot has one taker.                 *)

(* What the page offers, or is about to, are slots. *)
DetailsOffer ==
  /\ page.offered \subseteq Slots
  /\ \A c \in Callers : calls[c].what = "detail" => calls[c].value \subseteq Slots

(* Who lets a slot go, or does nothing, takes none. *)
LEMMA FreedKeeps ==
  ASSUME OneTaker, Held' \subseteq Held, Confirmed' \subseteq Confirmed, rival' = rival,
         \A h \in Held' : rows'[h].slot = rows[h].slot,
         \A b \in Confirmed' : bookings'[b].slot = bookings[b].slot
  PROVE  OneTaker'
  BY DEF OneTaker

(* Nor does a step that leaves the rows alone.                             *)
LEMMA SameTakers ==
  ASSUME OneTaker, UNCHANGED server
  PROVE  OneTaker'
  <1>1. rows' = rows /\ bookings' = bookings /\ rival' = rival
    BY DEF server
  <1> QED BY <1>1, FreedKeeps DEF Held, Confirmed

(* An open slot is nobody's. *)
LEMMA OpenIsFree ==
  ASSUME NEW s \in Open
  PROVE  /\ s \in Slots /\ s \notin rival
         /\ \A h \in Held : rows[h].slot # s
         /\ \A b \in Confirmed : bookings[b].slot # s
  BY DEF Open

(* A new hold takes an open slot.                                          *)
LEMMA HoldTakes ==
  ASSUME Types, OneTaker, NEW r \in HoldRow, r.slot \in Open,
         rows' = Append(rows, r), bookings' = bookings, rival' = rival
  PROVE  OneTaker'
  <1>1. rows \in Seq(HoldRow)
    BY DEF Types
  <1>2. PICK n : n = Len(rows) + 1
    OBVIOUS
  <1>3. /\ DOMAIN rows' = DOMAIN rows \cup {n} /\ rows'[n] = r /\ n \notin DOMAIN rows
        /\ \A h \in DOMAIN rows : rows'[h] = rows[h]
    BY <1>1, <1>2
  <1>4. Held' \subseteq Held \cup {n} /\ n \notin Held /\ Confirmed' = Confirmed
    BY <1>3 DEF Held, Confirmed
  <1>5. \A h \in Held : rows'[h].slot = rows[h].slot
    BY <1>3 DEF Held
  <1>6. PICK s \in Open : s = r.slot
    OBVIOUS
  <1>7. rows'[n].slot = s
    BY <1>3, <1>6
  <1>8. /\ s \notin rival
        /\ \A h \in Held : rows[h].slot # s
        /\ \A b \in Confirmed : bookings[b].slot # s
    BY OpenIsFree
  <1>9. ASSUME NEW h \in Held' PROVE h = n \/ (h \in Held /\ rows'[h].slot = rows[h].slot /\ rows[h].slot # s)
    BY <1>4, <1>5, <1>8
  <1>10. ASSUME NEW b \in Confirmed' PROVE b \in Confirmed /\ bookings'[b] = bookings[b] /\ bookings[b].slot # s
    BY <1>4, <1>8
  <1>11. ASSUME NEW g \in Held', NEW h \in Held', rows'[g].slot = rows'[h].slot PROVE g = h
    BY ZenonT(60), <1>7, <1>9, <1>11 DEF OneTaker
  <1>12. ASSUME NEW b \in Confirmed', NEW c \in Confirmed', bookings'[b].slot = bookings'[c].slot PROVE b = c
    BY <1>10, <1>12 DEF OneTaker
  <1>13. ASSUME NEW h \in Held' PROVE rows'[h].slot \notin rival'
    BY <1>7, <1>8, <1>9 DEF OneTaker
  <1>14. ASSUME NEW b \in Confirmed' PROVE bookings'[b].slot \notin rival'
    BY <1>10 DEF OneTaker
  <1>15. ASSUME NEW h \in Held', NEW b \in Confirmed' PROVE rows'[h].slot # bookings'[b].slot
    <2>1. b \in Confirmed /\ bookings'[b].slot = bookings[b].slot /\ bookings[b].slot # s
      BY <1>10
    <2>2. CASE h = n
      BY <1>7, <2>1, <2>2
    <2>3. CASE h \in Held /\ rows'[h].slot = rows[h].slot
      <3>1. rows[h].slot # bookings[b].slot
        BY <2>1, <2>3 DEF OneTaker
      <3> QED BY <2>1, <2>3, <3>1
    <2> QED BY <1>9, <2>2, <2>3
  <1> QED BY <1>11, <1>12, <1>13, <1>14, <1>15 DEF OneTaker

(* The booking takes over the slot of its hold. *)
LEMMA BookingTakes ==
  ASSUME Types, OneTaker, NEW h \in Held, NEW r \in BookingRow, r.slot = rows[h].slot,
         rows' = [rows EXCEPT ![h].end = "booked"], bookings' = Append(bookings, r), rival' = rival
  PROVE  OneTaker'
  <1>1. rows \in Seq(HoldRow) /\ bookings \in Seq(BookingRow)
    BY DEF Types
  <1>2. PICK n : n = Len(bookings) + 1
    OBVIOUS
  <1>3. /\ DOMAIN bookings' = DOMAIN bookings \cup {n} /\ bookings'[n] = r /\ n \notin DOMAIN bookings
        /\ \A b \in DOMAIN bookings : bookings'[b] = bookings[b]
    BY <1>1, <1>2
  <1>4. Confirmed' \subseteq Confirmed \cup {n} /\ n \notin Confirmed
    BY <1>3 DEF Confirmed
  <1>5. /\ h \in DOMAIN rows /\ DOMAIN rows' = DOMAIN rows /\ rows'[h] = [rows[h] EXCEPT !.end = "booked"]
        /\ \A g \in DOMAIN rows : g # h => rows'[g] = rows[g]
    BY <1>1 DEF Held
  <1>6. rows'[h].end = "booked"
    <2>1. rows[h] \in HoldRow
      BY <1>1, <1>5
    <2> QED BY <1>5, <2>1 DEF HoldRow
  <1>7. Held' \subseteq Held \ {h}
    BY <1>5, <1>6 DEF Held
  <1>8. \A g \in Held \ {h} : rows'[g].slot = rows[g].slot
    BY <1>5 DEF Held
  <1>9. \A b \in Confirmed : bookings'[b].slot = bookings[b].slot
    BY <1>3 DEF Confirmed
  <1>10. bookings'[n].slot = rows[h].slot
    BY <1>3
  <1>11. PICK s : s = rows[h].slot
    OBVIOUS
  <1>12. /\ s \notin rival
         /\ \A g \in Held \ {h} : rows[g].slot # s
         /\ \A b \in Confirmed : bookings[b].slot # s
    BY <1>11 DEF OneTaker
  <1>13. ASSUME NEW g \in Held' PROVE g \in Held /\ rows'[g].slot = rows[g].slot /\ rows[g].slot # s
    BY <1>7, <1>8, <1>12
  <1>14. ASSUME NEW b \in Confirmed'
         PROVE  \/ b = n /\ bookings'[b].slot = s
                \/ b \in Confirmed /\ bookings'[b].slot = bookings[b].slot /\ bookings[b].slot # s
    BY <1>4, <1>9, <1>10, <1>11, <1>12
  <1>15. ASSUME NEW f \in Held', NEW g \in Held', rows'[f].slot = rows'[g].slot PROVE f = g
    BY <1>13, <1>15 DEF OneTaker
  <1>16. ASSUME NEW b \in Confirmed', NEW c \in Confirmed', bookings'[b].slot = bookings'[c].slot PROVE b = c
    BY ZenonT(60), <1>14, <1>16 DEF OneTaker
  <1>17. ASSUME NEW g \in Held' PROVE rows'[g].slot \notin rival'
    BY <1>13 DEF OneTaker
  <1>18. ASSUME NEW b \in Confirmed' PROVE bookings'[b].slot \notin rival'
    BY <1>12, <1>14 DEF OneTaker
  <1>19. ASSUME NEW g \in Held', NEW b \in Confirmed' PROVE rows'[g].slot # bookings'[b].slot
    <2>1. g \in Held /\ rows'[g].slot = rows[g].slot /\ rows[g].slot # s
      BY <1>13
    <2>2. CASE b = n /\ bookings'[b].slot = s
      BY <2>1, <2>2
    <2>3. CASE b \in Confirmed /\ bookings'[b].slot = bookings[b].slot
      <3>1. rows[g].slot # bookings[b].slot
        BY <2>1, <2>3 DEF OneTaker
      <3> QED BY <2>1, <2>3, <3>1
    <2> QED BY <1>14, <2>2, <2>3
  <1> QED BY <1>15, <1>16, <1>17, <1>18, <1>19 DEF OneTaker

(* An answer, with the row it made. *)
LEMMA ServeTakes ==
  ASSUME Types, OneTaker, NEW c \in Callers, Serve(c)
  PROVE  OneTaker'
  <1>0. /\ rows \in Seq(HoldRow) /\ bookings \in Seq(BookingRow) /\ now \in Nat
        /\ calls[c] \in CallRow
    BY DEF Types
  <1>1. CASE UNCHANGED server
    BY <1>1, SameTakers
  <1>2. CASE CreateHold(c) /\ ~UNCHANGED server
    <2> DEFINE r == [slot |-> calls[c].arg, until |-> now + HoldTtl, end |-> "held",
                     key |-> calls[c].key, try |-> calls[c].try]
    <2>1. calls[c].arg \in Open /\ rows' = Append(rows, r) /\ bookings' = bookings /\ rival' = rival
      BY <1>2 DEF CreateHold, Replies
    <2>2. r \in HoldRow /\ r.slot \in Open
      BY SMTT(30), <1>0, <2>1, CheckoutAssumption DEF HoldRow, CallRow, Open
    <2> HIDE DEF r
    <2> QED BY <2>1, <2>2, HoldTakes
  <1>3. CASE ConfirmHold(c) /\ ~UNCHANGED server
    <2> DEFINE h == calls[c].arg
               r == [slot |-> rows[h].slot, hold |-> h, status |-> "CONFIRMED",
                     key |-> calls[c].key, try |-> calls[c].try]
    <2>1. /\ h \in ActiveHolds(Held) /\ rows' = [rows EXCEPT ![h].end = "booked"]
          /\ bookings' = Append(bookings, r) /\ rival' = rival
      BY <1>3 DEF ConfirmHold, Replies
    <2>2. h \in Held /\ h \in Nat /\ rows[h] \in HoldRow
      BY <1>0, <2>1 DEF ActiveHolds, Held
    <2>3. r \in BookingRow /\ r.slot = rows[h].slot
      BY <1>0, <2>2 DEF HoldRow, BookingRow, BookingStatus, CallRow
    <2> HIDE DEF r, h
    <2> QED BY <2>1, <2>2, <2>3, BookingTakes
  <1>4. CASE CancelBooking(c) /\ ~UNCHANGED server
    <2>1. PICK b \in Confirmed : /\ bookings' = [bookings EXCEPT ![b].status = "CANCELLED"]
                                 /\ rows' = rows /\ rival' = rival
      BY <1>4 DEF CancelBooking, Replies
    <2>2. /\ DOMAIN bookings' = DOMAIN bookings /\ bookings'[b] = [bookings[b] EXCEPT !.status = "CANCELLED"]
          /\ bookings[b] \in BookingRow /\ b \in DOMAIN bookings
          /\ \A a \in DOMAIN bookings : a # b => bookings'[a] = bookings[a]
      BY <1>0, <2>1 DEF Confirmed
    <2>3. bookings'[b].status = "CANCELLED"
      BY <2>2 DEF BookingRow
    <2>4. Confirmed' \subseteq Confirmed \ {b}
      BY <2>2, <2>3 DEF Confirmed
    <2>5. \A a \in Confirmed' : bookings'[a].slot = bookings[a].slot
      BY <2>2, <2>4 DEF Confirmed
    <2>6. Held' = Held /\ \A g \in Held' : rows'[g].slot = rows[g].slot
      BY <2>1 DEF Held
    <2> QED BY <2>1, <2>4, <2>5, <2>6, FreedKeeps
  <1> QED BY <1>1, <1>2, <1>3, <1>4 DEF Serve, GetDetail, GetMyHolds, GetMyBookings, Replies

(* Every step leaves one taker to each slot.                               *)
LEMMA StepTakes ==
  ASSUME Types, OneTaker, [Next]_vars
  PROVE  OneTaker'
  <1>1. ASSUME NEW c \in Callers, Serve(c) PROVE OneTaker'
    BY <1>1, ServeTakes
  <1>2. ASSUME NEW s \in Slots, RivalTakes(s) PROVE OneTaker'
    <2>1. s \in Open /\ rival' = {s} /\ rows' = rows /\ bookings' = bookings
      BY <1>2 DEF RivalTakes
    <2>2. /\ \A h \in Held : rows[h].slot # s
          /\ \A b \in Confirmed : bookings[b].slot # s
      BY <2>1, OpenIsFree
    <2>3. Held' = Held /\ Confirmed' = Confirmed
      BY <2>1 DEF Held, Confirmed
    <2> QED BY <2>1, <2>2, <2>3 DEF OneTaker
  <1>3. ASSUME NEW h \in DOMAIN rows, Expire(h) PROVE OneTaker'
    <2>1. h \in Held /\ rows' = [rows EXCEPT ![h].end = "expired"] /\ bookings' = bookings /\ rival' = rival
      BY <1>3 DEF Expire
    <2>2. /\ DOMAIN rows' = DOMAIN rows /\ rows[h] \in HoldRow
          /\ rows'[h] = [rows[h] EXCEPT !.end = "expired"]
          /\ \A g \in DOMAIN rows : g # h => rows'[g] = rows[g]
      BY <2>1 DEF Types
    <2>3. rows'[h].end = "expired"
      BY <2>2 DEF HoldRow
    <2>4. Held' \subseteq Held \ {h}
      BY <2>2, <2>3 DEF Held
    <2>5. \A g \in Held' : rows'[g].slot = rows[g].slot
      BY <2>2, <2>4 DEF Held
    <2>6. Confirmed' = Confirmed /\ \A b \in Confirmed' : bookings'[b].slot = bookings[b].slot
      BY <2>1 DEF Confirmed
    <2> QED BY <2>1, <2>4, <2>5, <2>6, FreedKeeps
  <1>4. ASSUME \/ \E kind \in {"checkout", "mine"} : Mount(kind)
               \/ \E s \in Slots : TakeHold(s)
               \/ \E h \in DOMAIN rows : Confirm(h)
               \/ \E b \in DOMAIN bookings : Cancel(b)
               \/ \E c \in Callers : Lose(c)
               \/ SignOut \/ Tick \/ UNCHANGED vars
        PROVE  OneTaker'
    <2>1. UNCHANGED server
      BY <1>4 DEF Mount, TakeHold, Confirm, Cancel, Begin, Lose, SignOut, Tick, vars
    <2> QED BY <2>1, SameTakers
  <1>5. CASE Receive
    <2>1. UNCHANGED server
      BY <1>5 DEF Receive, ReceiveSession, NoSession, ReceiveMine, MineFails, ReceiveDetail, ReceiveHold,
                  ReceiveConfirm, ReceiveCancel, ActFails, GoesOn
    <2> QED BY <2>1, SameTakers
  <1> QED BY <1>1, <1>2, <1>3, <1>4, <1>5 DEF Next

(* Of the page's steps, only the details change what is offered. *)
LEMMA AnswerOffers ==
  ASSUME Types, DetailsOffer, NEW c \in Callers, NEW verdict, NEW value, Answer(c, verdict, value),
         calls[c].what = "detail" => value \subseteq Slots, page' = page
  PROVE  DetailsOffer'
  <1>1. calls \in [Callers -> CallRow]
    BY DEF Types
  <1>2. \A d \in Callers : d # c => calls'[d] = calls[d]
    BY <1>1 DEF Answer
  <1>3. calls'[c].what = "detail" => calls'[c].value \subseteq Slots
    <2>1. CASE c = "orphan"
      <3>1. calls'[c] = None
        BY <1>1, <2>1 DEF Answer
      <3> QED BY <3>1, NoneIsCall
    <2>2. CASE c # "orphan"
      <3>1. calls'[c] = [calls[c] EXCEPT !.step = verdict, !.value = value, !.at = history.version]
        BY <1>1, <2>2 DEF Answer
      <3>2. calls[c] \in CallRow
        BY <1>1
      <3>3. calls'[c].what = calls[c].what /\ calls'[c].value = value
        BY <3>1, <3>2 DEF CallRow
      <3> QED BY <3>3
    <2> QED BY <2>1, <2>2
  <1> QED BY <1>2, <1>3 DEF DetailsOffer

(* What the details say is open are slots.                                 *)
LEMMA ServeOffers ==
  ASSUME Types, DetailsOffer, NEW c \in Callers, Serve(c)
  PROVE  DetailsOffer'
  <1>1. page' = page
    BY DEF Serve
  <1>2. CASE calls[c].what = "detail"
    <2>1. Replies(c, "ok", IF StartsAt > now THEN Open ELSE {})
      BY <1>2 DEF Serve, GetDetail
    <2>2. PICK value : value = IF StartsAt > now THEN Open ELSE {}
      OBVIOUS
    <2>3. value \subseteq Slots
      BY <2>2 DEF Open
    <2>4. Answer(c, "ok", value)
      BY <2>1, <2>2 DEF Replies
    <2> QED BY <1>1, <2>3, <2>4, AnswerOffers
  <1>3. CASE calls[c].what # "detail"
    <2>1. PICK verdict, value : Answer(c, verdict, value)
      BY <1>3 DEF Serve, GetMyHolds, GetMyBookings, CreateHold, ConfirmHold, CancelBooking, Replies
    <2> QED BY <1>1, <1>3, <2>1, AnswerOffers
  <1> QED BY <1>2, <1>3

(* A call that is new, over or for something else offers nothing. *)
LEMMA OthersOffer ==
  ASSUME DetailsOffer, page'.offered = page.offered \/ page'.offered = {},
         \A d \in Callers : calls'[d] = calls[d] \/ calls'[d].what # "detail" \/ calls'[d].value = {}
  PROVE  DetailsOffer'
  BY DEF DetailsOffer

(* Every step leaves the page with slots to offer.                         *)
LEMMA StepOffers ==
  ASSUME Types, DetailsOffer, [Next]_vars
  PROVE  DetailsOffer'
  <1>0. /\ calls \in [Callers -> CallRow] /\ page \in Page
        /\ {"detail", "session", "holds", "bookings", "act", "orphan"} = Callers
    BY DEF Types, Callers
  <1>1. ASSUME NEW c \in Callers, Serve(c) PROVE DetailsOffer'
    BY <1>1, ServeOffers
  <1>2. ASSUME NEW c \in Callers, Lose(c) PROVE DetailsOffer'
    <2>1. Answer(c, "lost", {}) /\ page' = page
      BY <1>2 DEF Lose
    <2> QED BY <2>1, AnswerOffers
  <1>3. ASSUME NEW kind \in {"checkout", "mine"}, Mount(kind) PROVE DetailsOffer'
    <2>1. PICK orphan \in CallRow : /\ calls' = FreshCalls(kind, orphan)
                                    /\ orphan = calls["act"] \/ orphan = calls["orphan"]
      BY <1>0, <1>3 DEF Mount
    <2>2. page'.offered = {}
      BY <1>3 DEF Mount, FreshPage
    <2>3. PICK u : u = [None EXCEPT !.what = "detail", !.step = "sent"]
      OBVIOUS
    <2>4. u.value = {}
      BY <2>3, NoneIsCall DEF CallRow
    <2>5. PICK w : w = [None EXCEPT !.what = "session", !.step = "sent"]
      OBVIOUS
    <2>6. w.value = {}
      BY <2>5, NoneIsCall DEF CallRow
    <2>7. ASSUME NEW d \in Callers, calls'[d].what = "detail"
          PROVE  calls'[d].value \subseteq Slots
      <3>1. calls'[d] \in {u, w, orphan, None}
        BY <1>0, <2>1, <2>3, <2>5, <2>7 DEF FreshCalls
      <3>2. orphan.what = "detail" => orphan.value \subseteq Slots
        BY <1>0, <2>1 DEF DetailsOffer
      <3> QED BY <2>4, <2>6, <2>7, <3>1, <3>2, NoneIsCall
    <2> QED BY <2>2, <2>7 DEF DetailsOffer
  <1>4. ASSUME \/ \E s \in Slots : TakeHold(s)
               \/ \E h \in DOMAIN rows : Confirm(h)
               \/ \E b \in DOMAIN bookings : Cancel(b)
        PROVE  DetailsOffer'
    <2>1. PICK what, arg, key, kept, streak :
            /\ what \in {"hold", "confirm", "cancel"} /\ Begin(Call(what, arg, key), kept, streak)
            /\ kept \in Page /\ kept.offered = page.offered
      <3>1. CASE \E s \in Slots : TakeHold(s)
        <4>1. PICK s \in Slots : TakeHold(s)
          BY <3>1
        <4>2. PICK a \in [slot: Slots \cup {0}, key: Nat] : a = AttemptFor(s)
          <5>1. actions \in Nat /\ page.attempt \in [slot: Slots \cup {0}, key: Nat]
            BY <1>0 DEF Page, Types
          <5>2. [slot |-> s, key |-> actions + 1] \in [slot: Slots \cup {0}, key: Nat]
            BY <5>1
          <5> QED BY <5>1, <5>2 DEF AttemptFor
        <4>3. [page EXCEPT !.attempt = a] \in Page /\ [page EXCEPT !.attempt = a].offered = page.offered
          BY <1>0 DEF Page
        <4>4. PICK z : z = IF page.attempt.slot \in {0, s} THEN history.streak ELSE actions
          OBVIOUS
        <4>5. Begin(Call("hold", s, a.key), [page EXCEPT !.attempt = a], z)
          BY <4>1, <4>2, <4>4 DEF TakeHold
        <4> QED BY <4>3, <4>5
      <3>2. CASE \E h \in DOMAIN rows : Confirm(h)
        <4>1. PICK h \in DOMAIN rows : Confirm(h)
          BY <3>2
        <4>2. h \in Nat /\ actions \in Nat
          BY DEF Types
        <4>3. PICK k : k = KeyFor(h)
          OBVIOUS
        <4>4. k \in Nat
          <5>1. CASE {l \in page.keys : l[1] = h} = {}
            BY <4>2, <4>3, <5>1 DEF KeyFor
          <5>2. CASE {l \in page.keys : l[1] = h} # {}
            <6>1. (CHOOSE l \in {l \in page.keys : l[1] = h} : TRUE) \in page.keys
              BY <5>2
            <6> QED BY <1>0, <4>3, <5>2, <6>1 DEF KeyFor, Page
          <5> QED BY <5>1, <5>2
        <4>5. PICK kept : kept = [page EXCEPT !.keys = @ \cup {<<h, k>>}]
          OBVIOUS
        <4>6. kept \in Page /\ kept.offered = page.offered
          BY <1>0, <4>2, <4>4, <4>5 DEF Page
        <4>7. Begin(Call("confirm", h, k), kept, history.streak)
          BY <4>1, <4>3, <4>5 DEF Confirm
        <4> QED BY <4>6, <4>7
      <3>3. CASE \E b \in DOMAIN bookings : Cancel(b)
        BY <1>0, <3>3 DEF Cancel
      <3> QED BY <1>4, <3>1, <3>2, <3>3
    <2>2. page' = [kept EXCEPT !.busy = TRUE] /\ calls' = [calls EXCEPT !["act"] = Call(what, arg, key)]
      BY <2>1 DEF Begin
    <2>3. page'.offered = page.offered
      BY <2>1, <2>2 DEF Page
    <2>4. Call(what, arg, key).what # "detail"
      BY <2>1 DEF Call, None
    <2>5. \A d \in Callers : calls'[d] = calls[d] \/ calls'[d].what # "detail"
      BY <1>0, <2>2, <2>4
    <2> QED BY <2>3, <2>5, OthersOffer
  <1>5. ASSUME \/ \E s \in Slots : RivalTakes(s)
               \/ \E h \in DOMAIN rows : Expire(h)
               \/ Tick \/ UNCHANGED vars
        PROVE  DetailsOffer'
    <2>1. page' = page /\ calls' = calls
      BY <1>5 DEF RivalTakes, Expire, Tick, vars
    <2> QED BY <2>1, OthersOffer
  <1>6. CASE SignOut
    <2>1. page'.offered = page.offered /\ calls' = calls
      BY <1>0, <1>6 DEF SignOut, Page
    <2> QED BY <2>1, OthersOffer
  <1>7. CASE ReceiveDetail("detail") \/ ReceiveDetail("act")
    <2>1. PICK c \in Callers : /\ calls[c].what = "detail" /\ calls' = [calls EXCEPT ![c] = None]
                               /\ page' = [page EXCEPT !.offered = calls[c].value, !.loading = FALSE,
                                             !.busy = IF c = "act" THEN FALSE ELSE @]
      BY <1>0, <1>7 DEF ReceiveDetail
    <2>2. page'.offered \subseteq Slots
      BY <1>0, <2>1 DEF DetailsOffer, Page
    <2>3. \A d \in Callers : calls'[d] = calls[d] \/ calls'[d] = None
      BY <1>0, <2>1
    <2> QED BY <2>2, <2>3, NoneIsCall DEF DetailsOffer
  <1>8. CASE ReceiveSession \/ NoSession \/ ReceiveMine \/ MineFails \/ ActFails
    <2>1. page'.offered = page.offered
      BY <1>0, <1>8 DEF ReceiveSession, NoSession, ReceiveMine, MineFails, ActFails, Page
    <2>2. PICK u, v : /\ u = [None EXCEPT !.what = "holds", !.step = "sent"]
                      /\ v = [None EXCEPT !.what = "bookings", !.step = "sent"]
      OBVIOUS
    <2>3. u.what = "holds" /\ v.what = "bookings"
      BY <2>2, NoneIsCall DEF CallRow
    <2>4. \A d \in Callers : calls'[d] \in {calls[d], None, u, v}
      BY <1>0, <1>8, <2>2 DEF ReceiveSession, NoSession, ReceiveMine, MineFails, ActFails
    <2> QED BY <2>1, <2>3, <2>4, OthersOffer, NoneIsCall
  <1>9. CASE ReceiveHold \/ ReceiveConfirm \/ ReceiveCancel
    <2>1. PICK shown : GoesOn(shown) /\ shown.offered = page.offered /\ DOMAIN shown = DOMAIN page
      <3>1. CASE ReceiveHold
        <4>1. PICK h : GoesOn([page EXCEPT !.holds = ActiveHolds(@ \cup {h}), !.attempt = [slot |-> 0, key |-> 0]])
          BY <3>1 DEF ReceiveHold
        <4>2. PICK H, a : GoesOn([page EXCEPT !.holds = H, !.attempt = a])
          BY <4>1
        <4>3. PICK q : q = [page EXCEPT !.holds = H, !.attempt = a]
          OBVIOUS
        <4>4. q.offered = page.offered /\ DOMAIN q = DOMAIN page
          BY <1>0, <4>3 DEF Page
        <4> QED BY <4>2, <4>3, <4>4
      <3>2. CASE ReceiveConfirm
        <4>1. PICK b : GoesOn([page EXCEPT !.bookings = {o \in @ : o[1] # b[1]} \cup {b},
                                           !.holds = @ \ {calls["act"].arg},
                                           !.keys = {k \in @ : k[1] # calls["act"].arg}])
          BY <3>2 DEF ReceiveConfirm
        <4>2. PICK B, H, K : GoesOn([page EXCEPT !.bookings = B, !.holds = H, !.keys = K])
          BY <4>1
        <4>3. PICK q : q = [page EXCEPT !.bookings = B, !.holds = H, !.keys = K]
          OBVIOUS
        <4>4. q.offered = page.offered /\ DOMAIN q = DOMAIN page
          BY <1>0, <4>3 DEF Page
        <4> QED BY <4>2, <4>3, <4>4
      <3>3. CASE ReceiveCancel
        <4>1. PICK b : GoesOn([page EXCEPT !.bookings = {IF o[1] = b[1] THEN b ELSE o : o \in @}])
          BY <3>3 DEF ReceiveCancel
        <4>2. PICK B : GoesOn([page EXCEPT !.bookings = B])
          BY <4>1
        <4>3. PICK q : q = [page EXCEPT !.bookings = B]
          OBVIOUS
        <4>4. q.offered = page.offered /\ DOMAIN q = DOMAIN page
          BY <1>0, <4>3 DEF Page
        <4> QED BY <4>2, <4>3, <4>4
      <3> QED BY <1>9, <3>1, <3>2, <3>3
    <2>2. page'.offered = page.offered
      <3>1. PICK x, y : page' = [shown EXCEPT !.loading = x, !.busy = y]
        BY <2>1 DEF GoesOn
      <3> QED BY <1>0, <2>1, <3>1 DEF Page
    <2>3. PICK u : u = [None EXCEPT !.what = "detail", !.step = "sent"]
      OBVIOUS
    <2>4. u.value = {}
      BY <2>3, NoneIsCall DEF CallRow
    <2>5. \A d \in Callers : calls'[d] \in {calls[d], None, u}
      BY <1>0, <2>1, <2>3 DEF GoesOn
    <2> QED BY <2>2, <2>4, <2>5, OthersOffer, NoneIsCall
  <1> QED BY <1>1, <1>2, <1>3, <1>4, <1>5, <1>6, <1>7, <1>8, <1>9 DEF Next, Receive

(* A slot has one taker: of the user's live holds, the bookings that       *)
(* stand, and what others have.  The API of the model serves requests of   *)
(* the page, also repeated or orphaned ones, in any order.                 *)
THEOREM SlotHasOneTaker == Spec => []OneTaker
  <1>1. Init => OneTaker
    BY DEF Init, OneTaker, Held, Confirmed
  <1>2. Types /\ OneTaker /\ [Next]_vars => OneTaker'
    BY StepTakes
  <1> QED BY <1>1, <1>2, PageInvariant, PTL DEF Spec

(* The types of the rows, the page and its calls. *)
THEOREM PageTypes == Spec => []TypeOK
  <1>1. Init => DetailsOffer
    <2>1. SUFFICES ASSUME Init PROVE DetailsOffer
      OBVIOUS
    <2>2. page.offered = {} /\ calls = FreshCalls("checkout", None)
      BY <2>1 DEF Init, FreshPage
    <2>3. PICK u, w : /\ u = [None EXCEPT !.what = "detail", !.step = "sent"]
                      /\ w = [None EXCEPT !.what = "session", !.step = "sent"]
      OBVIOUS
    <2>4. u.value = {} /\ w.value = {}
      BY <2>3, NoneIsCall DEF CallRow
    <2>5. \A c \in Callers : calls[c] \in {u, w, None}
      BY <2>2, <2>3 DEF FreshCalls
    <2> QED BY <2>2, <2>4, <2>5, NoneIsCall DEF DetailsOffer
  <1>2. Types /\ DetailsOffer /\ [Next]_vars => DetailsOffer'
    BY StepOffers
  <1>3. Types /\ IInv /\ OneTaker /\ DetailsOffer => TypeOK
    <2> SUFFICES ASSUME Types, IInv, OneTaker, DetailsOffer PROVE TypeOK
      OBVIOUS
    <2>1. \A h \in DOMAIN rows : rows[h].end \in {"held", "booked", "expired"} /\ rows[h].slot \in Slots
      <3>1. \A h \in DOMAIN rows : rows[h] \in HoldRow
        BY DEF Types
      <3> QED BY <3>1 DEF HoldRow
    <2>2. \A b \in DOMAIN bookings : bookings[b].status \in {"CONFIRMED", "CANCELLED"}
      <3>1. \A b \in DOMAIN bookings : bookings[b] \in BookingRow
        BY DEF Types
      <3> QED BY <3>1 DEF BookingRow, BookingStatus
    <2>3. \A c \in Callers : calls[c].step \in {"none", "sent", "ok", "refused", "lost"}
      <3>1. \A c \in Callers : calls[c] \in CallRow
        BY DEF Types
      <3> QED BY <3>1 DEF CallRow
    <2>4. page.holds \subseteq DOMAIN rows /\ page.offered \subseteq Slots
      BY DEF IInv, RowsAgree, DetailsOffer
    <2> QED BY <2>1, <2>2, <2>3, <2>4 DEF TypeOK
  <1> QED BY <1>1, <1>2, <1>3, SlotHasOneTaker, PageInvariant, PTL DEF Spec
=============================================================================
