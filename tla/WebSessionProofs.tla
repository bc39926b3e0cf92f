-------------------------- MODULE WebSessionProofs --------------------------
(***************************************************************************)
(* Proofs about WebSession for any number of tabs, pages and tokens: types *)
(* and the three statements about one browser.  They rest on what holds as *)
(* long as nothing but the end of sessions has happened (Calm): one        *)
(* request is under way at a time, and the live token, if there is one, is *)
(* the cookie or on its way to it.                                         *)
(***************************************************************************)
EXTENDS WebSession, TLAPS

(* Tokens are numbered upwards, and a family is named by its first one.    *)
Numbered ==
  /\ issued \subseteq (Nat \ {0}) \X (Nat \ {0}) /\ live \subseteq issued
  /\ \A p, q \in issued : p[2] = q[2] => p = q
  /\ \A p \in issued : p[1] <= p[2]
HasLast ==
  \E n \in Nat : /\ \A p \in issued : p[2] <= n
                 /\ issued # {} => \E p \in issued : p[2] = n

Calm == cause \subseteq {"ended"}
OneRequest == \A r, s \in msgs : r = s
NoneOk == \A r \in msgs : r.answer # "ok"

(* A refresh under way is the one its page waits for. *)
Awaited ==
  \A r \in msgs : r.op \in Refreshes =>
    r.mount # 0 /\ r.mount = page[r.tab].mount /\ page[r.tab].refreshing
Presented == \A r \in msgs : r.answer = "none" => r.token = cookie
LogoutGivesNone == \A r \in msgs : r.op = "logout" /\ r.answer = "ok" => r.new = 0
Reached ==
  \A p \in live : /\ NoneOk => p[2] = cookie
                  /\ \A r \in msgs : r.answer = "ok" => p[2] = r.new
LoginFirst == \A r \in msgs : r.op = "login" /\ r.answer = "none" => cookie = 0
PagesKept ==
  \A t \in Tabs : /\ page[t].auth # "none" => t \in header
                  /\ page[t].mount = 0 => page[t].auth = "none" /\ page[t].pending = "none"

CalmInv ==
  Calm => /\ OneRequest /\ Awaited /\ Presented /\ LogoutGivesNone /\ LoginFirst
          /\ Reached /\ PagesKept

(* Until a session ends, the cookie works, or there is none.               *)
Alive ==
  cause = {} => /\ NoneOk => cookie = 0 \/ IsLive(cookie)
                /\ \A r \in msgs : r.answer = "ok" => IsLive(r.new)

IInv == TypeOK /\ Numbered /\ HasLast /\ CalmInv /\ Alive /\ SingleFlightProtects

-----------------------------------------------------------------------------
(* The last token handed out bounds the others. *)
LEMMA LastIsLast ==
  ASSUME Numbered, HasLast
  PROVE  LastToken \in Nat /\ \A p \in issued : p[2] <= LastToken
<1>1. CASE issued = {}
  BY <1>1 DEF LastToken
<1>2. CASE issued # {}
  <2> DEFINE tokens == {p[2] : p \in issued}
  <2>1. PICK last \in Nat : /\ \A p \in issued : p[2] <= last
                            /\ \E p \in issued : p[2] = last
    BY <1>2 DEF HasLast
  <2>2. last \in tokens /\ \A p \in issued : p[2] <= last
    BY <2>1
  <2>3. LastToken = CHOOSE n \in tokens : \A p \in issued : p[2] <= n
    BY <1>2 DEF LastToken
  <2>4. LastToken \in tokens /\ \A p \in issued : p[2] <= LastToken
    BY <2>2, <2>3
  <2>5. tokens \subseteq Nat
    BY DEF Numbered
  <2> QED BY <2>4, <2>5
<1> QED BY <1>1, <1>2

(* A fresh token n of family f joins the others. *)
LEMMA Joins ==
  ASSUME Numbered, HasLast, NEW f \in Nat \ {0}, f <= LastToken + 1,
         issued' = issued \cup {<<f, LastToken + 1>>},
         live' \subseteq live \cup {<<f, LastToken + 1>>}
  PROVE  Numbered' /\ HasLast'
<1> DEFINE n == LastToken + 1
           new == <<f, n>>
<1>1. n \in Nat \ {0} /\ \A p \in issued : p[2] < n /\ p[2] \in Nat
  BY LastIsLast DEF Numbered
<1>2. new[1] = f /\ new[2] = n /\ new \in (Nat \ {0}) \X (Nat \ {0})
  BY <1>1
<1> HIDE DEF n
<1>3. issued' = issued \cup {new} /\ live' \subseteq live \cup {new} /\ f <= n
  BY DEF n
<1> HIDE DEF new
<1>4. Numbered'
  <2>1. issued' \subseteq (Nat \ {0}) \X (Nat \ {0}) /\ live' \subseteq issued'
    BY <1>2, <1>3 DEF Numbered
  <2>2. ASSUME NEW p \in issued', NEW q \in issued', p[2] = q[2] PROVE p = q
    BY <2>2, <1>1, <1>2, <1>3 DEF Numbered
  <2>3. ASSUME NEW p \in issued' PROVE p[1] <= p[2]
    BY <1>2, <1>3 DEF Numbered
  <2> QED BY <2>1, <2>2, <2>3 DEF Numbered
<1>5. HasLast'
  <2>1. n \in Nat /\ (\A p \in issued' : p[2] <= n) /\ \E p \in issued' : p[2] = n
    BY <1>1, <1>2, <1>3
  <2> QED BY <2>1 DEF HasLast
<1> QED BY <1>4, <1>5

(* Sessions end, none is made. *)
LEMMA Ends ==
  ASSUME Numbered, HasLast, live' \subseteq live, UNCHANGED issued
  PROVE  Numbered' /\ HasLast'
BY DEF Numbered, HasLast

(* Tokens stay numbered upwards. *)
LEMMA NumberedStep ==
  ASSUME Numbered, HasLast, [Next]_vars
  PROVE  Numbered' /\ HasLast'
<1>1. CASE UNCHANGED familyVars
  BY <1>1, Ends DEF familyVars
<1>2. ASSUME NEW r \in msgs, ServeLogin(r)
      PROVE  Numbered' /\ HasLast'
  <2> DEFINE n == LastToken + 1
  <2>1. n \in Nat \ {0} /\ issued' = issued \cup {<<n, n>>} /\ live' = live \cup {<<n, n>>}
    BY <1>2, LastIsLast DEF ServeLogin
  <2> QED BY <2>1, Joins
<1>3. ASSUME NEW r \in msgs, ServeRefresh(r)
      PROVE  Numbered' /\ HasLast'
  <2> DEFINE n == LastToken + 1
  <2>1. PICK p \in live : /\ issued' = issued \cup {<<p[1], n>>}
                          /\ live' = (live \ {p}) \cup {<<p[1], n>>}
    BY <1>3 DEF ServeRefresh
  <2>2. p \in issued /\ p[1] \in Nat \ {0} /\ p[1] <= n
    BY LastIsLast DEF Numbered
  <2> QED BY <2>1, <2>2, Joins
<1>4. ASSUME NEW r \in msgs, DenyRefresh(r) \/ ServeLogout(r)
      PROVE  Numbered' /\ HasLast'
  BY <1>4, Ends DEF DenyRefresh, ServeLogout
<1>5. CASE Suspension
  BY <1>5, Ends DEF Suspension
<1>6. ASSUME NEW t \in Tabs,
             \/ Mount(t) \/ Reload(t) \/ RefreshAfter401(t) \/ SignOut(t) \/ SignIn(t)
             \/ AccessExpires(t) \/ RetrySucceeds(t) \/ RetryRefused(t)
      PROVE  UNCHANGED familyVars
  BY <1>6 DEF Mount, Reload, RefreshAfter401, SignOut, SignIn, AccessExpires, RetrySucceeds,
              RetryRefused
<1>7. ASSUME NEW r \in msgs,
             ReceiveRestore(r) \/ ReceiveRenewal(r) \/ ReceiveLogin(r) \/ ReceiveLogout(r) \/ Lose(r)
      PROVE  UNCHANGED familyVars
  BY <1>7 DEF ReceiveRestore, ReceiveRenewal, ReceiveLogin, ReceiveLogout, Lose
<1>8. CASE UNCHANGED vars
  BY <1>8, <1>1 DEF vars
<1> QED
  BY <1>1, <1>2, <1>3, <1>4, <1>5, <1>6, <1>7, <1>8 DEF Next

-----------------------------------------------------------------------------
(* Types. *)
Messages == [op : Refreshes \cup {"login", "logout"}, tab : Tabs, mount : 0 .. MaxMounts,
             token : Nat, answer : {"none", "ok", "denied"}, new : Nat]
Pages == [mount : 0 .. MaxMounts, auth : {"none", "valid", "expired"},
          refreshing : BOOLEAN, pending : {"none", "retry", "reload"}]

LEMMA Bounds == MaxMounts \in Nat
BY WebAssumption

LEMMA RequestType ==
  ASSUME cookie \in Nat, NEW op \in Refreshes \cup {"login", "logout"}, NEW t \in Tabs,
         NEW m \in 0 .. MaxMounts
  PROVE  Request(op, t, m) \in Messages
BY DEF Request, Messages

LEMMA AnswerType ==
  ASSUME NEW r \in msgs, msgs \subseteq Messages, NEW n \in Nat,
         NEW answer \in {"ok", "denied"}, Answer(r, answer, n)
  PROVE  msgs' \subseteq Messages
<1>1. r \in Messages
  OBVIOUS
<1>2. [r EXCEPT !.answer = answer, !.new = n] \in Messages
  BY <1>1 DEF Messages
<1> QED BY <1>2 DEF Answer

LEMMA SetPageType ==
  ASSUME NEW t \in Tabs, page \in [Tabs -> Pages], NEW auth \in {"none", "valid", "expired"},
         NEW refreshing \in BOOLEAN, NEW pending \in {"none", "retry", "reload"},
         SetPage(t, auth, refreshing, pending)
  PROVE  page' \in [Tabs -> Pages]
<1>1. page[t] \in Pages
  OBVIOUS
<1>2. [page[t] EXCEPT !.auth = auth, !.refreshing = refreshing, !.pending = pending] \in Pages
  BY <1>1 DEF Pages
<1>3. page' = [page EXCEPT ![t] =
                 [page[t] EXCEPT !.auth = auth, !.refreshing = refreshing, !.pending = pending]]
  BY <1>1 DEF SetPage, Pages
<1> QED BY <1>2, <1>3

LEMMA TypesStep ==
  ASSUME TypeOK, Numbered, HasLast, [Next]_vars
  PROVE  TypeOK'
<1> USE DEF Causes
<1>1. /\ cookie \in Nat /\ header \subseteq Tabs /\ cause \subseteq Causes /\ denied \in BOOLEAN
      /\ page \in [Tabs -> Pages] /\ msgs \subseteq Messages
  BY DEF TypeOK, Pages, Messages
<1>2. /\ cookie' \in Nat /\ header' \subseteq Tabs /\ cause' \subseteq Causes
      /\ denied' \in BOOLEAN /\ page' \in [Tabs -> Pages] /\ msgs' \subseteq Messages
      => TypeOK'
  BY DEF TypeOK, Pages, Messages
<1>3. LastToken + 1 \in Nat
  BY LastIsLast
<1>4. ASSUME NEW t \in Tabs
      PROVE  /\ page[t] \in Pages /\ page[t].mount \in 0 .. MaxMounts
             /\ page[t].auth \in {"none", "valid", "expired"} /\ page[t].refreshing \in BOOLEAN
             /\ page[t].pending \in {"none", "retry", "reload"}
  BY <1>1 DEF Pages
<1>5. ASSUME NEW r \in msgs
      PROVE  /\ r \in Messages /\ r.tab \in Tabs /\ r.new \in Nat
  BY <1>1 DEF Messages
<1>6. ASSUME NEW t \in Tabs, Mount(t) \/ Reload(t)
      PROVE  TypeOK'
  <2> DEFINE m == page[t].mount + 1
  <2>1. m \in 0 .. MaxMounts /\ Restoring(m) \in Pages
    <3>1. page[t].mount \in Nat /\ page[t].mount < MaxMounts
      <4>1. page[t].mount \in Nat
        BY <1>4, Bounds
      <4>2. CASE Mount(t)
        BY <4>1, <4>2 DEF Mount
      <4>3. CASE Reload(t)
        BY <4>1, <4>3, Bounds DEF Reload
      <4> QED BY <4>1, <1>6, <4>2, <4>3
    <3>2. m \in 0 .. MaxMounts
      BY <3>1, Bounds
    <3> QED BY <3>2 DEF Restoring, Pages
  <2>2. page' \in [Tabs -> Pages]
    BY <1>1, <1>6, <2>1 DEF Mount, Reload
  <2>3. Request("restore", t, m) \in Messages
    BY <1>1, <2>1, RequestType DEF Refreshes
  <2>4. \A r \in msgs : [r EXCEPT !.mount = 0] \in Messages
    BY <1>5, Bounds DEF Messages
  <2>5. msgs' \subseteq Messages
    BY <1>1, <1>6, <2>3, <2>4 DEF Mount, Reload, RefreshOnce, Send
  <2>6. cookie' \in Nat /\ header' \subseteq Tabs /\ cause' \subseteq Causes /\ denied' \in BOOLEAN
    BY <1>1, <1>6 DEF Mount, Reload, RefreshOnce, Send
  <2> QED BY <2>2, <2>5, <2>6, <1>2
<1>7. ASSUME NEW t \in Tabs, RefreshAfter401(t) \/ SignOut(t) \/ SignIn(t)
      PROVE  TypeOK'
  <2>1. /\ Request("renew", t, page[t].mount) \in Messages
        /\ Request("logout", t, page[t].mount) \in Messages
        /\ Request("login", t, page[t].mount) \in Messages
    BY <1>1, <1>4, RequestType DEF Refreshes
  <2>2. msgs' \subseteq Messages
    BY <1>1, <1>7, <2>1 DEF RefreshAfter401, SignOut, SignIn, RefreshOnce, Send
  <2>3. page' \in [Tabs -> Pages]
    <3>1. [page[t] EXCEPT !.refreshing = TRUE, !.pending = "none"] \in Pages
      BY <1>4 DEF Pages
    <3>2. CASE RefreshAfter401(t)
      BY <1>1, <3>1, <3>2 DEF RefreshAfter401
    <3>3. CASE SignOut(t) \/ SignIn(t)
      BY <1>1, <3>3 DEF SignOut, SignIn, clientVars
    <3> QED BY <1>7, <3>2, <3>3
  <2>4. cookie' \in Nat /\ header' \subseteq Tabs /\ cause' \subseteq Causes /\ denied' \in BOOLEAN
    BY <1>1, <1>7 DEF RefreshAfter401, SignOut, SignIn, clientVars, RefreshOnce, Send
  <2> QED BY <2>2, <2>3, <2>4, <1>2
<1>8. ASSUME NEW t \in Tabs, AccessExpires(t) \/ RetrySucceeds(t) \/ RetryRefused(t)
      PROVE  TypeOK'
  <2>1. page' \in [Tabs -> Pages]
    <3>1. CASE AccessExpires(t) \/ RetrySucceeds(t)
      <4>1. /\ [page[t] EXCEPT !.auth = "expired"] \in Pages
            /\ [page[t] EXCEPT !.pending = "none"] \in Pages
        BY <1>4 DEF Pages
      <4> QED BY <1>1, <3>1, <4>1 DEF AccessExpires, RetrySucceeds
    <3>2. CASE RetryRefused(t)
      BY <1>1, <1>4, <3>2, SetPageType DEF RetryRefused, SessionEnds
    <3> QED BY <1>8, <3>1, <3>2
  <2>2. /\ cookie' \in Nat /\ header' \subseteq Tabs /\ cause' \subseteq Causes /\ denied' \in BOOLEAN
        /\ msgs' \subseteq Messages
    BY <1>1, <1>8 DEF AccessExpires, RetrySucceeds, RetryRefused, SessionEnds
  <2> QED BY <2>1, <2>2, <1>2
<1>9. ASSUME NEW r \in msgs, ServeLogin(r) \/ ServeRefresh(r) \/ DenyRefresh(r) \/ ServeLogout(r)
      PROVE  TypeOK'
  <2>1. msgs' \subseteq Messages
    BY <1>1, <1>3, <1>9, AnswerType DEF ServeLogin, ServeRefresh, DenyRefresh, ServeLogout
  <2>2. /\ cookie' \in Nat /\ header' \subseteq Tabs /\ cause' \subseteq Causes /\ denied' \in BOOLEAN
        /\ page' \in [Tabs -> Pages]
    BY <1>1, <1>9 DEF ServeLogin, ServeRefresh, DenyRefresh, ServeLogout, clientVars
  <2> QED BY <2>1, <2>2, <1>2
<1>10. ASSUME NEW r \in msgs,
              ReceiveRestore(r) \/ ReceiveRenewal(r) \/ ReceiveLogin(r) \/ ReceiveLogout(r) \/ Lose(r)
       PROVE  TypeOK'
  <2> DEFINE t == r.tab
  <2>1. t \in Tabs
    BY <1>5
  <2>2. page' \in [Tabs -> Pages]
    <3> HIDE DEF t
    <3>1. \A next \in {"none", "retry", "reload"} : \A auth \in {"none", "valid", "expired"} :
            SetPage(t, auth, FALSE, next) => page' \in [Tabs -> Pages]
      BY <1>1, <2>1, SetPageType
    <3>2. /\ SetPage(t, "none", page[t].refreshing, page[t].pending) => page' \in [Tabs -> Pages]
          /\ SetPage(t, page[t].auth, FALSE, page[t].pending) => page' \in [Tabs -> Pages]
      BY <1>1, <1>4, <2>1, SetPageType
    <3>3. CASE ReceiveRestore(r)
      BY <1>1, <3>1, <3>3 DEF ReceiveRestore, t
    <3>4. CASE ReceiveRenewal(r)
      BY <1>1, <3>1, <3>4 DEF ReceiveRenewal, SessionEnds, EndsUnseen, t
    <3>5. CASE ReceiveLogin(r)
      BY <1>1, <3>5 DEF ReceiveLogin
    <3>6. CASE ReceiveLogout(r)
      BY <1>1, <3>2, <3>6 DEF ReceiveLogout, SignedOut, clientVars, t
    <3>7. CASE Lose(r)
      BY <1>1, <3>1, <3>2, <3>7 DEF Lose, SignedOut, SessionEnds, EndsUnseen, clientVars, t
    <3> QED BY <1>10, <3>3, <3>4, <3>5, <3>6, <3>7
  <2>3. cookie' \in Nat /\ msgs' \subseteq Messages
    <3>1. SetCookie(r) => cookie' \in Nat
      BY <1>1, <1>5 DEF SetCookie
    <3>2. \/ SetCookie(r) \/ cookie' = r.new \/ cookie' = 0 \/ cookie' = cookie
      BY <1>10 DEF ReceiveRestore, ReceiveRenewal, ReceiveLogin, ReceiveLogout, Lose
    <3>3. msgs' = msgs \ {r}
      BY <1>10 DEF ReceiveRestore, ReceiveRenewal, ReceiveLogin, ReceiveLogout, Lose
    <3> QED BY <1>1, <1>5, <3>1, <3>2, <3>3
  <2>4. cause' \subseteq Causes /\ denied' \in BOOLEAN
    BY <1>1, <1>10 DEF ReceiveRestore, ReceiveRenewal, ReceiveLogin, ReceiveLogout, Lose
  <2>5. header' \subseteq Tabs
    <3>1. CASE ReceiveRestore(r) \/ ReceiveRenewal(r) \/ ReceiveLogin(r)
      BY <1>1, <1>5, <3>1 DEF ReceiveRestore, ReceiveRenewal, ReceiveLogin, SessionEnds, EndsUnseen
    <3>2. CASE ReceiveLogout(r) \/ Lose(r)
      BY <1>1, <1>5, <3>2 DEF ReceiveLogout, Lose, SignedOut, SessionEnds, EndsUnseen, clientVars
    <3> QED BY <1>10, <3>1, <3>2
  <2> QED BY <2>2, <2>3, <2>4, <2>5, <1>2
<1>11. CASE Suspension \/ UNCHANGED vars
  BY <1>1, <1>2, <1>11 DEF Suspension, clientVars, vars
<1> QED
  BY <1>6, <1>7, <1>8, <1>9, <1>10, <1>11 DEF Next

-----------------------------------------------------------------------------
(* One request at a time. *)
OneByOne ==
  OneRequest /\ Awaited /\ Presented /\ LogoutGivesNone /\ LoginFirst /\ Reached /\ PagesKept

(* A new request is alone, or there is a cause. *)
LEMMA SentAlone ==
  ASSUME NEW op, NEW t, NEW m, Send(op, t, m), Calm', Awaited, OneRequest,
         \/ op \notin Refreshes
         \/ m # page[t].mount
         \/ ~page[t].refreshing
  PROVE  msgs = {} /\ msgs' = {Request(op, t, m)}
<1>1. ~Overlaps(op, t, m)
  BY DEF Send, Calm
<1>2. ASSUME NEW r \in msgs PROVE FALSE
  <2>1. op \in Refreshes /\ r.op \in Refreshes /\ r.tab = t /\ r.mount = m
    BY <1>1, <1>2 DEF Overlaps
  <2> QED BY <2>1 DEF Awaited
<1> QED BY <1>2 DEF Send

(* What is to be shown when a request has been sent that is alone. *)
LEMMA AloneKeeps ==
  ASSUME NEW op, NEW t, NEW m, OneByOne, PagesKept', msgs = {}, msgs' = {Request(op, t, m)},
         UNCHANGED <<live, cookie>>,
         op \in Refreshes => m # 0 /\ m = page'[t].mount /\ page'[t].refreshing,
         op = "login" => cookie = 0
  PROVE  OneByOne'
<1>1. \A r \in msgs' : /\ r.op = op /\ r.tab = t /\ r.mount = m /\ r.token = cookie
                       /\ r.answer = "none"
  BY DEF Request
<1>2. OneRequest' /\ Awaited' /\ Presented' /\ LogoutGivesNone' /\ LoginFirst'
  BY <1>1 DEF OneRequest, Awaited, Presented, LogoutGivesNone, LoginFirst
<1>3. Reached'
  BY <1>1 DEF OneByOne, Reached, NoneOk
<1> QED BY <1>2, <1>3 DEF OneByOne

(* ... and when the request under way has been answered. *)
LEMMA AnsweredKeeps ==
  ASSUME msgs \subseteq Messages, OneByOne, NEW r \in msgs, r.answer = "none",
         NEW answer \in {"ok", "denied"}, NEW n \in Nat, Answer(r, answer, n),
         UNCHANGED <<cookie, clientVars>>,
         \A p \in live' : p[2] = IF answer = "ok" THEN n ELSE cookie,
         r.op = "logout" /\ answer = "ok" => n = 0
  PROVE  OneByOne' /\ msgs' = {[r EXCEPT !.answer = answer, !.new = n]}
<1>1. msgs = {r}
  BY DEF OneByOne, OneRequest
<1>2. msgs' = {[r EXCEPT !.answer = answer, !.new = n]}
  BY <1>1 DEF Answer
<1>3. \A q \in msgs' : /\ q.op = r.op /\ q.tab = r.tab /\ q.mount = r.mount /\ q.answer = answer
                       /\ q.new = n
  BY <1>2 DEF Messages
<1>4. OneRequest'
  BY <1>2 DEF OneRequest
<1>5. Awaited'
  BY <1>3 DEF OneByOne, Awaited, clientVars
<1>6. Presented' /\ LogoutGivesNone' /\ LoginFirst'
  BY <1>3 DEF Presented, LogoutGivesNone, LoginFirst
<1>7. Reached'
  <2>1. CASE answer = "ok"
    <3>1. ~NoneOk'
      BY <1>2, <1>3, <2>1 DEF NoneOk
    <3> QED BY <1>3, <2>1, <3>1 DEF Reached
  <2>2. CASE answer = "denied"
    BY <1>3, <2>2 DEF Reached
  <2> QED BY <2>1, <2>2
<1>8. PagesKept'
  BY DEF OneByOne, PagesKept, clientVars
<1> QED BY <1>2, <1>4, <1>5, <1>6, <1>7, <1>8 DEF OneByOne

(* ... and when the answer has arrived. *)
LEMMA ReceivedKeeps ==
  ASSUME OneByOne, NEW r \in msgs, msgs' = msgs \ {r}, PagesKept', UNCHANGED live,
         r.answer # "none", cookie' = IF r.answer = "ok" THEN r.new ELSE cookie
  PROVE  OneByOne' /\ msgs' = {}
<1>1. msgs' = {}
  BY DEF OneByOne, OneRequest
<1>2. OneRequest' /\ Awaited' /\ Presented' /\ LogoutGivesNone' /\ LoginFirst'
  BY <1>1 DEF OneRequest, Awaited, Presented, LogoutGivesNone, LoginFirst
<1>3. Reached'
  <2>1. r.answer # "ok" => NoneOk
    BY DEF OneByOne, OneRequest, NoneOk
  <2> QED BY <1>1, <2>1 DEF OneByOne, Reached
<1> QED BY <1>1, <1>2, <1>3 DEF OneByOne

LEMMA CalmStep ==
  ASSUME TypeOK, Numbered, HasLast, CalmInv, [Next]_vars
  PROVE  CalmInv'
<1> SUFFICES ASSUME Calm' PROVE OneByOne'
  BY DEF CalmInv, OneByOne
<1>1. page \in [Tabs -> Pages] /\ msgs \subseteq Messages /\ cookie \in Nat
  BY DEF TypeOK, Pages, Messages
<1>2. cause \subseteq cause'
  BY DEF Next, vars, Mount, Reload, RefreshAfter401, SignOut, SignIn, RefreshOnce, Send,
     AccessExpires, RetrySucceeds, RetryRefused, ServeLogin, ServeRefresh, DenyRefresh, ServeLogout,
     ReceiveRestore, ReceiveRenewal, ReceiveLogin, ReceiveLogout, Lose, Suspension
<1>3. OneByOne
  BY <1>2 DEF Calm, CalmInv, OneByOne
<1>4. OneRequest /\ Awaited /\ Presented /\ LogoutGivesNone /\ LoginFirst /\ Reached /\ PagesKept
  BY <1>3 DEF OneByOne
<1>5. \A p \in live : p[2] \in Nat \ {0}
  BY DEF Numbered
<1>6. ASSUME NEW t \in Tabs, Mount(t)
      PROVE  OneByOne'
  <2> DEFINE m == page[t].mount + 1
  <2>1. page[t].mount \in Nat /\ m # page[t].mount /\ m # 0
    BY <1>1, Bounds DEF Pages
  <2>2. Send("restore", t, m) /\ UNCHANGED <<live, cookie, header>> /\ page' = [page EXCEPT ![t] = Restoring(m)]
    BY <1>6 DEF Mount, RefreshOnce, familyVars
  <2>3. page'[t] = Restoring(m) /\ \A u \in Tabs \ {t} : page'[u] = page[u]
    BY <1>1, <2>2
  <2>4. PagesKept'
    BY <1>4, <2>1, <2>2, <2>3 DEF PagesKept, Restoring
  <2>5. page'[t].mount = m /\ page'[t].refreshing
    BY <2>3 DEF Restoring
  <2>6. msgs = {} /\ msgs' = {Request("restore", t, m)}
    BY <1>4, <2>1, <2>2, SentAlone
  <2> HIDE DEF m
  <2> QED BY <1>3, <2>1, <2>2, <2>4, <2>5, <2>6, AloneKeeps
<1>7. ASSUME NEW t \in Tabs, Reload(t)
      PROVE  OneByOne'
  <2> DEFINE m == page[t].mount + 1
  <2>1. page[t].mount \in Nat /\ m # 0
    BY <1>1, Bounds DEF Pages
  <2>2. msgs = {}
    BY <1>7 DEF Reload, Calm
  <2>3. msgs' = {Request("restore", t, m)}
    BY <1>7, <2>2 DEF Reload
  <2>4. UNCHANGED <<live, cookie>> /\ header' = header \ {t} /\ page' = [page EXCEPT ![t] = Restoring(m)]
    BY <1>7 DEF Reload, familyVars
  <2>5. page'[t] = Restoring(m) /\ \A u \in Tabs \ {t} : page'[u] = page[u]
    BY <1>1, <2>4
  <2>6. PagesKept'
    BY <1>4, <2>1, <2>4, <2>5 DEF PagesKept, Restoring
  <2>7. page'[t].mount = m /\ page'[t].refreshing
    BY <2>5 DEF Restoring
  <2> HIDE DEF m
  <2> QED BY <1>3, <2>1, <2>2, <2>3, <2>4, <2>6, <2>7, AloneKeeps
<1>8. ASSUME NEW t \in Tabs, RefreshAfter401(t)
      PROVE  OneByOne'
  <2>1. UNCHANGED <<live, cookie, header>>
    BY <1>8 DEF RefreshAfter401, familyVars
  <2>2. /\ page'[t] = [page[t] EXCEPT !.refreshing = TRUE, !.pending = "none"]
        /\ \A u \in Tabs \ {t} : page'[u] = page[u]
    BY <1>1, <1>8 DEF RefreshAfter401, Pages
  <2>3. /\ page'[t].mount = page[t].mount /\ page'[t].auth = page[t].auth /\ page'[t].refreshing
        /\ page'[t].pending = "none"
    BY <1>1, <2>2 DEF Pages
  <2>4. PagesKept'
    <3>1. \A u \in Tabs \ {t} : page'[u] = page[u]
      BY <2>2
    <3> QED BY <1>4, <2>1, <2>3, <3>1 DEF PagesKept
  <2>5. CASE page[t].refreshing
    <3>1. UNCHANGED msgs
      BY <1>8, <2>5 DEF RefreshAfter401, RefreshOnce
    <3>2. Awaited'
      BY ZenonT(60), <1>1, <1>4, <2>2, <2>3, <3>1 DEF Awaited, Messages
    <3> QED
      BY <1>4, <2>1, <2>4, <3>1, <3>2
      DEF OneByOne, OneRequest, Presented, LogoutGivesNone, LoginFirst, Reached, NoneOk
  <2>6. CASE ~page[t].refreshing
    <3>1. Send("renew", t, page[t].mount)
      BY <1>8, <2>6 DEF RefreshAfter401, RefreshOnce
    <3>2. msgs = {} /\ msgs' = {Request("renew", t, page[t].mount)}
      BY <1>4, <2>6, <3>1, SentAlone
    <3>3. page[t].mount # 0
      BY <1>4, <1>8 DEF PagesKept, RefreshAfter401
    <3> QED BY <1>3, <2>1, <2>3, <2>4, <3>2, <3>3, AloneKeeps
  <2> QED BY <2>5, <2>6
<1>9. ASSUME NEW t \in Tabs, SignOut(t) \/ SignIn(t)
      PROVE  OneByOne'
  <2>1. PagesKept' /\ UNCHANGED <<live, cookie>>
    BY <1>4, <1>9 DEF SignOut, SignIn, PagesKept, clientVars, familyVars
  <2>2. PICK op \in {"login", "logout"} :
             Send(op, t, page[t].mount) /\ (op = "login" => cookie = 0)
    BY <1>9 DEF SignOut, SignIn, Send, Calm
  <2>3. op \notin Refreshes
    BY DEF Refreshes
  <2>4. msgs = {} /\ msgs' = {Request(op, t, page[t].mount)}
    BY <1>4, <2>2, <2>3, SentAlone
  <2> QED BY <1>3, <2>1, <2>2, <2>3, <2>4, AloneKeeps
<1>10. ASSUME NEW t \in Tabs, AccessExpires(t) \/ RetrySucceeds(t)
       PROVE  OneByOne'
  <2>1. /\ \A u \in Tabs : /\ page'[u].mount = page[u].mount
                           /\ page'[u].refreshing = page[u].refreshing
                           /\ page'[u].auth = "none" <=> page[u].auth = "none"
                           /\ page'[u].pending \in {page[u].pending, "none"}
        /\ UNCHANGED <<live, cookie, header, msgs>>
    BY <1>1, <1>10 DEF AccessExpires, RetrySucceeds, Pages, familyVars
  <2>2. PagesKept' /\ Awaited'
    BY <1>1, <1>4, <2>1 DEF PagesKept, Awaited, Messages
  <2> QED
    BY <1>4, <2>1, <2>2
    DEF OneByOne, OneRequest, Presented, LogoutGivesNone, LoginFirst, Reached, NoneOk
<1>11. ASSUME NEW t \in Tabs, RetryRefused(t)
       PROVE  FALSE
  BY <1>11 DEF RetryRefused, Calm
<1>12. ASSUME NEW r \in msgs, ServeLogin(r)
       PROVE  OneByOne'
  <2>1. r.op = "login" /\ r.answer = "none" /\ UNCHANGED <<cookie, clientVars>>
    BY <1>12 DEF ServeLogin, Serving
  <2>2. NoneOk /\ cookie = 0
    BY <1>4, <2>1 DEF OneRequest, NoneOk, LoginFirst
  <2>3. live = {}
    BY <1>4, <1>5, <2>2 DEF Reached
  <2> DEFINE n == LastToken + 1
  <2>4. Answer(r, "ok", n) /\ live' = {<<n, n>>} /\ n \in Nat
    BY <1>12, <2>3, LastIsLast DEF ServeLogin
  <2> HIDE DEF n
  <2>5. \A p \in live' : p[2] = n
    BY <2>4
  <2> QED BY <1>1, <1>3, <2>1, <2>4, <2>5, AnsweredKeeps
<1>13. ASSUME NEW r \in msgs, ServeRefresh(r)
       PROVE  OneByOne'
  <2> DEFINE n == LastToken + 1
  <2>1. /\ r.op \in Refreshes /\ r.answer = "none" /\ UNCHANGED <<cookie, clientVars>>
        /\ Answer(r, "ok", n) /\ n \in Nat
    BY <1>13, LastIsLast DEF ServeRefresh, Serving
  <2>2. PICK p \in live : live' = (live \ {p}) \cup {<<p[1], n>>}
    BY <1>13 DEF ServeRefresh
  <2> HIDE DEF n
  <2>3. NoneOk
    BY <1>4, <2>1 DEF OneRequest, NoneOk
  <2>4. \A q \in live : q = p
    BY <1>4, <2>3 DEF Reached, Numbered
  <2>5. \A q \in live' : q[2] = n
    BY <2>2, <2>4
  <2> QED BY <1>1, <1>3, <2>1, <2>5, AnsweredKeeps DEF Refreshes
<1>14. ASSUME NEW r \in msgs, DenyRefresh(r)
       PROVE  OneByOne'
  <2>1. /\ r.op \in Refreshes /\ r.answer = "none" /\ UNCHANGED <<cookie, clientVars>>
        /\ Answer(r, "denied", 0) /\ live' \subseteq live
    BY <1>14 DEF DenyRefresh, Serving
  <2>2. NoneOk
    BY <1>4, <2>1 DEF OneRequest, NoneOk
  <2>3. \A q \in live' : q[2] = cookie
    BY <1>4, <2>1, <2>2 DEF Reached
  <2> QED BY <1>1, <1>3, <2>1, <2>3, AnsweredKeeps
<1>15. ASSUME NEW r \in msgs, ServeLogout(r)
       PROVE  OneByOne'
  <2>1. /\ r.op = "logout" /\ r.answer = "none" /\ UNCHANGED <<cookie, clientVars>>
        /\ Answer(r, "ok", 0) /\ live' = {p \in live : p[2] # r.token}
    BY <1>15 DEF ServeLogout, Serving
  <2>2. NoneOk /\ r.token = cookie
    BY <1>4, <2>1 DEF OneRequest, NoneOk, Presented
  <2>3. live' = {}
    BY <1>4, <2>1, <2>2 DEF Reached
  <2> QED BY <1>1, <1>3, <2>1, <2>3, AnsweredKeeps
<1>16. ASSUME NEW r \in msgs, ReceiveRestore(r) \/ ReceiveRenewal(r)
       PROVE  OneByOne'
  <2>1. /\ r.tab \in Tabs /\ r.op \in Refreshes /\ r.answer # "none" /\ msgs' = msgs \ {r}
        /\ SetCookie(r) /\ UNCHANGED live
    BY <1>1, <1>16 DEF ReceiveRestore, ReceiveRenewal, Answered, Messages, familyVars, Refreshes
  <2>2. Mounted(r)
    BY <1>4, <2>1 DEF Awaited, Mounted
  <2>3. /\ header \ {r.tab} \subseteq header'
        /\ \A u \in Tabs : page'[u].mount = page[u].mount
        /\ \A u \in Tabs \ {r.tab} : page'[u] = page[u]
        /\ page'[r.tab].auth # "none" => r.tab \in header'
    <3>1. /\ \A u \in Tabs : page'[u].mount = page[u].mount
          /\ \A u \in Tabs \ {r.tab} : page'[u] = page[u]
      BY <1>1, <1>16, <2>1, <2>2 DEF ReceiveRestore, ReceiveRenewal, SetPage, SessionEnds, Pages
    <3>2. CASE ReceiveRestore(r)
      BY <1>1, <2>1, <2>2, <3>1, <3>2 DEF ReceiveRestore, SetPage, Mounted, Pages
    <3>3. CASE ReceiveRenewal(r)
      <4>1. CASE r.answer = "ok"
        <5>1. page[r.tab].auth # "none" /\ UNCHANGED header
          BY <2>2, <3>3, <4>1 DEF ReceiveRenewal, Calm
        <5> QED BY <1>4, <2>1, <3>1, <5>1 DEF PagesKept
      <4>2. CASE r.answer # "ok"
        <5>1. SessionEnds(r.tab, FALSE)
          BY <2>2, <3>3, <4>2 DEF ReceiveRenewal
        <5> QED BY <1>1, <2>1, <3>1, <5>1 DEF SessionEnds, SetPage, Pages
      <4> QED BY <4>1, <4>2
    <3> QED BY <1>16, <3>1, <3>2, <3>3
  <2>4. PagesKept'
    BY <1>4, <2>2, <2>3 DEF PagesKept, Mounted
  <2> QED BY <1>3, <2>1, <2>4, ReceivedKeeps DEF SetCookie
<1>17. ASSUME NEW r \in msgs, ReceiveLogin(r)
       PROVE  OneByOne'
  <2>1. /\ r.answer = "ok" /\ msgs' = msgs \ {r} /\ cookie' = r.new /\ UNCHANGED <<live, page>>
        /\ header \subseteq header'
    BY <1>17 DEF ReceiveLogin, familyVars
  <2>2. PagesKept'
    BY <1>4, <2>1 DEF PagesKept
  <2> QED BY <1>3, <2>1, <2>2, ReceivedKeeps
<1>18. ASSUME NEW r \in msgs, ReceiveLogout(r)
       PROVE  OneByOne'
  <2>1. /\ r.tab \in Tabs /\ r.answer = "ok" /\ r.op = "logout" /\ msgs' = msgs \ {r}
        /\ cookie' = 0 /\ UNCHANGED live /\ SignedOut(r)
    BY <1>1, <1>18 DEF ReceiveLogout, familyVars, Messages
  <2>2. r.new = 0
    BY <1>4, <2>1 DEF LogoutGivesNone
  <2>3. PagesKept'
    <3>1. CASE r.mount = 0
      BY <1>4, <2>1, <3>1 DEF SignedOut, clientVars, PagesKept
    <3>2. CASE r.mount # 0
      <4>1. header' = header \ {r.tab} /\ \A u \in Tabs \ {r.tab} : page'[u] = page[u]
        BY <1>1, <2>1, <3>2 DEF SignedOut, SetPage, Pages
      <4>2. /\ page'[r.tab].auth = "none" /\ page'[r.tab].mount = page[r.tab].mount
            /\ page'[r.tab].pending = page[r.tab].pending
        BY <1>1, <2>1, <3>2 DEF SignedOut, SetPage, Pages
      <4> QED BY <1>4, <4>1, <4>2 DEF PagesKept
    <3> QED BY <3>1, <3>2
  <2> QED BY <1>3, <2>1, <2>2, <2>3, ReceivedKeeps
<1>19. ASSUME NEW r \in msgs, Lose(r)
       PROVE  FALSE
  BY <1>19 DEF Lose, Calm
<1>20. CASE Suspension
  <2>1. live' = {} /\ UNCHANGED <<cookie, clientVars, msgs>>
    BY <1>20 DEF Suspension
  <2> QED
    BY <1>4, <2>1 DEF OneByOne, OneRequest, Awaited, Presented, LogoutGivesNone, LoginFirst,
                      Reached, PagesKept, clientVars
<1>21. CASE UNCHANGED vars
  BY <1>4, <1>21 DEF OneByOne, OneRequest, Awaited, Presented, LogoutGivesNone, LoginFirst,
                     Reached, NoneOk, PagesKept, vars, clientVars, familyVars
<1> QED
  BY <1>6, <1>7, <1>8, <1>9, <1>10, <1>11, <1>12, <1>13, <1>14, <1>15, <1>16, <1>17, <1>18,
     <1>19, <1>20, <1>21 DEF Next

(* Until a session ends, a refresh is never refused. *)
LEMMA AliveStep ==
  ASSUME TypeOK, Numbered, HasLast, CalmInv, Alive, SingleFlightProtects, [Next]_vars
  PROVE  Alive' /\ SingleFlightProtects'
<1> SUFFICES ASSUME cause' = {} PROVE Alive' /\ ~denied'
  BY DEF Alive, SingleFlightProtects
<1>1. page \in [Tabs -> Pages] /\ msgs \subseteq Messages /\ cookie \in Nat
  BY DEF TypeOK, Pages, Messages
<1>2. cause = {}
  BY DEF Next, vars, Mount, Reload, RefreshAfter401, SignOut, SignIn, RefreshOnce, Send,
     AccessExpires, RetrySucceeds, RetryRefused, ServeLogin, ServeRefresh, DenyRefresh, ServeLogout,
     ReceiveRestore, ReceiveRenewal, ReceiveLogin, ReceiveLogout, Lose, Suspension
<1>3. /\ OneRequest /\ Awaited /\ Presented /\ LogoutGivesNone /\ ~denied
      /\ NoneOk => cookie = 0 \/ IsLive(cookie)
      /\ \A r \in msgs : r.answer = "ok" => IsLive(r.new)
  BY <1>2 DEF Calm, CalmInv, Alive, SingleFlightProtects
<1>4. ASSUME UNCHANGED <<live, cookie, denied>>,
             \A r \in msgs' : r.answer # "none" => r \in msgs,
             NoneOk' => NoneOk
      PROVE  Alive' /\ ~denied'
  BY <1>3, <1>4 DEF Alive, IsLive
<1>5. ASSUME NEW op, NEW t, NEW m
      PROVE  Request(op, t, m).answer = "none"
  BY DEF Request
<1>6. ASSUME NEW t \in Tabs, Reload(t)
      PROVE  Alive' /\ ~denied'
  <2>1. msgs = {} /\ msgs' = {Request("restore", t, page[t].mount + 1)}
    BY <1>6 DEF Reload
  <2> QED BY <1>4, <1>5, <1>6, <2>1 DEF Reload, NoneOk, familyVars
<1>7. ASSUME NEW t \in Tabs, Mount(t) \/ RefreshAfter401(t) \/ SignOut(t) \/ SignIn(t)
      PROVE  Alive' /\ ~denied'
  <2>1. UNCHANGED <<live, cookie, denied>> /\ msgs \subseteq msgs'
    BY <1>7 DEF Mount, RefreshAfter401, SignOut, SignIn, RefreshOnce, Send, familyVars
  <2>2. \A r \in msgs' \ msgs : r.answer = "none"
    BY <1>5, <1>7 DEF Mount, RefreshAfter401, SignOut, SignIn, RefreshOnce, Send
  <2> QED BY <1>4, <2>1, <2>2 DEF NoneOk
<1>8. ASSUME NEW t \in Tabs, AccessExpires(t) \/ RetrySucceeds(t)
      PROVE  Alive' /\ ~denied'
  BY <1>4, <1>8 DEF AccessExpires, RetrySucceeds, NoneOk, familyVars
<1>9. ASSUME NEW r \in msgs, r.answer = "none", NEW answer, NEW n, Answer(r, answer, n)
      PROVE  /\ NoneOk /\ r.token = cookie
             /\ \A q \in msgs' : q.answer = answer /\ q.new = n
             /\ msgs' # {}
  <2>1. msgs' = {[r EXCEPT !.answer = answer, !.new = n]} /\ r \in Messages
    BY <1>1, <1>3, <1>9 DEF OneRequest, Answer
  <2>2. \A q \in msgs' : q.answer = answer /\ q.new = n
    BY <2>1 DEF Messages
  <2> QED BY <1>3, <1>9, <2>1, <2>2 DEF OneRequest, NoneOk, Presented
<1>10. ASSUME NEW r \in msgs, ServeLogin(r) \/ ServeRefresh(r)
       PROVE  Alive' /\ ~denied'
  <2> DEFINE n == LastToken + 1
  <2>1. Answer(r, "ok", n) /\ r.answer = "none" /\ UNCHANGED denied
    BY <1>10 DEF ServeLogin, ServeRefresh, Serving
  <2>2. \E f : <<f, n>> \in live'
    BY <1>10 DEF ServeLogin, ServeRefresh
  <2> HIDE DEF n
  <2>3. \E p \in live' : p[2] = n
    BY <2>2
  <2>4. \A q \in msgs' : q.answer = "ok" /\ q.new = n
    BY <1>9, <2>1
  <2>5. ~NoneOk'
    BY <1>9, <2>1, <2>4 DEF NoneOk
  <2> QED BY <1>3, <2>1, <2>3, <2>4, <2>5 DEF Alive, IsLive
<1>11. ASSUME NEW r \in msgs, DenyRefresh(r)
       PROVE  Alive' /\ ~denied'
  <2>1. /\ Answer(r, "denied", 0) /\ r.answer = "none" /\ ~IsLive(r.token) /\ UNCHANGED cookie
        /\ live' = {p \in live : p[1] \notin FamilyOf(r.token)} /\ denied' = (denied \/ r.token # 0)
    BY <1>11 DEF DenyRefresh, Serving
  <2>2. r.token = cookie /\ cookie = 0
    BY <1>3, <1>9, <2>1
  <2> QED BY ZenonT(60), <1>3, <1>9, <2>1, <2>2 DEF Alive
<1>12. ASSUME NEW r \in msgs,
              ReceiveRestore(r) \/ ReceiveRenewal(r) \/ ReceiveLogin(r) \/ ReceiveLogout(r)
       PROVE  Alive' /\ ~denied'
  <2>1. msgs' = {} /\ UNCHANGED <<live, denied>>
    BY <1>3, <1>12 DEF ReceiveRestore, ReceiveRenewal, ReceiveLogin, ReceiveLogout, OneRequest,
                       familyVars
  <2>2. \/ r.answer = "ok" /\ cookie' = r.new
        \/ r.answer # "ok" /\ cookie' = cookie
        \/ r.answer = "ok" /\ r.op = "logout" /\ cookie' = 0
    BY <1>12 DEF ReceiveRestore, ReceiveRenewal, ReceiveLogin, ReceiveLogout, SetCookie
  <2>3. r.answer # "ok" => NoneOk
    BY <1>3 DEF OneRequest, NoneOk
  <2> QED BY <1>3, <2>1, <2>2, <2>3 DEF Alive, IsLive
<1>13. ASSUME NEW r \in msgs, ServeLogout(r) \/ Lose(r)
       PROVE  FALSE
  BY <1>13 DEF ServeLogout, Lose
<1>14. ASSUME Suspension \/ \E t \in Tabs : RetryRefused(t)
       PROVE  FALSE
  BY <1>14 DEF Suspension, RetryRefused
<1>15. CASE UNCHANGED vars
  BY <1>4, <1>15 DEF vars, familyVars, NoneOk
<1> QED
  BY <1>6, <1>7, <1>8, <1>10, <1>11, <1>12, <1>13, <1>14, <1>15 DEF Next

-----------------------------------------------------------------------------
LEMMA IInvInit == Init => IInv
<1> SUFFICES ASSUME Init PROVE IInv
  OBVIOUS
<1>1. /\ issued = {} /\ live = {} /\ cookie = 0 /\ page = [t \in Tabs |-> NoPage] /\ header = {}
      /\ msgs = {} /\ denied = FALSE /\ cause = {}
  BY DEF Init, FamilyInit
<1>2. NoPage \in Pages /\ NoPage.auth = "none" /\ NoPage.pending = "none"
  BY Bounds DEF NoPage, Pages
<1>3. TypeOK
  BY <1>1, <1>2 DEF TypeOK, Pages
<1>4. Numbered /\ HasLast
  <2>1. 0 \in Nat
    OBVIOUS
  <2> QED BY <1>1, <2>1 DEF Numbered, HasLast
<1>5. CalmInv /\ Alive /\ SingleFlightProtects
  BY <1>1, <1>2 DEF CalmInv, OneRequest, Awaited, Presented, LogoutGivesNone, LoginFirst, Reached,
                    PagesKept, Alive, SingleFlightProtects
<1> QED BY <1>3, <1>4, <1>5 DEF IInv

LEMMA IInvStep == IInv /\ [Next]_vars => IInv'
BY NumberedStep, TypesStep, CalmStep, AliveStep DEF IInv

LEMMA Inductive == Spec => []IInv
BY IInvInit, IInvStep, PTL DEF Spec

(* The state of the browser has its type. *)
THEOREM WebTypes == Spec => []TypeOK
<1>1. IInv => TypeOK
  BY DEF IInv
<1> QED BY Inductive, <1>1, PTL

(* refreshSessionOnce: one mounted page never trips the reuse detection.   *)
THEOREM SingleFlight == Spec => []SingleFlightProtects
<1>1. IInv => SingleFlightProtects
  BY DEF IInv
<1> QED BY Inductive, <1>1, PTL

(* Sign-out (AuthController.logout, signOut) leaves no session behind.     *)
THEOREM NoOrphans == Spec => []NoOrphanSession
<1>1. IInv => NoOrphanSession
  BY DEF IInv, NoOrphanSession, Undisturbed, Calm, CalmInv, Reached, NoneOk
<1> QED BY Inductive, <1>1, PTL

(* onSessionRestored and onSessionEnded keep the header and pages together.*)
THEOREM HeaderTold == Spec => []HeaderAgrees
<1>1. IInv => HeaderAgrees
  BY DEF IInv, HeaderAgrees, Undisturbed, Calm, CalmInv, PagesKept
<1> QED BY Inductive, <1>1, PTL
=============================================================================
