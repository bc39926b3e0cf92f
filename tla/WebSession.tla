----------------------------- MODULE WebSession -----------------------------
(***************************************************************************)
(* The session of one browser: its refresh cookie, the tabs of apps/web    *)
(* that share it, and AuthController behind an unreliable network.  Every  *)
(* page restores the session when it mounts, the Owner console refreshes   *)
(* again when a request is answered 401, and each mounted page shares one  *)
(* refresh in flight (refreshInFlight).  The server's handlers are atomic  *)
(* here and move SessionFamily's tokens: AuthSessions implements it.       *)
(* refresh, login and logout are the only requests that touch the cookie;  *)
(* a refresh is called by what started it, "restore" or "renew".           *)
(***************************************************************************)
EXTENDS SessionFamily, Naturals, FiniteSets

CONSTANTS
  Tabs,       \* tabs of the browser
  MaxMounts,  \* bound: pages mounted in one tab
  MaxTokens,  \* bound: tokens handed out
  MaxTroubled,\* bound: the same, once a cause excuses the properties
  MaxRequests \* bound: requests under way at the same time

ASSUME WebAssumption == {MaxMounts, MaxTokens, MaxTroubled, MaxRequests} \subseteq Nat

VARIABLES
  cookie,   \* the token in salon_spot_refresh, 0 when there is none
  page,     \* of each tab: [mount, auth, refreshing, pending]
  header,   \* tabs whose App holds a session ("Hi, ...")
  msgs,     \* requests under way: [op, tab, mount, token, answer, new]
  denied,   \* a refresh that presented a token was answered 401
  cause     \* what has happened that may end a session, see below

clientVars == <<page, header>>
vars == <<familyVars, cookie, clientVars, msgs, denied, cause>>

Causes == {"ended", "overlap", "lost", "relogin", "refused", "revived"}
Refreshes == {"restore", "renew"}
NoPage == [mount |-> 0, auth |-> "none", refreshing |-> FALSE, pending |-> "none"]

Init ==
  /\ FamilyInit
  /\ cookie = 0
  /\ page = [t \in Tabs |-> NoPage]
  /\ header = {}
  /\ msgs = {} /\ denied = FALSE /\ cause = {}

LastToken == IF issued = {} THEN 0 ELSE CHOOSE n \in {p[2] : p \in issued} :
                                          \A p \in issued : p[2] <= n
MayIssue == LastToken < IF cause \subseteq {"ended"} THEN MaxTokens ELSE MaxTroubled
IsLive(n) == \E p \in live : p[2] = n
FamilyOf(n) == {p[1] : p \in {q \in issued : q[2] = n}}

-----------------------------------------------------------------------------
(* The browser sends.  requestJson attaches the cookie as it is now.       *)

Request(op, t, m) ==
  [op |-> op, tab |-> t, mount |-> m, token |-> cookie, answer |-> "none", new |-> 0]

(* Anything is still under way but a refresh of the same page. *)
Overlaps(op, t, m) ==
  \E r \in msgs : ~({op, r.op} \subseteq Refreshes) \/ r.tab # t \/ r.mount # m

Send(op, t, m) ==
  /\ msgs' = msgs \cup {Request(op, t, m)}
  /\ cause' = cause \cup (IF Overlaps(op, t, m) THEN {"overlap"} ELSE {})

(* Mutant: refreshInFlight is not consulted. *)
RefreshAlways(op, t, m, inFlight) == Send(op, t, m)

(* refreshSessionOnce: one refresh in flight for each mounted page. *)
RefreshOnce(op, t, m, inFlight) ==
  IF inFlight THEN UNCHANGED <<msgs, cause>> ELSE Send(op, t, m)

Restoring(m) == [mount |-> m, auth |-> "none", refreshing |-> TRUE, pending |-> "none"]

(* Navigation inside a tab mounts another page, which restores the         *)
(* session; the old page's refresh goes on, its other requests are left out.*)
Mount(t) ==
  /\ page[t].mount < MaxMounts
  /\ page' = [page EXCEPT ![t] = Restoring(@.mount + 1)]
  /\ RefreshOnce("restore", t, page[t].mount + 1, FALSE)
  /\ UNCHANGED <<familyVars, cookie, header, denied>>

(* A reload drops the App and forgets its requests: their answers can only *)
(* reach the cookie (mount 0), or nothing.                                 *)
Reload(t) ==
  /\ page[t].mount \in 1 .. MaxMounts - 1
  /\ page' = [page EXCEPT ![t] = Restoring(@.mount + 1)]
  /\ header' = header \ {t}
  /\ msgs' = {IF r.tab = t THEN [r EXCEPT !.mount = 0] ELSE r : r \in msgs}
               \cup {Request("restore", t, page[t].mount + 1)}
  /\ cause' = cause \cup (IF msgs # {} THEN {"overlap"} ELSE {})
  /\ UNCHANGED <<familyVars, cookie, denied>>

AccessExpires(t) ==
  /\ page[t].auth = "valid"
  /\ page' = [page EXCEPT ![t].auth = "expired"]
  /\ UNCHANGED <<familyVars, cookie, header, msgs, denied, cause>>

(* runAuthorized: an Owner request came back 401, maybe one of several; or *)
(* the list is fetched after a failure, with the access token of old.      *)
RefreshAfter401(t) ==
  /\ page[t].auth = "expired" \/ page[t].pending = "reload"
  /\ page' = [page EXCEPT ![t].refreshing = TRUE, ![t].pending = "none"]
  /\ RefreshOnce("renew", t, page[t].mount, page[t].refreshing)
  /\ UNCHANGED <<familyVars, cookie, header, denied>>

SignOut(t) ==
  /\ t \in header \/ page[t].auth # "none"
  /\ ~\E r \in msgs : r.op = "logout" /\ r.tab = t
  /\ Send("logout", t, page[t].mount)
  /\ UNCHANGED <<familyVars, cookie, clientVars, denied>>

(* The login page; a login does not look at the cookie it replaces. *)
SignIn(t) ==
  /\ t \notin header /\ page[t].mount < MaxMounts
  /\ ~\E r \in msgs : r.op = "login" /\ r.tab = t
  /\ msgs' = msgs \cup {Request("login", t, page[t].mount)}
  /\ cause' = cause \cup (IF Overlaps("login", t, page[t].mount) THEN {"overlap"} ELSE {})
                    \cup (IF cookie # 0 THEN {"relogin"} ELSE {})
  /\ UNCHANGED <<familyVars, cookie, clientVars, denied>>

-----------------------------------------------------------------------------
(* AuthController answers a request.                                       *)

Answer(r, answer, new) ==
  msgs' = (msgs \ {r}) \cup {[r EXCEPT !.answer = answer, !.new = new]}

Serving(r, ops) == r \in msgs /\ r.op \in ops /\ r.answer = "none"

ServeLogin(r) ==
  /\ Serving(r, {"login"}) /\ MayIssue
  /\ LET n == LastToken + 1
     IN /\ issued' = issued \cup {<<n, n>>} /\ live' = live \cup {<<n, n>>}
        /\ Answer(r, "ok", n)
  /\ UNCHANGED <<cookie, clientVars, denied, cause>>

ServeRefresh(r) ==
  /\ Serving(r, Refreshes) /\ IsLive(r.token) /\ MayIssue
  /\ \E p \in live :
       /\ p[2] = r.token
       /\ issued' = issued \cup {<<p[1], LastToken + 1>>}
       /\ live' = (live \ {p}) \cup {<<p[1], LastToken + 1>>}
  /\ Answer(r, "ok", LastToken + 1)
  /\ UNCHANGED <<cookie, clientVars, denied, cause>>

(* No cookie, or one that is no longer live: 401, and its family ends. *)
DenyRefresh(r) ==
  /\ Serving(r, Refreshes) /\ ~IsLive(r.token)
  /\ live' = {p \in live : p[1] \notin FamilyOf(r.token)}
  /\ denied' = (denied \/ r.token # 0)
  /\ Answer(r, "denied", 0)
  /\ UNCHANGED <<issued, cookie, clientVars, cause>>

(* Mutant: sign-out clears the cookie and leaves the session alone. *)
OnlyClearCookie(r) ==
  /\ Serving(r, {"logout"})
  /\ cause' = cause \cup {"ended"}
  /\ Answer(r, "ok", 0)
  /\ UNCHANGED <<familyVars, cookie, clientVars, denied>>

ServeLogout(r) ==
  /\ Serving(r, {"logout"})
  /\ live' = {p \in live : p[2] # r.token}
  /\ cause' = cause \cup {"ended"}
  /\ Answer(r, "ok", 0)
  /\ UNCHANGED <<issued, cookie, clientVars, denied>>

(* An administrator suspends the account. *)
Suspension ==
  /\ live # {} /\ live' = {}
  /\ cause' = cause \cup {"ended"}
  /\ UNCHANGED <<issued, cookie, clientVars, msgs, denied>>

-----------------------------------------------------------------------------
(* The answer reaches the browser: Set-Cookie first, then the page.        *)

Mounted(r) == r.mount # 0 /\ r.mount = page[r.tab].mount

SetPage(t, auth, refreshing, pending) ==
  page' = [page EXCEPT ![t].auth = auth, ![t].refreshing = refreshing,
                       ![t].pending = pending]

Answered(r, ops) == r \in msgs /\ r.op \in ops /\ r.answer # "none"
SetCookie(r) == cookie' = IF r.answer = "ok" THEN r.new ELSE cookie

(* Mutant: a restored session is not passed on to the App. *)
RestoreSilently(r) ==
  /\ Answered(r, {"restore"})
  /\ msgs' = msgs \ {r}
  /\ SetCookie(r)
  /\ IF Mounted(r) THEN SetPage(r.tab, IF r.answer = "ok" THEN "valid" ELSE "none", FALSE, "none")
                   ELSE UNCHANGED page
  /\ UNCHANGED <<familyVars, header, denied, cause>>

(* restoreSession: a page that is gone still tells the App, only its own   *)
(* state is lost.                                                          *)
ReceiveRestore(r) ==
  /\ Answered(r, {"restore"})
  /\ msgs' = msgs \ {r}
  /\ SetCookie(r)
  /\ LET ok == r.answer = "ok"
     IN /\ header' = IF r.mount = 0 THEN header
                     ELSE IF ok THEN header \cup {r.tab} ELSE header \ {r.tab}
        /\ IF Mounted(r) THEN SetPage(r.tab, IF ok THEN "valid" ELSE "none", FALSE, "none")
                         ELSE UNCHANGED page
  /\ UNCHANGED <<familyVars, denied, cause>>

(* runAuthorized's catch block, whatever the reason: the session is over   *)
(* for the page and the App, and most callers then fetch the list again.   *)
SessionEnds(t, refreshing) ==
  /\ header' = header \ {t}
  /\ \E next \in {"none", "reload"} : SetPage(t, "none", refreshing, next)

(* A page that is gone has no state left, but its catch block still tells  *)
(* the App of the end.                                                     *)
EndsUnseen(r, ended) ==
  /\ header' = IF ended /\ r.mount # 0 THEN header \ {r.tab} ELSE header
  /\ UNCHANGED page

(* runAuthorized: with a new access token the request is sent once more    *)
(* (by a page that is gone: and refused at once, or never); the App is     *)
(* told only of an end, also when the page had ended before and the cookie *)
(* that revives it comes from another tab's login.                         *)
ReceiveRenewal(r) ==
  /\ Answered(r, {"renew"})
  /\ msgs' = msgs \ {r}
  /\ SetCookie(r)
  /\ \/ /\ r.answer = "ok" /\ Mounted(r)
        /\ UNCHANGED header /\ SetPage(r.tab, "valid", FALSE, "retry")
        /\ cause' = cause \cup (IF page[r.tab].auth = "none" THEN {"revived"} ELSE {})
     \/ /\ r.answer = "ok" /\ ~Mounted(r)
        /\ \E refused \in {FALSE, r.mount # 0} :
             /\ EndsUnseen(r, refused)
             /\ cause' = cause \cup (IF refused THEN {"refused"} ELSE {})
     \/ /\ r.answer = "denied"
        /\ IF Mounted(r) THEN SessionEnds(r.tab, FALSE) ELSE EndsUnseen(r, TRUE)
        /\ UNCHANGED cause
  /\ UNCHANGED <<familyVars, denied>>

(* The request sent once more is answered; the same catch block takes any  *)
(* refusal of it for the end of the session.                               *)
RetrySucceeds(t) ==
  /\ page[t].pending = "retry"
  /\ page' = [page EXCEPT ![t].pending = "none"]
  /\ UNCHANGED <<familyVars, cookie, header, msgs, denied, cause>>

RetryRefused(t) ==
  /\ page[t].pending = "retry"
  /\ SessionEnds(t, page[t].refreshing)
  /\ cause' = cause \cup {"refused"}
  /\ UNCHANGED <<familyVars, cookie, msgs, denied>>

(* onAuthenticated: the App has the session and goes on to a page, which   *)
(* mounts and restores at once.                                            *)
ReceiveLogin(r) ==
  /\ r \in msgs /\ r.op = "login" /\ r.answer = "ok"
  /\ cookie' = r.new
  /\ msgs' = msgs \ {r}
  /\ header' = IF r.mount = 0 THEN header ELSE header \cup {r.tab}
  /\ UNCHANGED <<familyVars, page, denied, cause>>

(* signOut's finally block runs whatever the answer. *)
SignedOut(r) ==
  IF r.mount = 0 THEN UNCHANGED clientVars
  ELSE /\ header' = header \ {r.tab}
       /\ SetPage(r.tab, "none", page[r.tab].refreshing, page[r.tab].pending)

ReceiveLogout(r) ==
  /\ r \in msgs /\ r.op = "logout" /\ r.answer = "ok"
  /\ cookie' = 0
  /\ msgs' = msgs \ {r}
  /\ SignedOut(r)
  /\ UNCHANGED <<familyVars, denied, cause>>

(* fetch fails, before or after the server has acted: status 0, no 401. *)
Lose(r) ==
  /\ r \in msgs
  /\ msgs' = msgs \ {r}
  /\ cause' = cause \cup {"lost"}
  /\ IF r.op = "logout" THEN SignedOut(r)
     ELSE IF r.op = "restore" /\ Mounted(r)
     THEN UNCHANGED header /\ SetPage(r.tab, page[r.tab].auth, FALSE, page[r.tab].pending)
     ELSE IF r.op = "renew"
     THEN IF Mounted(r) THEN SessionEnds(r.tab, FALSE) ELSE EndsUnseen(r, TRUE)
     ELSE UNCHANGED clientVars
  /\ UNCHANGED <<familyVars, cookie, denied>>

Next ==
  \/ /\ Cardinality(msgs) < MaxRequests
     /\ \E t \in Tabs : Mount(t) \/ Reload(t) \/ RefreshAfter401(t) \/ SignOut(t) \/ SignIn(t)
  \/ \E t \in Tabs : AccessExpires(t) \/ RetrySucceeds(t) \/ RetryRefused(t)
  \/ \E r \in msgs :
       \/ ServeLogin(r) \/ ServeRefresh(r) \/ DenyRefresh(r) \/ ServeLogout(r)
       \/ ReceiveRestore(r) \/ ReceiveRenewal(r) \/ ReceiveLogin(r) \/ ReceiveLogout(r) \/ Lose(r)
  \/ Suspension

Spec == Init /\ [][Next]_vars

-----------------------------------------------------------------------------
TypeOK ==
  /\ cookie \in Nat /\ header \subseteq Tabs /\ cause \subseteq Causes
  /\ denied \in BOOLEAN
  /\ page \in [Tabs -> [mount : 0 .. MaxMounts, auth : {"none", "valid", "expired"},
                        refreshing : BOOLEAN, pending : {"none", "retry", "reload"}]]
  /\ msgs \subseteq [op : Refreshes \cup {"login", "logout"}, tab : Tabs, mount : 0 .. MaxMounts,
                     token : Nat, answer : {"none", "ok", "denied"}, new : Nat]

(* One mounted page never trips the reuse detection by itself, however     *)
(* many of its requests are answered 401 at once (refreshSessionOnce): it  *)
(* takes two pages, a sign-out, or an answer that was lost.                *)
SingleFlightProtects == denied => cause # {}

(* When nothing is under way, the sessions the server still accepts are    *)
(* exactly reachable from this browser's cookie: sign-out leaves none      *)
(* behind, unless requests overlapped, were lost, or a login came on top.  *)
Undisturbed == msgs = {} /\ cause \subseteq {"ended"}
NoOrphanSession == Undisturbed => \A p \in live : p[2] = cookie

(* ... and a page that believes it is signed in has a header that agrees   *)
(* (onSessionRestored and onSessionEnded of every page): only a refused    *)
(* retry, taken for the end of the session, or a page that has ended and   *)
(* is revived by a login elsewhere can set them apart.                     *)
HeaderAgrees == Undisturbed => \A t \in Tabs : page[t].auth # "none" => t \in header
=============================================================================
