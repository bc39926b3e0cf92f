---------------------------- MODULE AuthSessions ----------------------------
(***************************************************************************)
(* AuthService and the account suspension of AdminOperationsService as     *)
(* MySQL transactions (REPEATABLE READ).  findUnique reads the snapshot of *)
(* its transaction; update and updateMany act on the committed rows and    *)
(* wait for a row another transaction has written; an INSERT with a        *)
(* foreign key to User waits for a transaction that has updated that User. *)
(* A refresh decides on its snapshot and then claims the row with a        *)
(* conditional update; a login decides before its transaction starts.      *)
(***************************************************************************)
EXTENDS Naturals

CONSTANTS
  Users,        \* accounts
  Admins,       \* accounts with AdminAccess
  Calls,        \* API calls in flight at the same time
  Ttl,          \* lifetime of a refresh token
  Horizon,      \* bound: the last instant
  MaxSessions   \* bound: no session is created beyond this many

ASSUME AuthAssumption ==
  /\ Admins \subseteq Users
  /\ Ttl \in Nat \ {0} /\ Horizon \in Nat /\ MaxSessions \in Nat

VARIABLES
  now,
  status,    \* User.status, "ABSENT" before the registration commits
  sessions,  \* AuthSession rows: [id, user, family, expiresAt]
  revoked,   \* ids of the rows with revokedAt set
  replaced,  \* replacedById: pairs <<old, new>>
  lastId,
  reused,    \* families of the AUTH_REFRESH_REUSE_DETECTED audit events
  pc,        \* where each call stands
  call       \* what it read: [user, token, seen]

rowVars == <<status, sessions, revoked, replaced, lastId, reused>>
vars == <<now, rowVars, pc, call>>

Idle == [user |-> "none", token |-> 0, seen |-> "none"]

Live == {s \in sessions : s.id \notin revoked}
Ids(S) == {s.id : s \in S}
FamilyOf(s) == {t \in sessions : t.family = s.family}

Init ==
  /\ now = 0
  /\ status = [u \in Users |-> "ABSENT"]
  /\ sessions = {} /\ revoked = {} /\ replaced = {} /\ lastId = 0
  /\ reused = {}
  /\ pc = [c \in Calls |-> "idle"]
  /\ call = [c \in Calls |-> Idle]

Tick == now < Horizon /\ now' = now + 1 /\ UNCHANGED <<rowVars, pc, call>>

-----------------------------------------------------------------------------
(* Rows a transaction has written and not committed (external: InnoDB).    *)

SessionLocked(c, s) == \E d \in Calls \ {c} : pc[d] = "claimed" /\ call[d].token = s.id
UserLocked(c, u) == \E d \in Calls \ {c} : pc[d] = "suspending" /\ call[d].user = u
NoneLocked(c, S) == \A s \in S : ~SessionLocked(c, s)

Moves(c, from, to) == pc[c] = from /\ pc' = [pc EXCEPT ![c] = to]

Returns(c, from) ==
  /\ Moves(c, from, "idle")
  /\ call' = [call EXCEPT ![c] = Idle]

(* createRefreshSession: a fresh row, in a family of its own or in that of *)
(* the session it replaces.  Its foreign key waits for the User row.       *)
CreateSession(c, u, family) ==
  /\ lastId < MaxSessions /\ ~UserLocked(c, u)
  /\ lastId' = lastId + 1
  /\ sessions' = sessions \cup
       {[id |-> lastId + 1, user |-> u, family |-> family, expiresAt |-> now + Ttl]}

Revoke(S) == revoked' = revoked \cup Ids(S)

-----------------------------------------------------------------------------
(* register: looks the email up, hashes, inserts under the unique index.   *)

RegisterChecks(c, u) ==
  /\ status[u] = "ABSENT"
  /\ Moves(c, "idle", "hashing")
  /\ call' = [call EXCEPT ![c].user = u]
  /\ UNCHANGED <<now, rowVars>>

RegisterCommits(c) ==
  /\ Returns(c, "hashing")
  /\ LET u == call[c].user
     IN \/ /\ status[u] = "ABSENT"
           /\ status' = [status EXCEPT ![u] = "ACTIVE"]
           /\ CreateSession(c, u, lastId + 1)
        \/ /\ status[u] # "ABSENT"
           /\ UNCHANGED <<status, lastId, sessions>>
  /\ UNCHANGED <<now, revoked, replaced, reused>>

(* login: the account is read and the password verified before the         *)
(* transaction that creates the session.                                   *)
LoginVerifies(c, u) ==
  /\ status[u] = "ACTIVE"
  /\ Moves(c, "idle", "verified")
  /\ call' = [call EXCEPT ![c].user = u]
  /\ UNCHANGED <<now, rowVars>>

LoginCommits(c) ==
  /\ Returns(c, "verified")
  /\ CreateSession(c, call[c].user, lastId + 1)
  /\ UNCHANGED <<now, status, revoked, replaced, reused>>

-----------------------------------------------------------------------------
(* refresh.                                                                *)

(* What findUnique shows, in the order the code tests it. *)
Verdict(s) ==
  CASE status[s.user] # "ACTIVE" -> "inactive"
    [] s.id \in revoked -> "revoked"
    [] s.expiresAt <= now -> "expired"
    [] OTHER -> "live"

RefreshReads(c, s) ==
  /\ Moves(c, "idle", "refreshing")
  /\ call' = [call EXCEPT ![c] = [user |-> s.user, token |-> s.id, seen |-> Verdict(s)]]
  /\ UNCHANGED <<now, rowVars>>

Presented(c) == {s \in sessions : s.id = call[c].token}

(* A suspended account: all its sessions are revoked, the refresh denied. *)
RefreshDenied(c) ==
  /\ Returns(c, "refreshing") /\ call[c].seen = "inactive"
  /\ LET mine == {s \in Live : s.user = call[c].user}
     IN NoneLocked(c, mine) /\ Revoke(mine)
  /\ ~UserLocked(c, call[c].user)
  /\ UNCHANGED <<now, status, sessions, replaced, lastId, reused>>

RefreshExpires(c) ==
  /\ Returns(c, "refreshing") /\ call[c].seen = "expired"
  /\ NoneLocked(c, Presented(c)) /\ Revoke(Presented(c))
  /\ ~UserLocked(c, call[c].user)
  /\ UNCHANGED <<now, status, sessions, replaced, lastId, reused>>

(* Mutant: the count of the conditional update is not looked at. *)
ClaimsAnyway(c) ==
  /\ call[c].seen = "live"
  /\ NoneLocked(c, Presented(c))
  /\ Moves(c, "refreshing", "claimed")
  /\ UNCHANGED <<now, rowVars, call>>

(* The conditional update, once no other transaction holds the row. *)
RefreshClaims(c) ==
  /\ call[c].seen = "live"
  /\ NoneLocked(c, Presented(c))
  /\ call[c].token \notin revoked
  /\ Moves(c, "refreshing", "claimed")
  /\ UNCHANGED <<now, rowVars, call>>

RefreshRotates(c) ==
  /\ Returns(c, "claimed")
  /\ \E s \in Presented(c) :
       /\ CreateSession(c, s.user, s.family)
       /\ Revoke({s})
       /\ replaced' = replaced \cup {<<s.id, lastId + 1>>}
  /\ UNCHANGED <<now, status, reused>>

(* Mutant: reuse revokes the presented session, not its family. *)
ReuseRevokesOne(c) ==
  /\ Returns(c, "refreshing")
  /\ call[c].seen = "revoked" \/ (call[c].seen = "live" /\ call[c].token \in revoked)
  /\ NoneLocked(c, Presented(c))
  /\ Revoke(Presented(c))
  /\ reused' = reused \cup {s.family : s \in Presented(c)}
  /\ UNCHANGED <<now, status, sessions, replaced, lastId>>

(* revokeActiveFamilyForReuse: the snapshot already shows the token        *)
(* revoked, or the claim finds it so.  The update waits for a rotation of  *)
(* the family that is under way, and then sees the row it has created.     *)
RefreshReuse(c) ==
  /\ Returns(c, "refreshing")
  /\ call[c].seen = "revoked" \/ (call[c].seen = "live" /\ call[c].token \in revoked)
  /\ \E s \in Presented(c) :
       /\ NoneLocked(c, FamilyOf(s)) /\ ~UserLocked(c, s.user)
       /\ Revoke(FamilyOf(s))
       /\ reused' = reused \cup {s.family}
  /\ UNCHANGED <<now, status, sessions, replaced, lastId>>

-----------------------------------------------------------------------------
(* logout: reads, and revokes that one row unless it was already revoked.  *)

LogoutReads(c, s) ==
  /\ s \in Live
  /\ Moves(c, "idle", "leaving")
  /\ call' = [call EXCEPT ![c] = [user |-> s.user, token |-> s.id, seen |-> "live"]]
  /\ UNCHANGED <<now, rowVars>>

LogoutCommits(c) ==
  /\ Returns(c, "leaving")
  /\ NoneLocked(c, Presented(c)) /\ ~UserLocked(c, call[c].user)
  /\ Revoke(Presented(c))
  /\ UNCHANGED <<now, status, sessions, replaced, lastId, reused>>

-----------------------------------------------------------------------------
(* updateUserStatus: the User row first, then its sessions.                *)

SuspendLocks(c, u) ==
  /\ u \notin Admins /\ status[u] # "ABSENT" /\ ~UserLocked(c, u)
  /\ Moves(c, "idle", "suspending")
  /\ call' = [call EXCEPT ![c].user = u]
  /\ UNCHANGED <<now, rowVars>>

(* Mutant: the status changes, the sessions stay. *)
SuspendsAccountOnly(c) ==
  /\ Returns(c, "suspending")
  /\ status' = [status EXCEPT ![call[c].user] = "SUSPENDED"]
  /\ UNCHANGED <<now, sessions, revoked, replaced, lastId, reused>>

SuspendCommits(c) ==
  /\ Returns(c, "suspending")
  /\ status' = [status EXCEPT ![call[c].user] = "SUSPENDED"]
  /\ LET mine == {s \in Live : s.user = call[c].user}
     IN NoneLocked(c, mine) /\ Revoke(mine)
  /\ UNCHANGED <<now, sessions, replaced, lastId, reused>>

Reactivates(c, u) ==
  /\ pc[c] = "idle" /\ u \notin Admins
  /\ status[u] = "SUSPENDED" /\ ~UserLocked(c, u)
  /\ status' = [status EXCEPT ![u] = "ACTIVE"]
  /\ UNCHANGED <<now, sessions, revoked, replaced, lastId, reused, pc, call>>

-----------------------------------------------------------------------------
(* InnoDB rolls back one of two transactions that wait for each other: a   *)
(* rotation needs the User row, a suspension the claimed session.          *)
Deadlocked(c, d) ==
  /\ call[c].user = call[d].user
  /\ {pc[c], pc[d]} = {"claimed", "suspending"}

DeadlockVictim(c) ==
  /\ \E d \in Calls : Deadlocked(c, d)
  /\ Returns(c, pc[c])
  /\ UNCHANGED <<now, rowVars>>

(* The transaction times out or the API process dies: rolled back. *)
CallFails(c) ==
  /\ pc[c] # "idle"
  /\ Returns(c, pc[c])
  /\ UNCHANGED <<now, rowVars>>

CallStep(c) ==
  \/ RegisterCommits(c) \/ LoginCommits(c)
  \/ RefreshDenied(c) \/ RefreshExpires(c) \/ RefreshClaims(c)
  \/ RefreshRotates(c) \/ RefreshReuse(c)
  \/ LogoutCommits(c) \/ SuspendCommits(c) \/ DeadlockVictim(c)

Request(c) ==
  \/ \E u \in Users :
       RegisterChecks(c, u) \/ LoginVerifies(c, u) \/ SuspendLocks(c, u) \/ Reactivates(c, u)
  \/ \E s \in sessions :
       RefreshReads(c, s) \/ LogoutReads(c, s)

Next == Tick \/ \E c \in Calls : Request(c) \/ CallStep(c) \/ CallFails(c)

Spec == Init /\ [][Next]_vars

-----------------------------------------------------------------------------
CallState == [user : Users \cup {"none"}, token : Nat,
              seen : {"none", "live", "revoked", "expired", "inactive"}]

TypeOK ==
  /\ now \in Nat
  /\ status \in [Users -> {"ABSENT", "ACTIVE", "SUSPENDED"}]
  /\ \A s \in sessions :
       /\ s.user \in Users /\ s.expiresAt \in Nat
       /\ s.id \in 1 .. lastId /\ s.family \in 1 .. s.id
  /\ revoked \subseteq Ids(sessions) /\ lastId \in Nat
  /\ replaced \subseteq Nat \X Nat
  /\ pc \in [Calls -> {"idle", "hashing", "verified", "refreshing", "claimed",
                      "leaving", "suspending"}]
  /\ call \in [Calls -> CallState]

(* A family has at most one live session, and it is the newest of the      *)
(* family, however many refreshes of one cookie race (refresh).            *)
LiveIsNewest ==
  \A s \in Live : \A t \in FamilyOf(s) : t.id <= s.id

(* A rotation is recorded on both sides: a replaced session is revoked, it *)
(* was replaced once, and by a later session of its own family.            *)
RotationChain ==
  \A r \in replaced :
    /\ r[1] \in revoked
    /\ \A q \in replaced : q[1] = r[1] \/ q[2] = r[2] => q = r
    /\ \E s, t \in sessions : s.id = r[1] /\ t.id = r[2] /\ s.family = t.family /\ s.id < t.id

(* Once a reuse is reported, no token of that family works again, not even *)
(* one that a refresh under way at that moment was about to create.        *)
ReuseEndsFamily == \A s \in Live : s.family \notin reused

(* No refresh carries a session over a suspension: a live session of a     *)
(* suspended account comes straight from a login that raced it (login      *)
(* reads the status before its transaction).                               *)
RotatedNeverOutlivesSuspension ==
  \A s \in Live : s.id # s.family => status[s.user] = "ACTIVE"

(* The rows implement the promise of SessionFamily.                        *)
Family == INSTANCE SessionFamily
            WITH issued <- {<<s.family, s.id>> : s \in sessions},
                 live <- {<<s.family, s.id>> : s \in Live}
ImplementsFamily == Family!FamilySpec
=============================================================================
