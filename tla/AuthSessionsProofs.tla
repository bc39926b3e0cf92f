------------------------- MODULE AuthSessionsProofs -------------------------
(***************************************************************************)
(* AuthSessions for any accounts, calls, lifetimes and bounds: rotation,   *)
(* reuse detection and suspension keep their promises however the calls    *)
(* race, and the rows implement SessionFamily.                             *)
(***************************************************************************)
EXTENDS AuthSessions, TLAPS

IdsUnique == \A s, t \in sessions : s.id = t.id => s = t

(* A call works for an account, a refresh and a logout for that of the     *)
(* session they have read.                                                 *)
Presents ==
  \A c \in Calls :
    /\ pc[c] # "idle" => call[c].user \in Users
    /\ pc[c] \in {"refreshing", "claimed", "leaving"} =>
         \E s \in sessions : s.id = call[c].token /\ s.user = call[c].user

(* A claimed row is not revoked and claimed by one call only. *)
Claims ==
  /\ \A c \in Calls : pc[c] = "claimed" => call[c].token \notin revoked /\ call[c].seen = "live"
  /\ \A c, d \in Calls :
       pc[c] = "claimed" /\ pc[d] = "claimed" /\ call[c].token = call[d].token => c = d

(* What a refresh has seen of its account is out of date only if its token *)
(* is revoked by now.                                                      *)
SeenActive ==
  \A c \in Calls :
    pc[c] \in {"refreshing", "claimed"} /\ call[c].seen = "live" /\ call[c].token \notin revoked
      => status[call[c].user] = "ACTIVE"

ReusedKnown == \A f \in reused : f \in 1 .. lastId

IInv ==
  /\ TypeOK /\ IdsUnique /\ Presents /\ Claims /\ SeenActive /\ ReusedKnown
  /\ LiveIsNewest /\ RotationChain /\ ReuseEndsFamily /\ RotatedNeverOutlivesSuspension

-----------------------------------------------------------------------------
(* What the actions do to the rows of AuthSession comes in four shapes.    *)

Quiet == UNCHANGED <<sessions, revoked, replaced, lastId, reused>>

Root(u) == [id |-> lastId + 1, user |-> u, family |-> lastId + 1, expiresAt |-> now + Ttl]
Successor(s) == [id |-> lastId + 1, user |-> s.user, family |-> s.family, expiresAt |-> now + Ttl]

Done(c) == pc' = [pc EXCEPT ![c] = "idle"] /\ call' = [call EXCEPT ![c] = Idle]

Opens(c) ==
  /\ pc[c] \in {"hashing", "verified"} /\ Done(c)
  /\ sessions' = sessions \cup {Root(call[c].user)}
  /\ lastId' = lastId + 1
  /\ UNCHANGED <<revoked, replaced, reused>>

Replaces(c, s) ==
  /\ pc[c] = "claimed" /\ s.id = call[c].token /\ Done(c)
  /\ sessions' = sessions \cup {Successor(s)}
  /\ lastId' = lastId + 1
  /\ revoked' = revoked \cup {s.id}
  /\ replaced' = replaced \cup {<<s.id, lastId + 1>>}
  /\ UNCHANGED reused

Ends(c, S) ==
  /\ pc[c] # "claimed" /\ Done(c) /\ NoneLocked(c, S)
  /\ revoked' = revoked \cup Ids(S)
  /\ \/ reused' = reused
     \/ \E s \in sessions : S = FamilyOf(s) /\ reused' = reused \cup {s.family}
  /\ UNCHANGED <<sessions, replaced, lastId>>

Shape ==
  \/ Quiet
  \/ \E c \in Calls : Opens(c)
  \/ \E c \in Calls, s \in sessions : Replaces(c, s)
  \/ \E c \in Calls, S \in SUBSET sessions : Ends(c, S)

(* The requests, the aborts and the clock change no session. *)
LEMMA QuietSteps ==
  ASSUME \/ Tick \/ UNCHANGED vars
         \/ \E c \in Calls : Request(c) \/ DeadlockVictim(c) \/ CallFails(c) \/ RefreshClaims(c)
  PROVE  Quiet
  BY Zenon DEF Quiet, Request, RegisterChecks, LoginVerifies, SuspendLocks, Reactivates, RefreshReads,
               LogoutReads, DeadlockVictim, CallFails, RefreshClaims, Tick, vars, rowVars

LEMMA EndSteps ==
  ASSUME NEW c \in Calls,
         \/ RefreshDenied(c) \/ RefreshExpires(c) \/ RefreshReuse(c)
         \/ LogoutCommits(c) \/ SuspendCommits(c)
  PROVE  \E S \in SUBSET sessions : Ends(c, S)
  <1> USE DEF Returns, Moves, Revoke, Done
  <1>1. ASSUME NEW from \in {"refreshing", "leaving", "suspending"}, pc[c] = from PROVE pc[c] # "claimed"
    BY <1>1
  <1>2. CASE RefreshDenied(c) \/ SuspendCommits(c)
    <2> DEFINE S == {s \in Live : s.user = call[c].user}
    <2>1. S \in SUBSET sessions
      BY DEF Live
    <2>2. Ends(c, S)
      BY <1>1, <1>2, Zenon DEF RefreshDenied, SuspendCommits, Ends
    <2> QED
      BY <2>1, <2>2
  <1>3. CASE RefreshExpires(c) \/ LogoutCommits(c)
    <2>1. Presented(c) \in SUBSET sessions
      BY DEF Presented
    <2>2. Ends(c, Presented(c))
      BY <1>1, <1>3, Zenon DEF RefreshExpires, LogoutCommits, Ends
    <2> QED
      BY <2>1, <2>2
  <1>4. CASE RefreshReuse(c)
    <2>1. PICK s \in Presented(c) :
            NoneLocked(c, FamilyOf(s)) /\ Revoke(FamilyOf(s)) /\ reused' = reused \cup {s.family}
      BY <1>4, Zenon DEF RefreshReuse
    <2>2. FamilyOf(s) \in SUBSET sessions /\ s \in sessions
      BY <2>1 DEF Presented, FamilyOf
    <2>3. Ends(c, FamilyOf(s))
      BY <1>1, <1>4, <2>1, <2>2, Zenon DEF RefreshReuse, Ends
    <2> QED
      BY <2>2, <2>3
  <1> QED
    BY <1>2, <1>3, <1>4

LEMMA Shapes ==
  ASSUME [Next]_vars
  PROVE  Shape
  <1>1. ASSUME NEW c \in Calls, RegisterCommits(c) \/ LoginCommits(c) PROVE Quiet \/ Opens(c)
    BY <1>1, Zenon DEF RegisterCommits, LoginCommits, CreateSession, Returns, Moves, Opens, Done, Root, Quiet
  <1>2. ASSUME NEW c \in Calls, RefreshRotates(c) PROVE \E s \in sessions : Replaces(c, s)
    <2>1. PICK s \in Presented(c) :
            CreateSession(c, s.user, s.family) /\ Revoke({s})
              /\ replaced' = replaced \cup {<<s.id, lastId + 1>>}
      BY <1>2, Zenon DEF RefreshRotates
    <2>2. s \in sessions /\ s.id = call[c].token /\ Ids({s}) = {s.id}
      BY <2>1 DEF Presented, Ids
    <2>3. pc[c] = "claimed" /\ Done(c) /\ reused' = reused
      BY <1>2, Zenon DEF RefreshRotates, Returns, Moves, Done
    <2>4. Replaces(c, s)
      BY <2>1, <2>2, <2>3, Zenon DEF Replaces, CreateSession, Revoke, Successor
    <2> QED
      BY <2>2, <2>4
  <1>3. ASSUME NEW c \in Calls, Request(c) \/ CallStep(c) \/ CallFails(c) PROVE Shape
    BY <1>1, <1>2, <1>3, QuietSteps, EndSteps, Zenon DEF CallStep, Shape
  <1> QED
    BY <1>3, QuietSteps, Zenon DEF Next, Shape

-----------------------------------------------------------------------------
(* The rows, through the four shapes.                                      *)

(* The part of TypeOK about the rows. *)
RowTypes ==
  /\ lastId \in Nat
  /\ \A s \in sessions :
       /\ s.user \in Users /\ s.expiresAt \in Nat
       /\ s.id \in 1 .. lastId /\ s.family \in 1 .. s.id
  /\ revoked \subseteq Ids(sessions)
  /\ replaced \subseteq Nat \X Nat

LEMMA RowTypesStep ==
  ASSUME TypeOK, Presents, Shape
  PROVE  RowTypes'
  <1>0. RowTypes /\ now + Ttl \in Nat
    BY AuthAssumption DEF AuthAssumption, TypeOK, RowTypes
  <1>1. CASE Quiet
    BY <1>0, <1>1 DEF Quiet, RowTypes, Ids
  <1>2. ASSUME NEW c \in Calls, Opens(c) PROVE RowTypes'
    <2>1. call[c].user \in Users
      BY <1>2 DEF Opens, Presents
    <2> QED
      BY <1>0, <1>2, <2>1 DEF Opens, Root, RowTypes, Ids
  <1>3. ASSUME NEW c \in Calls, NEW s \in sessions, Replaces(c, s) PROVE RowTypes'
    BY <1>0, <1>3 DEF Replaces, Successor, RowTypes, Ids
  <1>4. ASSUME NEW c \in Calls, NEW S \in SUBSET sessions, Ends(c, S) PROVE RowTypes'
    BY <1>0, <1>4 DEF Ends, RowTypes, Ids
  <1> QED
    BY <1>1, <1>2, <1>3, <1>4 DEF Shape

LEMMA IdsStep ==
  ASSUME TypeOK, IdsUnique, Shape
  PROVE  IdsUnique'
  <1>1. CASE Quiet
    BY <1>1 DEF Quiet, IdsUnique
  <1>2. ASSUME NEW c \in Calls, Opens(c) PROVE IdsUnique'
    BY <1>2 DEF Opens, Root, IdsUnique, TypeOK
  <1>3. ASSUME NEW c \in Calls, NEW s \in sessions, Replaces(c, s) PROVE IdsUnique'
    BY <1>3 DEF Replaces, Successor, IdsUnique, TypeOK
  <1>4. ASSUME NEW c \in Calls, NEW S \in SUBSET sessions, Ends(c, S) PROVE IdsUnique'
    BY <1>4 DEF Ends, IdsUnique
  <1> QED
    BY <1>1, <1>2, <1>3, <1>4 DEF Shape

LEMMA KnownStep ==
  ASSUME TypeOK, ReusedKnown, Shape
  PROVE  ReusedKnown'
  <1>1. CASE Quiet
    BY <1>1 DEF Quiet, ReusedKnown
  <1>2. ASSUME NEW c \in Calls, Opens(c) PROVE ReusedKnown'
    BY <1>2 DEF Opens, ReusedKnown, TypeOK
  <1>3. ASSUME NEW c \in Calls, NEW s \in sessions, Replaces(c, s) PROVE ReusedKnown'
    BY <1>3 DEF Replaces, ReusedKnown, TypeOK
  <1>4. ASSUME NEW c \in Calls, NEW S \in SUBSET sessions, Ends(c, S) PROVE ReusedKnown'
    BY <1>4 DEF Ends, ReusedKnown, TypeOK
  <1> QED
    BY <1>1, <1>2, <1>3, <1>4 DEF Shape

(* The claimed session is the only live one of its family, so its          *)
(* successor is too; ends only take sessions away.                         *)
LEMMA NewestStep ==
  ASSUME TypeOK, IdsUnique, Claims, LiveIsNewest, Shape
  PROVE  LiveIsNewest'
  <1> USE DEF Live, FamilyOf
  <1>1. CASE Quiet
    BY <1>1 DEF Quiet, LiveIsNewest
  <1>2. ASSUME NEW c \in Calls, Opens(c) PROVE LiveIsNewest'
    BY <1>2 DEF Opens, Root, LiveIsNewest, TypeOK
  <1>3. ASSUME NEW c \in Calls, NEW s \in sessions, Replaces(c, s) PROVE LiveIsNewest'
    <2>1. s.id \notin revoked
      BY <1>3 DEF Replaces, Claims
    <2>2. \A r \in sessions : r.id \notin revoked /\ r.family = s.family => r.id = s.id
      BY <2>1 DEF LiveIsNewest, TypeOK
    <2> SUFFICES ASSUME NEW r \in sessions', r.id \notin revoked',
                        NEW t \in sessions', t.family = r.family
                 PROVE  t.id <= r.id
      BY DEF LiveIsNewest
    <2>3. CASE r = Successor(s)
      BY <1>3, <2>3 DEF Replaces, Successor, TypeOK
    <2>4. CASE r \in sessions
      <3>1. r.id # s.id /\ r.id \notin revoked
        BY <1>3 DEF Replaces
      <3>2. r.family # s.family
        BY <2>2, <2>4, <3>1
      <3>3. t \in sessions
        BY <1>3, <3>2 DEF Replaces, Successor
      <3> QED
        BY <2>4, <3>1, <3>3 DEF LiveIsNewest
    <2> QED
      BY <1>3, <2>3, <2>4 DEF Replaces
  <1>4. ASSUME NEW c \in Calls, NEW S \in SUBSET sessions, Ends(c, S) PROVE LiveIsNewest'
    BY <1>4 DEF Ends, LiveIsNewest
  <1> QED
    BY <1>1, <1>2, <1>3, <1>4 DEF Shape

LEMMA ChainStep ==
  ASSUME TypeOK, Claims, RotationChain, Shape
  PROVE  RotationChain'
  <1>1. CASE Quiet
    BY <1>1 DEF Quiet, RotationChain
  <1>2. ASSUME NEW c \in Calls, Opens(c) PROVE RotationChain'
    BY <1>2 DEF Opens, RotationChain
  <1>3. ASSUME NEW c \in Calls, NEW s \in sessions, Replaces(c, s) PROVE RotationChain'
    <2>1. s.id \notin revoked /\ s.id < lastId + 1
      BY <1>3 DEF Replaces, Claims, TypeOK
    <2>2. \A r \in replaced : r[1] # s.id /\ r[2] # lastId + 1
      BY <2>1 DEF RotationChain, TypeOK
    <2> SUFFICES ASSUME NEW r \in replaced'
                 PROVE  /\ r[1] \in revoked'
                        /\ \A q \in replaced' : q[1] = r[1] \/ q[2] = r[2] => q = r
                        /\ \E a, b \in sessions' :
                             a.id = r[1] /\ b.id = r[2] /\ a.family = b.family /\ a.id < b.id
      BY DEF RotationChain
    <2>3. CASE r = <<s.id, lastId + 1>>
      <3>1. /\ Successor(s) \in sessions' /\ s \in sessions'
            /\ Successor(s).id = lastId + 1 /\ Successor(s).family = s.family
        BY <1>3 DEF Replaces, Successor
      <3> QED
        BY <1>3, <2>1, <2>2, <2>3, <3>1 DEF Replaces
    <2>4. CASE r \in replaced
      <3>1. \A q \in replaced' : q[1] = r[1] \/ q[2] = r[2] => q = r
        BY <1>3, <2>2, <2>4 DEF Replaces, RotationChain
      <3>2. r[1] \in revoked' /\ sessions \subseteq sessions'
        BY <1>3, <2>4 DEF Replaces, RotationChain
      <3> QED
        BY <2>4, <3>1, <3>2 DEF RotationChain
    <2> QED
      BY <1>3, <2>3, <2>4 DEF Replaces
  <1>4. ASSUME NEW c \in Calls, NEW S \in SUBSET sessions, Ends(c, S) PROVE RotationChain'
    BY <1>4 DEF Ends, RotationChain
  <1> QED
    BY <1>1, <1>2, <1>3, <1>4 DEF Shape

(* A rotation needs a live session, which a reported family does not have. *)
LEMMA ReuseStep ==
  ASSUME TypeOK, Claims, ReusedKnown, ReuseEndsFamily, Shape
  PROVE  ReuseEndsFamily'
  <1> USE DEF Live
  <1>1. CASE Quiet
    BY <1>1 DEF Quiet, ReuseEndsFamily
  <1>2. ASSUME NEW c \in Calls, Opens(c) PROVE ReuseEndsFamily'
    BY <1>2 DEF Opens, Root, ReuseEndsFamily, ReusedKnown, TypeOK
  <1>3. ASSUME NEW c \in Calls, NEW s \in sessions, Replaces(c, s) PROVE ReuseEndsFamily'
    <2>1. s.family \notin reused
      BY <1>3 DEF Replaces, Claims, ReuseEndsFamily
    <2> QED
      BY <1>3, <2>1 DEF Replaces, Successor, ReuseEndsFamily
  <1>4. ASSUME NEW c \in Calls, NEW S \in SUBSET sessions, Ends(c, S) PROVE ReuseEndsFamily'
    BY <1>4 DEF Ends, ReuseEndsFamily, FamilyOf, Ids
  <1> QED
    BY <1>1, <1>2, <1>3, <1>4 DEF Shape

-----------------------------------------------------------------------------
(* The pairs of a set of sessions with one more. *)
LEMMA PairsWith ==
  ASSUME NEW S, NEW x
  PROVE  {<<s.family, s.id>> : s \in S \cup {x}}
           = {<<s.family, s.id>> : s \in S} \cup {<<x.family, x.id>>}
  OBVIOUS

(* Every shape is a step, or none, of the promise. *)
LEMMA ShapeRefines ==
  ASSUME TypeOK, IdsUnique, Claims, Shape
  PROVE  [Family!FamilyNext]_(Family!familyVars)
  <1> DEFINE I == {<<s.family, s.id>> : s \in sessions}
             L == {<<s.family, s.id>> : s \in Live}
  <1> USE DEF Live
  <1>1. CASE Quiet
    BY <1>1 DEF Quiet, Family!familyVars
  <1>2. ASSUME NEW c \in Calls, Opens(c) PROVE Family!Start
    <2> DEFINE p == <<lastId + 1, lastId + 1>>
    <2> DEFINE x == Root(call[c].user)
    <2>0. x.family = lastId + 1 /\ x.id = lastId + 1 /\ sessions' = sessions \cup {x}
      BY <1>2 DEF Opens, Root
    <2>1. I' = I \cup {p}
      <3> HIDE DEF x
      <3> QED BY <2>0, PairsWith
    <2>2. L' = L \cup {p}
      <3>1. lastId + 1 \notin revoked /\ revoked' = revoked
        BY <1>2 DEF Opens, TypeOK, Ids
      <3> HIDE DEF x
      <3>2. Live' = Live \cup {x}
        BY <2>0, <3>1
      <3> QED
        BY <2>0, <3>2, PairsWith
    <2>3. \A q \in I : q[1] # lastId + 1 /\ q[2] # lastId + 1
      BY DEF TypeOK
    <2> QED
      BY <2>1, <2>2, <2>3 DEF Family!Start, Family!Issue, Family!Fresh
  <1>3. ASSUME NEW c \in Calls, NEW s \in sessions, Replaces(c, s) PROVE Family!Rotate
    <2> DEFINE p == <<s.family, lastId + 1>>
               q == <<s.family, s.id>>
    <2> DEFINE x == Successor(s)
    <2>0. x.family = s.family /\ x.id = lastId + 1 /\ sessions' = sessions \cup {x}
      BY <1>3 DEF Replaces, Successor
    <2>1. I' = I \cup {p}
      <3> HIDE DEF x
      <3> QED BY <2>0, PairsWith
    <2>2. s.id \notin revoked /\ q \in L
      BY <1>3 DEF Replaces, Claims
    <2>3. L' = (L \ {q}) \cup {p}
      <3>1. lastId + 1 \notin revoked' /\ revoked' = revoked \cup {s.id}
        BY <1>3 DEF Replaces, TypeOK, Ids
      <3> HIDE DEF x
      <3>2. Live' = (Live \ {s}) \cup {x}
        BY <2>0, <2>2, <3>1 DEF IdsUnique
      <3>3. {<<r.family, r.id>> : r \in Live \ {s}} = L \ {q}
        <4>1. \A r \in Live : r \in Live \ {s} <=> r.id # s.id
          BY DEF IdsUnique
        <4> QED
          BY <4>1
      <3>4. L' = {<<r.family, r.id>> : r \in (Live \ {s}) \cup {x}}
        BY <3>2
      <3>5. {<<r.family, r.id>> : r \in (Live \ {s}) \cup {x}}
              = {<<r.family, r.id>> : r \in Live \ {s}} \cup {<<x.family, x.id>>}
        BY PairsWith, Zenon
      <3> QED
        BY <2>0, <3>3, <3>4, <3>5, Zenon
    <2>4. \A r \in I : r[2] # lastId + 1
      BY DEF TypeOK
    <2> QED
      BY <2>1, <2>2, <2>3, <2>4 DEF Family!Rotate, Family!Issue, Family!Fresh
  <1>4. ASSUME NEW c \in Calls, NEW S \in SUBSET sessions, Ends(c, S)
        PROVE  Family!End \/ UNCHANGED Family!familyVars
    <2>1. I' = I /\ L' \subseteq L
      BY <1>4 DEF Ends
    <2>2. CASE L' = L
      BY <2>1, <2>2 DEF Family!familyVars
    <2>3. CASE L' # L
      <3>1. L \ L' \in SUBSET L /\ L \ L' # {} /\ L' = L \ (L \ L')
        BY <2>1, <2>3
      <3> QED
        BY <2>1, <3>1 DEF Family!End
    <2> QED
      BY <2>2, <2>3
  <1> QED
    BY <1>1, <1>2, <1>3, <1>4 DEF Shape, Family!FamilyNext

-----------------------------------------------------------------------------
(* The calls.                                                              *)

(* The part of TypeOK about the calls and the accounts. *)
CallTypes ==
  /\ now \in Nat
  /\ status \in [Users -> {"ABSENT", "ACTIVE", "SUSPENDED"}]
  /\ pc \in [Calls -> {"idle", "hashing", "verified", "refreshing", "claimed",
                      "leaving", "suspending"}]
  /\ call \in [Calls -> CallState]

LEMMA CallTypesStep ==
  ASSUME TypeOK, Presents, [Next]_vars
  PROVE  CallTypes'
  <1>0. CallTypes
    BY DEF TypeOK, CallTypes
  <1> USE DEF CallState, Idle, CallTypes, Moves, Returns
  <1>1. CASE Tick \/ UNCHANGED vars
    BY <1>0, <1>1 DEF Tick, vars, rowVars
  <1>2. ASSUME NEW c \in Calls, NEW u \in Users,
               RegisterChecks(c, u) \/ LoginVerifies(c, u) \/ SuspendLocks(c, u) \/ Reactivates(c, u)
        PROVE  CallTypes'
    BY SMTT(30), <1>0, <1>2 DEF RegisterChecks, LoginVerifies, SuspendLocks, Reactivates, rowVars
  <1>3. ASSUME NEW c \in Calls, NEW s \in sessions, RefreshReads(c, s) \/ LogoutReads(c, s)
        PROVE  CallTypes'
    <2>1. s.user \in Users /\ s.id \in Nat
      BY DEF TypeOK
    <2>2. Verdict(s) \in {"inactive", "revoked", "expired", "live"}
      BY DEF Verdict
    <2> QED
      BY <1>0, <1>3, <2>1, <2>2 DEF RefreshReads, LogoutReads, rowVars
  <1>4. ASSUME NEW c \in Calls, RegisterCommits(c) \/ LoginCommits(c) \/ SuspendCommits(c)
        PROVE  CallTypes'
    <2>1. call[c].user \in Users
      BY <1>4 DEF RegisterCommits, LoginCommits, SuspendCommits, Presents
    <2> QED
      BY <1>0, <1>4, <2>1 DEF RegisterCommits, LoginCommits, SuspendCommits
  <1>5. ASSUME NEW c \in Calls,
               \/ RefreshDenied(c) \/ RefreshExpires(c) \/ RefreshReuse(c) \/ RefreshRotates(c)
               \/ LogoutCommits(c) \/ DeadlockVictim(c) \/ CallFails(c)
        PROVE  CallTypes'
    <2>1. Done(c) /\ now' = now /\ status' = status
      BY <1>5, Zenon DEF RefreshDenied, RefreshExpires, RefreshReuse, RefreshRotates, LogoutCommits,
                         DeadlockVictim, CallFails, rowVars, Done
    <2> QED
      BY <1>0, <2>1 DEF Done
  <1>6. ASSUME NEW c \in Calls, RefreshClaims(c) PROVE CallTypes'
    BY <1>0, <1>6 DEF RefreshClaims, rowVars
  <1> QED
    BY <1>1, <1>2, <1>3, <1>4, <1>5, <1>6, Zenon DEF Next, Request, CallStep

(* How a step moves the calls: none, one that starts, one that claims, or  *)
(* one that is done.                                                       *)
Starts(c) ==
  /\ pc[c] = "idle" /\ Quiet /\ status' = status
  /\ \E to \in {"hashing", "verified", "suspending"}, u \in Users :
       pc' = [pc EXCEPT ![c] = to] /\ call' = [call EXCEPT ![c].user = u]

Reads(c, s) ==
  /\ pc[c] = "idle" /\ Quiet /\ status' = status
  /\ \E to \in {"refreshing", "leaving"} : pc' = [pc EXCEPT ![c] = to]
  /\ \E seen \in {"inactive", "revoked", "expired", "live"} :
       /\ call' = [call EXCEPT ![c] = [user |-> s.user, token |-> s.id, seen |-> seen]]
       /\ seen = "live" /\ pc'[c] = "refreshing" => status[s.user] = "ACTIVE"

LEMMA Moving ==
  ASSUME TypeOK, [Next]_vars
  PROVE  \/ UNCHANGED <<pc, call>> /\ Quiet
         \/ \E c \in Calls : Starts(c) \/ RefreshClaims(c) \/ Done(c)
         \/ \E c \in Calls, s \in sessions : Reads(c, s)
  <1> DEFINE Goal == \/ UNCHANGED <<pc, call>> /\ Quiet
                     \/ \E c \in Calls : Starts(c) \/ RefreshClaims(c) \/ Done(c)
                     \/ \E c \in Calls, s \in sessions : Reads(c, s)
  <1>1. CASE Tick \/ UNCHANGED vars
    BY <1>1, Zenon DEF Tick, vars, rowVars, Quiet
  <1>2. ASSUME NEW c \in Calls, Request(c) PROVE Goal
    <2>1. CASE \E u \in Users : RegisterChecks(c, u) \/ LoginVerifies(c, u) \/ SuspendLocks(c, u)
      BY <2>1, Zenon DEF RegisterChecks, LoginVerifies, SuspendLocks, Moves, rowVars, Starts, Quiet
    <2>2. CASE \E u \in Users : Reactivates(c, u)
      BY <2>2, Zenon DEF Reactivates, Quiet
    <2>3. CASE \E s \in sessions : RefreshReads(c, s)
      <3>1. PICK s \in sessions : RefreshReads(c, s)
        BY <2>3
      <3>2. Verdict(s) \in {"inactive", "revoked", "expired", "live"}
        BY DEF Verdict
      <3>3. Verdict(s) = "live" => status[s.user] = "ACTIVE"
        BY DEF Verdict
      <3>4. Reads(c, s)
        BY <3>1, <3>2, <3>3, Zenon DEF RefreshReads, Moves, rowVars, Reads, Quiet
      <3> QED
        BY <3>4
    <2>4. CASE \E s \in sessions : LogoutReads(c, s)
      <3>1. PICK s \in sessions : LogoutReads(c, s)
        BY <2>4
      <3>2. pc'[c] = "leaving"
        BY <3>1 DEF LogoutReads, Moves, TypeOK
      <3>3. Reads(c, s)
        BY <3>1, <3>2 DEF LogoutReads, Moves, rowVars, Reads, Quiet
      <3> QED
        BY <3>3
    <2> QED
      BY <1>2, <2>1, <2>2, <2>3, <2>4, Zenon DEF Request
  <1>3. ASSUME NEW c \in Calls, CallStep(c) \/ CallFails(c) PROVE Goal
    BY <1>3, Zenon DEF CallStep, CallFails, RegisterCommits, LoginCommits, RefreshDenied, RefreshExpires,
         RefreshRotates, RefreshReuse, LogoutCommits, SuspendCommits, DeadlockVictim, Returns, Moves, Done
  <1> QED
    BY <1>1, <1>2, <1>3, Zenon DEF Next

LEMMA SessionsGrow ==
  ASSUME Shape
  PROVE  sessions \subseteq sessions' /\ revoked \subseteq revoked'
  BY DEF Shape, Quiet, Opens, Replaces, Ends

LEMMA PresentsStep ==
  ASSUME TypeOK, Presents, [Next]_vars
  PROVE  Presents'
  <1>0. sessions \subseteq sessions'
    BY Shapes, SessionsGrow
  <1>1. CASE UNCHANGED <<pc, call>>
    BY <1>0, <1>1 DEF Presents
  <1>2. ASSUME NEW c \in Calls, Starts(c) PROVE Presents'
    BY <1>0, <1>2 DEF Starts, Presents, TypeOK, CallState
  <1>3. ASSUME NEW c \in Calls, NEW s \in sessions, Reads(c, s) PROVE Presents'
    <2>1. s.user \in Users
      BY DEF TypeOK
    <2> QED
      BY <1>0, <1>3, <2>1 DEF Reads, Presents, TypeOK, CallState
  <1>4. ASSUME NEW c \in Calls, RefreshClaims(c) PROVE Presents'
    BY <1>0, <1>4 DEF RefreshClaims, Moves, Presents, TypeOK
  <1>5. ASSUME NEW c \in Calls, Done(c) PROVE Presents'
    BY <1>0, <1>5 DEF Done, Presents, TypeOK
  <1> QED
    BY <1>1, <1>2, <1>3, <1>4, <1>5, Moving

(* A claim waits for every other claim of the row, and whoever revokes a   *)
(* row waits for its claim.                                                *)
LEMMA ClaimsStep ==
  ASSUME TypeOK, Presents, IdsUnique, Claims, [Next]_vars
  PROVE  Claims'
  <1>1. CASE Quiet /\ UNCHANGED <<pc, call>>
    BY <1>1 DEF Quiet, Claims
  <1>2. ASSUME NEW c \in Calls, Starts(c) PROVE Claims'
    BY <1>2 DEF Starts, Quiet, Claims, TypeOK
  <1>3. ASSUME NEW c \in Calls, NEW s \in sessions, Reads(c, s) PROVE Claims'
    BY <1>3 DEF Reads, Quiet, Claims, TypeOK
  <1>4. ASSUME NEW c \in Calls, RefreshClaims(c) PROVE Claims'
    <2>1. PICK s \in sessions : s.id = call[c].token
      BY <1>4 DEF RefreshClaims, Moves, Presents
    <2>2. \A d \in Calls \ {c} : pc[d] = "claimed" => call[d].token # call[c].token
      BY <1>4, <2>1 DEF RefreshClaims, NoneLocked, SessionLocked, Presented
    <2>3. /\ pc' = [pc EXCEPT ![c] = "claimed"] /\ call' = call /\ revoked' = revoked
          /\ call[c].token \notin revoked /\ call[c].seen = "live"
      BY <1>4, Zenon DEF RefreshClaims, Moves, rowVars
    <2> QED
      BY <2>2, <2>3 DEF Claims, TypeOK
  <1>5. ASSUME NEW c \in Calls, Done(c) PROVE Claims'
    <2> SUFFICES ASSUME NEW d \in Calls, d # c, pc[d] = "claimed"
                 PROVE  call[d].token \notin revoked'
      BY <1>5 DEF Done, Claims, TypeOK
    <2>1. CASE Quiet \/ \E e \in Calls : Opens(e)
      BY <2>1 DEF Quiet, Opens, Claims
    <2>2. ASSUME NEW e \in Calls, NEW s \in sessions, Replaces(e, s)
          PROVE  call[d].token \notin revoked'
      <3>1. e # d
        BY <1>5, <2>2 DEF Replaces, Done, TypeOK
      <3> QED
        BY <2>2, <3>1 DEF Replaces, Claims
    <2>3. ASSUME NEW e \in Calls, NEW S \in SUBSET sessions, Ends(e, S)
          PROVE  call[d].token \notin revoked'
      <3>1. e # d
        BY <2>3 DEF Ends
      <3>2. \A s \in S : s.id # call[d].token
        BY <2>3, <3>1 DEF Ends, NoneLocked, SessionLocked
      <3> QED
        BY <2>3, <3>2 DEF Ends, Claims, Ids
    <2> QED
      BY <2>1, <2>2, <2>3, Shapes DEF Shape
  <1> QED
    BY <1>1, <1>2, <1>3, <1>4, <1>5, Moving

(* The status of an account changes to ACTIVE, or in a suspension. *)
LEMMA StatusStep ==
  ASSUME TypeOK, Presents, [Next]_vars
  PROVE  \/ \A u \in Users : status'[u] = status[u] \/ status'[u] = "ACTIVE"
         \/ \E c \in Calls : SuspendCommits(c)
  <1>1. CASE status' = status
    BY <1>1
  <1>2. ASSUME NEW c \in Calls, NEW u \in Users, Reactivates(c, u)
        PROVE  \A v \in Users : status'[v] = status[v] \/ status'[v] = "ACTIVE"
    BY <1>2 DEF Reactivates, TypeOK
  <1>3. ASSUME NEW c \in Calls, RegisterCommits(c)
        PROVE  \A v \in Users : status'[v] = status[v] \/ status'[v] = "ACTIVE"
    BY <1>3 DEF RegisterCommits, TypeOK
  <1>4. ASSUME NEW c \in Calls, CallStep(c) \/ CallFails(c)
        PROVE  status' = status \/ RegisterCommits(c) \/ SuspendCommits(c)
    BY <1>4, Zenon DEF CallStep, CallFails, LoginCommits, RefreshDenied, RefreshExpires, RefreshClaims,
         RefreshRotates, RefreshReuse, LogoutCommits, DeadlockVictim, rowVars
  <1>5. ASSUME NEW c \in Calls, Request(c)
        PROVE  status' = status \/ \E u \in Users : Reactivates(c, u)
    BY <1>5, Zenon DEF Request, RegisterChecks, LoginVerifies, SuspendLocks, RefreshReads, LogoutReads,
         rowVars
  <1>6. CASE Tick \/ UNCHANGED vars
    BY <1>1, <1>6, Zenon DEF Tick, vars, rowVars
  <1> QED
    BY <1>1, <1>2, <1>3, <1>4, <1>5, <1>6 DEF Next

(* A suspension revokes every token of the account that is not revoked,    *)
(* those that refreshes under way have read included.                      *)
LEMMA SuspensionRevokes ==
  ASSUME TypeOK, NEW c \in Calls, SuspendCommits(c)
  PROVE  /\ \A s \in sessions : s.user = call[c].user => s.id \in revoked'
         /\ \A u \in Users : u # call[c].user => status'[u] = status[u]
         /\ sessions' = sessions /\ revoked \subseteq revoked' /\ Done(c)
  BY DEF SuspendCommits, Revoke, Ids, Live, TypeOK, Returns, Moves, Done

LEMMA SeenStep ==
  ASSUME TypeOK, Presents, SeenActive, [Next]_vars
  PROVE  SeenActive'
  <1>0. revoked \subseteq revoked'
    BY Shapes, SessionsGrow
  <1>1. CASE \E c \in Calls : SuspendCommits(c)
    <2>1. PICK c \in Calls : SuspendCommits(c)
      BY <1>1
    <2> SUFFICES ASSUME NEW d \in Calls, pc'[d] \in {"refreshing", "claimed"}, call'[d].seen = "live",
                        call'[d].token \notin revoked'
                 PROVE  status'[call'[d].user] = "ACTIVE"
      BY DEF SeenActive
    <2>2. d # c /\ pc'[d] = pc[d] /\ call'[d] = call[d]
      BY <2>1, SuspensionRevokes DEF Done, TypeOK
    <2>3. PICK s \in sessions : s.id = call[d].token /\ s.user = call[d].user
      BY <2>2 DEF Presents
    <2>4. call[d].user # call[c].user /\ call[d].user \in Users
      BY <2>1, <2>2, <2>3, SuspensionRevokes DEF Presents
    <2> QED
      BY <2>1, <2>2, <2>4, <1>0, SuspensionRevokes DEF SeenActive
  <1>2. CASE \A u \in Users : status'[u] = status[u] \/ status'[u] = "ACTIVE"
    <2>1. CASE UNCHANGED <<pc, call>>
      BY <1>0, <1>2, <2>1 DEF SeenActive, Presents
    <2>2. ASSUME NEW c \in Calls, Starts(c) PROVE SeenActive'
      BY <1>0, <2>2 DEF Starts, SeenActive, TypeOK, CallState
    <2>3. ASSUME NEW c \in Calls, NEW s \in sessions, Reads(c, s) PROVE SeenActive'
      BY <1>0, <2>3 DEF Reads, SeenActive, TypeOK, CallState
    <2>4. ASSUME NEW c \in Calls, RefreshClaims(c) PROVE SeenActive'
      BY <1>0, <2>4 DEF RefreshClaims, Moves, rowVars, SeenActive, TypeOK
    <2>5. ASSUME NEW c \in Calls, Done(c) PROVE SeenActive'
      BY <1>0, <1>2, <2>5 DEF Done, SeenActive, TypeOK, Presents
    <2> QED
      BY <2>1, <2>2, <2>3, <2>4, <2>5, Moving
  <1> QED
    BY <1>1, <1>2, StatusStep

LEMMA OutlivesStep ==
  ASSUME TypeOK, Presents, IdsUnique, Claims, SeenActive, RotatedNeverOutlivesSuspension, [Next]_vars
  PROVE  RotatedNeverOutlivesSuspension'
  <1> USE DEF Live
  <1>0. revoked \subseteq revoked' /\ \A s \in sessions : s.user \in Users
    BY Shapes, SessionsGrow DEF TypeOK
  <1>1. CASE \E c \in Calls : SuspendCommits(c)
    BY <1>0, <1>1, SuspensionRevokes DEF RotatedNeverOutlivesSuspension
  <1>2. CASE \A u \in Users : status'[u] = status[u] \/ status'[u] = "ACTIVE"
    <2>1. CASE sessions' = sessions
      BY <1>0, <1>2, <2>1 DEF RotatedNeverOutlivesSuspension
    <2>2. ASSUME NEW c \in Calls, Opens(c) PROVE RotatedNeverOutlivesSuspension'
      BY <1>0, <1>2, <2>2 DEF Opens, Root, RotatedNeverOutlivesSuspension
    <2>3. ASSUME NEW c \in Calls, NEW s \in sessions, Replaces(c, s)
          PROVE  RotatedNeverOutlivesSuspension'
      <3>1. pc[c] = "claimed" /\ s.id = call[c].token
        BY <2>3 DEF Replaces
      <3>2. s.user = call[c].user
        BY <3>1 DEF Presents, IdsUnique
      <3>3. status[s.user] = "ACTIVE"
        BY <3>1, <3>2 DEF Claims, SeenActive
      <3>4. status'[s.user] = "ACTIVE"
        BY <1>0, <1>2, <3>3
      <3> QED
        BY <1>0, <1>2, <2>3, <3>4 DEF Replaces, Successor, RotatedNeverOutlivesSuspension
    <2> QED
      BY <2>1, <2>2, <2>3, Shapes DEF Shape, Quiet, Ends
  <1> QED
    BY <1>1, <1>2, StatusStep

-----------------------------------------------------------------------------
LEMMA InitIInv == Init => IInv
  <1> SUFFICES ASSUME Init PROVE IInv
    OBVIOUS
  <1>1. TypeOK
    BY DEF Init, TypeOK, CallState, Idle, Ids
  <1>2. IdsUnique /\ Presents /\ Claims /\ SeenActive /\ ReusedKnown
    BY DEF Init, IdsUnique, Presents, Claims, SeenActive, ReusedKnown
  <1>3. LiveIsNewest /\ RotationChain /\ ReuseEndsFamily /\ RotatedNeverOutlivesSuspension
    BY DEF Init, LiveIsNewest, RotationChain, ReuseEndsFamily, RotatedNeverOutlivesSuspension, Live
  <1> QED
    BY <1>1, <1>2, <1>3 DEF IInv

LEMMA NextIInv == IInv /\ [Next]_vars => IInv'
  <1> SUFFICES ASSUME IInv, [Next]_vars PROVE IInv'
    OBVIOUS
  <1>1. Shape
    BY Shapes
  <1>2. TypeOK'
    <2>1. RowTypes' /\ CallTypes'
      BY <1>1, RowTypesStep, CallTypesStep DEF IInv
    <2> QED
      BY <2>1, Zenon DEF RowTypes, CallTypes, TypeOK
  <1>3. IdsUnique' /\ ReusedKnown' /\ LiveIsNewest' /\ RotationChain' /\ ReuseEndsFamily'
    BY <1>1, IdsStep, KnownStep, NewestStep, ChainStep, ReuseStep DEF IInv
  <1>4. Presents' /\ Claims' /\ SeenActive' /\ RotatedNeverOutlivesSuspension'
    BY PresentsStep, ClaimsStep, SeenStep, OutlivesStep DEF IInv
  <1> QED
    BY <1>2, <1>3, <1>4 DEF IInv

LEMMA Inductive == Spec => []IInv
  BY InitIInv, NextIInv, PTL DEF Spec

(* Types of the rows and of the calls. *)
THEOREM SessionTypes == Spec => []TypeOK
  <1>1. IInv => TypeOK
    BY DEF IInv
  <1> QED
    BY <1>1, Inductive, PTL

(* However many refreshes of one cookie race, a family has one live        *)
(* session at most, its newest (refresh, updateMany with revokedAt null).  *)
THEOREM NewestLives == Spec => []LiveIsNewest
  <1>1. IInv => LiveIsNewest
    BY DEF IInv
  <1> QED
    BY <1>1, Inductive, PTL

(* replacedById links every rotated session to its one successor. *)
THEOREM Chains == Spec => []RotationChain
  <1>1. IInv => RotationChain
    BY DEF IInv
  <1> QED
    BY <1>1, Inductive, PTL

(* A family whose reuse was reported has no live session ever again        *)
(* (revokeActiveFamilyForReuse).                                           *)
THEOREM ReuseIsFinal == Spec => []ReuseEndsFamily
  <1>1. IInv => ReuseEndsFamily
    BY DEF IInv
  <1> QED
    BY <1>1, Inductive, PTL

(* No refresh carries a session over a suspension (updateUserStatus).      *)
THEOREM SuspensionHolds == Spec => []RotatedNeverOutlivesSuspension
  <1>1. IInv => RotatedNeverOutlivesSuspension
    BY DEF IInv
  <1> QED
    BY <1>1, Inductive, PTL

(* AuthService implements the promise of SessionFamily. *)
THEOREM Implements == Spec => ImplementsFamily
  <1>1. Init => Family!FamilyInit
    BY DEF Init, Family!FamilyInit, Live
  <1>2. IInv /\ [Next]_vars => [Family!FamilyNext]_(Family!familyVars)
    BY Shapes, ShapeRefines DEF IInv
  <1> QED
    BY <1>1, <1>2, Inductive, PTL DEF Spec, ImplementsFamily, Family!FamilySpec
=============================================================================
