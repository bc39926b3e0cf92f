------------------------- MODULE OwnerConsoleProofs -------------------------
(***************************************************************************)
(* The owner's console for any number of photos, days, tasks, actions,     *)
(* renewals and faults: what a panel at rest shows is the schedule that    *)
(* the API has (QuietPanelIsTrue), and what a console at rest shows is the *)
(* listing that the API has (QuietListIsTrue).                             *)
(***************************************************************************)
EXTENDS OwnerConsole, FiniteSetTheorems, TLAPS

-----------------------------------------------------------------------------
(* Lists in an order: what InOrder and MergeMedia make, and what Max and   *)
(* Min choose.                                                             *)

(* R puts the elements of S in a line.                                     *)
Orders(R, S) ==
  /\ \A i \in S : <<i, i>> \notin R
  /\ \A i, j \in S : i = j \/ <<i, j>> \in R \/ <<j, i>> \in R
  /\ \A i, j, k \in S : <<i, j>> \in R /\ <<j, k>> \in R => <<i, k>> \in R

(* The elements that R puts before i.                                      *)
Before(S, R, i) == {j \in S : <<j, i>> \in R}

(* The number of elements before i is a rank: it is below the size of S    *)
(* and grows along R.                                                      *)
LEMMA RankGrows ==
  ASSUME NEW S, IsFiniteSet(S), NEW R, Orders(R, S), NEW i \in S
  PROVE  /\ Cardinality(Before(S, R, i)) \in 0 .. Cardinality(S) - 1
         /\ \A j \in S : <<i, j>> \in R =>
              Cardinality(Before(S, R, i)) < Cardinality(Before(S, R, j))
  <1>1. ASSUME NEW j \in S, NEW T \in SUBSET S, Before(S, R, j) \subseteq T, NEW x \in T, x \notin Before(S, R, j)
        PROVE  Cardinality(Before(S, R, j)) \in Nat /\ Cardinality(T) \in Nat
               /\ Cardinality(Before(S, R, j)) < Cardinality(T)
    <2>1. IsFiniteSet(T) BY FS_Subset
    <2>2. /\ IsFiniteSet(Before(S, R, j)) /\ Cardinality(Before(S, R, j)) <= Cardinality(T)
          /\ Cardinality(T) = Cardinality(Before(S, R, j)) => T = Before(S, R, j)
      BY <1>1, <2>1, FS_Subset
    <2>3. Cardinality(Before(S, R, j)) \in Nat /\ Cardinality(T) \in Nat
      BY <2>1, <2>2, FS_CardinalityType
    <2> QED BY <1>1, <2>2, <2>3
  <1>2. Cardinality(Before(S, R, i)) \in Nat /\ Cardinality(S) \in Nat
        /\ Cardinality(Before(S, R, i)) < Cardinality(S)
    <2>1. Before(S, R, i) \subseteq S /\ i \notin Before(S, R, i)
      BY DEF Before, Orders
    <2> QED BY <1>1, <2>1
  <1>3. ASSUME NEW j \in S, <<i, j>> \in R
        PROVE  Cardinality(Before(S, R, i)) < Cardinality(Before(S, R, j))
    <2>1. /\ Before(S, R, i) \subseteq Before(S, R, j) /\ Before(S, R, j) \in SUBSET S
          /\ i \in Before(S, R, j) /\ i \notin Before(S, R, i)
      BY <1>3 DEF Before, Orders
    <2> QED BY <1>1, <2>1
  <1> QED BY <1>2, <1>3

(* InOrder lists each element of S once.                                   *)
LEMMA InOrderLists ==
  ASSUME NEW S, IsFiniteSet(S), NEW R, Orders(R, S), NEW s, s = InOrder(S, R)
  PROVE  /\ Cardinality(S) \in Nat /\ DOMAIN s = 1 .. Cardinality(S) /\ s \in [1 .. Cardinality(S) -> S]
         /\ \A i \in S : \E n \in DOMAIN s : s[n] = i
         /\ \A n, p \in DOMAIN s : s[n] = s[p] => n = p
         /\ \A n \in DOMAIN s : Cardinality(Before(S, R, s[n])) = n - 1
  <1>0. Cardinality(S) \in Nat BY FS_CardinalityType
  <1> DEFINE N == 0 .. Cardinality(S) - 1
             rank == [i \in S |-> Cardinality(Before(S, R, i))]
  <1>1. rank \in [S -> N]
    BY RankGrows
  <1>2. \A i, j \in S : rank[i] = rank[j] => i = j
    <2> SUFFICES ASSUME NEW i \in S, NEW j \in S, i # j PROVE rank[i] # rank[j]
      OBVIOUS
    <2>1. <<i, j>> \in R \/ <<j, i>> \in R
      BY DEF Orders
    <2>2. rank[i] \in Int /\ rank[j] \in Int
      BY <1>1
    <2>3. CASE <<i, j>> \in R
      BY <2>2, <2>3, RankGrows
    <2>4. CASE <<j, i>> \in R
      BY <2>2, <2>4, RankGrows
    <2> QED BY <2>1, <2>3, <2>4
  <1>3. IsFiniteSet(N) /\ Cardinality(N) = Cardinality(S)
    BY <1>0, FS_Interval
  <1>4. rank \in Injection(S, N)
    BY <1>1, <1>2 DEF Injection, IsInjective
  <1>5. rank \in Surjection(S, N)
    BY <1>3, <1>4, FS_Injection
  <1>6. \A n \in N : \E i \in S : rank[i] = n
    BY <1>5 DEF Surjection
  <1>7. s = [n \in 1 .. Cardinality(S) |-> CHOOSE i \in S : Cardinality(Before(S, R, i)) = n - 1]
    BY DEF InOrder, Before
  <1>8. ASSUME NEW n \in 1 .. Cardinality(S)
        PROVE  s[n] \in S /\ Cardinality(Before(S, R, s[n])) = n - 1
    <2>1. n - 1 \in N
      BY <1>0
    <2>2. \E i \in S : Cardinality(Before(S, R, i)) = n - 1
      BY <1>6, <2>1
    <2> QED BY <1>7, <2>2
  <1>9. ASSUME NEW i \in S
        PROVE  \E n \in 1 .. Cardinality(S) : s[n] = i
    <2>1. rank[i] \in N
      BY <1>1
    <2>2. rank[i] + 1 \in 1 .. Cardinality(S)
      BY <1>0, <2>1
    <2>3. rank[s[rank[i] + 1]] = rank[i] /\ s[rank[i] + 1] \in S
      BY <1>8, <2>1, <2>2
    <2> QED BY <1>2, <2>2, <2>3
  <1>10. DOMAIN s = 1 .. Cardinality(S) /\ s \in [1 .. Cardinality(S) -> S]
    BY <1>7, <1>8
  <1>11. \A n, p \in DOMAIN s : s[n] = s[p] => n = p
    <2> SUFFICES ASSUME NEW n \in DOMAIN s, NEW p \in DOMAIN s, s[n] = s[p] PROVE n = p
      OBVIOUS
    <2>1. n - 1 = p - 1 /\ n \in Int /\ p \in Int
      BY <1>0, <1>8, <1>10
    <2> QED BY <2>1
  <1> QED BY <1>0, <1>8, <1>9, <1>10, <1>11

(* The pairs of S in the order of the numbers.                             *)
Less(S) == {r \in S \X S : r[1] < r[2]}

(* The order of the numbers is such a line.                                *)
LEMMA LessOrders ==
  ASSUME NEW S \in SUBSET Int
  PROVE  Orders(Less(S), S) /\ \A i, j \in S : <<i, j>> \in Less(S) <=> i < j
  BY DEF Orders, Less

(* Max and Min choose an element of a finite set of integers that is not   *)
(* empty.                                                                  *)
LEMMA MaxAndMin ==
  ASSUME NEW S \in SUBSET Int, IsFiniteSet(S), S # {}
  PROVE  Max(S) \in S /\ Min(S) \in S
  <1> DEFINE R == Less(S)
  <1>1. Orders(R, S) /\ \A i, j \in S : <<i, j>> \in R <=> i < j
    BY LessOrders
  <1> HIDE DEF R
  <1>2. PICK s : s = InOrder(S, R)
    OBVIOUS
  <1>3. /\ Cardinality(S) \in Nat /\ DOMAIN s = 1 .. Cardinality(S) /\ s \in [1 .. Cardinality(S) -> S]
        /\ \A n \in DOMAIN s : Cardinality(Before(S, R, s[n])) = n - 1
    BY <1>1, <1>2, InOrderLists
  <1>4. Cardinality(S) > 0
    BY <1>3, FS_EmptySet
  <1>5. \E m \in S : \A y \in S : m >= y
    <2>0. PICK m : m = s[Cardinality(S)]
      OBVIOUS
    <2>1. m \in S /\ Cardinality(Before(S, R, m)) = Cardinality(S) - 1
      BY <1>3, <1>4, <2>0
    <2>2. Before(S, R, m) \subseteq S \ {m}
      BY <1>1, <2>1 DEF Before, Orders
    <2>3. IsFiniteSet(S \ {m}) /\ Cardinality(S \ {m}) = Cardinality(S) - 1
      BY <2>1, FS_RemoveElement
    <2>4. Before(S, R, m) = S \ {m}
      BY <2>1, <2>2, <2>3, FS_Subset
    <2>5. \A y \in S : y = m \/ y < m
      BY <1>1, <2>1, <2>4 DEF Before
    <2>6. \A y \in S : m >= y
      BY <2>1, <2>5
    <2> QED BY <2>1, <2>6
  <1>6. \E m \in S : \A y \in S : m <= y
    <2>0. PICK m : m = s[1]
      OBVIOUS
    <2>1. m \in S /\ Cardinality(Before(S, R, m)) = 0
      BY <1>3, <1>4, <2>0
    <2>2. IsFiniteSet(Before(S, R, m))
      BY FS_Subset DEF Before
    <2>3. Before(S, R, m) = {}
      BY <2>1, <2>2, FS_EmptySet
    <2>4. \A y \in S : ~(y < m)
      BY <1>1, <2>1, <2>3 DEF Before
    <2>5. \A y \in S : m <= y
      BY <2>1, <2>4
    <2> QED BY <2>1, <2>5
  <1> QED BY <1>5, <1>6 DEF Max, Min

(* A part of a list is a list of the same elements.                        *)
LEMMA SublistIsList ==
  ASSUME NEW T, NEW m \in Seq(T), NEW S \in SUBSET DOMAIN m
  PROVE  Sublist(m, S) \in Seq(T)
  <1> DEFINE R == {q \in S \X S : q[1] < q[2]}
  <1>1. DOMAIN m = 1 .. Len(m) /\ Len(m) \in Nat /\ \A n \in DOMAIN m : m[n] \in T
    OBVIOUS
  <1>2. S \in SUBSET Int /\ IsFiniteSet(S)
    <2>1. IsFiniteSet(1 .. Len(m))
      BY <1>1, FS_Interval
    <2>2. S \in SUBSET (1 .. Len(m))
      BY <1>1
    <2> QED BY <2>1, <2>2, FS_Subset
  <1>3. Orders(R, S)
    BY <1>2, LessOrders DEF Less
  <1>4. PICK a : a = InOrder(S, R)
    OBVIOUS
  <1> HIDE DEF R
  <1>5. /\ Cardinality(S) \in Nat /\ DOMAIN a = 1 .. Cardinality(S) /\ a \in [1 .. Cardinality(S) -> S]
    BY <1>2, <1>3, <1>4, InOrderLists
  <1>6. Sublist(m, S) = [n \in 1 .. Cardinality(S) |-> m[a[n]]]
    BY <1>4, <1>5 DEF Sublist, R
  <1>7. \A n \in 1 .. Cardinality(S) : m[a[n]] \in T
    BY <1>1, <1>5
  <1> QED BY <1>5, <1>6, <1>7

(* The rows of the listing's photos: what the API returns of one.          *)
PhotoStatus == {"PENDING", "READY", "REJECTED", "DELETING"}
PhotoRow == [id: Nat, status: PhotoStatus, cover: BOOLEAN]

(* What MergeMedia makes of the row n before it drops the deleted ones:    *)
(* the updated row of the same id, if there is one.                        *)
MergedAt(media, updated, n) ==
  LET new == {u \in updated : u.id = media[n].id}
  IN IF new = {} THEN media[n] ELSE CHOOSE u \in new : TRUE

(* MergeMedia (mergeMedia in owner-console.tsx) keeps the rows whose       *)
(* merged status is not DELETING, each once, and gives each id at most one *)
(* row.                                                                    *)
LEMMA Merges ==
  ASSUME NEW media \in Seq(PhotoRow), NEW updated \in SUBSET PhotoRow, NEW r,
         r = MergeMedia(media, updated)
  PROVE  /\ r \in Seq(PhotoRow)
         /\ \A k \in DOMAIN r : \E n \in DOMAIN media :
              r[k] = MergedAt(media, updated, n) /\ MergedAt(media, updated, n).status # "DELETING"
         /\ \A n \in DOMAIN media : MergedAt(media, updated, n).status # "DELETING" =>
              \E k \in DOMAIN r : r[k] = MergedAt(media, updated, n)
         /\ \A n \in DOMAIN media : /\ MergedAt(media, updated, n) \in PhotoRow
                                    /\ MergedAt(media, updated, n).id = media[n].id
         /\ (\A n, p \in DOMAIN media : media[n].id = media[p].id => n = p) =>
              \A k, l \in DOMAIN r : r[k].id = r[l].id => k = l
  <1> DEFINE merged == [n \in DOMAIN media |-> MergedAt(media, updated, n)]
             kept == {n \in DOMAIN media : merged[n].status # "DELETING"}
             R == {q \in kept \X kept : q[1] < q[2]}
             at == InOrder(kept, R)
  <1>1. r = [n \in DOMAIN at |-> merged[at[n]]]
    BY DEF MergeMedia, Sublist, MergedAt
  <1>2. DOMAIN media = 1 .. Len(media) /\ Len(media) \in Nat /\ \A n \in DOMAIN media : media[n] \in PhotoRow
    OBVIOUS
  <1>3. \A n \in DOMAIN media : merged[n] \in PhotoRow /\ merged[n].id = media[n].id
                                /\ merged[n] = MergedAt(media, updated, n)
    BY <1>2 DEF MergedAt
  <1>4. kept \in SUBSET Int /\ kept \subseteq DOMAIN media /\ IsFiniteSet(kept)
    <2>1. IsFiniteSet(1 .. Len(media))
      BY <1>2, FS_Interval
    <2>2. kept \in SUBSET (1 .. Len(media))
      BY <1>2
    <2>3. IsFiniteSet(kept)
      BY <2>1, <2>2, FS_Subset
    <2> QED BY <2>2, <2>3
  <1>5. \A n \in DOMAIN media : n \in kept <=> MergedAt(media, updated, n).status # "DELETING"
    OBVIOUS
  <1> HIDE DEF kept
  <1>6. Orders(R, kept)
    <2>1. Orders(Less(kept), kept)
      BY <1>4, LessOrders
    <2>2. R = Less(kept)
      BY DEF Less
    <2> QED BY <2>1, <2>2
  <1> HIDE DEF R
  <1>7. PICK a : a = at
    OBVIOUS
  <1>8. /\ Cardinality(kept) \in Nat /\ DOMAIN a = 1 .. Cardinality(kept)
        /\ a \in [1 .. Cardinality(kept) -> kept]
        /\ \A i \in kept : \E n \in DOMAIN a : a[n] = i
        /\ \A n, p \in DOMAIN a : a[n] = a[p] => n = p
    BY <1>4, <1>6, <1>7, InOrderLists
  <1> HIDE DEF at, merged
  <1>9. DOMAIN r = DOMAIN a /\ \A k \in DOMAIN a : r[k] = merged[a[k]] /\ a[k] \in kept
    BY <1>1, <1>7, <1>8
  <1>10. r \in Seq(PhotoRow)
    <2>1. \A k \in DOMAIN a : merged[a[k]] \in PhotoRow
      BY <1>3, <1>4, <1>9
    <2>2. r = [k \in 1 .. Cardinality(kept) |-> merged[a[k]]]
      BY <1>1, <1>7, <1>8
    <2> QED BY <1>8, <2>1, <2>2
  <1>11. \A k \in DOMAIN r : \E n \in DOMAIN media :
              r[k] = MergedAt(media, updated, n) /\ MergedAt(media, updated, n).status # "DELETING"
    <2> SUFFICES ASSUME NEW k \in DOMAIN r
        PROVE  \E n \in DOMAIN media :
                 r[k] = MergedAt(media, updated, n) /\ MergedAt(media, updated, n).status # "DELETING"
      OBVIOUS
    <2>1. a[k] \in kept /\ a[k] \in DOMAIN media /\ r[k] = merged[a[k]]
      BY <1>4, <1>9
    <2> QED BY <1>3, <1>5, <2>1
  <1>12. \A n \in DOMAIN media : MergedAt(media, updated, n).status # "DELETING" =>
              \E k \in DOMAIN r : r[k] = MergedAt(media, updated, n)
    BY <1>3, <1>5, <1>8, <1>9
  <1>13. ASSUME \A n, p \in DOMAIN media : media[n].id = media[p].id => n = p
         PROVE  \A k, l \in DOMAIN r : r[k].id = r[l].id => k = l
    <2> SUFFICES ASSUME NEW k \in DOMAIN r, NEW l \in DOMAIN r, r[k].id = r[l].id PROVE k = l
      OBVIOUS
    <2>1. media[a[k]].id = media[a[l]].id /\ a[k] \in DOMAIN media /\ a[l] \in DOMAIN media
      BY <1>3, <1>4, <1>9
    <2>2. a[k] = a[l]
      BY <1>13, <2>1
    <2> QED BY <1>8, <1>9, <2>2
  <1> QED BY <1>3, <1>10, <1>11, <1>12, <1>13

-----------------------------------------------------------------------------
(* The tasks and the schedule panel.                                       *)

Places == 1 .. MaxTasks
Days == 1 .. MaxDays

PanelOps == {"view", "open", "block"}
SlotStatus == {"ABSENT", "OPEN", "BLOCKED", "HELD"}

IsReply(r) ==
  r = [verdict |-> r.verdict, version |-> r.version, id |-> r.id, list |-> r.list]
IsTask(k) ==
  k = [kind |-> k.kind, arg |-> k.arg, held |-> k.held, stage |-> k.stage, step |-> k.step,
       token |-> k.token, again |-> k.again, since |-> k.since, reply |-> k.reply]

(* A task changes one field at a time.  Its request to the panel's routes  *)
(* names a day of the panel; nothing else uses these stages.               *)
IsPanelTask(k) == k.stage = k.kind /\ 1 \in DOMAIN k.arg /\ k.arg[1] \in Days

Shapes ==
  /\ tasks = [t \in Places |-> tasks[t]]
  /\ \A t \in Places :
       /\ IsTask(tasks[t]) /\ IsReply(tasks[t].reply)
       /\ tasks[t].kind \in PanelOps \/ tasks[t].stage \in PanelOps => IsPanelTask(tasks[t])

Counted ==
  /\ slots \in [Days -> SlotStatus]
  /\ panel.day \in Days /\ panel = [day |-> panel.day, schedule |-> panel.schedule]
  /\ version \in Nat /\ upto \in Nat /\ upto <= version
  /\ \A t \in Places : tasks[t].reply.version \in Nat /\ tasks[t].reply.version <= version

(* An answer for the panel is a schedule of the day it was asked for.      *)
HasSchedule(t) ==
  OfPanel(tasks[t]) /\ tasks[t].step = "answered" /\ tasks[t].reply.verdict = "ok"

OfItsDay == \A t \in Places : HasSchedule(t) => tasks[t].reply.list.day = tasks[t].arg[1]

(* A change of a day whose answer is under way with the schedule as it is  *)
(* now, or is lost and will be an excuse.                                  *)
Tells(t, d) ==
  /\ tasks[t].kind \in {"open", "block"} /\ tasks[t].arg[1] = d /\ tasks[t].step = "answered"
  /\ \/ tasks[t].reply.verdict = "lost"
     \/ tasks[t].reply.verdict = "ok" /\ tasks[t].reply.list = Schedule(d)

(* An answer that will be shown is true, or a younger one follows that is, *)
AnswersTell ==
  \A t \in Places : HasSchedule(t) /\ upto <= tasks[t].reply.version =>
    \/ tasks[t].reply.list = Schedule(tasks[t].arg[1])
    \/ \E s \in Places : /\ Tells(s, tasks[t].arg[1])
                         /\ tasks[t].reply.version < tasks[s].reply.version

(* and so is the schedule that is shown.                                   *)
PanelTells ==
  panel.schedule.day = panel.day =>
    panel.schedule = Schedule(panel.day) \/ \E s \in Places : Tells(s, panel.day)

Told == "schedule" \notin excuses => AnswersTell /\ PanelTells

(* The inductive invariant.                                                *)
IInv == Shapes /\ Counted /\ OfItsDay /\ Told

(* An answer leaves the request as it is, and the other tasks alone.       *)
LEMMA AnswerGiven ==
  ASSUME NEW t \in Places, NEW verdict, NEW change, NEW id, NEW list,
         tasks = [s \in Places |-> tasks[s]], IsTask(tasks[t]),
         Answer(t, verdict, change, id, list)
  PROVE  /\ tasks' = [s \in Places |-> tasks'[s]]
         /\ \A s \in Places : s # t => tasks'[s] = tasks[s]
         /\ IsTask(tasks'[t]) /\ IsReply(tasks'[t].reply)
         /\ tasks'[t].kind = tasks[t].kind /\ tasks'[t].arg = tasks[t].arg
         /\ tasks'[t].stage = tasks[t].stage /\ tasks'[t].step = "answered"
         /\ tasks'[t].reply = [verdict |-> verdict, version |-> change, id |-> id, list |-> list]
  BY DEF Answer, IsTask, IsReply

-----------------------------------------------------------------------------
(* Steps that bring no news of a day: nothing that is true of the panel    *)
(* and of the answers under way is disturbed.                              *)
HasTruth(t) == tasks[t].reply.list = Schedule(tasks[t].arg[1])

(* A step that neither changes the schedule nor gives an answer for the    *)
(* panel.                                                                  *)
LEMMA NoNews ==
  ASSUME IInv, Shapes', Counted', slots' = slots, upto <= upto',
         panel' = panel \/ panel'.schedule = NoSchedule,
         "schedule" \notin excuses' => "schedule" \notin excuses,
         \A s \in Places : HasSchedule(s)' =>
           \/ HasSchedule(s) /\ tasks'[s].arg[1] = tasks[s].arg[1] /\ tasks'[s].reply = tasks[s].reply
           \/ HasTruth(s)',
         "schedule" \notin excuses' => \A s \in Places, d \in Days : Tells(s, d) =>
           Tells(s, d)' /\ tasks[s].reply.version <= tasks'[s].reply.version
  PROVE  IInv'
  <1>0. \A d : Schedule(d)' = Schedule(d)
    BY DEF Schedule
  <1>1. OfItsDay'
    <2> SUFFICES ASSUME NEW s \in Places, HasSchedule(s)'
        PROVE  tasks'[s].reply.list.day = tasks'[s].arg[1]
      BY DEF OfItsDay
    <2>1. CASE HasTruth(s)'
      BY <2>1 DEF HasTruth, Schedule
    <2>2. CASE ~HasTruth(s)'
      BY <2>2 DEF IInv, OfItsDay
    <2> QED BY <2>1, <2>2
  <1>2. \A s \in Places : /\ tasks[s].reply.version \in Nat /\ tasks'[s].reply.version \in Nat
                          /\ HasSchedule(s) => tasks[s].arg[1] \in Days
    BY DEF IInv, Counted, Shapes, IsPanelTask, HasSchedule, OfPanel, PanelOps
  <1>3. upto \in Nat /\ upto' \in Nat /\ panel.day \in Days /\ panel'.day \in Days
    BY DEF IInv, Counted
  <1>4. ASSUME "schedule" \notin excuses'
        PROVE  AnswersTell'
    <2> SUFFICES ASSUME NEW s \in Places, HasSchedule(s)', upto' <= tasks'[s].reply.version, ~HasTruth(s)'
        PROVE  \E r \in Places : /\ Tells(r, tasks[s].arg[1])'
                                 /\ tasks'[s].reply.version < tasks'[r].reply.version
      BY DEF AnswersTell, HasTruth
    <2>1. HasSchedule(s) /\ tasks'[s].arg[1] = tasks[s].arg[1] /\ tasks'[s].reply = tasks[s].reply
      OBVIOUS
    <2>2. upto <= tasks[s].reply.version
      BY <1>2, <1>3, <2>1
    <2>3. tasks[s].reply.list # Schedule(tasks[s].arg[1])
      BY <1>0, <2>1 DEF HasTruth
    <2>4. PICK r \in Places : /\ Tells(r, tasks[s].arg[1])
                              /\ tasks[s].reply.version < tasks[r].reply.version
      BY <1>4, <2>1, <2>2, <2>3 DEF IInv, Told, AnswersTell
    <2>5. PICK d \in Days : d = tasks[s].arg[1]
      BY <1>2, <2>1
    <2>6. Tells(r, d)' /\ tasks[r].reply.version <= tasks'[r].reply.version
      BY <1>4, <2>4, <2>5
    <2>7. Tells(r, tasks[s].arg[1])'
      BY <2>1, <2>5, <2>6 DEF Tells
    <2> QED BY <1>2, <2>1, <2>4, <2>6, <2>7
  <1>5. ASSUME "schedule" \notin excuses'
        PROVE  PanelTells'
    <2>1. CASE panel'.schedule = NoSchedule
      BY <1>3, <2>1 DEF PanelTells, NoSchedule, Days
    <2>2. CASE panel' = panel
      <3> SUFFICES ASSUME panel.schedule.day = panel.day, panel.schedule # Schedule(panel.day)
          PROVE  \E s \in Places : Tells(s, panel.day)'
        BY <1>0, <2>2 DEF PanelTells
      <3>1. PICK s \in Places : Tells(s, panel.day)
        BY <1>5 DEF IInv, Told, PanelTells
      <3>2. PICK d \in Days : d = panel.day
        BY <1>3
      <3>3. Tells(s, d)'
        BY <1>5, <3>1, <3>2
      <3>4. Tells(s, panel.day)'
        BY <2>2, <3>2, <3>3 DEF Tells
      <3> QED BY <3>4
    <2> QED BY <2>1, <2>2
  <1> QED BY <1>1, <1>4, <1>5 DEF IInv, Told

(* The same for a step of one task.                                        *)
Only(t) ==
  /\ tasks' = [s \in Places |-> tasks'[s]]
  /\ \A s \in Places : s # t => tasks'[s] = tasks[s]

(* A step of one task keeps the shapes, if that task's is kept, ...        *)
LEMMA OneTask ==
  ASSUME Shapes, NEW t \in Places, Only(t), IsTask(tasks'[t]), IsReply(tasks'[t].reply),
         tasks'[t].kind \in PanelOps \/ tasks'[t].stage \in PanelOps => IsPanelTask(tasks'[t])
  PROVE  Shapes'
  BY DEF Shapes, Only

(* ... and brings no news, if it does not undo what the task tells.        *)
LEMMA NoNewsOfOne ==
  ASSUME IInv, NEW t \in Places, Only(t), Shapes', slots' = slots, panel' = panel,
         version' \in Nat, version <= version', upto' \in Nat, upto <= upto', upto' <= version',
         tasks'[t].reply.version \in Nat, tasks'[t].reply.version <= version',
         "schedule" \notin excuses' => "schedule" \notin excuses,
         HasSchedule(t)' => HasTruth(t)',
         "schedule" \notin excuses' => \A d \in Days : Tells(t, d) =>
           Tells(t, d)' /\ tasks[t].reply.version <= tasks'[t].reply.version
  PROVE  IInv'
  <1>1. \A s \in Places : s # t => tasks'[s] = tasks[s]
    BY DEF Only
  <1>2. Counted'
    BY <1>1 DEF IInv, Counted
  <1>3. \A s \in Places : tasks[s].reply.version \in Nat
    BY DEF IInv, Counted
  <1>4. \A s \in Places : HasSchedule(s)' =>
          \/ HasSchedule(s) /\ tasks'[s].arg[1] = tasks[s].arg[1] /\ tasks'[s].reply = tasks[s].reply
          \/ HasTruth(s)'
    BY <1>1 DEF HasSchedule
  <1>5. \A s \in Places, d \in Days : s # t /\ Tells(s, d) =>
          Tells(s, d)' /\ tasks[s].reply.version <= tasks'[s].reply.version
    BY <1>1, <1>3 DEF Tells, Schedule
  <1>6. "schedule" \notin excuses' => \A s \in Places, d \in Days : Tells(s, d) =>
          Tells(s, d)' /\ tasks[s].reply.version <= tasks'[s].reply.version
    BY <1>5
  <1> QED BY <1>2, <1>4, <1>6, NoNews

-----------------------------------------------------------------------------
(* The API answers.                                                        *)

(* An answer that changes no slot and tells the panel nothing untrue.      *)
QuietReply(t) ==
  \E verdict, change, id, list :
    /\ Answer(t, verdict, change, id, list)
    /\ change \in {version, version + 1} /\ version' = change /\ slots' = slots
    /\ tasks[t].step = "sent" \/ verdict = "lost"
    /\ OfPanel(tasks[t]) /\ verdict = "ok" => list = Schedule(tasks[t].arg[1])

(* It, and the loss of an answer, keep the invariant.                      *)
LEMMA QuietReplyKeeps ==
  ASSUME IInv, NEW t \in Places, QuietReply(t), panel' = panel, upto' = upto, excuses' = excuses
  PROVE  IInv'
  <1>1. PICK verdict, change, id, list :
          /\ Answer(t, verdict, change, id, list)
          /\ change \in {version, version + 1} /\ version' = change /\ slots' = slots
          /\ tasks[t].step = "sent" \/ verdict = "lost"
          /\ OfPanel(tasks[t]) /\ verdict = "ok" => list = Schedule(tasks[t].arg[1])
    BY DEF QuietReply
  <1>2. /\ version \in Nat /\ upto \in Nat /\ upto <= version
        /\ tasks[t].reply.version \in Nat /\ tasks[t].reply.version <= version
    BY DEF IInv, Counted
  <1>3. tasks = [s \in Places |-> tasks[s]] /\ IsTask(tasks[t])
    BY DEF IInv, Shapes
  <1>4. /\ Only(t) /\ IsTask(tasks'[t]) /\ IsReply(tasks'[t].reply)
        /\ tasks'[t].kind = tasks[t].kind /\ tasks'[t].arg = tasks[t].arg
        /\ tasks'[t].stage = tasks[t].stage /\ tasks'[t].step = "answered"
        /\ tasks'[t].reply = [verdict |-> verdict, version |-> change, id |-> id, list |-> list]
    BY <1>1, <1>3, AnswerGiven DEF Only
  <1>5. Shapes'
    BY <1>4, OneTask DEF IInv, Shapes, IsPanelTask
  <1>6. HasSchedule(t)' => HasTruth(t)'
    BY <1>1, <1>4 DEF HasSchedule, HasTruth, OfPanel, Schedule
  <1>7. \A d \in Days : Tells(t, d) => Tells(t, d)' /\ tasks[t].reply.version <= tasks'[t].reply.version
    BY <1>1, <1>2, <1>4 DEF Tells
  <1>8. /\ version' \in Nat /\ version <= version' /\ upto' \in Nat /\ upto <= upto' /\ upto' <= version'
        /\ tasks'[t].reply.version \in Nat /\ tasks'[t].reply.version <= version'
    BY <1>1, <1>2, <1>4
  <1> QED BY <1>1, <1>4, <1>5, <1>6, <1>7, <1>8, NoNewsOfOne

(* A change of a slot tells its day, and is younger than all that is told. *)
SlotChanged(t) ==
  \E status \in {"OPEN", "BLOCKED"}, d \in Days :
    /\ tasks[t].kind \in {"open", "block"} /\ tasks[t].step = "sent" /\ tasks[t].arg[1] = d
    /\ slots' = [slots EXCEPT ![d] = status] /\ version' = version + 1
    /\ Answer(t, "ok", version + 1, d, [day |-> d, status |-> status])

(* A change of a slot that was asked for from here.                        *)
LEMMA SlotChangedKeeps ==
  ASSUME IInv, NEW t \in Places, SlotChanged(t), panel' = panel, upto' = upto, excuses' = excuses
  PROVE  IInv'
  <1>1. PICK status \in {"OPEN", "BLOCKED"}, d \in Days :
          /\ tasks[t].kind \in {"open", "block"} /\ tasks[t].step = "sent" /\ tasks[t].arg[1] = d
          /\ slots' = [slots EXCEPT ![d] = status] /\ version' = version + 1
          /\ Answer(t, "ok", version + 1, d, [day |-> d, status |-> status])
    BY DEF SlotChanged
  <1>2. /\ version \in Nat /\ upto \in Nat /\ upto <= version /\ slots \in [Days -> SlotStatus]
        /\ \A s \in Places : tasks[s].reply.version \in Nat /\ tasks[s].reply.version <= version
    BY DEF IInv, Counted
  <1>3. tasks = [s \in Places |-> tasks[s]] /\ IsTask(tasks[t])
    BY DEF IInv, Shapes
  <1>4. /\ Only(t) /\ IsTask(tasks'[t]) /\ IsReply(tasks'[t].reply)
        /\ tasks'[t].kind = tasks[t].kind /\ tasks'[t].arg = tasks[t].arg
        /\ tasks'[t].stage = tasks[t].stage /\ tasks'[t].step = "answered"
        /\ tasks'[t].reply = [verdict |-> "ok", version |-> version + 1, id |-> d,
                              list |-> [day |-> d, status |-> status]]
    BY <1>1, <1>3, AnswerGiven DEF Only
  <1>5. Shapes'
    BY <1>4, OneTask DEF IInv, Shapes, IsPanelTask
  <1>6. slots' \in [Days -> SlotStatus] /\ slots'[d] = status
        /\ \A e \in Days : e # d => Schedule(e)' = Schedule(e)
    BY <1>1, <1>2 DEF Schedule, SlotStatus
  <1>7. Counted'
    BY <1>1, <1>2, <1>4, <1>6 DEF IInv, Counted, Only
  <1>8. Tells(t, d)' /\ tasks'[t].reply.version = version + 1 /\ HasTruth(t)'
    BY <1>1, <1>4, <1>6 DEF Tells, Schedule, HasTruth
  <1>9. OfItsDay'
    <2> SUFFICES ASSUME NEW s \in Places, HasSchedule(s)'
        PROVE  tasks'[s].reply.list.day = tasks'[s].arg[1]
      BY DEF OfItsDay
    <2>1. CASE s = t
      BY <1>8, <2>1 DEF HasTruth, Schedule
    <2>2. CASE s # t
      BY <1>4, <2>2 DEF IInv, OfItsDay, HasSchedule, Only
    <2> QED BY <2>1, <2>2
  <1>10. \A s \in Places, e \in Days : e # d /\ Tells(s, e) => s # t /\ Tells(s, e)'
    BY <1>1, <1>4, <1>6 DEF Tells, Only
  <1>11. ASSUME "schedule" \notin excuses'
         PROVE  AnswersTell'
    <2> SUFFICES ASSUME NEW s \in Places, HasSchedule(s)', upto' <= tasks'[s].reply.version, ~HasTruth(s)'
        PROVE  \E r \in Places : /\ Tells(r, tasks[s].arg[1])'
                                 /\ tasks'[s].reply.version < tasks'[r].reply.version
      BY DEF AnswersTell, HasTruth
    <2>1. s # t /\ tasks'[s] = tasks[s] /\ HasSchedule(s)
      BY <1>4, <1>8 DEF HasSchedule, Only
    <2>2. CASE tasks[s].arg[1] = d
      <3>1. Tells(t, tasks[s].arg[1])'
        BY <1>8, <2>1, <2>2 DEF Tells
      <3> QED BY <1>2, <1>8, <2>1, <3>1
    <2>3. CASE tasks[s].arg[1] # d
      <3>1. PICK e \in Days : e = tasks[s].arg[1]
        BY <2>1 DEF IInv, Shapes, IsPanelTask, HasSchedule, OfPanel, PanelOps
      <3>2. tasks[s].reply.list # Schedule(e)
        BY <1>6, <2>1, <2>3, <3>1 DEF HasTruth, Schedule
      <3>3. PICK r \in Places : Tells(r, e) /\ tasks[s].reply.version < tasks[r].reply.version
        BY <1>11, <2>1, <3>1, <3>2 DEF IInv, Told, AnswersTell
      <3>4. r # t /\ Tells(r, e)'
        BY <1>10, <2>3, <3>1, <3>3
      <3>5. tasks'[r] = tasks[r]
        BY <1>4, <3>4 DEF Only
      <3>6. Tells(r, tasks[s].arg[1])'
        BY <2>1, <3>1, <3>4 DEF Tells
      <3> QED BY <2>1, <3>3, <3>5, <3>6
    <2> QED BY <2>2, <2>3
  <1>12. ASSUME "schedule" \notin excuses'
         PROVE  PanelTells'
    <2>1. PICK e \in Days : e = panel.day
      BY DEF IInv, Counted
    <2> SUFFICES ASSUME panel.schedule.day = panel.day, panel.schedule # Schedule(e)'
        PROVE  \E s \in Places : Tells(s, e)'
      BY <2>1 DEF PanelTells, Schedule, Tells
    <2>2. CASE e = d
      BY <1>8, <2>2 DEF Tells
    <2>3. CASE e # d
      <3>1. PICK s \in Places : Tells(s, e)
        BY <1>6, <1>12, <2>1, <2>3 DEF IInv, Told, PanelTells
      <3> QED BY <1>10, <2>3, <3>1
    <2> QED BY <2>2, <2>3
  <1> QED BY <1>5, <1>7, <1>9, <1>11, <1>12 DEF IInv, Told

(* What a read and a change answer to a task that is not the panel's, ...  *)
LEMMA QuietKinds ==
  ASSUME NEW t \in Places, tasks[t].step = "sent", NEW verdict, NEW id, NEW list
  PROVE  /\ ~OfPanel(tasks[t]) \/ verdict # "ok" =>
              (Reads(t, verdict, id, list) /\ version' = version => QuietReply(t))
         /\ ~OfPanel(tasks[t]) /\ slots' = slots => (Changes(t, id, list) => QuietReply(t))
  <1>1. ASSUME Reads(t, verdict, id, list), ~OfPanel(tasks[t]) \/ verdict # "ok"
        PROVE  QuietReply(t)
    <2>1. Answer(t, verdict, version, id, list) /\ slots' = slots /\ version' = version
      BY <1>1 DEF Reads, server
    <2> QED BY <1>1, <2>1 DEF QuietReply
  <1>2. ASSUME Changes(t, id, list), ~OfPanel(tasks[t]), slots' = slots
        PROVE  QuietReply(t)
    <2>1. Answer(t, "ok", version + 1, id, list) /\ version' = version + 1
      BY <1>2 DEF Changes
    <2> QED BY <1>2, <2>1 DEF QuietReply
  <1> QED BY <1>1, <1>2

(* ... and every handler of the API does one of the two.                   *)
LEMMA ServeCases ==
  ASSUME IInv, NEW t \in Places, Serve(t)
  PROVE  QuietReply(t) \/ SlotChanged(t)
  <1> DEFINE arg == tasks[t].arg
             stage == tasks[t].stage
  <1>0. tasks[t].step = "sent" /\ tasks[t].reply.version \in Nat
    BY DEF Serve, IInv, Counted
  <1>1. OfPanel(tasks[t]) => /\ stage = tasks[t].kind /\ stage \in PanelOps
                             /\ arg[1] \in Days
    BY DEF IInv, Shapes, IsPanelTask, OfPanel, PanelOps
  <1>2. stage \in PanelOps => OfPanel(tasks[t]) /\ stage = tasks[t].kind
    BY DEF IInv, Shapes, IsPanelTask, OfPanel, PanelOps
  <1>3. ASSUME Refuse(t) PROVE QuietReply(t)
    <2>1. Reads(t, "refused", 0, Nothing) /\ version' = version
      BY <1>3 DEF Refuse, Reads
    <2> QED BY <1>0, <2>1, QuietKinds
  <1>4. CASE Unauthorized(t)
    <2>1. Reads(t, "unauthorized", 0, Nothing) /\ version' = version
      BY <1>4 DEF Unauthorized, Reads
    <2> QED BY <1>0, <2>1, QuietKinds
  <1>5. CASE stage = "list" /\ ListOwned(t)
    <2>1. Reads(t, "ok", 0, Everything) /\ version' = version /\ ~OfPanel(tasks[t])
      BY <1>1, <1>5 DEF ListOwned, Reads, PanelOps
    <2> QED BY <1>0, <2>1, QuietKinds
  <1>6. CASE stage = "intent" /\ CreateUploadIntent(t)
    <2>1. Refuse(t) \/ (Changes(t, Len(images) + 1, Nothing) /\ slots' = slots)
      BY <1>6 DEF CreateUploadIntent
    <2>2. ~OfPanel(tasks[t])
      BY <1>1, <1>6 DEF PanelOps
    <2> QED BY <1>0, <1>3, <2>1, <2>2, QuietKinds
  <1>7. CASE stage = "finalize" /\ Finalize(t, arg[1])
    <2>1. \/ Refuse(t)
          \/ Changes(t, arg[1], Nothing) /\ slots' = slots
          \/ /\ version' = version + 1 /\ slots' = slots
             /\ Answer(t, "refused", version + 1, 0, Nothing)
      BY <1>7 DEF Finalize
    <2>2. ~OfPanel(tasks[t])
      BY <1>1, <1>7 DEF PanelOps
    <2>3. CASE /\ version' = version + 1 /\ slots' = slots
               /\ Answer(t, "refused", version + 1, 0, Nothing)
      BY <1>0, <2>2, <2>3 DEF QuietReply
    <2> QED BY <1>0, <1>3, <2>1, <2>2, <2>3, QuietKinds
  <1>8. CASE stage = "cover" /\ SetCover(t, arg)
    <2>1. Refuse(t) \/ (Changes(t, cover', Nothing) /\ slots' = slots)
      BY <1>8 DEF SetCover
    <2>2. ~OfPanel(tasks[t])
      BY <1>1, <1>8 DEF PanelOps
    <2>3. PICK id : id = cover'
      OBVIOUS
    <2> QED BY <1>0, <1>3, <2>1, <2>2, <2>3, QuietKinds
  <1>9. CASE stage = "reorder" /\ Reorder(t, arg)
    <2>1. Refuse(t) \/ (Changes(t, cover, Nothing) /\ slots' = slots)
      BY <1>9 DEF Reorder
    <2>2. ~OfPanel(tasks[t])
      BY <1>1, <1>9 DEF PanelOps
    <2> QED BY <1>0, <1>3, <2>1, <2>2, QuietKinds
  <1>10. CASE stage = "delete" /\ DeleteMedia(t, arg[1])
    <2>1. \/ Reads(t, "ok", arg[1], Nothing) /\ version' = version
          \/ Changes(t, arg[1], Nothing) /\ slots' = slots
      BY <1>10 DEF DeleteMedia, Reads
    <2>2. ~OfPanel(tasks[t])
      BY <1>1, <1>10 DEF PanelOps
    <2> QED BY <1>0, <2>1, <2>2, QuietKinds
  <1>11. CASE stage = "checklist" /\ Checklist(t)
    <2>1. PICK verdict : verdict = IF Eligible THEN "ok" ELSE "refused"
      OBVIOUS
    <2>2. Reads(t, verdict, 0, Nothing) /\ version' = version /\ ~OfPanel(tasks[t])
      BY <1>1, <1>11, <2>1 DEF Checklist, Reads, PanelOps
    <2> QED BY <1>0, <2>2, QuietKinds
  <1>12. CASE stage = "publish" /\ Publish(t)
    <2>1. Refuse(t) \/ (Changes(t, 0, [Everything EXCEPT !.published = TRUE]) /\ slots' = slots)
      BY <1>12 DEF Publish
    <2>2. ~OfPanel(tasks[t])
      BY <1>1, <1>12 DEF PanelOps
    <2> QED BY <1>0, <1>3, <2>1, <2>2, QuietKinds
  <1>13. CASE stage = "create" /\ Create(t)
    <2>1. Changes(t, made + 1, Nothing) /\ slots' = slots
      BY <1>13 DEF Create
    <2>2. ~OfPanel(tasks[t])
      BY <1>1, <1>13 DEF PanelOps
    <2> QED BY <1>0, <2>1, <2>2, QuietKinds
  <1>14. CASE stage = "view" /\ Reads(t, "ok", arg[1], Schedule(arg[1]))
    <2>1. /\ Answer(t, "ok", version, arg[1], Schedule(arg[1])) /\ slots' = slots /\ version' = version
      BY <1>14 DEF Reads, server
    <2> QED BY <1>0, <2>1 DEF QuietReply
  <1>15. ASSUME NEW status \in {"OPEN", "BLOCKED"}, stage \in {"open", "block"},
                ChangeSlot(t, arg[1], status)
         PROVE  QuietReply(t) \/ SlotChanged(t)
    <2>1. tasks[t].kind \in {"open", "block"} /\ arg[1] \in Days
      BY <1>1, <1>2, <1>15 DEF PanelOps
    <2>2. \/ Refuse(t)
          \/ /\ slots' = [slots EXCEPT ![arg[1]] = status]
             /\ Changes(t, arg[1], [day |-> arg[1], status |-> status])
      BY <1>15 DEF ChangeSlot
    <2>3. CASE /\ slots' = [slots EXCEPT ![arg[1]] = status]
               /\ Changes(t, arg[1], [day |-> arg[1], status |-> status])
      BY <1>0, <2>1, <2>3 DEF Changes, SlotChanged
    <2> QED BY <1>3, <2>2, <2>3
  <1> QED
    <2>1. CASE \/ stage = "open" /\ ChangeSlot(t, arg[1], "OPEN")
               \/ stage = "block" /\ ChangeSlot(t, arg[1], "BLOCKED")
      BY <1>15, <2>1
    <2> QED BY <1>4, <1>5, <1>6, <1>7, <1>8, <1>9, <1>10, <1>11, <1>12, <1>13, <1>14, <2>1 DEF Serve

(* A handler of the API, and the loss of a request or an answer.           *)
LEMMA ServeKeeps ==
  ASSUME IInv, NEW t \in Places, Serve(t)
  PROVE  IInv'
  <1>1. panel' = panel /\ upto' = upto /\ excuses' = excuses
    BY DEF Serve
  <1> QED BY <1>1, ServeCases, QuietReplyKeeps, SlotChangedKeeps

(* An answer that is lost.                                                 *)
LEMMA LoseKeeps ==
  ASSUME IInv, NEW t \in Places, Lose(t)
  PROVE  IInv'
  <1>1. Answer(t, "lost", version, 0, Nothing) /\ version' = version /\ slots' = slots
    BY DEF Lose, server, history
  <1>2. panel' = panel /\ upto' = upto /\ excuses' = excuses
    BY DEF Lose, history
  <1>3. QuietReply(t)
    BY <1>1 DEF QuietReply
  <1> QED BY <1>2, <1>3, QuietReplyKeeps

-----------------------------------------------------------------------------
(* Tasks begin, go on and end.                                             *)

(* A place that is free has no kind, no stage and no answer.               *)
LEMMA IdleTask ==
  /\ IsTask(Idle) /\ IsReply(Idle.reply) /\ Idle.kind = "idle" /\ Idle.stage = "none"
  /\ Idle.step = "none" /\ Idle.reply = NoReply
  /\ IsReply(NoReply) /\ NoReply.version = 0 /\ NoReply.verdict = "none"
  BY DEF Idle, NoReply, IsTask, IsReply

(* A new task has sent its request, for a day if it is the panel's.        *)
LEMMA TaskMade ==
  ASSUME NEW kind, NEW arg, NEW token, NEW k, k = Task(kind, arg, token),
         kind \in PanelOps => 1 \in DOMAIN arg /\ arg[1] \in Days
  PROVE  /\ IsTask(k) /\ k.reply = NoReply /\ k.kind = kind /\ k.step = "sent"
         /\ k.kind \in PanelOps \/ k.stage \in PanelOps => IsPanelTask(k)
  <1>1. PICK stage : stage = FirstStage(kind)
    OBVIOUS
  <1>2. k = [Idle EXCEPT !.kind = kind, !.arg = arg, !.held = token, !.token = token,
                         !.stage = stage, !.step = "sent"]
    BY <1>1 DEF Task
  <1>3. /\ IsTask(k) /\ k.reply = NoReply /\ k.kind = kind /\ k.arg = arg /\ k.step = "sent"
        /\ k.stage = stage
    BY <1>2, IdleTask DEF IsTask
  <1>4. kind \in PanelOps \/ stage \in PanelOps => kind \in PanelOps /\ stage = kind
    BY <1>1 DEF FirstStage, PanelOps
  <1> QED BY <1>3, <1>4 DEF IsPanelTask

(* A task that has no answer, or an old one, becomes one without an answer. *)
LEMMA TaskSent ==
  ASSUME IInv, NEW t \in Places, NEW k, tasks' = [tasks EXCEPT ![t] = k],
         IsTask(k), k.reply = NoReply, k.step # "answered",
         k.kind \in PanelOps \/ k.stage \in PanelOps => IsPanelTask(k),
         slots' = slots, panel' = panel, version' = version,
         upto' \in Nat, upto <= upto', upto' <= version,
         "schedule" \notin excuses' => "schedule" \notin excuses,
         "schedule" \notin excuses' => \A d \in Days : ~Tells(t, d)
  PROVE  IInv'
  <1>1. Only(t) /\ tasks'[t] = k
    BY DEF IInv, Shapes, Only
  <1>2. IsReply(tasks'[t].reply) /\ tasks'[t].reply.version = 0
    BY <1>1, IdleTask
  <1>3. Shapes'
    BY <1>1, <1>2, OneTask DEF IInv, IsPanelTask
  <1>4. version \in Nat
    BY DEF IInv, Counted
  <1>5. ~HasSchedule(t)'
    BY <1>1 DEF HasSchedule
  <1> QED BY <1>1, <1>2, <1>3, <1>4, <1>5, NoNewsOfOne

(* The buttons of the panel are for the day it stands at.                  *)
LEMMA OfferedArgs ==
  ASSUME NEW kind, NEW arg, <<kind, arg>> \in Offered, kind \in PanelOps
  PROVE  arg = <<panel.day, TRUE>>
  BY DEF Offered, PanelOps

(* A button is pressed.                                                    *)
LEMMA ActKeeps ==
  ASSUME IInv, NEW t \in Places, NEW kind, NEW arg, Act(t, kind, arg)
  PROVE  IInv'
  <1>1. /\ tasks[t] = Idle /\ tasks' = [tasks EXCEPT ![t] = Task(kind, arg, auth)]
        /\ slots' = slots /\ panel' = panel /\ version' = version /\ upto' = upto /\ excuses' = excuses
    BY DEF Act, IsFree, server, history
  <1>2. kind \in PanelOps => 1 \in DOMAIN arg /\ arg[1] \in Days
    <2>1. <<kind, arg>> \in Offered /\ panel.day \in Days
      BY DEF Act, IInv, Counted
    <2>2. PICK day \in Days : day = panel.day
      BY <2>1
    <2>3. 1 \in DOMAIN <<day, TRUE>> /\ <<day, TRUE>>[1] = day
      OBVIOUS
    <2>4. kind \in PanelOps => arg = <<panel.day, TRUE>>
      BY <2>1, OfferedArgs
    <2> QED BY <2>2, <2>3, <2>4
  <1>3. PICK k : k = Task(kind, arg, auth)
    OBVIOUS
  <1>4. /\ IsTask(k) /\ k.reply = NoReply /\ k.step = "sent"
        /\ k.kind \in PanelOps \/ k.stage \in PanelOps => IsPanelTask(k)
    BY <1>2, <1>3, TaskMade
  <1>5. \A d \in Days : ~Tells(t, d)
    BY <1>1, IdleTask DEF Tells
  <1>6. upto' \in Nat /\ upto <= upto' /\ upto' <= version
    BY <1>1 DEF IInv, Counted
  <1> QED BY <1>1, <1>3, <1>4, <1>5, <1>6, TaskSent

(* An upload or a publication goes on; it tells the panel nothing.         *)
LEMMA ReceiveStepKeeps ==
  ASSUME IInv, NEW t \in Places, ReceiveStep(t)
  PROVE  IInv'
  <1>1. /\ slots' = slots /\ panel' = panel /\ version' = version /\ upto' = upto /\ excuses' = excuses
        /\ tasks[t].stage \in {"intent", "checklist"}
    BY DEF ReceiveStep, server, history
  <1>2. tasks = [s \in Places |-> tasks[s]] /\ IsTask(tasks[t]) /\ ~OfPanel(tasks[t])
    BY <1>1 DEF IInv, Shapes, IsPanelTask, OfPanel, PanelOps
  <1>3. PICK stage \in {"finalize", "publish"} : \E arg, token, again : GoOn(t, stage, arg, token, again)
    BY DEF ReceiveStep
  <1>4. PICK arg, token, again : GoOn(t, stage, arg, token, again)
    BY <1>3
  <1>5. PICK k : k = [tasks[t] EXCEPT !.stage = stage, !.arg = arg, !.step = "sent", !.token = token,
                                      !.again = again, !.reply = NoReply]
    OBVIOUS
  <1>6. /\ IsTask(k) /\ k.reply = NoReply /\ k.step = "sent" /\ k.kind = tasks[t].kind /\ k.stage = stage
    BY <1>2, <1>5 DEF IsTask
  <1>7. tasks' = [tasks EXCEPT ![t] = k]
    BY <1>2, <1>4, <1>5 DEF GoOn
  <1>8. ~(k.kind \in PanelOps \/ k.stage \in PanelOps)
    BY <1>2, <1>6 DEF OfPanel, PanelOps
  <1>9. \A d \in Days : ~Tells(t, d)
    BY <1>2 DEF Tells, OfPanel
  <1>10. upto' \in Nat /\ upto <= upto' /\ upto' <= version
    BY <1>1 DEF IInv, Counted
  <1> QED BY <1>1, <1>6, <1>7, <1>8, <1>9, <1>10, TaskSent

(* A refused token tells nothing: the task waits for the refresh.          *)
LEMMA Receive401Keeps ==
  ASSUME IInv, NEW t \in Places, Receive401(t)
  PROVE  IInv'
  <1>1. /\ slots' = slots /\ panel' = panel /\ version' = version /\ upto' = upto /\ excuses' = excuses
        /\ tasks[t].reply.verdict = "unauthorized"
        /\ tasks' = [tasks EXCEPT ![t].step = "renewing", ![t].reply = NoReply]
    BY DEF Receive401, server, history
  <1>2. /\ tasks = [s \in Places |-> tasks[s]] /\ IsTask(tasks[t])
        /\ tasks[t].kind \in PanelOps \/ tasks[t].stage \in PanelOps => IsPanelTask(tasks[t])
    BY DEF IInv, Shapes
  <1>3. PICK k : k = [tasks[t] EXCEPT !.step = "renewing", !.reply = NoReply]
    OBVIOUS
  <1>4. /\ IsTask(k) /\ k.reply = NoReply /\ k.step = "renewing"
        /\ k.kind = tasks[t].kind /\ k.stage = tasks[t].stage /\ k.arg = tasks[t].arg
    BY <1>2, <1>3 DEF IsTask
  <1>5. tasks' = [tasks EXCEPT ![t] = k]
    BY <1>1, <1>2, <1>3
  <1>6. k.kind \in PanelOps \/ k.stage \in PanelOps => IsPanelTask(k)
    BY <1>2, <1>4 DEF IsPanelTask
  <1>7. \A d \in Days : ~Tells(t, d)
    BY <1>1 DEF Tells
  <1>8. upto' \in Nat /\ upto <= upto' /\ upto' <= version
    BY <1>1 DEF IInv, Counted
  <1> QED BY <1>1, <1>4, <1>5, <1>6, <1>7, <1>8, TaskSent

(* The younger of two versions.                                            *)
LEMMA MaxOfTwo ==
  ASSUME NEW x \in Nat, NEW y \in Nat
  PROVE  /\ Max({x, y}) \in Nat /\ x <= Max({x, y}) /\ y <= Max({x, y})
         /\ Max({x, y}) \in {x, y}
  <1> DEFINE S == {x, y}
  <1>1. \E m \in S : \A z \in S : m >= z
    OBVIOUS
  <1>2. Max(S) \in S /\ \A z \in S : Max(S) >= z
    BY <1>1 DEF Max
  <1> QED BY <1>2

(* A task ends and the panel keeps its day.                                *)
LEMMA TaskEnds ==
  ASSUME IInv, NEW t \in Places, tasks' = [tasks EXCEPT ![t] = Idle],
         slots' = slots, version' = version, panel'.day = panel.day,
         panel' = [day |-> panel'.day, schedule |-> panel'.schedule],
         upto' \in Nat, upto' <= version
  PROVE  /\ Shapes' /\ Counted' /\ OfItsDay' /\ Only(t)
         /\ ~HasSchedule(t)' /\ \A d : ~Tells(t, d)'
  <1>1. Only(t) /\ tasks'[t] = Idle
    BY DEF IInv, Shapes, Only
  <1>2. Shapes'
    <2>1. ~(tasks'[t].kind \in PanelOps \/ tasks'[t].stage \in PanelOps)
      BY <1>1, IdleTask DEF PanelOps
    <2>2. IsTask(tasks'[t]) /\ IsReply(tasks'[t].reply)
      BY <1>1, IdleTask
    <2> QED BY <1>1, <2>1, <2>2, OneTask DEF IInv
  <1>3. Counted'
    BY <1>1, IdleTask DEF IInv, Counted, Only
  <1>4. ~HasSchedule(t)' /\ \A d : ~Tells(t, d)'
    BY <1>1, IdleTask DEF HasSchedule, Tells
  <1>5. OfItsDay'
    <2> SUFFICES ASSUME NEW s \in Places, HasSchedule(s)'
        PROVE  tasks'[s].reply.list.day = tasks'[s].arg[1]
      BY DEF OfItsDay
    <2>1. s # t /\ tasks'[s] = tasks[s]
      BY <1>1, <1>4 DEF Only
    <2> QED BY <2>1 DEF IInv, OfItsDay, HasSchedule
  <1> QED BY <1>1, <1>2, <1>3, <1>4, <1>5

(* The answer of the panel's own task is shown: it is not older than what  *)
(* has been told, so that it is true or a younger one follows.             *)
LEMMA ShownKeeps ==
  ASSUME IInv, NEW t \in Places, HasSchedule(t), tasks' = [tasks EXCEPT ![t] = Idle],
         slots' = slots, version' = version, panel' = [panel EXCEPT !.schedule = tasks[t].reply.list],
         upto <= tasks[t].reply.version, upto' = tasks[t].reply.version,
         "schedule" \notin excuses
  PROVE  IInv'
  <1>0. /\ panel.day \in Days /\ panel = [day |-> panel.day, schedule |-> panel.schedule]
        /\ upto \in Nat /\ version \in Nat
        /\ \A s \in Places : tasks[s].reply.version \in Nat /\ tasks[s].reply.version <= version
    BY DEF IInv, Counted
  <1>1. panel'.day = panel.day /\ panel'.schedule = tasks[t].reply.list
        /\ panel' = [day |-> panel'.day, schedule |-> panel'.schedule]
    BY <1>0
  <1>2. /\ Shapes' /\ Counted' /\ OfItsDay' /\ Only(t)
        /\ ~HasSchedule(t)' /\ \A d : ~Tells(t, d)'
    BY <1>0, <1>1, TaskEnds
  <1>3. \A s \in Places : \A d : s # t /\ Tells(s, d) => Tells(s, d)' /\ tasks'[s] = tasks[s]
    BY <1>2 DEF Tells, Schedule, Only
  <1>4. AnswersTell /\ PanelTells
    BY DEF IInv, Told
  <1>5. AnswersTell'
    <2> SUFFICES ASSUME NEW s \in Places, HasSchedule(s)', upto' <= tasks'[s].reply.version,
                        ~HasTruth(s)'
        PROVE  \E r \in Places : /\ Tells(r, tasks[s].arg[1])'
                                 /\ tasks'[s].reply.version < tasks'[r].reply.version
      BY DEF AnswersTell, HasTruth
    <2>1. s # t /\ tasks'[s] = tasks[s]
      BY <1>2 DEF Only
    <2>2. HasSchedule(s) /\ ~HasTruth(s) /\ upto <= tasks[s].reply.version
      BY <1>0, <2>1 DEF HasSchedule, HasTruth, Schedule
    <2>3. PICK r \in Places : /\ Tells(r, tasks[s].arg[1])
                              /\ tasks[s].reply.version < tasks[r].reply.version
      BY <1>4, <2>2 DEF AnswersTell, HasTruth
    <2>4. r # t
      BY <1>0, <2>1, <2>3
    <2>5. PICK d : d = tasks[s].arg[1]
      OBVIOUS
    <2>6. Tells(r, d)' /\ tasks'[r] = tasks[r]
      BY <1>3, <2>3, <2>4, <2>5
    <2>7. Tells(r, tasks[s].arg[1])'
      BY <2>1, <2>5, <2>6 DEF Tells
    <2> QED BY <2>1, <2>3, <2>6, <2>7
  <1>6. PanelTells'
    <2>1. PICK d : d = panel.day
      OBVIOUS
    <2> SUFFICES ASSUME tasks[t].reply.list.day = d, tasks[t].reply.list # Schedule(d)
        PROVE  \E s \in Places : Tells(s, d)'
      BY <1>1, <2>1 DEF PanelTells, Schedule, Tells
    <2>2. tasks[t].arg[1] = d
      BY DEF IInv, OfItsDay
    <2>3. PICK s \in Places : Tells(s, d) /\ tasks[t].reply.version < tasks[s].reply.version
      BY <1>4, <2>2 DEF AnswersTell
    <2>4. s # t
      BY <1>0, <2>3
    <2> QED BY <1>3, <2>3, <2>4
  <1> QED BY <1>2, <1>5, <1>6 DEF IInv, Told

(* A result is shown: the panel's, or another that leaves the panel alone. *)
LEMMA ReceiveResultKeeps ==
  ASSUME IInv, NEW t \in Places, ReceiveResult(t)
  PROVE  IInv'
  <1> DEFINE k == tasks[t]
  <1>1. /\ k.step = "answered" /\ k.reply.verdict = "ok" /\ panel' = PanelAfter(k)
        /\ tasks' = [tasks EXCEPT ![t] = Idle] /\ slots' = slots /\ version' = version
        /\ upto' = Max({upto, k.reply.version})
        /\ excuses' = excuses \cup (IF Crossed(k) THEN {"crossed"} ELSE {})
                              \cup (IF OfPanel(k) /\ Misses(k) THEN {"schedule"} ELSE {})
    BY DEF ReceiveResult, Ends, server
  <1>2. /\ upto \in Nat /\ version \in Nat /\ k.reply.version \in Nat /\ k.reply.version <= version
        /\ upto <= version /\ panel = [day |-> panel.day, schedule |-> panel.schedule]
    BY DEF IInv, Counted
  <1>3. upto' \in Nat /\ upto <= upto' /\ upto' <= version /\ upto' \in {upto, k.reply.version}
        /\ k.reply.version <= upto'
    BY <1>1, <1>2, MaxOfTwo
  <1>4. "schedule" \notin excuses' => "schedule" \notin excuses /\ ~(OfPanel(k) /\ Misses(k))
    BY <1>1
  <1>5. CASE ~OfPanel(k)
    <2>1. panel' = panel /\ \A d \in Days : ~Tells(t, d)
      BY <1>1, <1>5 DEF PanelAfter, Asked, Tells, OfPanel
    <2>2. "schedule" \notin excuses' => "schedule" \notin excuses
      BY <1>4
    <2>3. ~(Idle.kind \in PanelOps \/ Idle.stage \in PanelOps) /\ Idle.step # "answered"
      BY IdleTask DEF PanelOps
    <2> QED BY <1>1, <1>3, <2>1, <2>2, <2>3, IdleTask, TaskSent
  <1>6. CASE OfPanel(k) /\ Misses(k)
    <2>1. panel'.day = panel.day /\ panel' = [day |-> panel'.day, schedule |-> panel'.schedule]
      BY <1>1, <1>2 DEF PanelAfter
    <2>2. Shapes' /\ Counted' /\ OfItsDay'
      BY <1>1, <1>3, <2>1, TaskEnds
    <2>3. "schedule" \in excuses'
      BY <1>4, <1>6
    <2> QED BY <2>2, <2>3 DEF IInv, Told
  <1>7. CASE OfPanel(k) /\ ~Misses(k)
    <2>1. HasSchedule(t) /\ Asked(k) /\ upto <= k.reply.version
      BY <1>1, <1>2, <1>7 DEF HasSchedule, Misses
    <2>2. panel' = [panel EXCEPT !.schedule = k.reply.list] /\ upto' = k.reply.version
      BY <1>1, <1>2, <1>3, <2>1 DEF PanelAfter
    <2>3. CASE "schedule" \notin excuses
      BY <1>1, <2>1, <2>2, <2>3, ShownKeeps
    <2>4. CASE "schedule" \in excuses
      <3>1. panel'.day = panel.day /\ panel' = [day |-> panel'.day, schedule |-> panel'.schedule]
        BY <1>1, <1>2 DEF PanelAfter
      <3>2. Shapes' /\ Counted' /\ OfItsDay'
        BY <1>1, <1>3, <3>1, TaskEnds
      <3>3. "schedule" \in excuses'
        BY <1>1, <2>4
      <3> QED BY <3>2, <3>3 DEF IInv, Told
    <2> QED BY <2>3, <2>4
  <1> QED BY <1>5, <1>6, <1>7

(* What is left of a task that fails: nothing, or a request for the list.  *)
LEMMA FailureLeaves ==
  ASSUME NEW k, NEW r, IsTask(k), r = AfterFailure(k)
  PROVE  /\ IsTask(r) /\ r.reply = NoReply /\ r.step # "answered"
         /\ ~(r.kind \in PanelOps \/ r.stage \in PanelOps)
  <1>1. CASE Reloads(k)
    <2>1. r = [k EXCEPT !.stage = "list", !.step = "sent", !.token = k.held,
                        !.again = FALSE, !.reply = NoReply]
      BY <1>1 DEF AfterFailure
    <2>2. IsTask(r) /\ r.reply = NoReply /\ r.step = "sent" /\ r.stage = "list" /\ r.kind = k.kind
      BY <2>1 DEF IsTask
    <2> QED BY <1>1, <2>2 DEF Reloads, OfPanel, PanelOps
  <1>2. CASE ~Reloads(k)
    <2>1. r = Idle
      BY <1>2 DEF AfterFailure
    <2> QED BY <2>1, IdleTask DEF PanelOps
  <1> QED BY <1>1, <1>2

(* A panel that is gone leaves its tasks, whose answers will not be shown. *)
LEMMA Unmounted ==
  ASSUME NEW k, IsTask(k), IsPanelTask(k), NEW r, r = [k EXCEPT !.arg[2] = FALSE]
  PROVE  /\ IsTask(r) /\ IsPanelTask(r) /\ r.kind = k.kind /\ r.stage = k.stage /\ r.step = k.step
         /\ r.reply = k.reply /\ r.since = k.since /\ r.arg[1] = k.arg[1]
  <1>2. PICK a : a = [k.arg EXCEPT ![2] = FALSE]
    OBVIOUS
  <1>1. 1 \in DOMAIN a /\ a[1] = k.arg[1]
    BY <1>2 DEF IsPanelTask
  <1>3. r = [k EXCEPT !.arg = a]
    BY <1>2 DEF IsTask
  <1>4. /\ IsTask(r) /\ r.kind = k.kind /\ r.stage = k.stage /\ r.step = k.step
        /\ r.reply = k.reply /\ r.since = k.since /\ r.arg = a
    BY <1>3 DEF IsTask
  <1> QED BY <1>1, <1>2, <1>4 DEF IsPanelTask

(* The session is over: the panel is as it was mounted, and of the tasks   *)
(* those that have changed have no answer.                                 *)
LEMMA SessionOverKeeps ==
  ASSUME IInv, NEW rest, rest = [s \in Places |-> rest[s]], SessionOver(rest),
         slots' = slots, version' = version, upto' = upto,
         "schedule" \notin excuses' => "schedule" \notin excuses,
         \A s \in Places :
           \/ rest[s] = tasks[s]
           \/ /\ IsTask(rest[s]) /\ rest[s].reply = NoReply /\ rest[s].step # "answered"
              /\ ~(rest[s].kind \in PanelOps \/ rest[s].stage \in PanelOps)
              /\ "schedule" \notin excuses' => \A d \in Days : ~Tells(s, d)
  PROVE  IInv'
  <1>1. /\ panel' = FreshPanel /\ tasks' = [s \in Places |-> tasks'[s]]
        /\ \A s \in Places :
             tasks'[s] = IF OfPanel(rest[s]) THEN [rest[s] EXCEPT !.arg[2] = FALSE] ELSE rest[s]
    BY DEF SessionOver
  <1>2. /\ panel'.day \in Days /\ panel' = [day |-> panel'.day, schedule |-> panel'.schedule]
        /\ panel'.schedule = NoSchedule
    BY <1>1, ConsoleAssumption DEF FreshPanel, Days
  <1>3. ASSUME NEW s \in Places
        PROVE  /\ IsTask(rest[s]) /\ IsReply(rest[s].reply)
               /\ rest[s].kind \in PanelOps \/ rest[s].stage \in PanelOps => IsPanelTask(rest[s])
               /\ rest[s].reply.version \in Nat /\ rest[s].reply.version <= version
    <2>1. CASE rest[s] = tasks[s]
      BY <2>1 DEF IInv, Shapes, Counted
    <2>2. CASE rest[s] # tasks[s]
      BY <2>2, IdleTask DEF IInv, Counted
    <2> QED BY <2>1, <2>2
  <1>4. ASSUME NEW s \in Places
        PROVE  /\ IsTask(tasks'[s]) /\ tasks'[s].reply = rest[s].reply /\ tasks'[s].kind = rest[s].kind
               /\ tasks'[s].stage = rest[s].stage /\ tasks'[s].step = rest[s].step
               /\ tasks'[s].arg[1] = rest[s].arg[1]
               /\ tasks'[s].kind \in PanelOps \/ tasks'[s].stage \in PanelOps => IsPanelTask(tasks'[s])
    <2>1. CASE OfPanel(rest[s])
      <3>1. IsPanelTask(rest[s])
        BY <1>3, <2>1 DEF OfPanel, PanelOps
      <3> QED BY <1>1, <1>3, <2>1, <3>1, Unmounted
    <2>2. CASE ~OfPanel(rest[s])
      BY <1>1, <1>3, <2>2
    <2> QED BY <2>1, <2>2
  <1>5. Shapes'
    BY <1>1, <1>3, <1>4 DEF Shapes, IsPanelTask
  <1>6. Counted'
    BY <1>2, <1>3, <1>4 DEF IInv, Counted
  <1>7. \A s \in Places : HasSchedule(s)' =>
          HasSchedule(s) /\ tasks'[s].arg[1] = tasks[s].arg[1] /\ tasks'[s].reply = tasks[s].reply
    BY <1>4 DEF HasSchedule, OfPanel, PanelOps
  <1>8. ASSUME "schedule" \notin excuses', NEW s \in Places, NEW d \in Days, Tells(s, d)
        PROVE  Tells(s, d)' /\ tasks[s].reply.version <= tasks'[s].reply.version
    <2>1. rest[s] = tasks[s]
      BY <1>8
    <2>2. tasks[s].reply.version \in Nat
      BY DEF IInv, Counted
    <2> QED BY <1>4, <1>8, <2>1, <2>2 DEF Tells, Schedule
  <1>9. upto \in Nat
    BY DEF IInv, Counted
  <1> QED BY <1>2, <1>5, <1>6, <1>7, <1>8, <1>9, NoNews

(* A failure ends a task, or the session; a lost change is an excuse.      *)
LEMMA ReceiveFailureKeeps ==
  ASSUME IInv, NEW t \in Places, ReceiveFailure(t)
  PROVE  IInv'
  <1> DEFINE k == tasks[t]
  <1>1. /\ slots' = slots /\ version' = version /\ upto' = upto /\ k.reply.verdict # "ok"
        /\ excuses' = excuses \cup (IF Blind(k) THEN {"blind"} ELSE {})
                              \cup (IF BlindPanel(k) THEN {"schedule"} ELSE {})
    BY DEF ReceiveFailure, server
  <1>2. PICK r : r = AfterFailure(k)
    OBVIOUS
  <1>3. PICK rest : rest = [tasks EXCEPT ![t] = r]
    OBVIOUS
  <1>4. IF k.again THEN SessionOver(rest) ELSE tasks' = rest /\ panel' = panel
    BY <1>2, <1>3 DEF ReceiveFailure
  <1>5. tasks = [s \in Places |-> tasks[s]] /\ IsTask(k)
    BY DEF IInv, Shapes
  <1>6. /\ IsTask(r) /\ r.reply = NoReply /\ r.step # "answered"
        /\ ~(r.kind \in PanelOps \/ r.stage \in PanelOps)
    BY <1>2, <1>5, FailureLeaves
  <1>7. "schedule" \notin excuses' => "schedule" \notin excuses
    BY <1>1
  <1>8. "schedule" \notin excuses' => \A d \in Days : ~Tells(t, d)
    BY <1>1 DEF BlindPanel, Tells
  <1>9. CASE k.again
    <2>1. rest = [s \in Places |-> rest[s]] /\ rest[t] = r /\ \A s \in Places : s # t => rest[s] = tasks[s]
      BY <1>3, <1>5
    <2>2. \A s \in Places :
           \/ rest[s] = tasks[s]
           \/ /\ IsTask(rest[s]) /\ rest[s].reply = NoReply /\ rest[s].step # "answered"
              /\ ~(rest[s].kind \in PanelOps \/ rest[s].stage \in PanelOps)
              /\ "schedule" \notin excuses' => \A d \in Days : ~Tells(s, d)
      BY <1>6, <1>8, <2>1
    <2> QED BY <1>1, <1>4, <1>7, <1>9, <2>1, <2>2, SessionOverKeeps
  <1>10. CASE ~k.again
    <2>1. tasks' = [tasks EXCEPT ![t] = r] /\ panel' = panel
      BY <1>3, <1>4, <1>10
    <2>2. upto' \in Nat /\ upto <= upto' /\ upto' <= version
      BY <1>1 DEF IInv, Counted
    <2> QED BY <1>1, <1>6, <1>7, <1>8, <2>1, <2>2, TaskSent
  <1> QED BY <1>9, <1>10

(* The owner signs out.                                                    *)
LEMMA SignOutKeeps ==
  ASSUME IInv, SignOut
  PROVE  IInv'
  <1>1. /\ SessionOver(tasks) /\ slots' = slots /\ version' = version /\ upto' = upto
        /\ excuses' = excuses
    BY DEF SignOut, server, history
  <1>2. PICK rest : rest = tasks
    OBVIOUS
  <1>3. rest = [s \in Places |-> rest[s]] /\ SessionOver(rest)
    BY <1>1, <1>2 DEF IInv, Shapes
  <1> QED BY <1>1, <1>2, <1>3, SessionOverKeeps

(* No renewing task has an answer, so none told of a day.                  *)
LEMMA RenewFailsKeeps ==
  ASSUME IInv, RenewFails
  PROVE  IInv'
  <1>1. PICK rest :
          rest = [s \in DOMAIN tasks |-> IF s \in Renewing THEN AfterFailure(tasks[s]) ELSE tasks[s]]
    OBVIOUS
  <1>2. /\ SessionOver(rest) /\ slots' = slots /\ version' = version /\ upto' = upto
        /\ "schedule" \notin excuses' => "schedule" \notin excuses
    BY <1>1 DEF RenewFails, server
  <1>3. DOMAIN tasks = Places /\ \A s \in Places : IsTask(tasks[s])
    BY DEF IInv, Shapes
  <1>4. rest = [s \in Places |-> rest[s]]
    BY <1>1, <1>3
  <1>5. \A s \in Places :
           \/ rest[s] = tasks[s]
           \/ /\ IsTask(rest[s]) /\ rest[s].reply = NoReply /\ rest[s].step # "answered"
              /\ ~(rest[s].kind \in PanelOps \/ rest[s].stage \in PanelOps)
              /\ "schedule" \notin excuses' => \A d \in Days : ~Tells(s, d)
    <2> SUFFICES ASSUME NEW s \in Places, s \in Renewing
        PROVE  /\ IsTask(rest[s]) /\ rest[s].reply = NoReply /\ rest[s].step # "answered"
               /\ ~(rest[s].kind \in PanelOps \/ rest[s].stage \in PanelOps)
               /\ \A d \in Days : ~Tells(s, d)
      BY <1>1, <1>3
    <2>1. rest[s] = AfterFailure(tasks[s])
      BY <1>1, <1>3
    <2>2. /\ IsTask(rest[s]) /\ rest[s].reply = NoReply /\ rest[s].step # "answered"
          /\ ~(rest[s].kind \in PanelOps \/ rest[s].stage \in PanelOps)
      BY <1>3, <2>1, FailureLeaves
    <2>3. \A d \in Days : ~Tells(s, d)
      BY DEF Renewing, Tells
    <2> QED BY <2>2, <2>3
  <1> QED BY <1>2, <1>4, <1>5, SessionOverKeeps

(* A request sent again is of the same kind and day, and has no answer.    *)
LEMMA ItIsSentAgain ==
  ASSUME NEW k, IsTask(k), NEW token, NEW r, r = SentAgain(k, token),
         k.kind \in PanelOps \/ k.stage \in PanelOps => IsPanelTask(k)
  PROVE  /\ IsTask(r) /\ r.kind = k.kind /\ r.arg = k.arg /\ r.reply = k.reply /\ r.step = "sent"
         /\ r.kind \in PanelOps \/ r.stage \in PanelOps => IsPanelTask(r)
  <1>1. PICK stage :
          stage = IF k.kind = "upload" /\ k.stage = "finalize" THEN "intent" ELSE k.stage
    OBVIOUS
  <1>2. r = [k EXCEPT !.step = "sent", !.token = token, !.again = TRUE, !.stage = stage, !.since = 0]
    BY <1>1 DEF SentAgain, IsTask
  <1>3. /\ IsTask(r) /\ r.kind = k.kind /\ r.arg = k.arg /\ r.reply = k.reply /\ r.step = "sent"
        /\ r.stage = stage
    BY <1>2 DEF IsTask
  <1>4. r.kind \in PanelOps \/ r.stage \in PanelOps =>
          r.stage = k.stage /\ (k.kind \in PanelOps \/ k.stage \in PanelOps)
    BY <1>1, <1>3 DEF PanelOps
  <1> QED BY <1>3, <1>4 DEF IsPanelTask

(* The requests sent again, and the load beside them.                      *)
LEMMA RenewSucceedsKeeps ==
  ASSUME IInv, NEW free \in Places, RenewSucceeds(free)
  PROVE  IInv'
  <1>1. /\ slots' = slots /\ panel' = panel /\ version' = version /\ upto' = upto /\ excuses' = excuses
        /\ tasks[free] = Idle
    BY DEF RenewSucceeds, IsFree, server, history
  <1>2. /\ DOMAIN tasks = Places /\ version \in Nat /\ upto \in Nat
        /\ \A s \in Places :
             /\ IsTask(tasks[s]) /\ IsReply(tasks[s].reply)
             /\ tasks[s].kind \in PanelOps \/ tasks[s].stage \in PanelOps => IsPanelTask(tasks[s])
             /\ tasks[s].reply.version \in Nat /\ tasks[s].reply.version <= version
    BY DEF IInv, Shapes, Counted
  <1>3. /\ tasks' = [s \in Places |-> tasks'[s]]
        /\ \A s \in Places :
             tasks'[s] = IF s = free THEN Task("load", <<>>, expired + 1)
                         ELSE IF s \in Renewing THEN SentAgain(tasks[s], expired + 1)
                         ELSE tasks[s]
    BY <1>2 DEF RenewSucceeds
  <1>4. ASSUME NEW s \in Places
        PROVE  /\ IsTask(tasks'[s]) /\ tasks'[s].reply \in {NoReply, tasks[s].reply}
               /\ tasks'[s].kind \in PanelOps \/ tasks'[s].stage \in PanelOps => IsPanelTask(tasks'[s])
               /\ \/ tasks'[s] = tasks[s]
                  \/ tasks'[s].step = "sent" /\ \A d \in Days : ~Tells(s, d)
    <2>1. CASE s = free
      <3>1. tasks'[s] = Task("load", <<>>, expired + 1)
        BY <1>3, <2>1
      <3>2. "load" \notin PanelOps
        BY DEF PanelOps
      <3>3. \A d \in Days : ~Tells(s, d)
        BY <1>1, <2>1, IdleTask DEF Tells
      <3> QED BY <3>1, <3>2, <3>3, TaskMade
    <2>2. CASE s # free /\ s \in Renewing
      <3>1. tasks'[s] = SentAgain(tasks[s], expired + 1)
        BY <1>3, <2>2
      <3>2. \A d \in Days : ~Tells(s, d)
        BY <2>2 DEF Renewing, Tells
      <3> QED BY <1>2, <3>1, <3>2, ItIsSentAgain
    <2>3. CASE s # free /\ s \notin Renewing
      <3>1. tasks'[s] = tasks[s]
        BY <1>3, <2>3
      <3> QED BY <1>2, <3>1
    <2> QED BY <2>1, <2>2, <2>3
  <1>5. \A s \in Places : /\ IsReply(tasks'[s].reply)
                          /\ tasks'[s].reply.version \in Nat /\ tasks'[s].reply.version <= version
    BY <1>2, <1>4, IdleTask
  <1>6. Shapes'
    BY <1>3, <1>4, <1>5 DEF Shapes, IsPanelTask
  <1>7. Counted'
    BY <1>1, <1>5 DEF IInv, Counted
  <1>8. \A s \in Places : HasSchedule(s)' =>
          HasSchedule(s) /\ tasks'[s].arg[1] = tasks[s].arg[1] /\ tasks'[s].reply = tasks[s].reply
    BY <1>4 DEF HasSchedule
  <1>9. \A s \in Places, d \in Days : Tells(s, d) =>
          Tells(s, d)' /\ tasks[s].reply.version <= tasks'[s].reply.version
    BY <1>1, <1>2, <1>4 DEF Tells, Schedule
  <1> QED BY <1>1, <1>2, <1>6, <1>7, <1>8, <1>9, NoNews

-----------------------------------------------------------------------------
(* The owner and the world do what no task is about.                       *)

(* Nothing happens to a task or a slot.                                    *)
LEMMA TasksStay ==
  ASSUME IInv, tasks' = tasks, slots' = slots, version' = version, upto' = upto,
         "schedule" \notin excuses' => "schedule" \notin excuses,
         panel' = panel \/ \E d \in Days : panel' = [day |-> d, schedule |-> NoSchedule]
  PROVE  IInv'
  <1>1. Shapes'
    BY DEF IInv, Shapes, IsPanelTask
  <1>2. /\ panel'.day \in Days /\ panel' = [day |-> panel'.day, schedule |-> panel'.schedule]
        /\ panel' = panel \/ panel'.schedule = NoSchedule
    BY DEF IInv, Counted
  <1>3. Counted'
    BY <1>2 DEF IInv, Counted
  <1>4. \A s \in Places : HasSchedule(s)' =>
          HasSchedule(s) /\ tasks'[s].arg[1] = tasks[s].arg[1] /\ tasks'[s].reply = tasks[s].reply
    BY DEF HasSchedule
  <1>5. upto \in Nat /\ \A s \in Places : tasks[s].reply.version \in Nat
    BY DEF IInv, Counted
  <1>6. \A s \in Places, d \in Days : Tells(s, d) => Tells(s, d)'
    BY DEF Tells, Schedule
  <1>7. upto <= upto' /\ \A s \in Places : tasks[s].reply.version <= tasks'[s].reply.version
    BY <1>5
  <1> QED BY <1>1, <1>2, <1>3, <1>4, <1>6, <1>7, NoNews

(* Another day: nothing is shown for it yet.                               *)
LEMMA ChooseDayKeeps ==
  ASSUME IInv, NEW d \in Days, ChooseDay(d)
  PROVE  IInv'
  <1>1. /\ tasks' = tasks /\ slots' = slots /\ version' = version /\ upto' = upto /\ excuses' = excuses
        /\ panel' = [panel EXCEPT !.day = d, !.schedule = NoSchedule]
    BY DEF ChooseDay, server, history
  <1>2. panel = [day |-> panel.day, schedule |-> panel.schedule]
    BY DEF IInv, Counted
  <1>3. panel' = [day |-> d, schedule |-> NoSchedule]
    BY <1>1, <1>2
  <1> QED BY <1>1, <1>3, TasksStay

(* The token expires.                                                      *)
LEMMA AccessExpiresKeeps ==
  ASSUME IInv, AccessExpires
  PROVE  IInv'
  <1>1. /\ tasks' = tasks /\ slots' = slots /\ version' = version /\ upto' = upto /\ excuses' = excuses
        /\ panel' = panel
    BY DEF AccessExpires, server, history
  <1> QED BY <1>1, TasksStay

(* The worker changes a photo, which the schedule does not know.           *)
LEMMA ElsewhereKeeps ==
  ASSUME IInv, NEW i, Elsewhere(i)
  PROVE  IInv'
  <1>1. /\ tasks' = tasks /\ slots' = slots /\ version' = version /\ upto' = upto /\ panel' = panel
        /\ "schedule" \notin excuses' => "schedule" \notin excuses
    BY DEF Elsewhere
  <1> QED BY <1>1, TasksStay

(* Somebody else's change of a slot is an excuse for what is told of it.   *)
LEMMA HeldElsewhereKeeps ==
  ASSUME IInv, NEW d \in Days, HeldElsewhere(d)
  PROVE  IInv'
  <1>1. /\ tasks' = tasks /\ version' = version /\ upto' = upto /\ panel' = panel
        /\ slots' = [slots EXCEPT ![d] = "HELD"] /\ "schedule" \in excuses'
    BY DEF HeldElsewhere
  <1>2. Shapes' /\ OfItsDay'
    BY <1>1 DEF IInv, Shapes, IsPanelTask, OfItsDay, HasSchedule, OfPanel
  <1>3. slots' \in [Days -> SlotStatus]
    BY <1>1 DEF IInv, Counted, SlotStatus
  <1>4. Counted'
    BY <1>1, <1>3 DEF IInv, Counted
  <1> QED BY <1>1, <1>2, <1>4 DEF IInv, Told

-----------------------------------------------------------------------------
(* At first only the list is asked for.                                    *)
LEMMA InitHolds ==
  ASSUME Init
  PROVE  IInv
  <1>1. PICK load : load = [Idle EXCEPT !.kind = "load", !.stage = "list", !.held = 1,
                                        !.step = "sent", !.token = 1]
    OBVIOUS
  <1>2. /\ IsTask(load) /\ load.reply = NoReply /\ load.kind = "load" /\ load.stage = "list"
        /\ load.step = "sent"
    BY <1>1, IdleTask DEF IsTask
  <1>3. /\ tasks = [t \in Places |-> tasks[t]] /\ \A t \in Places : tasks[t] \in {Idle, load}
    BY <1>1 DEF Init, Places
  <1>4. \A t \in Places :
          /\ IsTask(tasks[t]) /\ tasks[t].reply = NoReply /\ tasks[t].step # "answered"
          /\ ~(tasks[t].kind \in PanelOps \/ tasks[t].stage \in PanelOps)
    BY <1>2, <1>3, IdleTask DEF PanelOps
  <1>5. Shapes
    BY <1>3, <1>4, IdleTask DEF Shapes
  <1>6. panel = FreshPanel /\ version = 0 /\ upto = 0 /\ slots = [d \in Days |-> "ABSENT"]
    BY DEF Init, Days
  <1>7. Counted
    BY <1>4, <1>6, IdleTask, ConsoleAssumption DEF Counted, FreshPanel, Days, SlotStatus
  <1>8. \A t \in Places : ~HasSchedule(t)
    BY <1>4 DEF HasSchedule
  <1>9. PanelTells
    BY <1>6 DEF PanelTells, FreshPanel, NoSchedule
  <1> QED BY <1>5, <1>7, <1>8, <1>9 DEF IInv, OfItsDay, Told, AnswersTell

(* Every step.                                                             *)
LEMMA StepKeeps ==
  ASSUME IInv, [Next]_vars
  PROVE  IInv'
  <1>1. DOMAIN tasks = Places /\ DOMAIN slots = Days
    BY DEF IInv, Shapes, Counted
  <1>2. ASSUME NEW t \in Places, \E c \in Offered : Act(t, c[1], c[2])
        PROVE  IInv'
    BY <1>2, ActKeeps
  <1>3. ASSUME NEW t \in Places, TaskStep(t)
        PROVE  IInv'
    BY <1>3, ServeKeeps, ReceiveStepKeeps, ReceiveResultKeeps, Receive401Keeps, ReceiveFailureKeeps
       DEF TaskStep
  <1>4. ASSUME NEW t \in Places, Lose(t) \/ RenewSucceeds(t)
        PROVE  IInv'
    BY <1>4, LoseKeeps, RenewSucceedsKeeps
  <1>5. ASSUME NEW d \in Days, ChooseDay(d) \/ HeldElsewhere(d)
        PROVE  IInv'
    BY <1>5, ChooseDayKeeps, HeldElsewhereKeeps
  <1>6. CASE RenewFails \/ SignOut \/ AccessExpires \/ \E i \in DOMAIN images : Elsewhere(i)
    BY <1>6, RenewFailsKeeps, SignOutKeeps, AccessExpiresKeeps, ElsewhereKeeps
  <1>7. CASE UNCHANGED vars
    <2>1. /\ tasks' = tasks /\ slots' = slots /\ version' = version /\ upto' = upto
          /\ excuses' = excuses /\ panel' = panel
      BY <1>7 DEF vars, server, history
    <2> QED BY <2>1, TasksStay
  <1> QED BY <1>1, <1>2, <1>3, <1>4, <1>5, <1>6, <1>7 DEF Next

(* Whatever is under way, lost or refused: an answer on its way to the     *)
(* panel is a schedule of the day it was asked for, and as long as nothing *)
(* excuses the panel, what it shows and every answer that it will show is  *)
(* the schedule as it is, or a younger answer that is follows.             *)
THEOREM ConsoleInvariant == Spec => []IInv
  <1>1. IInv /\ [Next]_vars => IInv'
    BY StepKeeps
  <1> QED BY <1>1, InitHolds, PTL DEF Spec

(* workspace-schedule.tsx, WorkspaceSchedule: when nothing is under way,   *)
(* the schedule shown for a day is the API's.                              *)
THEOREM QuietPanelIsTrue == Spec => []QuietPanelAgrees
  <1>1. ASSUME IInv
        PROVE  QuietPanelAgrees
    <2> SUFFICES ASSUME AtRest, ShownSchedule # NoSchedule, "schedule" \notin excuses
        PROVE  ShownSchedule = Schedule(panel.day)
      BY DEF QuietPanelAgrees
    <2>1. panel.schedule.day = panel.day /\ ShownSchedule = panel.schedule
      BY DEF ShownSchedule
    <2>2. \A s \in Places : tasks[s] = Idle
      BY <1>1 DEF AtRest, IInv, Shapes
    <2>3. \A s \in Places : ~Tells(s, panel.day)
      BY <2>2, IdleTask DEF Tells
    <2> QED BY <1>1, <2>1, <2>3 DEF IInv, Told, PanelTells
  <1> QED BY <1>1, ConsoleInvariant, PTL

-----------------------------------------------------------------------------
(* The list of photos, services and the publication. What is shown is      *)
(* compared with a history of what the API has had at each version: the    *)
(* invariant asserts that there is one (Remembers).                        *)

(* The contents of the listing at one version of the server: the rows that *)
(* a list of the API returns, whether the listing is published, and how    *)
(* many services were made.                                                *)
ListedRow == [id: Nat, status: PhotoStatus \ {"DELETING"}, cover: BOOLEAN]
Contents == [photos: SUBSET ListedRow, published: BOOLEAN, made: Nat]
Content == [photos |-> {Photo(i) : i \in Listed}, published |-> published, made |-> made]

(* A list of media shows the photos P: each of them in one row, and        *)
(* nothing else. A list of the console shows the contents c.               *)
ShowsPhotos(m, P) ==
  /\ m \in Seq(PhotoRow) /\ \A n, p \in DOMAIN m : m[n].id = m[p].id => n = p
  /\ ToSet(m) = P
Shows(l, c) ==
  /\ l = [known |-> TRUE, media |-> l.media, published |-> c.published,
          made |-> [n \in 1 .. c.made |-> n]]
  /\ ShowsPhotos(l.media, c.photos)

(* The tasks as the list sees them. A task that changes the listing is an  *)
(* action; WillAsk is a task that has a list to ask for, or will have one  *)
(* to ask for after its failure; Listing holds an answered list that is    *)
(* not shown yet.                                                          *)
Answered(k) == k.step = "answered" /\ k.reply.verdict = "ok"
IsAction(k) == ~OfPanel(k) /\ k.stage # "list"
Fails(k) == k.step = "answered" /\ k.reply.verdict # "ok"
WillAsk(k) ==
  \/ k.stage = "list" /\ ~Answered(k)
  \/ Reloads(k) /\ (k.step = "renewing" \/ Fails(k))
  \/ k.stage = "publish" /\ Fails(k) /\ k.reply.verdict = "lost"
Listing(k) == k.stage = "list" /\ Answered(k)

(* An action whose change is older than what is shown crosses it when it   *)
(* is received, which is an excuse; an action owes the version that it     *)
(* made until its answer is shown.                                         *)
Doomed(k, v) == IsAction(k) /\ k.since # 0 /\ k.since <= v
Owes(k, u) ==
  /\ IsAction(k) /\ k.since # 0
  /\ u = k.since \/ (k.stage = "finalize" /\ Answered(k) /\ u = k.reply.version)

(* The rows that an upload makes, and the photo it is about.               *)
PendingRow(i) == [id |-> i, status |-> "PENDING", cover |-> FALSE]
ReadyRow(i) == [id |-> i, status |-> "READY", cover |-> FALSE]
ImageOf(k) == IF k.stage = "intent" THEN k.reply.id ELSE k.arg[1]

(* The photos when i is the cover, and the photos without i.               *)
Covered(P, i) == {[id |-> p.id, status |-> p.status, cover |-> p.id = i] : p \in P}
Without(P, i) == {p \in P : p.id # i}

(* What the change of an action made of the contents a: they are b, and    *)
(* the answer says so. An upload makes two changes, the intent and the     *)
(* finalization.                                                           *)
Did(k, a, b) ==
  /\ k.stage \in {"intent", "finalize"} =>
       /\ b = [a EXCEPT !.photos = @ \cup {PendingRow(ImageOf(k))}]
       /\ \A p \in a.photos : p.id # ImageOf(k)
  /\ k.stage = "cover" =>
       b = [a EXCEPT !.photos = Covered(@, k.reply.id)]
  /\ k.stage = "reorder" =>
       b = a /\ \A i \in ToSet(k.arg) :
                  [id |-> i, status |-> "READY", cover |-> i = k.reply.id] \in b.photos
  /\ k.stage = "delete" => b = [a EXCEPT !.photos = Without(@, k.reply.id)]
  /\ k.stage = "publish" =>
       /\ b = [a EXCEPT !.published = TRUE]
       /\ k.reply.list.published = TRUE /\ ShowsPhotos(k.reply.list.media, b.photos)
  /\ k.stage = "create" => b = [a EXCEPT !.made = @ + 1] /\ k.reply.id = b.made

(* The second change of an upload.                                         *)
Finalized(k, a, b) ==
  b = [a EXCEPT !.photos = (@ \ {PendingRow(k.arg[1])}) \cup {ReadyRow(k.arg[1])}]

(* In the history h of the contents, each action did between two versions  *)
(* what its answer says, and a list that is answered shows the contents of *)
(* its version. A photo that was deleted is in no later contents.          *)
Effect(k, h) ==
  /\ IsAction(k) /\ k.since # 0 /\ (k.stage = "finalize" \/ Answered(k)) =>
       Did(k, h[k.since - 1], h[k.since])
  /\ k.stage = "finalize" /\ Answered(k) => Finalized(k, h[k.reply.version - 1], h[k.reply.version])
  /\ Listing(k) => Shows(k.reply.list, h[k.reply.version])
Gone(k, h, v) ==
  k.stage = "delete" /\ Answered(k) =>
    \A u \in k.reply.version .. v : \A p \in h[u].photos : p.id # k.reply.id

(* Two versions that are not older than what is shown, and differ, have a  *)
(* task that answers for the difference: one that will ask for the list,   *)
(* that will be an excuse, that carries a younger list, or that owes a     *)
(* change between the two.                                                 *)
Steps(h) ==
  \A a, b \in upto .. version : a < b =>
    \/ h[a] = h[b]
    \/ \E t \in Places : \/ WillAsk(tasks[t]) \/ Doomed(tasks[t], upto)
                         \/ Listing(tasks[t]) /\ a < tasks[t].reply.version
                         \/ \E u \in a + 1 .. b : Owes(tasks[t], u)

(* What is shown is the contents of the version it is of, or a task will   *)
(* put that right.                                                         *)
ShownIs(h) ==
  shown.known =>
    \/ Shows(shown, h[upto])
    \/ \E t \in Places : WillAsk(tasks[t]) \/ Doomed(tasks[t], upto) \/ Listing(tasks[t])

(* A function h is a history of the contents that explains what the        *)
(* console shows. The specification does not keep it: the invariant says   *)
(* that there is one.                                                      *)
Remembers(h) ==
  /\ h \in [0 .. version -> Contents] /\ h[version] = Content
  /\ \A t \in Places : Effect(tasks[t], h) /\ Gone(tasks[t], h, version)
  /\ Steps(h) /\ ShownIs(h)

(* Who has a session and no list has asked for one. Calm: no excuse but    *)
(* those of the schedule, as in QuietListAgrees.                           *)
KnownOrAsked == auth # 0 /\ ~shown.known => \E t \in Places : tasks[t].stage = "list"
Calm == excuses \subseteq {"schedule"}

(* The shapes of what the console and the server hold, and what each stage *)
(* of a task says of its request and of its answer.                        *)
Row == [status: PhotoStatus, place: Nat]
HasIds(m) == m \in Seq(PhotoRow) /\ \A n \in DOMAIN m : m[n].id \in DOMAIN images
IsImage(i) == i \in DOMAIN images
KindOk(k) ==
  \/ k = Idle
  \/ k.kind = "load" /\ k.stage = "list"
  \/ k.kind = "upload" /\ k.stage \in {"intent", "finalize", "list"}
  \/ k.kind = "publish" /\ k.stage \in {"checklist", "publish"}
  \/ k.kind \in {"cover", "reorder", "delete", "create"} /\ k.stage \in {k.kind, "list"}
  \/ k.kind \in PanelOps /\ k.stage = k.kind

(* The version that a task changed first, and the one of its answer.       *)
SinceOk(k) ==
  /\ k.since \in 0 .. version
  /\ k.stage = "finalize" => k.since # 0 /\ (Answered(k) => k.since < k.reply.version)
  /\ IsAction(k) /\ k.stage # "finalize" /\ k.since # 0 =>
       /\ k.step = "answered" /\ k.reply.verdict \in {"ok", "lost"}
       /\ Answered(k) => k.since = k.reply.version
  /\ k.stage \in {"intent", "cover", "reorder", "publish", "create"} /\ Answered(k) => k.since # 0
  /\ k.stage = "checklist" => k.since = 0

(* The photos that a request names are photos that there are.              *)
NamesOk(k) ==
  /\ k.stage = "finalize" => IsImage(k.arg[1]) /\ (Answered(k) => k.reply.id = k.arg[1])
  /\ k.stage = "intent" /\ Answered(k) => IsImage(k.reply.id)
  /\ k.kind = "delete" => IsImage(k.arg[1])
  /\ k.kind = "reorder" => k.arg \in Seq(Nat)
  /\ k.stage = "delete" /\ Answered(k) => IsImage(k.reply.id) /\ images[k.reply.id].status = "DELETING"
  /\ k.stage = "reorder" /\ Answered(k) => \A i \in ToSet(k.arg) : IsImage(i)

(* An answer that carries a list has the shape of one.                     *)
ListOk(k) ==
  k.stage \in {"list", "publish"} /\ Answered(k) =>
    /\ k.reply.list = [known |-> TRUE, media |-> k.reply.list.media, published |-> k.reply.list.published,
                       made |-> k.reply.list.made]
    /\ HasIds(k.reply.list.media)
TaskOk(k) == KindOk(k) /\ SinceOk(k) /\ NamesOk(k) /\ ListOk(k)
Listable ==
  /\ images \in Seq(Row) /\ published \in BOOLEAN /\ made \in Nat
  /\ cover \in Nat /\ (cover # 0 => IsImage(cover) /\ images[cover].status = "READY")
  /\ shown = [known |-> shown.known, media |-> shown.media, published |-> shown.published, made |-> shown.made]
  /\ HasIds(shown.media)
  /\ \A t \in Places : TaskOk(tasks[t])

-----------------------------------------------------------------------------
(* What is made of a list that shows the photos P.                         *)
LEMMA AppendShows ==
  ASSUME NEW m, NEW P, ShowsPhotos(m, P), NEW i \in Nat, \A p \in P : p.id # i
  PROVE  ShowsPhotos(Append(m, ReadyRow(i)), P \cup {ReadyRow(i)})
  <1> DEFINE r == Append(m, ReadyRow(i))
  <1>1. m \in Seq(PhotoRow) /\ ReadyRow(i) \in PhotoRow /\ ReadyRow(i).id = i
    BY DEF ShowsPhotos, ReadyRow, PhotoRow, PhotoStatus
  <1>2. /\ r \in Seq(PhotoRow) /\ DOMAIN m = 1 .. Len(m) /\ DOMAIN r = 1 .. Len(m) + 1 /\ Len(m) \in Nat
        /\ r[Len(m) + 1] = ReadyRow(i) /\ \A n \in DOMAIN m : r[n] = m[n]
    BY <1>1
  <1>3. \A n \in DOMAIN m : m[n] \in P /\ m[n].id # i
    BY DEF ShowsPhotos, ToSet
  <1>4. DOMAIN r = DOMAIN m \cup {Len(m) + 1} /\ Len(m) + 1 \notin DOMAIN m
    BY <1>2
  <1> HIDE DEF r
  <1>5. \A n, p \in DOMAIN r : r[n].id = r[p].id => n = p
    BY <1>1, <1>2, <1>3, <1>4 DEF ShowsPhotos
  <1>6. ToSet(r) = P \cup {ReadyRow(i)}
    <2>1. ToSet(m) = P
      BY DEF ShowsPhotos
    <2> QED BY <1>2, <1>4, <2>1 DEF ToSet
  <1> QED BY <1>2, <1>5, <1>6 DEF ShowsPhotos, r

(* setCoverPhoto: the row of the new cover is marked, and no other.        *)
LEMMA CoverShows ==
  ASSUME NEW m, NEW P, ShowsPhotos(m, P), NEW i, NEW r,
         r = [n \in DOMAIN m |-> [m[n] EXCEPT !.cover = (m[n].id = i)]]
  PROVE  ShowsPhotos(r, Covered(P, i))
  <1>1. m \in Seq(PhotoRow) /\ DOMAIN m = 1 .. Len(m) /\ Len(m) \in Nat
        /\ \A n \in DOMAIN m : m[n] \in PhotoRow
    BY DEF ShowsPhotos
  <1>2. \A n \in DOMAIN m : /\ r[n] = [id |-> m[n].id, status |-> m[n].status, cover |-> m[n].id = i]
                            /\ r[n] \in PhotoRow /\ r[n].id = m[n].id
    <2> SUFFICES ASSUME NEW n \in DOMAIN m
        PROVE  /\ r[n] = [id |-> m[n].id, status |-> m[n].status, cover |-> m[n].id = i]
               /\ r[n] \in PhotoRow /\ r[n].id = m[n].id
      OBVIOUS
    <2>1. m[n] \in PhotoRow /\ r[n] = [m[n] EXCEPT !.cover = (m[n].id = i)]
      BY <1>1
    <2>2. PICK c \in BOOLEAN : c = (m[n].id = i)
      OBVIOUS
    <2>3. r[n] = [m[n] EXCEPT !.cover = c]
      BY <2>1, <2>2
    <2>4. r[n] = [id |-> m[n].id, status |-> m[n].status, cover |-> c]
      BY <2>1, <2>3 DEF PhotoRow
    <2> QED BY <2>1, <2>2, <2>4 DEF PhotoRow
  <1>3. DOMAIN r = DOMAIN m /\ r \in Seq(PhotoRow)
    <2>1. DOMAIN r = DOMAIN m /\ r = [n \in 1 .. Len(m) |-> r[n]]
      BY <1>1
    <2>2. \A n \in 1 .. Len(m) : r[n] \in PhotoRow
      BY <1>1, <1>2
    <2>3. r \in [1 .. Len(m) -> PhotoRow]
      BY <2>1, <2>2
    <2> QED BY <1>1, <2>1, <2>3
  <1>4. ASSUME NEW n \in DOMAIN r, NEW p \in DOMAIN r, r[n].id = r[p].id
        PROVE  n = p
    <2>1. m[n].id = m[p].id /\ n \in DOMAIN m /\ p \in DOMAIN m
      BY <1>2, <1>3, <1>4
    <2> QED BY <2>1 DEF ShowsPhotos
  <1>5. ToSet(r) = Covered(P, i)
    <2>1. ToSet(m) = P
      BY DEF ShowsPhotos
    <2>2. \A p \in P : \E n \in DOMAIN m : m[n] = p
      BY <2>1 DEF ToSet
    <2>3. \A n \in DOMAIN m : m[n] \in P
      BY <2>1 DEF ToSet
    <2>4. ASSUME NEW n \in DOMAIN r
          PROVE  r[n] \in Covered(P, i)
      BY <1>2, <1>3, <2>3 DEF Covered
    <2>5. ASSUME NEW p \in P
          PROVE  \E n \in DOMAIN r : r[n] = [id |-> p.id, status |-> p.status, cover |-> p.id = i]
      <3>1. PICK n \in DOMAIN m : m[n] = p
        BY <2>2
      <3> QED BY <1>2, <1>3, <3>1
    <2>6. \A q \in Covered(P, i) : \E n \in DOMAIN r : r[n] = q
      <3> SUFFICES ASSUME NEW q \in Covered(P, i) PROVE \E n \in DOMAIN r : r[n] = q
        OBVIOUS
      <3>1. PICK p \in P : q = [id |-> p.id, status |-> p.status, cover |-> p.id = i]
        BY DEF Covered
      <3> QED BY <2>5, <3>1
    <2>7. ToSet(r) = {r[n] : n \in DOMAIN r}
      BY DEF ToSet
    <2>8. PICK C : C = Covered(P, i)
      OBVIOUS
    <2>9. (\A n \in DOMAIN r : r[n] \in C) /\ (\A q \in C : \E n \in DOMAIN r : r[n] = q)
      BY <2>4, <2>6, <2>8
    <2>10. ToSet(r) = C
      <3>1. PICK T : T = ToSet(r)
        OBVIOUS
      <3>2. \A q : q \in T <=> \E n \in DOMAIN r : r[n] = q
        BY <2>7, <3>1
      <3>3. \A q : q \in T <=> q \in C
        BY <2>9, <3>2
      <3> QED BY <3>1, <3>3
    <2> QED BY <2>8, <2>10
  <1> QED BY <1>3, <1>4, <1>5 DEF ShowsPhotos

(* A merge that gives each photo listed its own row back.                  *)
LEMMA MergeShowsAgain ==
  ASSUME NEW m, NEW P \in SUBSET ListedRow, ShowsPhotos(m, P),
         NEW updated \in SUBSET P
  PROVE  ShowsPhotos(MergeMedia(m, updated), P)
  <1> PICK r : r = MergeMedia(m, updated)
    OBVIOUS
  <1>1. m \in Seq(PhotoRow) /\ (\A n, p \in DOMAIN m : m[n].id = m[p].id => n = p) /\ ToSet(m) = P
    BY DEF ShowsPhotos
  <1>2. updated \in SUBSET PhotoRow
    BY DEF ListedRow, PhotoRow
  <1>3. \A n \in DOMAIN m : MergedAt(m, updated, n) = m[n] /\ m[n].status # "DELETING"
    <2> SUFFICES ASSUME NEW n \in DOMAIN m
        PROVE  MergedAt(m, updated, n) = m[n] /\ m[n].status # "DELETING"
      OBVIOUS
    <2>1. m[n] \in ListedRow
      BY <1>1 DEF ToSet
    <2>2. \A u \in updated : u.id = m[n].id => u = m[n]
      BY <1>1 DEF ToSet
    <2> QED BY <2>1, <2>2 DEF ListedRow, MergedAt
  <1>4. /\ r \in Seq(PhotoRow)
        /\ \A k \in DOMAIN r : \E n \in DOMAIN m : r[k] = m[n]
        /\ \A n \in DOMAIN m : \E k \in DOMAIN r : r[k] = m[n]
        /\ \A k, l \in DOMAIN r : r[k].id = r[l].id => k = l
    <2>1. /\ r \in Seq(PhotoRow)
          /\ \A k \in DOMAIN r : \E n \in DOMAIN m :
              r[k] = MergedAt(m, updated, n) /\ MergedAt(m, updated, n).status # "DELETING"
          /\ \A n \in DOMAIN m : MergedAt(m, updated, n).status # "DELETING" =>
              \E k \in DOMAIN r : r[k] = MergedAt(m, updated, n)
          /\ (\A n, p \in DOMAIN m : m[n].id = m[p].id => n = p) =>
              \A k, l \in DOMAIN r : r[k].id = r[l].id => k = l
      BY SMTT(30), <1>1, <1>2, Merges
    <2>2. \A k, l \in DOMAIN r : r[k].id = r[l].id => k = l
      BY <1>1, <2>1
    <2> QED BY <1>3, <2>1, <2>2
  <1>5. ToSet(r) = P
    BY <1>1, <1>4 DEF ToSet
  <1> QED BY <1>4, <1>5 DEF ShowsPhotos

(* deletePhoto: the row that comes back as DELETING is dropped.            *)
LEMMA DeleteShows ==
  ASSUME NEW m, NEW P \in SUBSET ListedRow, ShowsPhotos(m, P), NEW i \in Nat,
         NEW row, row = [id |-> i, status |-> "DELETING", cover |-> FALSE]
  PROVE  ShowsPhotos(MergeMedia(m, {row}), Without(P, i))
  <1>0. PICK U : U = {row}
    OBVIOUS
  <1> PICK r : r = MergeMedia(m, U)
    OBVIOUS
  <1>1. m \in Seq(PhotoRow) /\ (\A n, p \in DOMAIN m : m[n].id = m[p].id => n = p) /\ ToSet(m) = P
    BY DEF ShowsPhotos
  <1>2. U \in SUBSET PhotoRow /\ row.id = i /\ row.status = "DELETING"
    BY <1>0 DEF PhotoRow, PhotoStatus
  <1>3. \A n \in DOMAIN m : IF m[n].id = i THEN MergedAt(m, U, n).status = "DELETING"
                            ELSE MergedAt(m, U, n) = m[n] /\ m[n].status # "DELETING"
    <2> SUFFICES ASSUME NEW n \in DOMAIN m
        PROVE  IF m[n].id = i THEN MergedAt(m, U, n).status = "DELETING"
                            ELSE MergedAt(m, U, n) = m[n] /\ m[n].status # "DELETING"
      OBVIOUS
    <2>1. m[n] \in ListedRow
      BY <1>1 DEF ToSet
    <2>2. CASE m[n].id = i
      BY <1>0, <1>2, <2>2 DEF MergedAt
    <2>3. CASE m[n].id # i
      BY <1>0, <1>2, <2>1, <2>3 DEF ListedRow, MergedAt
    <2> QED BY <2>2, <2>3
  <1>4. /\ r \in Seq(PhotoRow)
        /\ \A k \in DOMAIN r : \E n \in DOMAIN m : r[k] = m[n] /\ m[n].id # i
        /\ \A n \in DOMAIN m : m[n].id # i => \E k \in DOMAIN r : r[k] = m[n]
        /\ \A k, l \in DOMAIN r : r[k].id = r[l].id => k = l
    <2>1. /\ r \in Seq(PhotoRow)
          /\ \A k \in DOMAIN r : \E n \in DOMAIN m :
              r[k] = MergedAt(m, U, n) /\ MergedAt(m, U, n).status # "DELETING"
          /\ \A n \in DOMAIN m : MergedAt(m, U, n).status # "DELETING" =>
              \E k \in DOMAIN r : r[k] = MergedAt(m, U, n)
          /\ (\A n, p \in DOMAIN m : m[n].id = m[p].id => n = p) =>
              \A k, l \in DOMAIN r : r[k].id = r[l].id => k = l
      BY <1>1, <1>2, Merges
    <2>2. \A k, l \in DOMAIN r : r[k].id = r[l].id => k = l
      BY <1>1, <2>1
    <2> QED BY <1>3, <2>1, <2>2
  <1>5. ToSet(r) = Without(P, i)
    <2>1. ToSet(m) = {m[n] : n \in DOMAIN m} /\ ToSet(r) = {r[k] : k \in DOMAIN r}
      BY DEF ToSet
    <2>2. \A p : p \in Without(P, i) <=> \E n \in DOMAIN m : p = m[n] /\ m[n].id # i
      BY <1>1, <2>1 DEF Without
    <2>3. \A p : p \in ToSet(r) <=> \E n \in DOMAIN m : p = m[n] /\ m[n].id # i
      BY <1>4, <2>1
    <2> QED BY <2>2, <2>3
  <1> QED BY <1>0, <1>4, <1>5 DEF ShowsPhotos

(* What a list of the API shows.                                           *)
LEMMA OrderedLists ==
  ASSUME images \in Seq(Row), NEW S \in SUBSET DOMAIN images
  PROVE  /\ Ordered(S) \in Seq(S) /\ \A i \in S : \E n \in DOMAIN Ordered(S) : Ordered(S)[n] = i
         /\ \A n, p \in DOMAIN Ordered(S) : Ordered(S)[n] = Ordered(S)[p] => n = p
  <1> DEFINE R == {r \in S \X S : \/ images[r[1]].place < images[r[2]].place
                                  \/ images[r[1]].place = images[r[2]].place /\ r[1] < r[2]}
  <1>1. \A i \in S : i \in Nat /\ images[i].place \in Int
    <2>1. DOMAIN images = 1 .. Len(images) /\ \A i \in DOMAIN images : images[i] \in Row
      OBVIOUS
    <2> QED BY <2>1 DEF Row
  <1>2. \A i, j \in S : <<i, j>> \in R <=> \/ images[i].place < images[j].place
                                           \/ images[i].place = images[j].place /\ i < j
    OBVIOUS
  <1> PICK T : T = R
    OBVIOUS
  <1> HIDE DEF R
  <1>3. Orders(T, S)
    BY <1>1, <1>2 DEF Orders
  <1>4. IsFiniteSet(S)
    <2>1. DOMAIN images = 1 .. Len(images) /\ Len(images) \in Nat
      OBVIOUS
    <2>2. IsFiniteSet(1 .. Len(images))
      BY <2>1, FS_Interval
    <2> QED BY <2>1, <2>2, FS_Subset
  <1>5. Ordered(S) = InOrder(S, T)
    BY DEF Ordered, R
  <1>6. PICK s : s = Ordered(S)
    OBVIOUS
  <1>7. /\ Cardinality(S) \in Nat /\ DOMAIN s = 1 .. Cardinality(S) /\ s \in [1 .. Cardinality(S) -> S]
        /\ \A i \in S : \E n \in DOMAIN s : s[n] = i
        /\ \A n, p \in DOMAIN s : s[n] = s[p] => n = p
    BY <1>3, <1>4, <1>5, <1>6, InOrderLists
  <1>8. s \in Seq(S)
    BY <1>7
  <1> QED BY <1>6, <1>7, <1>8

(* A list of the API shows the photos that are listed (Photos).            *)
LEMMA PhotosShow ==
  ASSUME images \in Seq(Row)
  PROVE  ShowsPhotos(Photos, {Photo(i) : i \in Listed}) /\ HasIds(Photos)
         /\ {Photo(i) : i \in Listed} \in SUBSET ListedRow
  <1>1. Listed \in SUBSET DOMAIN images /\ \A i \in Listed : images[i] \in Row /\ images[i].status # "DELETING"
        /\ i \in Nat /\ i \in DOMAIN images
    BY DEF Listed
  <1>2. PICK s : s = Ordered(Listed)
    OBVIOUS
  <1>3. /\ s \in Seq(Listed) /\ \A i \in Listed : \E n \in DOMAIN s : s[n] = i
        /\ \A n, p \in DOMAIN s : s[n] = s[p] => n = p
    BY <1>1, <1>2, OrderedLists
  <1>4. \A i \in Listed : Photo(i) \in ListedRow /\ Photo(i) \in PhotoRow /\ Photo(i).id = i
    BY <1>1 DEF Photo, Row, ListedRow, PhotoRow
  <1>5. PICK m : m = Photos
    OBVIOUS
  <1>6. m = [n \in DOMAIN s |-> Photo(s[n])] /\ DOMAIN s = 1 .. Len(s) /\ Len(s) \in Nat
        /\ \A n \in DOMAIN s : s[n] \in Listed
    BY <1>2, <1>3, <1>5 DEF Photos
  <1>7. DOMAIN m = DOMAIN s /\ \A n \in DOMAIN m : m[n] = Photo(s[n]) /\ m[n].id = s[n] /\ m[n] \in PhotoRow
    BY <1>4, <1>6
  <1>8. m \in Seq(PhotoRow)
    <2>1. m = [n \in 1 .. Len(s) |-> m[n]]
      BY <1>6
    <2> QED BY <1>6, <1>7, <2>1
  <1>9. ToSet(m) = {Photo(i) : i \in Listed}
    BY <1>3, <1>6, <1>7 DEF ToSet
  <1>10. \A n, p \in DOMAIN m : m[n].id = m[p].id => n = p
    BY <1>3, <1>7
  <1>11. \A n \in DOMAIN m : m[n].id \in DOMAIN images
    BY <1>1, <1>6, <1>7
  <1> QED BY <1>4, <1>5, <1>8, <1>9, <1>10, <1>11 DEF ShowsPhotos, HasIds

-----------------------------------------------------------------------------
(* What the console makes of the answer that it receives.                  *)
LEMMA UpdatedShows ==
  ASSUME NEW k, ~OfPanel(k), NEW a \in Contents, NEW b \in Contents, Shows(shown, a), Did(k, a, b),
         k.stage \in {"cover", "reorder", "delete", "publish", "create"},
         k.stage = "delete" => k.reply.id \in Nat
  PROVE  Shows(Updated(k), b)
  <1>0. PICK l : l = Updated(k)
    OBVIOUS
  <1>1. /\ shown = [known |-> TRUE, media |-> shown.media, published |-> a.published,
                    made |-> [n \in 1 .. a.made |-> n]]
        /\ ShowsPhotos(shown.media, a.photos)
    BY DEF Shows
  <1>2. PICK m : m = MediaAfter(k)
    OBVIOUS
  <1>3. PICK p : p = IF k.stage = "publish" THEN k.reply.list.published ELSE shown.published
    OBVIOUS
  <1>4. PICK w : w = IF k.stage = "create" THEN Append(shown.made, k.reply.id) ELSE shown.made
    OBVIOUS
  <1>5. shown.known = TRUE /\ l = [known |-> TRUE, media |-> m, published |-> p, made |-> w]
    <2>1. shown.known = TRUE
      BY <1>1
    <2>2. l = [shown EXCEPT !.media = m, !.published = p, !.made = w]
      BY <1>0, <1>2, <1>3, <1>4, <2>1 DEF Updated
    <2> QED BY <1>1, <2>1, <2>2
  <1>6. a = [photos |-> a.photos, published |-> a.published, made |-> a.made] /\ a.made \in Nat
        /\ a.photos \in SUBSET ListedRow
    BY DEF Contents
  <1>7. w = [n \in 1 .. b.made |-> n] /\ p = b.published
    <2>0. shown.made = [n \in 1 .. a.made |-> n] /\ shown.published = a.published
      BY <1>1
    <2>1. CASE k.stage = "create"
      <3>1. b.made = a.made + 1 /\ b.published = a.published /\ k.reply.id = a.made + 1
        BY <1>6, <2>1 DEF Did
      <3>2. w = Append([n \in 1 .. a.made |-> n], a.made + 1)
        BY <1>4, <2>0, <2>1, <3>1
      <3>3. [n \in 1 .. a.made |-> n] \in Seq(Nat) /\ Len([n \in 1 .. a.made |-> n]) = a.made
        BY <1>6
      <3>4. w = [n \in 1 .. a.made + 1 |-> n]
        BY <1>6, <3>2, <3>3
      <3> QED BY <1>3, <2>0, <2>1, <3>1, <3>4
    <2>2. CASE k.stage = "publish"
      BY <1>3, <1>4, <1>6, <2>0, <2>2 DEF Did
    <2>3. CASE k.stage \in {"cover", "reorder", "delete"}
      <3>1. b.made = a.made /\ b.published = a.published
        BY <1>6, <2>3 DEF Did
      <3> QED BY <1>3, <1>4, <2>0, <2>3, <3>1
    <2> QED BY <2>1, <2>2, <2>3
  <1>8. ShowsPhotos(m, b.photos)
    <2>1. CASE k.stage = "create"
      <3>1. b.photos = a.photos /\ m = shown.media
        BY <1>2, <1>6, <2>1 DEF Did, MediaAfter
      <3> QED BY <1>1, <3>1
    <2>2. CASE k.stage = "publish"
      BY <1>2, <2>2 DEF Did, MediaAfter
    <2>3. CASE k.stage = "cover"
      <3>1. b.photos = Covered(a.photos, k.reply.id)
        BY <1>6, <2>3 DEF Did
      <3>2. m = [n \in DOMAIN shown.media |->
                   [shown.media[n] EXCEPT !.cover = (shown.media[n].id = k.reply.id)]]
        BY <1>2, <2>3 DEF MediaAfter
      <3> QED BY <1>1, <3>1, <3>2, CoverShows
    <2>4. CASE k.stage = "reorder"
      <3>1. PICK U : U = {[id |-> i, status |-> "READY", cover |-> i = k.reply.id] : i \in ToSet(k.arg)}
        OBVIOUS
      <3>2. b = a /\ U \in SUBSET a.photos
        BY <2>4, <3>1 DEF Did
      <3>3. m = MergeMedia(shown.media, U)
        BY <1>2, <2>4, <3>1 DEF MediaAfter
      <3> QED BY <1>1, <1>6, <3>2, <3>3, MergeShowsAgain
    <2>5. CASE k.stage = "delete"
      <3>1. b.photos = Without(a.photos, k.reply.id)
        BY <1>6, <2>5 DEF Did
      <3>2. PICK row : row = [id |-> k.reply.id, status |-> "DELETING", cover |-> FALSE]
        OBVIOUS
      <3>3. m = MergeMedia(shown.media, {row})
        BY <1>2, <2>5, <3>2 DEF MediaAfter
      <3> QED BY <1>1, <1>6, <2>5, <3>1, <3>2, <3>3, DeleteShows
    <2> QED BY <2>1, <2>2, <2>3, <2>4, <2>5
  <1> QED BY <1>0, <1>5, <1>7, <1>8 DEF Shows

(* A delete of what is not listed any more.                                *)
LEMMA DeletedAgainShows ==
  ASSUME NEW k, ~OfPanel(k), NEW a \in Contents, Shows(shown, a), k.stage = "delete",
         k.reply.id \in Nat, \A p \in a.photos : p.id # k.reply.id
  PROVE  Shows(Updated(k), a)
  <1>1. a.photos = Without(a.photos, k.reply.id)
    BY DEF Without
  <1>2. Did(k, a, a)
    BY <1>1 DEF Did, Contents
  <1> QED BY <1>2, UpdatedShows

(* An upload: two changes at once.                                         *)
LEMMA UploadedShows ==
  ASSUME NEW k, ~OfPanel(k), NEW a \in Contents, NEW b \in Contents, NEW c \in Contents,
         Shows(shown, a), Did(k, a, b), Finalized(k, b, c), k.stage = "finalize",
         k.reply.id = k.arg[1], k.reply.id \in Nat
  PROVE  Shows(Updated(k), c)
  <1>0. PICK l : l = Updated(k)
    OBVIOUS
  <1>1. /\ shown = [known |-> TRUE, media |-> shown.media, published |-> a.published,
                    made |-> [n \in 1 .. a.made |-> n]]
        /\ ShowsPhotos(shown.media, a.photos)
    BY DEF Shows
  <1>2. PICK i \in Nat : i = k.reply.id
    OBVIOUS
  <1>3. PICK m : m = Append(shown.media, ReadyRow(i))
    OBVIOUS
  <1>4. MediaAfter(k) = m
    BY <1>2, <1>3 DEF MediaAfter, ReadyRow
  <1>5. shown.known = TRUE /\ l = [shown EXCEPT !.media = m]
    <2>1. shown.known = TRUE
      BY <1>1
    <2>2. l = [shown EXCEPT !.media = m, !.published = shown.published, !.made = shown.made]
      BY <1>0, <1>4, <2>1 DEF Updated
    <2> QED BY <1>1, <2>1, <2>2
  <1>6. /\ b = [a EXCEPT !.photos = a.photos \cup {PendingRow(i)}] /\ \A p \in a.photos : p.id # i
        /\ c = [b EXCEPT !.photos = (b.photos \ {PendingRow(i)}) \cup {ReadyRow(i)}]
    BY <1>2 DEF Did, Finalized, ImageOf
  <1>7. PendingRow(i).id = i /\ PendingRow(i) \notin a.photos
    BY <1>6 DEF PendingRow
  <1>8. c.photos = a.photos \cup {ReadyRow(i)} /\ c.published = a.published /\ c.made = a.made
    BY <1>6, <1>7 DEF Contents
  <1>9. ShowsPhotos(m, c.photos)
    BY <1>1, <1>3, <1>6, <1>8, AppendShows
  <1>10. l = [known |-> TRUE, media |-> m, published |-> c.published, made |-> [n \in 1 .. c.made |-> n]]
    <2>1. l = [known |-> TRUE, media |-> m, published |-> shown.published, made |-> shown.made]
      BY <1>1, <1>5
    <2>2. shown.published = c.published /\ shown.made = [n \in 1 .. c.made |-> n]
      BY <1>1, <1>8
    <2> QED BY <2>1, <2>2
  <1> QED BY <1>0, <1>9, <1>10 DEF Shows

(* Whatever is received, the photos shown are photos that there are.       *)
LEMMA UpdatedHasIds ==
  ASSUME Listable, NEW t \in Places, Answered(tasks[t]), tasks[t].stage \notin {"intent", "checklist"}
  PROVE  /\ Updated(tasks[t]) = [known |-> Updated(tasks[t]).known, media |-> Updated(tasks[t]).media,
                                 published |-> Updated(tasks[t]).published, made |-> Updated(tasks[t]).made]
         /\ HasIds(Updated(tasks[t]).media)
  <1> DEFINE k == tasks[t]
  <1>1. TaskOk(k) /\ HasIds(shown.media) /\ images \in Seq(Row)
        /\ shown = [known |-> shown.known, media |-> shown.media, published |-> shown.published,
                    made |-> shown.made]
    BY DEF Listable
  <1>2. \A i \in DOMAIN images : i \in Nat
    BY <1>1
  <1>3. CASE k.stage = "list"
    BY <1>1, <1>3 DEF TaskOk, ListOk, Updated
  <1>4. CASE k.stage # "list" /\ (~shown.known \/ OfPanel(k))
    BY <1>1, <1>4 DEF Updated
  <1>5. CASE k.stage # "list" /\ shown.known /\ ~OfPanel(k)
    <2>1. PICK m : m = MediaAfter(k)
      OBVIOUS
    <2>2. PICK p : p = IF k.stage = "publish" THEN k.reply.list.published ELSE shown.published
      OBVIOUS
    <2>3. PICK w : w = IF k.stage = "create" THEN Append(shown.made, k.reply.id) ELSE shown.made
      OBVIOUS
    <2>4. Updated(k) = [shown EXCEPT !.media = m, !.published = p, !.made = w]
      BY <1>5, <2>1, <2>2, <2>3 DEF Updated
    <2>5. Updated(k) = [known |-> shown.known, media |-> m, published |-> p, made |-> w]
      BY <1>1, <2>4
    <2>6. PICK s : s = shown.media
      OBVIOUS
    <2>7. s \in Seq(PhotoRow) /\ DOMAIN s = 1 .. Len(s) /\ Len(s) \in Nat
          /\ \A n \in DOMAIN s : s[n] \in PhotoRow /\ s[n].id \in DOMAIN images
      BY <1>1, <2>6 DEF HasIds
    <2>8. \A U \in SUBSET PhotoRow : HasIds(MergeMedia(s, U))
      <3> SUFFICES ASSUME NEW U \in SUBSET PhotoRow, NEW r, r = MergeMedia(s, U)
          PROVE  HasIds(r)
        OBVIOUS
      <3>1. /\ r \in Seq(PhotoRow)
            /\ \A j \in DOMAIN r : \E n \in DOMAIN s :
                 r[j] = MergedAt(s, U, n) /\ MergedAt(s, U, n).status # "DELETING"
            /\ \A n \in DOMAIN s : /\ MergedAt(s, U, n) \in PhotoRow
                                   /\ MergedAt(s, U, n).id = s[n].id
        BY <2>7, Merges
      <3>2. \A j \in DOMAIN r : r[j].id \in DOMAIN images
        BY <2>7, <3>1
      <3> QED BY <3>1, <3>2 DEF HasIds
    <2>9. HasIds(m)
      <3>1. CASE k.stage = "finalize"
        <4>1. k.reply.id \in DOMAIN images /\ k.reply.id \in Nat
          BY <1>1, <1>2, <3>1 DEF TaskOk, NamesOk, IsImage
        <4>2. m = Append(s, ReadyRow(k.reply.id)) /\ ReadyRow(k.reply.id) \in PhotoRow
              /\ ReadyRow(k.reply.id).id = k.reply.id
          BY <2>1, <2>6, <3>1, <4>1 DEF MediaAfter, ReadyRow, PhotoRow, PhotoStatus
        <4>3. m \in Seq(PhotoRow) /\ DOMAIN m = 1 .. Len(s) + 1 /\ m[Len(s) + 1] = ReadyRow(k.reply.id)
              /\ \A n \in DOMAIN s : m[n] = s[n]
          BY <2>7, <4>2
        <4>4. \A n \in DOMAIN m : n \in DOMAIN s \/ n = Len(s) + 1
          BY <2>7, <4>3
        <4> QED BY <2>7, <4>1, <4>2, <4>3, <4>4 DEF HasIds
      <3>2. CASE k.stage = "cover"
        <4>1. m = [n \in 1 .. Len(s) |-> [s[n] EXCEPT !.cover = (s[n].id = k.reply.id)]]
          BY <2>1, <2>6, <2>7, <3>2 DEF MediaAfter
        <4>2. \A n \in 1 .. Len(s) : m[n] \in PhotoRow /\ m[n].id \in DOMAIN images
          <5> SUFFICES ASSUME NEW n \in 1 .. Len(s)
              PROVE  m[n] \in PhotoRow /\ m[n].id \in DOMAIN images
            OBVIOUS
          <5>1. PICK c \in BOOLEAN : c = (s[n].id = k.reply.id)
            OBVIOUS
          <5>2. m[n] = [s[n] EXCEPT !.cover = c] /\ s[n] \in PhotoRow /\ s[n].id \in DOMAIN images
            BY <2>7, <4>1, <5>1
          <5> QED BY <5>1, <5>2 DEF PhotoRow
        <4>3. DOMAIN m = 1 .. Len(s) /\ m = [n \in 1 .. Len(s) |-> m[n]]
          BY <4>1
        <4>4. m \in [1 .. Len(s) -> PhotoRow]
          BY <4>2, <4>3
        <4> QED BY <2>7, <4>2, <4>3, <4>4 DEF HasIds
      <3>3. CASE k.stage = "reorder"
        <4>1. PICK U : U = {[id |-> i, status |-> "READY", cover |-> i = k.reply.id] : i \in ToSet(k.arg)}
          OBVIOUS
        <4>2. \A i \in ToSet(k.arg) : i \in Nat
          BY <1>1, <1>2, <3>3 DEF TaskOk, NamesOk, IsImage
        <4>3. U \in SUBSET PhotoRow
          <5> SUFFICES ASSUME NEW u \in U PROVE u \in PhotoRow
            OBVIOUS
          <5>1. PICK i \in ToSet(k.arg) : u = [id |-> i, status |-> "READY", cover |-> i = k.reply.id]
            BY <4>1
          <5>2. PICK c \in BOOLEAN : c = (i = k.reply.id)
            OBVIOUS
          <5> QED BY <4>2, <5>1, <5>2 DEF PhotoRow, PhotoStatus
        <4>4. m = MergeMedia(s, U)
          BY <2>1, <2>6, <3>3, <4>1 DEF MediaAfter
        <4> QED BY <2>8, <4>3, <4>4
      <3>4. CASE k.stage = "delete"
        <4>1. PICK U : U = {[id |-> k.reply.id, status |-> "DELETING", cover |-> FALSE]}
          OBVIOUS
        <4>2. k.reply.id \in Nat
          BY <1>1, <1>2, <3>4 DEF TaskOk, NamesOk, IsImage
        <4>3. U \in SUBSET PhotoRow
          BY <4>1, <4>2 DEF PhotoRow, PhotoStatus
        <4>4. m = MergeMedia(s, U)
          BY <2>1, <2>6, <3>4, <4>1 DEF MediaAfter
        <4> QED BY <2>8, <4>3, <4>4
      <3>5. CASE k.stage = "publish"
        BY <1>1, <2>1, <3>5 DEF TaskOk, ListOk, MediaAfter
      <3>6. CASE k.stage \notin {"finalize", "cover", "reorder", "delete", "publish"}
        BY <1>1, <2>1, <3>6 DEF MediaAfter
      <3> QED BY <3>1, <3>2, <3>3, <3>4, <3>5, <3>6
    <2> QED BY <2>5, <2>9
  <1> QED BY <1>3, <1>4, <1>5

(* Photos are added and deleted, for good.                                 *)
Grows ==
  /\ version \in Nat /\ version' \in Nat /\ version <= version'
  /\ \A i \in DOMAIN images :
       /\ i \in DOMAIN images'
       /\ images[i].status = "DELETING" => images'[i].status = "DELETING"

(* A task that is left alone stays as it should be.                        *)
LEMMA TaskStaysOk ==
  ASSUME Grows, NEW k, TaskOk(k)
  PROVE  TaskOk(k)'
  <1>1. KindOk(k)'
    BY DEF TaskOk, KindOk
  <1>2. SinceOk(k)'
    BY DEF TaskOk, SinceOk, Grows, IsAction, OfPanel, Answered
  <1>3. NamesOk(k)'
    BY DEF TaskOk, NamesOk, Grows, Answered, IsImage
  <1>4. ListOk(k)'
    BY DEF TaskOk, ListOk, Grows, Answered, HasIds
  <1> QED BY <1>1, <1>2, <1>3, <1>4 DEF TaskOk

(* Every step: what is listed is as before, but for the parts named.       *)
LEMMA ListableOn ==
  ASSUME Listable, Grows, images' \in Seq(Row), published' \in BOOLEAN, made' \in Nat,
         cover' \in Nat, cover' # 0 => IsImage(cover)' /\ images'[cover'].status = "READY",
         \/ shown' = shown
         \/ /\ shown' = [known |-> shown'.known, media |-> shown'.media, published |-> shown'.published,
                         made |-> shown'.made]
            /\ HasIds(shown.media)',
         \A s \in Places : tasks'[s] = tasks[s] \/ TaskOk(tasks[s])'
  PROVE  Listable'
  <1>1. \A s \in Places : TaskOk(tasks[s])'
    <2> SUFFICES ASSUME NEW s \in Places, tasks'[s] = tasks[s] PROVE TaskOk(tasks[s])'
      OBVIOUS
    <2>1. PICK k : k = tasks[s]
      OBVIOUS
    <2>2. TaskOk(k)'
      BY <2>1, TaskStaysOk DEF Listable
    <2>3. tasks'[s] = k
      BY <2>1
    <2> QED BY <2>2, <2>3
  <1>2. HasIds(shown.media)'
    <2>1. CASE shown' = shown
      BY <2>1 DEF Listable, HasIds, Grows
    <2> QED BY <2>1
  <1>3. shown' = [known |-> shown'.known, media |-> shown'.media, published |-> shown'.published,
                  made |-> shown'.made]
    BY DEF Listable
  <1> QED BY <1>1, <1>2, <1>3 DEF Listable

(* The same when the server stays as it is.                                *)
LEMMA ListableQuiet ==
  ASSUME Listable, version \in Nat, version' = version, images' = images, cover' = cover,
         published' = published, made' = made,
         shown' = shown \/ shown' = Nothing,
         \A s \in Places : tasks'[s] = tasks[s] \/ TaskOk(tasks[s])'
  PROVE  Listable'
  <1>1. Grows
    BY DEF Grows
  <1>2. shown' = Nothing =>
          /\ shown' = [known |-> shown'.known, media |-> shown'.media, published |-> shown'.published,
                       made |-> shown'.made]
          /\ HasIds(shown.media)'
    <2> SUFFICES ASSUME shown' = Nothing
        PROVE  /\ shown' = [known |-> shown'.known, media |-> shown'.media, published |-> shown'.published,
                            made |-> shown'.made]
               /\ HasIds(shown.media)'
      OBVIOUS
    <2>1. shown'.media = <<>> /\ <<>> \in Seq(PhotoRow) /\ DOMAIN <<>> = {}
      BY DEF Nothing
    <2> QED BY <2>1 DEF Nothing, HasIds
  <1> QED BY <1>1, <1>2, ListableOn DEF Listable, IsImage

-----------------------------------------------------------------------------
(* The history h of the contents goes on as g.                             *)
Continues(g, h) ==
  /\ version' \in {version, version + 1}
  /\ g \in [0 .. version' -> Contents] /\ g[version'] = Content'
  /\ \A u \in 0 .. version : g[u] = h[u]

(* What is listed are contents, before and after a step.                   *)
LEMMA ContentTyped == Listable => Content \in Contents
  <1> SUFFICES ASSUME Listable PROVE Content \in Contents
    OBVIOUS
  <1>1. {Photo(i) : i \in Listed} \in SUBSET ListedRow
    BY PhotosShow DEF Listable
  <1> QED BY <1>1 DEF Content, Contents, Listable

(* The same of the next state.                                             *)
LEMMA ContentTypedNext == Listable' => Content' \in Contents
  <1>1. (Listable => Content \in Contents)'
    BY ContentTyped, PTL
  <1> QED BY <1>1

(* A history goes on by the contents of the new version, if there is one.  *)
LEMMA HistoryGoesOn ==
  ASSUME NEW h, h \in [0 .. version -> Contents], h[version] = Content, version \in Nat,
         Content' \in Contents,
         version' = version + 1 \/ (version' = version /\ Content' = Content)
  PROVE  \E g : Continues(g, h)
  <1>1. CASE version' = version /\ Content' = Content
    BY <1>1 DEF Continues
  <1>2. CASE version' = version + 1
    <2> DEFINE g == [u \in 0 .. version + 1 |-> IF u <= version THEN h[u] ELSE Content']
    <2>1. g \in [0 .. version + 1 -> Contents]
      OBVIOUS
    <2>2. g[version + 1] = Content' /\ \A u \in 0 .. version : g[u] = h[u]
      OBVIOUS
    <2> HIDE DEF g
    <2> QED BY <1>2, <2>1, <2>2 DEF Continues
  <1> QED BY <1>1, <1>2

(* What a task did stays in the history,                                   *)
LEMMA EffectStays ==
  ASSUME version \in Nat, NEW h, NEW g, Continues(g, h), NEW k, TaskOk(k), Effect(k, h),
         k.reply.version \in Nat, k.reply.version <= version
  PROVE  Effect(k, g)
  <1>1. IsAction(k) /\ k.since # 0 => g[k.since - 1] = h[k.since - 1] /\ g[k.since] = h[k.since]
    BY DEF TaskOk, SinceOk, Continues
  <1>2. k.stage = "finalize" /\ Answered(k) =>
          g[k.reply.version - 1] = h[k.reply.version - 1] /\ g[k.reply.version] = h[k.reply.version]
    BY DEF TaskOk, SinceOk, Continues
  <1>3. g[k.reply.version] = h[k.reply.version]
    BY DEF Continues
  <1> QED BY <1>1, <1>2, <1>3 DEF Effect

(* And what it deleted stays deleted.                                      *)
LEMMA GoneStays ==
  ASSUME version \in Nat, NEW h, NEW g, Continues(g, h), NEW k, TaskOk(k)', Gone(k, h, version),
         k.reply.version \in Nat
  PROVE  Gone(k, g, version')
  <1> SUFFICES ASSUME k.stage = "delete", Answered(k), NEW u \in k.reply.version .. version',
                      NEW p \in g[u].photos
      PROVE  p.id # k.reply.id
    BY DEF Gone
  <1>1. CASE u <= version
    BY <1>1 DEF Gone, Continues
  <1>2. CASE u = version'
    <2>1. images'[k.reply.id].status = "DELETING"
      BY DEF TaskOk, NamesOk, Answered
    <2>2. \E i \in Listed' : p = Photo(i)'
      BY <1>2 DEF Continues, Content
    <2>3. PICK i \in Listed' : p.id = i
      BY <2>2 DEF Photo
    <2> QED BY <2>1, <2>3 DEF Listed
  <1>3. u \in Nat /\ version' \in Nat /\ (u <= version \/ u = version')
    BY DEF Continues
  <1> QED BY <1>1, <1>2, <1>3

(* A task hands on what it answers for.                                    *)
HandsOn(k, j) ==
  /\ WillAsk(k) => WillAsk(j) \/ (Listing(j) /\ j.reply.version = version /\ version' = version)
  /\ Doomed(k, upto) => Doomed(j, upto)
  /\ Listing(k) => Listing(j) /\ j.reply.version = k.reply.version
  /\ \A u \in 1 .. version : Owes(k, u) => Owes(j, u)

(* A history that goes on still explains what is shown, if a list will be  *)
(* asked for, or if every task hands on what it answers for and somebody   *)
(* owes the new version.                                                   *)
LEMMA RemembersOn ==
  ASSUME version \in Nat, upto \in Nat, upto <= version,
         NEW h, Remembers(h), NEW g, Continues(g, h), upto' = upto,
         shown' = shown \/ ~shown'.known,
         \A s \in Places : Effect(tasks'[s], g) /\ Gone(tasks'[s], g, version'),
         \/ \E s \in Places : WillAsk(tasks'[s])
         \/ /\ \A s \in Places : tasks'[s] = tasks[s] \/ HandsOn(tasks[s], tasks'[s])
            /\ \/ version' = version \/ Content' = Content
               \/ \E s \in Places : Owes(tasks'[s], version')
  PROVE  Remembers(g)'
  <1> DEFINE Ask == \E s \in Places : WillAsk(tasks'[s])
  <1>1. g \in [0 .. version' -> Contents] /\ g[version'] = Content' /\ version' \in Nat
        /\ \A u \in 0 .. version : g[u] = h[u]
    BY DEF Continues
  <1>2. version' \in {version, version + 1}
    BY DEF Continues
  <1>3. Steps(h) /\ ShownIs(h) /\ h[version] = Content
    BY DEF Remembers
  <1>4. ASSUME NEW a \in upto .. version', NEW b \in upto .. version', a < b, ~Ask
        PROVE  \/ g[a] = g[b]
               \/ \E t \in Places : \/ WillAsk(tasks'[t]) \/ Doomed(tasks'[t], upto)
                                    \/ Listing(tasks'[t]) /\ a < tasks'[t].reply.version
                                    \/ \E u \in a + 1 .. b : Owes(tasks'[t], u)
    <2>0. \A s \in Places : tasks'[s] = tasks[s] \/ HandsOn(tasks[s], tasks'[s])
      BY <1>4
    <2>1. ASSUME NEW c \in upto .. version, a < c, c <= b, version' = version => c = b
          PROVE  \/ h[a] = h[c]
                 \/ \E t \in Places : \/ WillAsk(tasks'[t]) \/ Doomed(tasks'[t], upto)
                                      \/ Listing(tasks'[t]) /\ a < tasks'[t].reply.version
                                      \/ \E u \in a + 1 .. b : Owes(tasks'[t], u)
      <3>0. a \in upto .. version
        BY <2>1
      <3> SUFFICES ASSUME h[a] # h[c]
          PROVE  \E t \in Places : \/ WillAsk(tasks'[t]) \/ Doomed(tasks'[t], upto)
                                   \/ Listing(tasks'[t]) /\ a < tasks'[t].reply.version
                                   \/ \E u \in a + 1 .. b : Owes(tasks'[t], u)
        OBVIOUS
      <3>1. PICK t \in Places : \/ WillAsk(tasks[t]) \/ Doomed(tasks[t], upto)
                                \/ Listing(tasks[t]) /\ a < tasks[t].reply.version
                                \/ \E u \in a + 1 .. c : Owes(tasks[t], u)
        BY <1>3, <2>1, <3>0 DEF Steps
      <3>2. CASE tasks'[t] = tasks[t]
        <4>1. \A u \in a + 1 .. c : u \in a + 1 .. b
          BY <1>1, <1>4, <2>1
        <4> QED BY <3>1, <3>2, <4>1
      <3>3. CASE HandsOn(tasks[t], tasks'[t])
        <4>1. CASE WillAsk(tasks[t])
          BY <1>4, <2>1, <3>3, <4>1 DEF HandsOn
        <4>2. CASE \E u \in a + 1 .. c : Owes(tasks[t], u)
          <5>1. PICK u \in a + 1 .. c : Owes(tasks[t], u)
            BY <4>2
          <5>2. u \in 1 .. version /\ u \in a + 1 .. b
            BY <1>1, <1>4, <2>1, <5>1
          <5> QED BY <3>3, <5>1, <5>2 DEF HandsOn
        <4>3. CASE Doomed(tasks[t], upto) \/ (Listing(tasks[t]) /\ a < tasks[t].reply.version)
          BY <3>3, <4>3 DEF HandsOn
        <4> QED BY <3>1, <4>1, <4>2, <4>3
      <3> QED BY <2>0, <3>2, <3>3
    <2>2. CASE b <= version
      <3>1. b \in upto .. version /\ g[a] = h[a] /\ g[b] = h[b]
        BY <1>1, <1>4, <2>2
      <3> QED BY <1>4, <2>1, <2>2, <3>1
    <2>3. CASE b = version + 1 /\ version' = version + 1
      <3>1. CASE Content' = Content
        <4>1. g[b] = h[version] /\ g[a] = h[a] /\ a \in upto .. version
          BY <1>1, <1>3, <1>4, <2>3, <3>1
        <4>2. a = version \/ a < version
          BY <1>1, <1>4, <4>1
        <4> QED BY <1>4, <2>1, <2>3, <4>1, <4>2
      <3>2. CASE \E s \in Places : Owes(tasks'[s], version')
        <4>1. version' \in a + 1 .. b
          BY <1>4, <2>3
        <4> QED BY <3>2, <4>1
      <3> QED BY <1>4, <2>3, <3>1, <3>2
    <2> QED BY <1>1, <1>2, <1>4, <2>2, <2>3
  <1>5. Steps(g)'
    BY <1>4 DEF Steps
  <1>6. ShownIs(g)'
    <2> SUFFICES ASSUME shown'.known, ~Ask, ~Shows(shown', g[upto])
        PROVE  \E t \in Places : WillAsk(tasks'[t]) \/ Doomed(tasks'[t], upto) \/ Listing(tasks'[t])
      BY DEF ShownIs
    <2>1. shown' = shown /\ g[upto] = h[upto]
      BY <1>1
    <2>2. PICK t \in Places : WillAsk(tasks[t]) \/ Doomed(tasks[t], upto) \/ Listing(tasks[t])
      BY <1>3, <2>1 DEF ShownIs
    <2>3. CASE tasks'[t] = tasks[t]
      BY <2>2, <2>3
    <2>4. CASE HandsOn(tasks[t], tasks'[t])
      BY <2>2, <2>4 DEF HandsOn
    <2> QED BY <2>3, <2>4
  <1> QED BY <1>1, <1>5, <1>6 DEF Remembers

-----------------------------------------------------------------------------
(* The answers.                                                            *)

(* The first version that a task changed is kept with it.                  *)
LEMMA AnswerSince ==
  ASSUME NEW t \in Places, NEW verdict, NEW change, NEW id, NEW list,
         tasks = [s \in Places |-> tasks[s]], IsTask(tasks[t]),
         Answer(t, verdict, change, id, list)
  PROVE  tasks'[t].since = IF change # version /\ tasks[t].since = 0 THEN change ELSE tasks[t].since
  BY DEF Answer, IsTask

(* What an answer leaves of a task.                                        *)
LEMMA AnswerTask ==
  ASSUME IInv, NEW t \in Places, NEW verdict, NEW change, NEW id, NEW list,
         Answer(t, verdict, change, id, list)
  PROVE  /\ Only(t)
         /\ tasks'[t].kind = tasks[t].kind /\ tasks'[t].arg = tasks[t].arg
         /\ tasks'[t].stage = tasks[t].stage /\ tasks'[t].step = "answered"
         /\ tasks'[t].reply.verdict = verdict /\ tasks'[t].reply.version = change
         /\ tasks'[t].reply.id = id /\ tasks'[t].reply.list = list
         /\ tasks'[t].since = IF change # version /\ tasks[t].since = 0 THEN change ELSE tasks[t].since
  <1>1. tasks = [s \in Places |-> tasks[s]] /\ IsTask(tasks[t])
    BY DEF IInv, Shapes
  <1>2. tasks'[t].reply = [verdict |-> verdict, version |-> change, id |-> id, list |-> list]
    BY <1>1, AnswerGiven
  <1> QED BY <1>1, <1>2, AnswerGiven, AnswerSince DEF Only

(* The answer to a request of that stage.                                  *)
Fitting(k, change, id, list) ==
  /\ k.stage \in {"intent", "finalize", "cover", "reorder", "publish", "create"} => change = version + 1
  /\ k.stage = "finalize" => id = k.arg[1]
  /\ k.stage \in {"intent", "delete"} => id \in DOMAIN images'
  /\ k.stage = "delete" => images'[id].status = "DELETING"
  /\ k.stage = "reorder" => \A i \in ToSet(k.arg) : i \in DOMAIN images'
  /\ k.stage \in {"list", "publish"} =>
       /\ list = [known |-> TRUE, media |-> list.media, published |-> list.published, made |-> list.made]
       /\ list.media \in Seq(PhotoRow) /\ \A n \in DOMAIN list.media : list.media[n].id \in DOMAIN images'

(* A task is as it should be when its answer comes.                        *)
LEMMA AnsweredOk ==
  ASSUME IInv, Listable, Grows, NEW t \in Places, NEW verdict, NEW change, NEW id, NEW list,
         Answer(t, verdict, change, id, list), change \in {version, version + 1}, version' = change,
         tasks[t].step = "sent" \/ (verdict = "lost" /\ tasks[t].step = "answered"),
         tasks[t].stage = "finalize" \/ verdict = "ok" \/ change = version,
         tasks[t].stage = "checklist" => change = version,
         verdict = "ok" => Fitting(tasks[t], change, id, list)
  PROVE  TaskOk(tasks[t])'
  <1>1. PICK k : k = tasks[t]
    OBVIOUS
  <1>2. PICK j : j = tasks'[t]
    OBVIOUS
  <1>3. /\ j.kind = k.kind /\ j.arg = k.arg /\ j.stage = k.stage /\ j.step = "answered"
        /\ j.reply.verdict = verdict /\ j.reply.version = change /\ j.reply.id = id /\ j.reply.list = list
        /\ j.since = IF change # version /\ k.since = 0 THEN change ELSE k.since
    BY <1>1, <1>2, AnswerTask
  <1>4. TaskOk(k) /\ version \in Nat /\ version' \in Nat /\ version <= version'
    BY <1>1 DEF Listable, Grows
  <1>5. KindOk(j)'
    <2>1. k # Idle
      BY <1>1, IdleTask
    <2> QED BY <1>3, <1>4, <2>1 DEF TaskOk, KindOk
  <1>6. SinceOk(j)'
    <2>1. k.since \in 0 .. version /\ k.step \in {"sent", "answered"}
      BY <1>1, <1>4 DEF TaskOk, SinceOk
    <2>2. j.since \in 0 .. version'
      BY <1>3, <1>4, <2>1
    <2>3. j.stage = "finalize" => j.since # 0 /\ (Answered(j) => j.since < j.reply.version)
      BY <1>1, <1>3, <1>4, <2>1 DEF TaskOk, SinceOk, Fitting, Answered
    <2>4. IsAction(j) <=> IsAction(k)
      BY <1>3 DEF IsAction, OfPanel
    <2>5. ASSUME IsAction(j), j.stage # "finalize", j.since # 0
          PROVE  /\ j.step = "answered" /\ j.reply.verdict \in {"ok", "lost"}
                 /\ Answered(j) => j.since = j.reply.version
      <3>1. k.step = "sent" => k.since = 0
        BY <1>3, <1>4, <2>4, <2>5 DEF TaskOk, SinceOk
      <3>2. CASE verdict = "lost"
        BY <1>3, <3>2 DEF Answered
      <3>3. CASE verdict # "lost"
        BY <1>1, <1>3, <2>5, <3>1, <3>3 DEF Answered
      <3> QED BY <3>2, <3>3
    <2>6. j.stage \in {"intent", "cover", "reorder", "publish", "create"} /\ Answered(j) => j.since # 0
      BY <1>1, <1>3, <1>4, <2>1 DEF Fitting, Answered
    <2>7. j.stage = "checklist" => j.since = 0
      BY <1>1, <1>3, <1>4 DEF TaskOk, SinceOk
    <2> QED BY <2>2, <2>3, <2>5, <2>6, <2>7 DEF SinceOk, IsAction, OfPanel, Answered
  <1>7. NamesOk(j)'
    <2>1. Answered(j) => Fitting(k, change, id, list)
      BY <1>1, <1>3 DEF Answered
    <2>2. /\ k.stage = "finalize" => k.arg[1] \in DOMAIN images'
          /\ k.kind = "delete" => k.arg[1] \in DOMAIN images'
          /\ k.kind = "reorder" => k.arg \in Seq(Nat)
      BY <1>4 DEF TaskOk, NamesOk, IsImage, Grows
    <2> QED BY <1>3, <2>1, <2>2 DEF NamesOk, Fitting, IsImage, Answered
  <1>8. ListOk(j)'
    <2>1. Answered(j) => Fitting(k, change, id, list)
      BY <1>1, <1>3 DEF Answered
    <2> QED BY <1>3, <2>1 DEF ListOk, Fitting, HasIds, Answered
  <1> QED BY <1>2, <1>5, <1>6, <1>7, <1>8 DEF TaskOk

(* What is left to remember when one task goes on.                         *)
LEMMA OneRemembers ==
  ASSUME IInv, Listable, Listable', NEW t \in Places, Only(t), NEW h, Remembers(h), NEW g, Continues(g, h),
         upto' = upto, shown' = shown, Effect(tasks'[t], g), Gone(tasks'[t], g, version'),
         \/ WillAsk(tasks'[t])
         \/ /\ HandsOn(tasks[t], tasks'[t])
            /\ version' = version \/ Content' = Content \/ Owes(tasks'[t], version')
  PROVE  Remembers(g)'
  <1>1. version \in Nat /\ upto \in Nat /\ upto <= version
        /\ \A s \in Places : tasks[s].reply.version \in Nat /\ tasks[s].reply.version <= version
    BY DEF IInv, Counted
  <1>2. ASSUME NEW s \in Places
        PROVE  Effect(tasks'[s], g) /\ Gone(tasks'[s], g, version')
    <2> SUFFICES ASSUME s # t PROVE Effect(tasks'[s], g) /\ Gone(tasks'[s], g, version')
      OBVIOUS
    <2>1. PICK k : k = tasks[s]
      OBVIOUS
    <2>2. tasks'[s] = k /\ k.reply.version \in Nat /\ k.reply.version <= version
      BY <1>1, <2>1 DEF Only
    <2>3. TaskOk(k) /\ TaskOk(k)' /\ Effect(k, h) /\ Gone(k, h, version)
      BY <2>1, <2>2 DEF Listable, Remembers
    <2> QED BY <1>1, <2>2, <2>3, EffectStays, GoneStays
  <1>3. \A s \in Places : tasks'[s] = tasks[s] \/ HandsOn(tasks[s], tasks'[s]) \/ s = t
    BY DEF Only
  <1> QED BY <1>1, <1>2, <1>3, RemembersOn

(* A photo that was deleted just now is not listed.                        *)
LEMMA GoneNow ==
  ASSUME NEW k, TaskOk(k)', k.reply.version = version', version' \in Nat, NEW g, g[version'] = Content'
  PROVE  Gone(k, g, version')
  <1> SUFFICES ASSUME k.stage = "delete", Answered(k), NEW u \in k.reply.version .. version',
                      NEW p \in g[u].photos
      PROVE  p.id # k.reply.id
    BY DEF Gone
  <1>1. u = version'
    OBVIOUS
  <1>2. images'[k.reply.id].status = "DELETING"
    BY DEF TaskOk, NamesOk, Answered
  <1>3. PICK i \in Listed' : p.id = i
    BY <1>1 DEF Content, Photo
  <1> QED BY <1>2, <1>3 DEF Listed

(* A failure is answered for by the task that will ask for the list again, *)
(* or by nobody if there is nothing to answer for.                         *)
LEMMA FailedTells ==
  ASSUME NEW k, TaskOk(k), k.step \in {"sent", "answered"}, NEW j, j.kind = k.kind, j.stage = k.stage,
         j.step = "answered", j.reply.verdict # "ok",
         k.step = "sent" \/ (j.reply.verdict = "lost" /\ k.reply.verdict # "lost")
  PROVE  WillAsk(j) \/ (~WillAsk(k) /\ ~Listing(k) /\ ~(IsAction(k) /\ k.since # 0))
  <1>1. k # Idle
    BY IdleTask
  <1>2. Fails(j) /\ ~Answered(j)
    BY DEF Fails, Answered
  <1>3. CASE k.stage = "list"
    BY <1>2, <1>3 DEF WillAsk
  <1>4. CASE k.kind = "upload" /\ k.stage \in {"intent", "finalize"}
    BY <1>2, <1>4 DEF WillAsk, Reloads, OfPanel
  <1>5. CASE k.kind \in {"cover", "reorder", "delete", "create"} /\ k.stage = k.kind
    BY <1>2, <1>5 DEF WillAsk, Reloads, OfPanel
  <1>6. CASE k.kind = "publish" /\ k.stage = "checklist"
    BY <1>6 DEF WillAsk, Listing, Reloads, TaskOk, SinceOk
  <1>7. CASE k.kind = "publish" /\ k.stage = "publish"
    <2>1. CASE j.reply.verdict = "lost"
      BY <1>2, <1>7, <2>1 DEF WillAsk
    <2>2. CASE k.step = "sent"
      BY <1>7, <2>2 DEF WillAsk, Listing, Reloads, Fails, TaskOk, SinceOk
    <2> QED BY <2>1, <2>2
  <1>8. CASE k.kind \in PanelOps /\ k.stage = k.kind
    BY <1>8 DEF WillAsk, Listing, Reloads, IsAction, OfPanel, PanelOps
  <1> QED BY <1>1, <1>3, <1>4, <1>5, <1>6, <1>7, <1>8 DEF TaskOk, KindOk

(* A failure that reaches a task leaves a history.                         *)
LEMMA FailedRemembers ==
  ASSUME IInv, IInv', Listable, Listable', NEW t \in Places, NEW verdict, NEW change, NEW id, NEW list,
         Answer(t, verdict, change, id, list), change \in {version, version + 1}, version' = change,
         verdict # "ok",
         \/ tasks[t].step = "sent"
         \/ tasks[t].step = "answered" /\ verdict = "lost" /\ tasks[t].reply.verdict # "lost",
         tasks[t].stage = "finalize" \/ change = version,
         change = version => Content' = Content,
         upto' = upto, shown' = shown, NEW h, Remembers(h)
  PROVE  \E g : Remembers(g)'
  <1>1. PICK k : k = tasks[t]
    OBVIOUS
  <1>2. PICK j : j = tasks'[t]
    OBVIOUS
  <1>3. /\ j.kind = k.kind /\ j.arg = k.arg /\ j.stage = k.stage /\ j.step = "answered"
        /\ j.reply.verdict = verdict /\ Only(t)
        /\ j.since = IF change # version /\ k.since = 0 THEN change ELSE k.since
    BY <1>1, <1>2, AnswerTask
  <1>4. TaskOk(k) /\ version \in Nat
    BY <1>1 DEF Listable, IInv, Counted
  <1>5. \/ WillAsk(j)
        \/ ~WillAsk(k) /\ ~Listing(k) /\ ~(IsAction(k) /\ k.since # 0)
    BY <1>1, <1>3, <1>4, FailedTells
  <1>6. k.stage = "finalize" => WillAsk(j)
    BY <1>3, <1>4, <1>5, IdleTask DEF IsAction, OfPanel, TaskOk, KindOk, SinceOk, PanelOps
  <1>7. PICK g : Continues(g, h)
    <2>1. Content' \in Contents
      BY ContentTypedNext
    <2>2. h \in [0 .. version -> Contents] /\ h[version] = Content
      BY DEF Remembers
    <2> QED BY <1>4, <2>1, <2>2, HistoryGoesOn
  <1>8. Effect(k, g)
    <2>1. k.reply.version \in Nat /\ k.reply.version <= version /\ Effect(k, h)
      BY <1>1 DEF IInv, Counted, Remembers
    <2> QED BY <1>4, <1>7, <2>1, EffectStays
  <1>9. ~Answered(j)
    BY <1>3 DEF Answered
  <1>10. Effect(j, g) /\ Gone(j, g, version')
    <2>1. k.stage = "finalize" => Did(j, g[j.since - 1], g[j.since])
      <3> SUFFICES ASSUME k.stage = "finalize" PROVE Did(j, g[j.since - 1], g[j.since])
        OBVIOUS
      <3>1. k.since # 0 /\ IsAction(k)
        BY <1>4, IdleTask DEF TaskOk, SinceOk, KindOk, IsAction, OfPanel, PanelOps
      <3>2. Did(k, g[k.since - 1], g[k.since]) /\ j.since = k.since
        BY <1>3, <1>8, <3>1 DEF Effect
      <3> QED BY <1>3, <3>2 DEF Did, ImageOf
    <2> QED BY <1>3, <1>9, <2>1 DEF Effect, Gone, Listing
  <1>11. \/ WillAsk(j)
         \/ HandsOn(k, j) /\ version' = version
    <2>1. ~WillAsk(k) /\ ~Listing(k) /\ ~(IsAction(k) /\ k.since # 0) => HandsOn(k, j)
      BY DEF HandsOn, Doomed, Owes
    <2>2. k.stage # "finalize" => version' = version
      BY <1>1
    <2> QED BY <1>5, <1>6, <2>1, <2>2
  <1>12. Remembers(g)'
    BY <1>1, <1>2, <1>3, <1>7, <1>10, <1>11, OneRemembers
  <1> QED BY <1>12

(* An answer that is received as a result: what it tells of the contents.  *)
TellsContents(k, j) ==
  \/ /\ IsAction(k) /\ k.stage \notin {"finalize", "checklist"}
     /\ version' = version + 1 /\ Did(j, Content, Content')
  \/ /\ k.stage = "finalize" /\ version' = version + 1 /\ Finalized(j, Content, Content')
  \/ OfPanel(k) /\ Content' = Content
  \/ /\ k.stage \in {"checklist", "delete"} /\ version' = version /\ Content' = Content
  \/ /\ k.stage = "list" /\ version' = version /\ Content' = Content /\ Shows(j.reply.list, Content)

(* An answer as the request wants it leaves a history.                     *)
LEMMA AnsweredRemembers ==
  ASSUME IInv, Listable, Listable', NEW t \in Places, NEW change, NEW id, NEW list,
         Answer(t, "ok", change, id, list), change \in {version, version + 1}, version' = change,
         tasks[t].step = "sent", TellsContents(tasks[t], tasks'[t]),
         upto' = upto, shown' = shown, NEW h, Remembers(h)
  PROVE  \E g : Remembers(g)'
  <1>1. PICK k : k = tasks[t]
    OBVIOUS
  <1>2. PICK j : j = tasks'[t]
    OBVIOUS
  <1>3. /\ j.kind = k.kind /\ j.arg = k.arg /\ j.stage = k.stage /\ j.step = "answered"
        /\ j.reply.verdict = "ok" /\ j.reply.version = change /\ Only(t)
        /\ j.since = IF change # version /\ k.since = 0 THEN change ELSE k.since
    BY <1>1, <1>2, AnswerTask
  <1>4. TaskOk(k) /\ version \in Nat /\ k.step = "sent" /\ TaskOk(j)'
    BY <1>1, <1>2 DEF Listable, IInv, Counted
  <1>5. (IsAction(j) <=> IsAction(k)) /\ Answered(j) /\ ~Answered(k) /\ ~Fails(k) /\ ~Listing(k)
        /\ (IsAction(k) <=> ~OfPanel(k) /\ k.stage # "list")
    BY <1>3, <1>4 DEF IsAction, OfPanel, Answered, Fails, Listing
  <1>6. IsAction(k) /\ k.stage # "finalize" => k.since = 0
    BY <1>4 DEF TaskOk, SinceOk
  <1>7. TellsContents(k, j)
    BY <1>1, <1>2
  <1>8. OfPanel(k) => k.stage \in PanelOps
    BY <1>4, IdleTask DEF TaskOk, KindOk, OfPanel, PanelOps
  <1>9. version' = version + 1 \/ (version' = version /\ Content' = Content)
    BY <1>7, <1>8 DEF TellsContents
  <1>10. PICK g : Continues(g, h)
    <2>1. h \in [0 .. version -> Contents] /\ h[version] = Content /\ Content' \in Contents
      BY ContentTypedNext DEF Remembers
    <2> QED BY <1>4, <1>9, <2>1, HistoryGoesOn
  <1>11. /\ g[version'] = Content' /\ version' \in Nat
         /\ g[version] = Content
    <2>1. h[version] = Content
      BY DEF Remembers
    <2> QED BY <1>4, <1>10, <2>1 DEF Continues
  <1>12. Gone(j, g, version')
    BY <1>3, <1>4, <1>11, GoneNow
  <1>13. Effect(j, g)
    <2>1. CASE IsAction(k) /\ k.stage # "finalize" /\ version' = version + 1
      <3>1. j.since = version + 1
        BY <1>3, <1>4, <1>6, <2>1
      <3>2. Did(j, Content, Content')
        BY <1>5, <1>7, <1>8, <2>1 DEF TellsContents, IsAction, PanelOps
      <3>3. j.since - 1 = version
        BY <1>4, <3>1
      <3>4. Did(j, g[j.since - 1], g[j.since])
        BY <1>4, <1>11, <2>1, <3>1, <3>2, <3>3
      <3> QED BY <1>3, <1>5, <2>1, <3>4 DEF Effect, Listing
    <2>2. CASE k.stage = "finalize"
      <3>1. version' = version + 1 /\ Finalized(j, Content, Content') /\ IsAction(k) /\ k.since # 0
        BY <1>4, <1>7, <1>8, <2>2, IdleTask
           DEF TellsContents, PanelOps, IsAction, OfPanel, TaskOk, KindOk, SinceOk
      <3>2. Effect(k, g)
        <4>1. k.reply.version \in Nat /\ k.reply.version <= version /\ Effect(k, h)
          BY <1>1 DEF IInv, Counted, Remembers
        <4> QED BY <1>4, <1>10, <4>1, EffectStays
      <3>3. Did(k, g[k.since - 1], g[k.since])
        BY <2>2, <3>1, <3>2 DEF Effect
      <3>4. j.since = k.since
        BY <1>3, <3>1
      <3>5. Did(j, g[j.since - 1], g[j.since])
        BY <1>3, <2>2, <3>3, <3>4 DEF Did, ImageOf
      <3>6. j.reply.version = version + 1 /\ j.reply.version - 1 = version
        BY <1>3, <1>4, <3>1
      <3>7. Finalized(j, g[j.reply.version - 1], g[j.reply.version])
        BY <1>11, <3>1, <3>6
      <3> QED BY <1>3, <2>2, <3>5, <3>7 DEF Effect, Listing
    <2>3. CASE OfPanel(k)
      BY <1>3, <1>5, <1>8, <2>3 DEF Effect, Listing, PanelOps
    <2>4. CASE IsAction(k) /\ k.stage # "finalize" /\ version' = version
      <3>1. j.since = 0
        BY <1>3, <1>6, <2>4
      <3> QED BY <1>3, <1>5, <2>4, <3>1 DEF Effect, Listing
    <2>5. CASE k.stage = "list"
      <3>1. Shows(j.reply.list, Content) /\ version' = version
        BY <1>7, <1>8, <2>5 DEF TellsContents, PanelOps, IsAction
      <3> QED BY <1>3, <1>11, <2>5, <3>1 DEF Effect, IsAction
    <2> QED BY <1>5, <1>9, <2>1, <2>2, <2>3, <2>4, <2>5
  <1>14. HandsOn(k, j)
    <2>1. WillAsk(k) => Listing(j) /\ j.reply.version = version /\ version' = version
      <3> SUFFICES ASSUME WillAsk(k) PROVE Listing(j) /\ j.reply.version = version /\ version' = version
        OBVIOUS
      <3>1. k.stage = "list"
        BY <1>4, <1>5 DEF WillAsk
      <3>2. version' = version
        BY <1>7, <1>8, <3>1 DEF TellsContents, IsAction, PanelOps
      <3> QED BY <1>3, <1>5, <3>1, <3>2 DEF Listing
    <2>2. Doomed(k, upto) => Doomed(j, upto)
      BY <1>3, <1>5 DEF Doomed
    <2>3. \A u \in 1 .. version : Owes(k, u) => Owes(j, u)
      BY <1>3, <1>5 DEF Owes
    <2> QED BY <1>5, <2>1, <2>2, <2>3 DEF HandsOn
  <1>15. version' = version \/ Content' = Content \/ Owes(j, version')
    <2> SUFFICES ASSUME version' = version + 1, Content' # Content, version' # version
        PROVE  Owes(j, version')
      BY <1>9
    <2>1. IsAction(k) /\ k.stage # "checklist"
      BY <1>7, <1>8 DEF TellsContents, PanelOps, IsAction, OfPanel
    <2>2. CASE k.stage = "finalize"
      <3>1. j.since # 0
        BY <1>3, <1>4, <2>2 DEF TaskOk, SinceOk
      <3> QED BY <1>3, <1>5, <2>1, <2>2, <3>1 DEF Owes
    <2>3. CASE k.stage # "finalize"
      <3>1. j.since = version + 1
        BY <1>3, <1>6, <2>1, <2>3
      <3>2. j.since # 0 /\ j.since = version'
        BY <1>4, <3>1
      <3> QED BY <1>5, <2>1, <3>2 DEF Owes
    <2> QED BY <2>2, <2>3
  <1>16. Remembers(g)'
    BY <1>1, <1>2, <1>3, <1>10, <1>12, <1>13, <1>14, <1>15, OneRemembers
  <1> QED BY <1>16

-----------------------------------------------------------------------------
(* What each handler changes of the contents.                              *)
LEMMA RowOf ==
  ASSUME Listable
  PROVE  /\ DOMAIN images = 1 .. Len(images) /\ Len(images) \in Nat
         /\ \A i \in DOMAIN images : i \in Nat /\ i # 0 /\ images[i] \in Row /\ images[i].status \in PhotoStatus
                                     /\ images[i] = [status |-> images[i].status, place |-> images[i].place]
         /\ \A i : Photo(i).id = i
  <1>1. images \in Seq(Row) /\ DOMAIN images = 1 .. Len(images) /\ Len(images) \in Nat
        /\ \A i \in DOMAIN images : images[i] \in Row
    BY DEF Listable
  <1>2. \A i \in DOMAIN images : i \in Nat /\ i # 0
    BY <1>1
  <1>3. \A r \in Row : r.status \in PhotoStatus /\ r = [status |-> r.status, place |-> r.place]
    BY DEF Row
  <1>4. \A i : Photo(i).id = i
    BY DEF Photo
  <1> QED BY <1>1, <1>2, <1>3, <1>4

(* Photos that stay what they are.                                         *)
LEMMA PhotosStay ==
  ASSUME images' = images, cover' = cover
  PROVE  {Photo(i) : i \in Listed}' = {Photo(i) : i \in Listed}
  BY DEF Photo, Listed

(* createUploadIntent: one photo more, PENDING.                            *)
LEMMA IntentChanges ==
  ASSUME Listable, NEW place \in Nat, images' = Append(images, [status |-> "PENDING", place |-> place]),
         cover' = cover
  PROVE  /\ images' \in Seq(Row) /\ Len(images) + 1 \in DOMAIN images'
         /\ \A i \in DOMAIN images : i \in DOMAIN images' /\ images'[i] = images[i]
         /\ {Photo(i) : i \in Listed}' = {Photo(i) : i \in Listed} \cup {PendingRow(Len(images) + 1)}
         /\ \A p \in {Photo(i) : i \in Listed} : p.id # Len(images) + 1
  <1>1. PICK n : n = Len(images) + 1
    OBVIOUS
  <1>2. [status |-> "PENDING", place |-> place] \in Row
    BY DEF Row, PhotoStatus
  <1>3. /\ images \in Seq(Row) /\ DOMAIN images = 1 .. Len(images) /\ n \notin DOMAIN images
        /\ cover # n
    BY <1>1, RowOf DEF Listable, IsImage
  <1>4. /\ images' \in Seq(Row) /\ DOMAIN images' = DOMAIN images \cup {n}
        /\ images'[n] = [status |-> "PENDING", place |-> place]
        /\ \A i \in DOMAIN images : images'[i] = images[i]
    BY <1>1, <1>2, <1>3
  <1>5. Listed' = Listed \cup {n}
    BY <1>4 DEF Listed
  <1>6. Photo(n)' = PendingRow(n) /\ \A i \in Listed : Photo(i)' = Photo(i)
    <2>1. images'[n].status = "PENDING" /\ (n = cover) = FALSE
      BY <1>3, <1>4
    <2>2. Photo(n)' = [id |-> n, status |-> images'[n].status, cover |-> n = cover]
      BY DEF Photo
    <2>3. Photo(n)' = PendingRow(n)
      BY <2>1, <2>2 DEF PendingRow
    <2>4. \A i \in Listed : Photo(i)' = Photo(i)
      BY <1>4 DEF Photo, Listed
    <2> QED BY <2>3, <2>4
  <1>7. {Photo(i) : i \in Listed}' = {Photo(i) : i \in Listed} \cup {PendingRow(n)}
    BY <1>5, <1>6
  <1>8. \A p \in {Photo(i) : i \in Listed} : p.id # n
    BY <1>3, RowOf DEF Listed
  <1> QED BY <1>1, <1>4, <1>7, <1>8

(* A row that changes its status alone.                                    *)
LEMMA StatusChanges ==
  ASSUME Listable, NEW i \in DOMAIN images, NEW status \in PhotoStatus,
         images' = [images EXCEPT ![i].status = status]
  PROVE  /\ images' \in Seq(Row) /\ DOMAIN images' = DOMAIN images /\ images'[i].status = status
         /\ \A j \in DOMAIN images : j # i => images'[j] = images[j]
  <1>1. /\ images \in Seq(Row) /\ images[i] \in Row /\ DOMAIN images = 1 .. Len(images) /\ Len(images) \in Nat
        /\ \A j \in DOMAIN images : images[j] \in Row
    BY RowOf DEF Listable
  <1>2. DOMAIN images' = DOMAIN images /\ \A j \in DOMAIN images : j # i => images'[j] = images[j]
    OBVIOUS
  <1>3. images'[i] = [images[i] EXCEPT !.status = status]
    OBVIOUS
  <1>4. images'[i] \in Row /\ images'[i].status = status
    BY <1>1, <1>3 DEF Row
  <1>5. images' = [j \in 1 .. Len(images) |-> images'[j]] /\ \A j \in 1 .. Len(images) : images'[j] \in Row
    BY <1>1, <1>2, <1>4
  <1> QED BY <1>1, <1>2, <1>4, <1>5

(* finalize: the PENDING row is READY, and not the cover.                  *)
LEMMA FinalizeChanges ==
  ASSUME Listable, NEW i \in DOMAIN images, images[i].status = "PENDING",
         images' = [images EXCEPT ![i].status = "READY"], cover' = cover
  PROVE  {Photo(j) : j \in Listed}' =
           ({Photo(j) : j \in Listed} \ {PendingRow(i)}) \cup {ReadyRow(i)}
  <1>1. /\ DOMAIN images' = DOMAIN images /\ images'[i].status = "READY"
        /\ \A j \in DOMAIN images : j # i => images'[j] = images[j]
    BY StatusChanges DEF PhotoStatus
  <1>2. cover # i
    BY RowOf DEF Listable
  <1>3. Listed' = Listed /\ i \in Listed
    BY <1>1 DEF Listed
  <1>4. /\ Photo(i)' = ReadyRow(i) /\ Photo(i) = PendingRow(i)
        /\ \A j \in Listed : j # i => Photo(j)' = Photo(j)
    BY <1>1, <1>2 DEF Photo, PendingRow, ReadyRow, Listed
  <1>5. \A j \in Listed : j # i => Photo(j) # PendingRow(i)
    BY RowOf DEF PendingRow
  <1> QED BY <1>3, <1>4, <1>5

(* setCover: the cover moves.                                              *)
LEMMA CoverChanges ==
  ASSUME images' = images
  PROVE  {Photo(j) : j \in Listed}' = Covered({Photo(j) : j \in Listed}, cover')
  <1>1. Listed' = Listed
    BY DEF Listed
  <1>2. \A j : Photo(j)' = [id |-> Photo(j).id, status |-> Photo(j).status, cover |-> Photo(j).id = cover']
    BY DEF Photo
  <1> QED BY <1>1, <1>2 DEF Covered

(* delete: the photo is listed no more, and is not the cover.              *)
LEMMA DeleteChanges ==
  ASSUME Listable, NEW i \in DOMAIN images,
         images' = [images EXCEPT ![i].status = "DELETING"],
         cover' = IF cover = i THEN 0 ELSE cover
  PROVE  {Photo(j) : j \in Listed}' = Without({Photo(j) : j \in Listed}, i)
  <1>1. /\ DOMAIN images' = DOMAIN images /\ images'[i].status = "DELETING"
        /\ \A j \in DOMAIN images : j # i => images'[j] = images[j]
    BY StatusChanges DEF PhotoStatus
  <1>2. Listed' = Listed \ {i}
    BY <1>1 DEF Listed
  <1>3. \A j \in Listed : j # i => Photo(j)' = Photo(j)
    BY <1>1, RowOf DEF Photo, Listed
  <1>4. \A j : Photo(j).id = j
    BY RowOf
  <1> QED BY <1>2, <1>3, <1>4 DEF Without

(* reorder: the places change and the rows do not, as ids are the ready    *)
(* photos, each once.                                                      *)
LEMMA ReorderChanges ==
  ASSUME Listable, NEW ids \in Seq(Nat), ToSet(ids) = Ready, Len(ids) = Cardinality(Ready),
         images' = [i \in DOMAIN images |->
                      IF i \in Ready
                      THEN [status |-> "READY", place |-> SelectInSeq(ids, LAMBDA id : id = i) - 1]
                      ELSE images[i]],
         cover' = cover
  PROVE  /\ images' \in Seq(Row) /\ DOMAIN images' = DOMAIN images
         /\ \A i \in DOMAIN images : images'[i].status = images[i].status
         /\ {Photo(j) : j \in Listed}' = {Photo(j) : j \in Listed}
         /\ \A i \in ToSet(ids) :
              /\ i \in DOMAIN images
              /\ [id |-> i, status |-> "READY", cover |-> i = cover] \in {Photo(j) : j \in Listed}
  <1>1. /\ images \in Seq(Row) /\ DOMAIN images = 1 .. Len(images) /\ Len(images) \in Nat
        /\ \A j \in DOMAIN images : images[j] \in Row
    BY RowOf DEF Listable
  <1>2. Len(ids) \in Nat /\ DOMAIN ids = 1 .. Len(ids)
    OBVIOUS
  <1> DEFINE at(i) == {n \in 1 .. Len(ids) : ids[n] = i}
             place(i) == IF at(i) # {} THEN Min(at(i)) ELSE 0
  <1>3. \A i \in Ready : place(i) - 1 \in Nat
    <2> SUFFICES ASSUME NEW i \in Ready PROVE place(i) - 1 \in Nat
      OBVIOUS
    <2>1. PICK I : I = at(i)
      OBVIOUS
    <2>2. PICK N \in Nat : N = Len(ids)
      BY <1>2
    <2>3. I \in SUBSET (1 .. N) /\ I \in SUBSET Int /\ I # {}
      <3>1. \E n \in DOMAIN ids : ids[n] = i
        BY DEF ToSet
      <3> QED BY <1>2, <2>1, <2>2, <3>1
    <2>4. IsFiniteSet(I)
      <3>1. 1 \in Int /\ N \in Int
        BY <2>2
      <3>2. IsFiniteSet(1 .. N)
        BY <3>1, FS_Interval
      <3> QED BY <2>3, <3>2, FS_Subset
    <2>5. Min(I) \in I
      BY <2>3, <2>4, MaxAndMin
    <2>6. Min(I) - 1 \in Nat
      BY <2>3, <2>5
    <2> QED BY <2>1, <2>3, <2>6
  <1>4. ASSUME NEW i \in DOMAIN images
        PROVE  images'[i] \in Row /\ images'[i].status = images[i].status
    <2>1. CASE i \in Ready
      <3>1. images'[i] = [status |-> "READY", place |-> place(i) - 1]
        BY <2>1 DEF SelectInSeq
      <3>2. PICK n \in Nat : n = place(i) - 1
        BY <1>3, <2>1
      <3>3. images'[i] = [status |-> "READY", place |-> n]
        BY <3>1, <3>2
      <3> QED BY <2>1, <3>3 DEF Row, PhotoStatus, Ready
    <2>2. CASE i \notin Ready
      BY <1>1, <2>2
    <2> QED BY <2>1, <2>2
  <1>5. DOMAIN images' = DOMAIN images /\ images' = [i \in 1 .. Len(images) |-> images'[i]]
    BY <1>1
  <1>6. images' \in Seq(Row)
    <2>1. PICK J : J = images'
      OBVIOUS
    <2>2. PICK N \in Nat : N = Len(images)
      BY <1>1
    <2>3. \A i \in 1 .. N : J[i] \in Row
      BY <1>1, <1>4, <2>1, <2>2
    <2>4. J = [i \in 1 .. N |-> J[i]]
      BY <1>5, <2>1, <2>2
    <2>5. J \in Seq(Row)
      BY SMTT(30), <2>3, <2>4
    <2> QED BY <2>1, <2>5
  <1>7. Listed' = Listed /\ \A j \in Listed : Photo(j)' = Photo(j)
    BY <1>4, <1>5 DEF Listed, Photo
  <1>8. {Photo(j) : j \in Listed}' = {Photo(j) : j \in Listed}
    BY <1>7
  <1>9. \A i \in ToSet(ids) :
          /\ i \in DOMAIN images
          /\ [id |-> i, status |-> "READY", cover |-> i = cover] \in {Photo(j) : j \in Listed}
    BY DEF Ready, Listed, Photo
  <1> QED BY <1>4, <1>5, <1>6, <1>8, <1>9

(* The place of a new photo is a number.                                   *)
LEMMA NextPlaceIsNat ==
  ASSUME Listable
  PROVE  NextPlace \in Nat
  <1>1. PICK S : S = {0} \cup {images[i].place + 1 : i \in Active}
    OBVIOUS
  <1>2. /\ DOMAIN images = 1 .. Len(images) /\ Len(images) \in Nat
        /\ \A i \in DOMAIN images : images[i].place \in Nat
    BY RowOf DEF Row
  <1>3. S \in SUBSET Nat /\ S \in SUBSET Int /\ S # {}
    BY <1>1, <1>2 DEF Active
  <1>4. IsFiniteSet(S)
    <2> DEFINE A == Active
               T == {images[i].place + 1 : i \in A}
               f == [i \in A |-> images[i].place + 1]
    <2>1. IsFiniteSet(A)
      <3>1. IsFiniteSet(1 .. Len(images))
        BY <1>2, FS_Interval
      <3>2. A \in SUBSET (1 .. Len(images))
        BY <1>2 DEF Active
      <3> QED BY <3>1, <3>2, FS_Subset
    <2>2. f \in Surjection(A, T)
      <3>1. f \in [A -> T] /\ \A x \in T : \E i \in A : f[i] = x
        OBVIOUS
      <3> QED BY <3>1 DEF Surjection
    <2>3. IsFiniteSet(T)
      <3> HIDE DEF A, T, f
      <3> QED BY <2>1, <2>2, FS_Surjection
    <2>4. IsFiniteSet({0})
      BY FS_Singleton
    <2>5. IsFiniteSet({0} \cup T)
      BY <2>3, <2>4, FS_Union
    <2> QED BY <1>1, <2>5
  <1>5. Max(S) \in S
    BY <1>3, <1>4, MaxAndMin
  <1> QED BY <1>1, <1>3, <1>5 DEF NextPlace

(* What every step does with the list.                                     *)
KeepsList == Listable' /\ (Calm' => \A h : Remembers(h) => \E g : Remembers(g)')

(* A request that is refused or lost.                                      *)
LEMMA RefusedKeeps ==
  ASSUME IInv, IInv', Listable, NEW t \in Places, NEW verdict, NEW id, NEW list,
         Answer(t, verdict, version, id, list), verdict # "ok",
         \/ tasks[t].step = "sent"
         \/ tasks[t].step = "answered" /\ verdict = "lost" /\ tasks[t].reply.verdict # "lost",
         UNCHANGED server, version' = version, shown' = shown, upto' = upto
  PROVE  KeepsList
  <1>1. /\ images' = images /\ cover' = cover /\ published' = published /\ made' = made
        /\ version \in Nat /\ Grows
    BY DEF server, IInv, Counted, Grows
  <1>2. TaskOk(tasks[t])'
    BY <1>1, AnsweredOk
  <1>3. Only(t)
    BY AnswerTask
  <1>4. Listable'
    BY <1>1, <1>2, <1>3, ListableQuiet DEF Only
  <1>5. Content' = Content
    BY <1>1, PhotosStay DEF Content
  <1>6. ASSUME NEW h, Remembers(h)
        PROVE  \E g : Remembers(g)'
    BY <1>1, <1>4, <1>5, <1>6, FailedRemembers
  <1> QED BY <1>4, <1>6 DEF KeepsList

(* An answer that is as the request wants it.                              *)
LEMMA AnsweredKeeps ==
  ASSUME IInv, Listable, NEW t \in Places, NEW change, NEW id, NEW list,
         Answer(t, "ok", change, id, list), change \in {version, version + 1}, version' = change,
         tasks[t].step = "sent", tasks[t].stage = "checklist" => change = version,
         images' \in Seq(Row), published' \in BOOLEAN, made' \in Nat,
         \A i \in DOMAIN images :
           /\ i \in DOMAIN images'
           /\ images[i].status = "DELETING" => images'[i].status = "DELETING",
         cover' \in Nat, cover' # 0 => IsImage(cover)' /\ images'[cover'].status = "READY",
         Fitting(tasks[t], change, id, list), shown' = shown, upto' = upto,
         \A j : /\ j.stage = tasks[t].stage /\ j.arg = tasks[t].arg
                /\ j.reply.id = id /\ j.reply.list = list
                => TellsContents(tasks[t], j)
  PROVE  KeepsList
  <1>1. Grows
    BY DEF Grows, IInv, Counted
  <1>2. TaskOk(tasks[t])'
    BY <1>1, AnsweredOk
  <1>3. /\ Only(t) /\ tasks'[t].stage = tasks[t].stage /\ tasks'[t].arg = tasks[t].arg
        /\ tasks'[t].reply.id = id /\ tasks'[t].reply.list = list
    BY AnswerTask
  <1>4. Listable'
    BY <1>1, <1>2, <1>3, ListableOn DEF Only
  <1>5. TellsContents(tasks[t], tasks'[t])
    BY <1>3
  <1>6. ASSUME NEW h, Remembers(h)
        PROVE  \E g : Remembers(g)'
    BY <1>4, <1>5, <1>6, AnsweredRemembers
  <1> QED BY <1>4, <1>6 DEF KeepsList

(* The same where the photos stay as they are.                             *)
LEMMA ReadKeeps ==
  ASSUME IInv, Listable, NEW t \in Places, NEW change, NEW id, NEW list,
         Answer(t, "ok", change, id, list), change \in {version, version + 1}, version' = change,
         tasks[t].step = "sent", tasks[t].stage = "checklist" => change = version,
         images' = images, cover' = cover, published' \in BOOLEAN, made' \in Nat,
         Fitting(tasks[t], change, id, list), shown' = shown, upto' = upto,
         \A j : /\ j.stage = tasks[t].stage /\ j.arg = tasks[t].arg
                /\ j.reply.id = id /\ j.reply.list = list
                => TellsContents(tasks[t], j)
  PROVE  KeepsList
  <1>1. /\ images' \in Seq(Row) /\ cover' \in Nat
        /\ cover' # 0 => IsImage(cover)' /\ images'[cover'].status = "READY"
        /\ \A i \in DOMAIN images :
           /\ i \in DOMAIN images'
           /\ images[i].status = "DELETING" => images'[i].status = "DELETING"
    BY DEF Listable, IsImage
  <1> QED BY <1>1, AnsweredKeeps

-----------------------------------------------------------------------------
(* The handlers.                                                           *)
LEMMA RefuseKeeps ==
  ASSUME IInv, IInv', Listable, NEW t \in Places, tasks[t].step = "sent", shown' = shown, upto' = upto,
         NEW verdict, verdict # "ok", NEW id, NEW list, Reads(t, verdict, id, list)
  PROVE  KeepsList
  <1>1. Answer(t, verdict, version, id, list) /\ UNCHANGED server /\ version' = version
    BY DEF Reads
  <1> QED BY <1>1, RefusedKeeps

(* createUploadIntent                                                      *)
LEMMA IntentKeeps ==
  ASSUME IInv, IInv', Listable, NEW t \in Places, tasks[t].step = "sent", shown' = shown, upto' = upto,
         tasks[t].stage = "intent", CreateUploadIntent(t)
  PROVE  KeepsList
  <1>1. CASE Refuse(t)
    BY <1>1, RefuseKeeps DEF Refuse
  <1>2. CASE /\ images' = Append(images, [status |-> "PENDING", place |-> NextPlace])
             /\ Changes(t, Len(images) + 1, Nothing)
             /\ UNCHANGED <<cover, published, made, slots>>
    <2>1. PICK n : n = Len(images) + 1
      OBVIOUS
    <2>2. PICK place \in Nat : place = NextPlace
      BY NextPlaceIsNat
    <2>3. /\ images' \in Seq(Row) /\ n \in DOMAIN images'
          /\ \A i \in DOMAIN images : i \in DOMAIN images' /\ images'[i] = images[i]
          /\ {Photo(i) : i \in Listed}' = {Photo(i) : i \in Listed} \cup {PendingRow(n)}
          /\ \A p \in {Photo(i) : i \in Listed} : p.id # n
      BY <1>2, <2>1, <2>2, IntentChanges
    <2>4. /\ Answer(t, "ok", version + 1, n, Nothing) /\ version' = version + 1
          /\ cover' = cover /\ published' = published /\ made' = made
      BY <1>2, <2>1 DEF Changes
    <2>5. cover' # 0 => IsImage(cover)' /\ images'[cover'].status = "READY"
      BY <2>3, <2>4 DEF Listable, IsImage
    <2>6. Fitting(tasks[t], version + 1, n, Nothing)
      BY <2>3 DEF Fitting
    <2>7. ASSUME NEW j, j.stage = tasks[t].stage, j.reply.id = n
          PROVE  TellsContents(tasks[t], j)
      <3>1. IsAction(tasks[t])
        BY IdleTask DEF Listable, TaskOk, KindOk, IsAction, OfPanel, PanelOps
      <3>2. PICK P : P = {Photo(i) : i \in Listed}
        OBVIOUS
      <3>3. /\ Content = [photos |-> P, published |-> published, made |-> made]
            /\ Content' = [photos |-> P \cup {PendingRow(n)}, published |-> published, made |-> made]
        BY <2>3, <2>4, <3>2 DEF Content
      <3>4. \A p \in P : p.id # n
        BY <2>3, <3>2
      <3>5. Did(j, Content, Content')
        BY <2>7, <3>3, <3>4 DEF Did, ImageOf
      <3> QED BY <2>4, <3>1, <3>5 DEF TellsContents
    <2>8. published' \in BOOLEAN /\ made' \in Nat /\ cover' \in Nat
      BY <2>4 DEF Listable
    <2> QED BY <2>3, <2>4, <2>5, <2>6, <2>7, <2>8, AnsweredKeeps
  <1> QED BY <1>1, <1>2 DEF CreateUploadIntent

(* finalize, which accepts or rejects the object                           *)
LEMMA FinalizeKeeps ==
  ASSUME IInv, IInv', Listable, NEW t \in Places, tasks[t].step = "sent", shown' = shown, upto' = upto,
         tasks[t].stage = "finalize", Finalize(t, tasks[t].arg[1])
  PROVE  KeepsList
  <1>0. PICK i \in DOMAIN images : i = tasks[t].arg[1]
    BY DEF Listable, TaskOk, NamesOk, IsImage
  <1>1. CASE Refuse(t)
    BY <1>1, RefuseKeeps DEF Refuse
  <1>2. ASSUME NEW status \in {"READY", "REJECTED"}, images[i].status = "PENDING",
               images' = [images EXCEPT ![i].status = status],
               UNCHANGED <<cover, published, made, slots>>
        PROVE  /\ images' \in Seq(Row) /\ published' \in BOOLEAN /\ made' \in Nat
               /\ \A j \in DOMAIN images :
                    /\ j \in DOMAIN images'
                    /\ images[j].status = "DELETING" => images'[j].status = "DELETING"
               /\ cover' \in Nat
               /\ cover' # 0 => IsImage(cover)' /\ images'[cover'].status = "READY"
    <2>1. /\ images' \in Seq(Row) /\ DOMAIN images' = DOMAIN images
          /\ \A j \in DOMAIN images : j # i => images'[j] = images[j]
      BY <1>2, StatusChanges DEF PhotoStatus
    <2> QED BY <1>2, <2>1 DEF Listable, IsImage
  <1>3. CASE /\ images[i].status = "PENDING" /\ images' = [images EXCEPT ![i].status = "READY"]
             /\ Changes(t, i, Nothing) /\ UNCHANGED <<cover, published, made, slots>>
    <2>1. /\ Answer(t, "ok", version + 1, i, Nothing) /\ version' = version + 1
          /\ cover' = cover /\ published' = published /\ made' = made
      BY <1>3 DEF Changes
    <2>2. Fitting(tasks[t], version + 1, i, Nothing)
      BY <1>0 DEF Fitting
    <2>3. ASSUME NEW j, j.stage = tasks[t].stage, j.arg = tasks[t].arg
          PROVE  TellsContents(tasks[t], j)
      <3>1. PICK P : P = {Photo(q) : q \in Listed}
        OBVIOUS
      <3>2. {Photo(q) : q \in Listed}' = (P \ {PendingRow(i)}) \cup {ReadyRow(i)}
        BY <1>3, <2>1, <3>1, FinalizeChanges
      <3>3. /\ Content = [photos |-> P, published |-> published, made |-> made]
            /\ Content' = [photos |-> (P \ {PendingRow(i)}) \cup {ReadyRow(i)},
                           published |-> published, made |-> made]
        BY <2>1, <3>1, <3>2 DEF Content
      <3>4. Finalized(j, Content, Content')
        BY <1>0, <2>3, <3>3 DEF Finalized
      <3> QED BY <2>1, <3>4 DEF TellsContents
    <2> QED BY <1>2, <1>3, <2>1, <2>2, <2>3, AnsweredKeeps
  <1>4. CASE /\ images[i].status = "PENDING" /\ images' = [images EXCEPT ![i].status = "REJECTED"]
             /\ version' = version + 1 /\ Answer(t, "refused", version + 1, 0, Nothing)
             /\ UNCHANGED <<cover, published, made, slots>>
    <2>1. /\ images' \in Seq(Row) /\ published' \in BOOLEAN /\ made' \in Nat /\ Grows
          /\ cover' \in Nat
          /\ cover' # 0 => IsImage(cover)' /\ images'[cover'].status = "READY"
      BY <1>2, <1>4 DEF Grows, IInv, Counted
    <2>2. TaskOk(tasks[t])'
      BY <1>4, <2>1, AnsweredOk
    <2>3. Only(t)
      BY <1>4, AnswerTask
    <2>4. Listable'
      BY <2>1, <2>2, <2>3, ListableOn DEF Only
    <2>5. ASSUME NEW h, Remembers(h)
          PROVE  \E g : Remembers(g)'
      <3>1. version + 1 # version
        BY DEF IInv, Counted
      <3> QED BY <1>4, <2>4, <2>5, <3>1, FailedRemembers
    <2> QED BY <2>4, <2>5 DEF KeepsList
  <1> QED BY <1>0, <1>1, <1>3, <1>4 DEF Finalize

(* setCover                                                                *)
LEMMA SetCoverKeeps ==
  ASSUME IInv, IInv', Listable, NEW t \in Places, tasks[t].step = "sent", shown' = shown, upto' = upto,
         tasks[t].stage = "cover", SetCover(t, tasks[t].arg)
  PROVE  KeepsList
  <1> DEFINE arg == tasks[t].arg
  <1>1. CASE Refuse(t)
    BY <1>1, RefuseKeeps DEF Refuse
  <1>2. CASE /\ ~(arg # <<>> /\ arg[1] \notin Ready) /\ cover' = IF arg = <<>> THEN 0 ELSE arg[1]
             /\ Changes(t, cover', Nothing) /\ UNCHANGED <<images, published, made, slots>>
    <2>1. PICK c : c = cover'
      OBVIOUS
    <2>2. /\ Answer(t, "ok", version + 1, c, Nothing) /\ version' = version + 1
          /\ images' = images /\ published' = published /\ made' = made
      BY <1>2, <2>1 DEF Changes
    <2>3. c \in Nat /\ (c # 0 => c \in DOMAIN images /\ images[c].status = "READY")
      BY <1>2, <2>1, RowOf DEF Ready
    <2>4. Fitting(tasks[t], version + 1, c, Nothing)
      BY DEF Fitting
    <2>5. ASSUME NEW j, j.stage = tasks[t].stage, j.reply.id = c
          PROVE  TellsContents(tasks[t], j)
      <3>1. IsAction(tasks[t])
        BY IdleTask DEF Listable, TaskOk, KindOk, IsAction, OfPanel, PanelOps
      <3>2. PICK P : P = {Photo(i) : i \in Listed}
        OBVIOUS
      <3>3. /\ Content = [photos |-> P, published |-> published, made |-> made]
            /\ Content' = [photos |-> Covered(P, c), published |-> published, made |-> made]
        BY <2>1, <2>2, <3>2, CoverChanges DEF Content
      <3>4. Did(j, Content, Content')
        BY <2>5, <3>3 DEF Did
      <3> QED BY <2>2, <3>1, <3>4 DEF TellsContents
    <2>6. /\ images' \in Seq(Row) /\ published' \in BOOLEAN /\ made' \in Nat /\ cover' \in Nat
          /\ cover' # 0 => IsImage(cover)' /\ images'[cover'].status = "READY"
          /\ \A i \in DOMAIN images :
               /\ i \in DOMAIN images'
               /\ images[i].status = "DELETING" => images'[i].status = "DELETING"
      BY <2>1, <2>2, <2>3 DEF Listable, IsImage
    <2> QED BY <2>2, <2>4, <2>5, <2>6, AnsweredKeeps
  <1> QED BY <1>1, <1>2 DEF SetCover

(* reorder                                                                 *)
LEMMA ReorderKeeps ==
  ASSUME IInv, IInv', Listable, NEW t \in Places, tasks[t].step = "sent", shown' = shown, upto' = upto,
         tasks[t].stage = "reorder", Reorder(t, tasks[t].arg)
  PROVE  KeepsList
  <1>1. CASE Refuse(t)
    BY <1>1, RefuseKeeps DEF Refuse
  <1>2. CASE ~Refuse(t)
    <2>0. tasks[t].kind = "reorder" /\ NamesOk(tasks[t])
      BY IdleTask DEF Listable, TaskOk, KindOk, PanelOps
    <2>1. PICK ids \in Seq(Nat) : ids = tasks[t].arg
      BY <2>0 DEF NamesOk
    <2>2. /\ ToSet(ids) = Ready /\ Len(ids) = Cardinality(Ready)
          /\ images' = [i \in DOMAIN images |->
                          IF i \in Ready
                          THEN [status |-> "READY", place |-> SelectInSeq(ids, LAMBDA id : id = i) - 1]
                          ELSE images[i]]
          /\ Changes(t, cover, Nothing) /\ cover' = cover /\ published' = published /\ made' = made
      BY <1>2, <2>1 DEF Reorder
    <2>3. /\ images' \in Seq(Row) /\ DOMAIN images' = DOMAIN images
          /\ \A i \in DOMAIN images : images'[i].status = images[i].status
          /\ {Photo(i) : i \in Listed}' = {Photo(i) : i \in Listed}
          /\ \A i \in ToSet(ids) :
               /\ i \in DOMAIN images
               /\ [id |-> i, status |-> "READY", cover |-> i = cover] \in {Photo(q) : q \in Listed}
      BY <2>2, ReorderChanges
    <2>4. Answer(t, "ok", version + 1, cover, Nothing) /\ version' = version + 1
      BY <2>2 DEF Changes
    <2>5. Fitting(tasks[t], version + 1, cover, Nothing)
      BY <2>1, <2>3 DEF Fitting
    <2>6. ASSUME NEW j, j.stage = tasks[t].stage, j.arg = tasks[t].arg, j.reply.id = cover
          PROVE  TellsContents(tasks[t], j)
      <3>1. IsAction(tasks[t])
        BY IdleTask DEF Listable, TaskOk, KindOk, IsAction, OfPanel, PanelOps
      <3>2. PICK P : P = {Photo(i) : i \in Listed}
        OBVIOUS
      <3>3. /\ Content = [photos |-> P, published |-> published, made |-> made] /\ Content' = Content
        BY <2>2, <2>3, <3>2 DEF Content
      <3>4. \A i \in ToSet(j.arg) : [id |-> i, status |-> "READY", cover |-> i = j.reply.id] \in Content'.photos
        BY <2>1, <2>3, <2>6, <3>2, <3>3
      <3>5. Did(j, Content, Content')
        BY <2>6, <3>3, <3>4 DEF Did
      <3> QED BY <2>4, <3>1, <3>5 DEF TellsContents
    <2>7. /\ published' \in BOOLEAN /\ made' \in Nat /\ cover' \in Nat
          /\ cover' # 0 => IsImage(cover)' /\ images'[cover'].status = "READY"
      BY <2>2, <2>3 DEF Listable, IsImage
    <2> QED BY <2>3, <2>4, <2>5, <2>6, <2>7, AnsweredKeeps
  <1> QED BY <1>1, <1>2

(* delete, which finds the photo deleted when it is repeated               *)
LEMMA DeleteKeeps ==
  ASSUME IInv, IInv', Listable, NEW t \in Places, tasks[t].step = "sent", shown' = shown, upto' = upto,
         tasks[t].stage = "delete", DeleteMedia(t, tasks[t].arg[1])
  PROVE  KeepsList
  <1>0. IsAction(tasks[t]) /\ tasks[t].kind = "delete"
    BY IdleTask DEF Listable, TaskOk, KindOk, IsAction, OfPanel, PanelOps
  <1>1. PICK i \in DOMAIN images : i = tasks[t].arg[1]
    BY <1>0 DEF Listable, TaskOk, NamesOk, IsImage
  <1>2. CASE images[i].status = "DELETING"
    <2>1. /\ Answer(t, "ok", version, i, Nothing) /\ version' = version
          /\ images' = images /\ cover' = cover /\ published' = published /\ made' = made
      BY <1>1, <1>2 DEF DeleteMedia, Reads, server
    <2>2. Fitting(tasks[t], version, i, Nothing)
      BY <1>2, <2>1 DEF Fitting
    <2>3. Content' = Content
      BY <2>1, PhotosStay DEF Content
    <2>4. \A j : TellsContents(tasks[t], j)
      BY <2>1, <2>3 DEF TellsContents
    <2>5. published' \in BOOLEAN /\ made' \in Nat
      BY <2>1 DEF Listable
    <2> QED BY <2>1, <2>2, <2>4, <2>5, ReadKeeps
  <1>3. CASE images[i].status # "DELETING"
    <2>1. /\ Answer(t, "ok", version + 1, i, Nothing) /\ version' = version + 1
          /\ images' = [images EXCEPT ![i].status = "DELETING"]
          /\ cover' = IF cover = i THEN 0 ELSE cover
          /\ published' = published /\ made' = made
      BY <1>1, <1>3 DEF DeleteMedia, Changes
    <2>2. /\ images' \in Seq(Row) /\ DOMAIN images' = DOMAIN images /\ images'[i].status = "DELETING"
          /\ \A j \in DOMAIN images : j # i => images'[j] = images[j]
      BY <2>1, StatusChanges DEF PhotoStatus
    <2>3. Fitting(tasks[t], version + 1, i, Nothing)
      BY <2>2 DEF Fitting
    <2>4. ASSUME NEW j, j.stage = tasks[t].stage, j.reply.id = i
          PROVE  TellsContents(tasks[t], j)
      <3>1. PICK P : P = {Photo(q) : q \in Listed}
        OBVIOUS
      <3>2. {Photo(q) : q \in Listed}' = Without(P, i)
        BY <2>1, <3>1, DeleteChanges
      <3>3. /\ Content = [photos |-> P, published |-> published, made |-> made]
            /\ Content' = [photos |-> Without(P, i), published |-> published, made |-> made]
        BY <2>1, <3>1, <3>2 DEF Content
      <3>4. Did(j, Content, Content')
        BY <2>4, <3>3 DEF Did
      <3> QED BY <1>0, <2>1, <3>4 DEF TellsContents
    <2>5. /\ published' \in BOOLEAN /\ made' \in Nat /\ cover' \in Nat
          /\ cover' # 0 => IsImage(cover)' /\ images'[cover'].status = "READY"
      BY <2>1, <2>2 DEF Listable, IsImage
    <2>6. \A j \in DOMAIN images :
            /\ j \in DOMAIN images'
            /\ images[j].status = "DELETING" => images'[j].status = "DELETING"
      BY <2>2
    <2> QED BY <2>1, <2>2, <2>3, <2>4, <2>5, <2>6, AnsweredKeeps
  <1> QED BY <1>2, <1>3

(* listOwned                                                               *)
LEMMA ListKeeps ==
  ASSUME IInv, IInv', Listable, NEW t \in Places, tasks[t].step = "sent", shown' = shown, upto' = upto,
         tasks[t].stage = "list", ListOwned(t)
  PROVE  KeepsList
  <1>1. /\ Answer(t, "ok", version, 0, Everything) /\ version' = version
        /\ images' = images /\ cover' = cover /\ published' = published /\ made' = made
    BY DEF ListOwned, Reads, server
  <1>2. /\ ShowsPhotos(Photos, {Photo(i) : i \in Listed}) /\ HasIds(Photos)
        /\ published \in BOOLEAN /\ made \in Nat
    BY PhotosShow DEF Listable
  <1>3. Content' = Content
    BY <1>1, PhotosStay DEF Content
  <1>4. Fitting(tasks[t], version, 0, Everything)
    BY <1>1, <1>2 DEF Fitting, HasIds, Everything
  <1>5. ASSUME NEW j, j.reply.list = Everything
        PROVE  TellsContents(tasks[t], j)
    <2>1. Shows(Everything, Content)
      BY <1>2 DEF Shows, Everything, Content
    <2> QED BY <1>1, <1>3, <1>5, <2>1 DEF TellsContents
  <1> QED BY <1>1, <1>2, <1>4, <1>5, ReadKeeps

(* The publication checklist                                               *)
LEMMA ChecklistKeeps ==
  ASSUME IInv, IInv', Listable, NEW t \in Places, tasks[t].step = "sent", shown' = shown, upto' = upto,
         tasks[t].stage = "checklist", Checklist(t)
  PROVE  KeepsList
  <1>1. PICK verdict \in {"ok", "refused"} : Reads(t, verdict, 0, Nothing)
    BY DEF Checklist
  <1>2. CASE verdict = "refused"
    BY <1>1, <1>2, RefuseKeeps
  <1>3. CASE verdict = "ok"
    <2>1. /\ Answer(t, "ok", version, 0, Nothing) /\ version' = version
          /\ images' = images /\ cover' = cover /\ published' = published /\ made' = made
      BY <1>1, <1>3 DEF Reads, server
    <2>2. Content' = Content
      BY <2>1, PhotosStay DEF Content
    <2>3. Fitting(tasks[t], version, 0, Nothing)
      BY DEF Fitting
    <2>4. \A j : TellsContents(tasks[t], j)
      BY <2>1, <2>2 DEF TellsContents
    <2>5. published' \in BOOLEAN /\ made' \in Nat
      BY <2>1 DEF Listable
    <2> QED BY <2>1, <2>3, <2>4, <2>5, ReadKeeps
  <1> QED BY <1>2, <1>3

(* publish, which answers with the list of the salon it published          *)
LEMMA PublishKeeps ==
  ASSUME IInv, IInv', Listable, NEW t \in Places, tasks[t].step = "sent", shown' = shown, upto' = upto,
         tasks[t].stage = "publish", Publish(t)
  PROVE  KeepsList
  <1>1. CASE Refuse(t)
    BY <1>1, RefuseKeeps DEF Refuse
  <1>2. CASE ~Refuse(t)
    <2>1. PICK l : l = [Everything EXCEPT !.published = TRUE]
      OBVIOUS
    <2>2. l = [known |-> TRUE, media |-> Photos, published |-> TRUE, made |-> [n \in 1 .. made |-> n]]
      BY <2>1 DEF Everything
    <2>3. /\ Answer(t, "ok", version + 1, 0, l) /\ version' = version + 1 /\ published' = TRUE
          /\ images' = images /\ cover' = cover /\ made' = made
      BY <1>2, <2>1 DEF Publish, Changes
    <2>4. ShowsPhotos(Photos, {Photo(i) : i \in Listed}) /\ HasIds(Photos)
      BY PhotosShow DEF Listable
    <2>5. Fitting(tasks[t], version + 1, 0, l)
      BY <2>2, <2>3, <2>4 DEF Fitting, HasIds
    <2>6. ASSUME NEW j, j.stage = tasks[t].stage, j.reply.list = l
          PROVE  TellsContents(tasks[t], j)
      <3>1. IsAction(tasks[t])
        BY IdleTask DEF Listable, TaskOk, KindOk, IsAction, OfPanel, PanelOps
      <3>2. PICK P : P = {Photo(i) : i \in Listed}
        OBVIOUS
      <3>3. /\ Content = [photos |-> P, published |-> published, made |-> made]
            /\ Content' = [photos |-> P, published |-> TRUE, made |-> made]
        BY <2>3, <3>2, PhotosStay DEF Content
      <3>4. j.reply.list.published = TRUE /\ j.reply.list.media = Photos
        BY <2>2, <2>6
      <3>5. ShowsPhotos(j.reply.list.media, P)
        BY <2>4, <3>2, <3>4
      <3>7. Content' = [Content EXCEPT !.published = TRUE]
        <4>1. PICK p \in BOOLEAN : p = published
          BY DEF Listable
        <4>2. PICK q \in BOOLEAN : q = TRUE
          OBVIOUS
        <4>3. PICK c : c = Content
          OBVIOUS
        <4>4. c = [photos |-> P, published |-> p, made |-> made]
          BY <3>3, <4>1, <4>3
        <4>5. [c EXCEPT !.published = q] = [photos |-> P, published |-> q, made |-> made]
          BY <4>4
        <4>6. Content' = [photos |-> P, published |-> q, made |-> made]
          BY <3>3, <4>2
        <4> QED BY <4>2, <4>3, <4>5, <4>6
      <3>8. ShowsPhotos(j.reply.list.media, Content'.photos)
        BY <3>3, <3>5
      <3>6. Did(j, Content, Content')
        BY <2>6, <3>4, <3>7, <3>8 DEF Did
      <3> QED BY <2>3, <3>1, <3>6 DEF TellsContents
    <2>7. published' \in BOOLEAN /\ made' \in Nat
      BY <2>3 DEF Listable
    <2> QED BY <2>3, <2>5, <2>6, <2>7, ReadKeeps
  <1> QED BY <1>1, <1>2

(* The creation of a service                                               *)
LEMMA CreateKeeps ==
  ASSUME IInv, IInv', Listable, NEW t \in Places, tasks[t].step = "sent", shown' = shown, upto' = upto,
         tasks[t].stage = "create", Create(t)
  PROVE  KeepsList
  <1>1. /\ Answer(t, "ok", version + 1, made + 1, Nothing) /\ version' = version + 1
        /\ images' = images /\ cover' = cover /\ published' = published /\ made' = made + 1
    BY DEF Create, Changes
  <1>2. Fitting(tasks[t], version + 1, made + 1, Nothing)
    BY DEF Fitting
  <1>3. ASSUME NEW j, j.stage = tasks[t].stage, j.reply.id = made + 1
        PROVE  TellsContents(tasks[t], j)
    <2>1. IsAction(tasks[t])
      BY IdleTask DEF Listable, TaskOk, KindOk, IsAction, OfPanel, PanelOps
    <2>2. PICK P : P = {Photo(i) : i \in Listed}
      OBVIOUS
    <2>3. /\ Content = [photos |-> P, published |-> published, made |-> made]
          /\ Content' = [photos |-> P, published |-> published, made |-> made + 1]
      BY <1>1, <2>2, PhotosStay DEF Content
    <2>4. Did(j, Content, Content')
      BY <1>3, <2>3 DEF Did
    <2> QED BY <1>1, <2>1, <2>4 DEF TellsContents
  <1>4. published' \in BOOLEAN /\ made' \in Nat
    BY <1>1 DEF Listable
  <1> QED BY <1>1, <1>2, <1>3, <1>4, ReadKeeps

(* The panel's requests, which change nothing that is listed.              *)
LEMMA PanelKeeps ==
  ASSUME IInv, Listable, NEW t \in Places, tasks[t].step = "sent", shown' = shown, upto' = upto,
         tasks[t].stage \in PanelOps, NEW change, NEW id, NEW list,
         Answer(t, "ok", change, id, list), change \in {version, version + 1}, version' = change,
         UNCHANGED <<images, cover, published, made>>
  PROVE  KeepsList
  <1>1. OfPanel(tasks[t])
    BY IdleTask DEF Listable, TaskOk, KindOk, OfPanel, PanelOps
  <1>2. images' = images /\ cover' = cover /\ published' = published /\ made' = made
    OBVIOUS
  <1>3. Content' = Content
    BY <1>2, PhotosStay DEF Content
  <1>4. Fitting(tasks[t], change, id, list)
    BY DEF Fitting, PanelOps
  <1>5. \A j : TellsContents(tasks[t], j)
    BY <1>1, <1>3 DEF TellsContents
  <1>6. published' \in BOOLEAN /\ made' \in Nat /\ tasks[t].stage # "checklist"
    BY <1>2 DEF Listable, PanelOps
  <1> QED BY <1>2, <1>4, <1>5, <1>6, ReadKeeps

(* Every request that the API serves.                                      *)
LEMMA ServeKeepsList ==
  ASSUME IInv, IInv', Listable, NEW t \in Places, Serve(t)
  PROVE  KeepsList
  <1> DEFINE arg == tasks[t].arg
             stage == tasks[t].stage
  <1>0. tasks[t].step = "sent" /\ shown' = shown /\ upto' = upto
    BY DEF Serve
  <1>1. CASE Unauthorized(t)
    BY <1>0, <1>1, RefuseKeeps DEF Unauthorized
  <1>2. CASE stage = "view" /\ Reads(t, "ok", arg[1], Schedule(arg[1]))
    <2>1. /\ Answer(t, "ok", version, arg[1], Schedule(arg[1])) /\ version' = version
          /\ UNCHANGED <<images, cover, published, made>>
      BY <1>2 DEF Reads, server
    <2> QED BY <1>0, <1>2, <2>1, PanelKeeps DEF PanelOps
  <1>3. ASSUME NEW status, stage \in {"open", "block"}, ChangeSlot(t, arg[1], status)
        PROVE  KeepsList
    <2>1. CASE Refuse(t)
      BY <1>0, <2>1, RefuseKeeps DEF Refuse
    <2>2. CASE ~Refuse(t)
      <3>1. PICK list : list = [day |-> arg[1], status |-> status]
        OBVIOUS
      <3>2. /\ Answer(t, "ok", version + 1, arg[1], list) /\ version' = version + 1
            /\ UNCHANGED <<images, cover, published, made>>
        BY <1>3, <2>2, <3>1 DEF ChangeSlot, Changes
      <3> QED BY <1>0, <1>3, <3>2, PanelKeeps DEF PanelOps
    <2> QED BY <2>1, <2>2
  <1>4. CASE \/ stage = "list" /\ ListOwned(t)
             \/ stage = "intent" /\ CreateUploadIntent(t)
             \/ stage = "finalize" /\ Finalize(t, arg[1])
             \/ stage = "cover" /\ SetCover(t, arg)
    BY <1>0, <1>4, ListKeeps, IntentKeeps, FinalizeKeeps, SetCoverKeeps
  <1>5. CASE \/ stage = "reorder" /\ Reorder(t, arg)
             \/ stage = "delete" /\ DeleteMedia(t, arg[1])
             \/ stage = "checklist" /\ Checklist(t)
             \/ stage = "publish" /\ Publish(t)
             \/ stage = "create" /\ Create(t)
    BY <1>0, <1>5, ReorderKeeps, DeleteKeeps, ChecklistKeeps, PublishKeeps, CreateKeeps
  <1>6. CASE \/ stage = "open" /\ ChangeSlot(t, arg[1], "OPEN")
             \/ stage = "block" /\ ChangeSlot(t, arg[1], "BLOCKED")
    BY <1>3, <1>6
  <1> QED BY <1>1, <1>2, <1>4, <1>5, <1>6 DEF Serve

(* An answer that is lost.                                                 *)
LEMMA LoseKeepsList ==
  ASSUME IInv, IInv', Listable, NEW t \in Places, Lose(t)
  PROVE  KeepsList
  <1>1. /\ Answer(t, "lost", version, 0, Nothing) /\ UNCHANGED server /\ version' = version
        /\ shown' = shown /\ upto' = upto
        /\ tasks[t].step \in {"sent", "answered"} /\ tasks[t].reply.verdict # "lost"
    BY DEF Lose, history
  <1> QED BY <1>1, RefusedKeeps

-----------------------------------------------------------------------------
(* The steps of the client.                                                *)

(* A task goes on without an answer for the list.                          *)
GoesOn(k, j) ==
  /\ TaskOk(j)
  /\ Answered(j) => OfPanel(j)
  /\ j.stage = "finalize" =>
       /\ k.stage \in {"intent", "finalize"} /\ j.since = k.since /\ ImageOf(j) = ImageOf(k)
       /\ k.stage = "intent" => Answered(k)

(* A task is as it should be if nothing is listed otherwise.               *)
LEMMA SameTaskOk ==
  ASSUME images' = images, version' = version, NEW k, TaskOk(k)
  PROVE  TaskOk(k)'
  BY DEF TaskOk, KindOk, SinceOk, NamesOk, ListOk, HasIds, IsImage, IsAction, OfPanel, Answered

(* A task that goes on says no more than it said.                          *)
LEMMA GoesOnTells ==
  ASSUME NEW k, NEW j, GoesOn(k, j), TaskOk(k), NEW h, Effect(k, h)
  PROVE  Effect(j, h) /\ Gone(j, h, version)
  <1>1. OfPanel(j) => j.stage \in PanelOps
    BY IdleTask DEF GoesOn, TaskOk, KindOk, OfPanel, PanelOps
  <1>2. j.stage \in {"finalize", "list", "delete"} => ~Answered(j)
    BY <1>1 DEF GoesOn, PanelOps
  <1>3. ASSUME j.stage = "finalize", j.since # 0
        PROVE  Did(j, h[j.since - 1], h[j.since])
    <2>1. /\ k.stage \in {"intent", "finalize"} /\ j.since = k.since /\ ImageOf(j) = ImageOf(k)
          /\ k.stage = "intent" => Answered(k)
      BY <1>3 DEF GoesOn
    <2>2. IsAction(k)
      BY <2>1, IdleTask DEF TaskOk, KindOk, IsAction, OfPanel, PanelOps
    <2>3. Did(k, h[k.since - 1], h[k.since])
      BY <1>3, <2>1, <2>2 DEF Effect
    <2> QED BY <1>3, <2>1, <2>3 DEF Did
  <1>4. IsAction(j) => ~Answered(j)
    BY DEF GoesOn, IsAction
  <1> QED BY <1>2, <1>3, <1>4 DEF Effect, Gone, Listing

(* Steps that leave the server as it is.                                   *)
LEMMA QuietKeepsList ==
  ASSUME IInv, Listable, UNCHANGED <<images, cover, published, made>>, version' = version, upto' = upto,
         shown' = shown \/ shown' = Nothing,
         \A s \in Places : tasks'[s] = tasks[s] \/ GoesOn(tasks[s], tasks'[s]),
         Calm' => \/ \E s \in Places : WillAsk(tasks'[s])
                  \/ \A s \in Places : tasks'[s] = tasks[s] \/ HandsOn(tasks[s], tasks'[s])
  PROVE  KeepsList
  <1>1. /\ images' = images /\ cover' = cover /\ published' = published /\ made' = made
        /\ version \in Nat /\ upto \in Nat /\ upto <= version
    BY DEF IInv, Counted
  <1>2. \A s \in Places : tasks'[s] = tasks[s] \/ TaskOk(tasks[s])'
    <2> SUFFICES ASSUME NEW s \in Places, GoesOn(tasks[s], tasks'[s]) PROVE TaskOk(tasks[s])'
      OBVIOUS
    <2>1. PICK j : j = tasks'[s]
      OBVIOUS
    <2>2. TaskOk(j)'
      BY <1>1, <2>1, SameTaskOk DEF GoesOn
    <2> QED BY <2>1, <2>2
  <1>3. Listable'
    BY <1>1, <1>2, ListableQuiet
  <1>4. ASSUME Calm', NEW h, Remembers(h)
        PROVE  Remembers(h)'
    <2>1. Continues(h, h)
      <3>1. Content' = Content
        BY <1>1, PhotosStay DEF Content
      <3> QED BY <1>1, <1>4, <3>1 DEF Continues, Remembers
    <2>2. \A s \in Places : Effect(tasks'[s], h) /\ Gone(tasks'[s], h, version')
      <3> SUFFICES ASSUME NEW s \in Places PROVE Effect(tasks'[s], h) /\ Gone(tasks'[s], h, version)
        BY <1>1
      <3>1. TaskOk(tasks[s]) /\ Effect(tasks[s], h) /\ Gone(tasks[s], h, version)
        BY <1>4 DEF Listable, Remembers
      <3>2. CASE tasks'[s] = tasks[s]
        BY <3>1, <3>2
      <3>3. CASE GoesOn(tasks[s], tasks'[s])
        BY <3>1, <3>3, GoesOnTells
      <3> QED BY <3>2, <3>3
    <2>3. \/ \E s \in Places : WillAsk(tasks'[s])
          \/ \A s \in Places : tasks'[s] = tasks[s] \/ HandsOn(tasks[s], tasks'[s])
      BY <1>4
    <2>4. shown' = shown \/ ~shown'.known
      BY DEF Nothing
    <2> QED BY <1>1, <1>4, <2>1, <2>2, <2>3, <2>4, RemembersOn
  <1> QED BY <1>3, <1>4 DEF KeepsList

(* The same for a step of one task.                                        *)
LEMMA OneQuietKeepsList ==
  ASSUME IInv, Listable, UNCHANGED <<images, cover, published, made>>, version' = version, upto' = upto,
         shown' = shown, NEW t \in Places, NEW j, tasks' = [tasks EXCEPT ![t] = j],
         GoesOn(tasks[t], j), Calm' => WillAsk(j) \/ HandsOn(tasks[t], j)
  PROVE  KeepsList
  <1>1. tasks'[t] = j /\ \A s \in Places : s # t => tasks'[s] = tasks[s]
    BY DEF IInv, Shapes
  <1>2. \A s \in Places : tasks'[s] = tasks[s] \/ GoesOn(tasks[s], tasks'[s])
    BY <1>1
  <1>3. Calm' => \/ \E s \in Places : WillAsk(tasks'[s])
                 \/ \A s \in Places : tasks'[s] = tasks[s] \/ HandsOn(tasks[s], tasks'[s])
    BY <1>1
  <1> QED BY <1>2, <1>3, QuietKeepsList

-----------------------------------------------------------------------------
(* The types of what the buttons ask for: the ids of move are a list.      *)
LEMMA SwappedIsList ==
  ASSUME shown.media \in Seq(PhotoRow), NEW n \in 1 .. Len(ReadyIds) - 1
  PROVE  Swapped(n) \in Seq(Nat)
  <1>1. PICK m : m = ShownReady
    OBVIOUS
  <1>2. m \in Seq(PhotoRow)
    <2>1. {p \in DOMAIN shown.media : shown.media[p].status = "READY"} \in SUBSET DOMAIN shown.media
      OBVIOUS
    <2> QED BY <1>1, <2>1, SublistIsList DEF ShownReady
  <1>3. PICK ids : ids = ReadyIds
    OBVIOUS
  <1>4. ids = [p \in 1 .. Len(m) |-> m[p].id] /\ Len(m) \in Nat /\ \A p \in 1 .. Len(m) : m[p].id \in Nat
    <2>1. ids = [p \in DOMAIN m |-> m[p].id]
      BY <1>1, <1>3 DEF ReadyIds
    <2>2. DOMAIN m = 1 .. Len(m) /\ Len(m) \in Nat /\ \A p \in DOMAIN m : m[p] \in PhotoRow
      BY <1>2
    <2>3. \A r \in PhotoRow : r.id \in Nat
      BY DEF PhotoRow
    <2> QED BY <2>1, <2>2, <2>3
  <1>5. ids \in Seq(Nat) /\ Len(ids) = Len(m)
    BY <1>4
  <1>6. n \in 1 .. Len(ids) /\ n + 1 \in 1 .. Len(ids) /\ ids[n] \in Nat /\ ids[n + 1] \in Nat
    BY <1>3, <1>4, <1>5
  <1>7. Swapped(n) = [ids EXCEPT ![n] = ids[n + 1], ![n + 1] = ids[n]]
    BY <1>3 DEF Swapped
  <1> QED BY <1>5, <1>6, <1>7

(* Every button, what it is and what it is pressed with.                   *)
LEMMA OfferedKinds ==
  ASSUME NEW kind, NEW arg, <<kind, arg>> \in Offered, shown.media \in Seq(PhotoRow)
  PROVE  /\ kind \in {"create", "publish", "upload", "cover", "reorder", "delete"} \cup PanelOps
         /\ kind = "delete" => \E m \in ToSet(shown.media) : arg = <<m.id>>
         /\ kind = "reorder" => arg \in Seq(Nat)
  <1>1. PICK c : c = <<kind, arg>>
    OBVIOUS
  <1>2. c[1] = kind /\ c[2] = arg
    BY <1>1
  <1>3. PanelKinds \in SUBSET PanelOps
    BY DEF PanelKinds, PanelOps
  <1> DEFINE Others == {"create", "publish", "upload", "cover"} \cup PanelOps
  <1>4. \/ c[1] \in Others
        \/ \E n \in 1 .. Len(ReadyIds) - 1 : c = <<"reorder", Swapped(n)>>
        \/ \E m \in ToSet(shown.media) : c = <<"delete", <<m.id>>>>
    BY <1>1, <1>3 DEF Offered
  <1>5. ASSUME c[1] \in Others
        PROVE  kind \in Others /\ kind \notin {"reorder", "delete"}
    BY <1>2, <1>5 DEF PanelOps
  <1>6. ASSUME NEW m \in ToSet(shown.media), c = <<"delete", <<m.id>>>>
        PROVE  kind = "delete" /\ arg = <<m.id>>
    BY <1>2, <1>6
  <1>7. ASSUME NEW n \in 1 .. Len(ReadyIds) - 1, c = <<"reorder", Swapped(n)>>
        PROVE  kind = "reorder" /\ arg \in Seq(Nat)
    <2>1. kind = "reorder" /\ arg = Swapped(n)
      BY <1>2, <1>7
    <2> QED BY <2>1, SwappedIsList
  <1> QED BY <1>4, <1>5, <1>6, <1>7

(* A button makes a task that has changed nothing.                         *)
LEMMA ActKeepsList ==
  ASSUME IInv, Listable, NEW t \in Places, NEW kind, NEW arg, Act(t, kind, arg)
  PROVE  KeepsList
  <1>1. /\ tasks[t] = Idle /\ tasks' = [tasks EXCEPT ![t] = Task(kind, arg, auth)]
        /\ UNCHANGED <<images, cover, published, made>> /\ version' = version /\ upto' = upto
        /\ shown' = shown /\ <<kind, arg>> \in Offered
    BY DEF Act, IsFree, server, history
  <1>2. PICK k : k = Task(kind, arg, auth)
    OBVIOUS
  <1>3. PICK stage : stage = FirstStage(kind)
    OBVIOUS
  <1>4. /\ k.kind = kind /\ k.arg = arg /\ k.stage = stage /\ k.step = "sent" /\ k.since = 0
    BY <1>2, <1>3 DEF Task, Idle
  <1>5. /\ kind \in {"create", "publish", "upload", "cover", "reorder", "delete"} \cup PanelOps
        /\ kind = "delete" => \E m \in ToSet(shown.media) : arg = <<m.id>>
        /\ kind = "reorder" => arg \in Seq(Nat)
    BY <1>1, OfferedKinds DEF Listable, HasIds
  <1>6. KindOk(k) /\ stage \notin {"finalize", "list"}
    BY <1>3, <1>4, <1>5 DEF KindOk, FirstStage, PanelOps
  <1>7. SinceOk(k) /\ ListOk(k) /\ ~Answered(k)
    BY <1>4, <1>6 DEF SinceOk, ListOk, Answered, IInv, Counted
  <1>8. NamesOk(k)
    <2>1. ASSUME kind = "delete" PROVE IsImage(arg[1])
      <3>1. PICK m \in ToSet(shown.media) : arg = <<m.id>>
        BY <1>5, <2>1
      <3>2. m.id \in DOMAIN images
        BY DEF Listable, HasIds, ToSet
      <3> QED BY <3>1, <3>2 DEF IsImage
    <2> QED BY <1>4, <1>5, <1>6, <1>7, <2>1 DEF NamesOk
  <1>9. GoesOn(tasks[t], k)
    BY <1>4, <1>6, <1>7, <1>8 DEF GoesOn, TaskOk
  <1>10. HandsOn(tasks[t], k)
    <2>1. tasks[t].since = 0 /\ tasks[t].step = "none" /\ tasks[t].stage = "none"
      BY <1>1 DEF Idle
    <2> QED BY <2>1 DEF HandsOn, WillAsk, Doomed, Listing, Owes, Fails
  <1> QED BY <1>1, <1>2, <1>9, <1>10, OneQuietKeepsList

(* An action goes on to its next request.                                  *)
LEMMA ReceiveStepKeepsList ==
  ASSUME IInv, Listable, NEW t \in Places, ReceiveStep(t)
  PROVE  KeepsList
  <1>1. /\ UNCHANGED <<images, cover, published, made>> /\ version' = version /\ upto' = upto
        /\ shown' = shown
    BY DEF ReceiveStep, server, history
  <1>2. PICK k : k = tasks[t]
    OBVIOUS
  <1>3. IsTask(k) /\ TaskOk(k) /\ k.step = "answered" /\ k.reply.verdict = "ok" /\ Answered(k)
    BY <1>2 DEF IInv, Shapes, Listable, ReceiveStep, Answered
  <1>4. ASSUME NEW stage, NEW arg, NEW token, NEW again, GoOn(t, stage, arg, token, again),
               \/ k.stage = "intent" /\ stage = "finalize" /\ arg = <<k.reply.id>>
               \/ k.stage = "checklist" /\ stage = "publish"
        PROVE  KeepsList
    <2>1. PICK j : j = [k EXCEPT !.stage = stage, !.arg = arg, !.step = "sent", !.token = token,
                                 !.again = again, !.reply = NoReply]
      OBVIOUS
    <2>2. tasks' = [tasks EXCEPT ![t] = j]
      BY <1>2, <1>4, <2>1 DEF GoOn, IInv, Shapes
    <2>3. /\ j.kind = k.kind /\ j.stage = stage /\ j.arg = arg /\ j.step = "sent" /\ j.since = k.since
      BY <1>3, <2>1 DEF IsTask
    <2>4. ~Answered(j) /\ ~Fails(k) /\ k # Idle
      BY <1>3, <2>3, IdleTask DEF Answered, Fails
    <2>5. CASE k.stage = "intent"
      <3>1. stage = "finalize" /\ arg[1] = k.reply.id /\ k.kind = "upload"
        BY <1>3, <1>4, <2>4, <2>5 DEF TaskOk, KindOk, PanelOps
      <3>2. k.since # 0 /\ k.since \in 0 .. version /\ IsImage(k.reply.id)
        BY <1>3, <2>5 DEF TaskOk, SinceOk, NamesOk
      <3>3. KindOk(j) /\ SinceOk(j)
        BY <2>3, <2>4, <3>1, <3>2 DEF KindOk, SinceOk
      <3>4. NamesOk(j) /\ ListOk(j)
        BY <2>3, <2>4, <3>1, <3>2 DEF NamesOk, ListOk
      <3>5. GoesOn(k, j)
        BY <1>3, <2>3, <2>4, <2>5, <3>1, <3>3, <3>4 DEF GoesOn, TaskOk, ImageOf
      <3>6. HandsOn(k, j)
        <4>1. ~WillAsk(k) /\ ~Listing(k)
          BY <1>3, <2>4, <2>5 DEF WillAsk, Listing
        <4>2. IsAction(j)
          BY <2>3, <3>1 DEF IsAction, OfPanel
        <4> QED BY <2>3, <2>5, <4>1, <4>2 DEF HandsOn, Doomed, Owes
      <3> QED BY <1>1, <1>2, <2>2, <3>5, <3>6, OneQuietKeepsList
    <2>6. CASE k.stage = "checklist"
      <3>1. stage = "publish" /\ k.kind = "publish" /\ k.since = 0
        BY <1>3, <1>4, <2>4, <2>6 DEF TaskOk, KindOk, SinceOk, PanelOps
      <3>2. KindOk(j) /\ SinceOk(j)
        BY <2>3, <2>4, <3>1 DEF KindOk, SinceOk, IInv, Counted
      <3>3. NamesOk(j) /\ ListOk(j)
        BY <2>3, <2>4, <3>1 DEF NamesOk, ListOk
      <3>4. GoesOn(k, j)
        BY <2>3, <2>4, <3>1, <3>2, <3>3 DEF GoesOn, TaskOk
      <3>5. HandsOn(k, j)
        <4>1. ~WillAsk(k) /\ ~Listing(k)
          BY <1>3, <2>4, <2>6 DEF WillAsk, Listing
        <4> QED BY <3>1, <4>1 DEF HandsOn, Doomed, Owes
      <3> QED BY <1>1, <1>2, <2>2, <3>4, <3>5, OneQuietKeepsList
    <2> QED BY <1>4, <2>5, <2>6
  <1>5. \/ k.stage = "intent" /\ GoOn(t, "finalize", <<k.reply.id>>, k.token, k.again)
        \/ k.stage = "checklist" /\ GoOn(t, "publish", k.arg, k.held, FALSE)
    BY <1>2 DEF ReceiveStep
  <1> QED BY <1>4, <1>5

(* A request that was refused for its token had changed nothing.           *)
LEMMA UnansweredOwes ==
  ASSUME NEW k, TaskOk(k), k.step \in {"renewing", "answered"}, k.step = "answered" => Fails(k)
  PROVE  \/ k.stage = "list" \/ Reloads(k)
         \/ k.stage = "publish" /\ Fails(k) /\ k.reply.verdict = "lost"
         \/ ~WillAsk(k) /\ ~Listing(k) /\ ~(IsAction(k) /\ k.since # 0)
  <1>1. k # Idle
    BY IdleTask
  <1>2. CASE k.kind = "load" \/ k.kind \in {"upload", "cover", "reorder", "delete", "create"}
    BY <1>1, <1>2 DEF TaskOk, KindOk, Reloads, OfPanel, PanelOps
  <1>3. CASE k.kind = "publish"
    <2>1. k.stage \in {"checklist", "publish"}
      BY <1>1, <1>3 DEF TaskOk, KindOk, PanelOps
    <2>2. k.since # 0 => k.stage = "publish" /\ k.step = "answered" /\ k.reply.verdict \in {"ok", "lost"}
      BY <1>3, <2>1 DEF TaskOk, SinceOk, IsAction, OfPanel
    <2> QED BY <1>3, <2>1, <2>2 DEF WillAsk, Listing, Reloads, Fails
  <1>4. CASE k.kind \in PanelOps
    BY <1>1, <1>4 DEF TaskOk, KindOk, WillAsk, Listing, IsAction, OfPanel, PanelOps, Reloads
  <1> QED BY <1>1, <1>2, <1>3, <1>4 DEF TaskOk, KindOk

(* A request refused for its token waits for the renewal.                  *)
LEMMA Receive401KeepsList ==
  ASSUME IInv, Listable, NEW t \in Places, Receive401(t)
  PROVE  KeepsList
  <1>1. /\ UNCHANGED <<images, cover, published, made>> /\ version' = version /\ upto' = upto
        /\ shown' = shown /\ tasks[t].step = "answered" /\ tasks[t].reply.verdict = "unauthorized"
    BY DEF Receive401, server, history
  <1>2. PICK k : k = tasks[t]
    OBVIOUS
  <1>3. IsTask(k) /\ TaskOk(k) /\ Fails(k) /\ k # Idle /\ k.reply.verdict = "unauthorized"
        /\ k.step = "answered"
    BY <1>1, <1>2, IdleTask DEF IInv, Shapes, Listable, Fails
  <1>4. PICK j : j = [k EXCEPT !.step = "renewing", !.reply = NoReply]
    OBVIOUS
  <1>5. tasks' = [tasks EXCEPT ![t] = j]
    BY <1>2, <1>4 DEF Receive401, IInv, Shapes
  <1>6. j.kind = k.kind /\ j.stage = k.stage /\ j.arg = k.arg /\ j.step = "renewing" /\ j.since = k.since
    BY <1>3, <1>4 DEF IsTask
  <1>7. ~Answered(j) /\ ~Answered(k)
    BY <1>3, <1>6 DEF Answered, Fails
  <1>8. KindOk(j) /\ SinceOk(j)
    BY <1>3, <1>6, <1>7 DEF TaskOk, KindOk, SinceOk, IsAction, OfPanel
  <1>9. NamesOk(j) /\ ListOk(j)
    BY <1>3, <1>6, <1>7 DEF TaskOk, NamesOk, ListOk
  <1>10. k.stage # "intent" \/ ~(IsAction(k) /\ k.since # 0)
    BY <1>3 DEF TaskOk, SinceOk
  <1>11. GoesOn(k, j)
    BY <1>6, <1>7, <1>8, <1>9 DEF GoesOn, TaskOk, ImageOf
  <1>12. WillAsk(j) \/ HandsOn(k, j)
    <2>1. CASE k.stage = "list" \/ Reloads(k)
      BY <1>6, <1>7, <2>1 DEF WillAsk, Reloads, OfPanel
    <2>2. CASE ~WillAsk(k) /\ ~Listing(k) /\ ~(IsAction(k) /\ k.since # 0)
      BY <2>2 DEF HandsOn, Doomed, Owes
    <2> QED BY <1>3, <2>1, <2>2, UnansweredOwes
  <1> QED BY <1>1, <1>2, <1>5, <1>11, <1>12, OneQuietKeepsList

-----------------------------------------------------------------------------
(* The failures.                                                           *)

(* What is left of a task that fails.                                      *)
LEMMA FailureGoesOn ==
  ASSUME NEW k, IsTask(k), TaskOk(k), k.step = "renewing" \/ Fails(k), version \in Nat,
         NEW r, r = AfterFailure(k)
  PROVE  /\ GoesOn(k, r) /\ ~OfPanel(r)
         /\ \/ k.stage = "list" \/ (k.stage = "publish" /\ Fails(k) /\ k.reply.verdict = "lost")
            \/ WillAsk(r) \/ HandsOn(k, r)
  <1>1. k # Idle /\ k.step \in {"renewing", "answered"} /\ (k.step = "answered" => Fails(k))
    BY IdleTask DEF Fails
  <1>2. CASE Reloads(k)
    <2>1. r = [k EXCEPT !.stage = "list", !.step = "sent", !.token = k.held,
                        !.again = FALSE, !.reply = NoReply]
      BY <1>2 DEF AfterFailure
    <2>2. /\ r.kind = k.kind /\ r.stage = "list" /\ r.step = "sent" /\ r.arg = k.arg
          /\ r.since = k.since
      BY <2>1 DEF IsTask
    <2>3. ~Answered(r) /\ ~OfPanel(r) /\ WillAsk(r)
      BY <1>2, <2>2 DEF Answered, OfPanel, WillAsk, Reloads
    <2>4. KindOk(r)
      BY <1>1, <1>2, <2>2 DEF TaskOk, KindOk, Reloads, OfPanel, PanelOps
    <2>5. SinceOk(r) /\ ListOk(r)
      BY <2>2, <2>3 DEF TaskOk, SinceOk, ListOk, IsAction
    <2>6. NamesOk(r)
      BY <2>2, <2>3 DEF TaskOk, NamesOk
    <2> QED BY <2>2, <2>3, <2>4, <2>5, <2>6 DEF GoesOn, TaskOk
  <1>3. CASE ~Reloads(k)
    <2>1. r = Idle
      BY <1>3 DEF AfterFailure
    <2>2. /\ r.kind = "idle" /\ r.stage = "none" /\ r.step = "none" /\ r.since = 0
      BY <2>1 DEF Idle
    <2>3. ~Answered(r) /\ ~OfPanel(r)
      BY <2>2 DEF Answered, OfPanel
    <2>4. KindOk(r) /\ SinceOk(r) /\ NamesOk(r) /\ ListOk(r)
      BY <2>1, <2>2, <2>3 DEF KindOk, SinceOk, NamesOk, ListOk
    <2>5. GoesOn(k, r)
      BY <2>2, <2>3, <2>4 DEF GoesOn, TaskOk
    <2>6. \/ k.stage = "list"
          \/ k.stage = "publish" /\ Fails(k) /\ k.reply.verdict = "lost"
          \/ ~WillAsk(k) /\ ~Listing(k) /\ ~(IsAction(k) /\ k.since # 0)
      BY <1>1, <1>3, UnansweredOwes
    <2>7. ~WillAsk(k) /\ ~Listing(k) /\ ~(IsAction(k) /\ k.since # 0) => HandsOn(k, r)
      BY DEF HandsOn, Doomed, Owes
    <2> QED BY <2>3, <2>5, <2>6, <2>7
  <1> QED BY <1>2, <1>3

(* The list is gone with the session, and what is under way goes on.       *)
LEMMA OverKeepsList ==
  ASSUME IInv, Listable, NEW rest, rest = [s \in Places |-> rest[s]], SessionOver(rest),
         UNCHANGED <<images, cover, published, made>>, version' = version, upto' = upto,
         \A s \in Places : rest[s] = tasks[s] \/ (GoesOn(tasks[s], rest[s]) /\ ~OfPanel(rest[s])),
         Calm' => \A s \in Places : rest[s] = tasks[s] \/ WillAsk(rest[s]) \/ HandsOn(tasks[s], rest[s])
  PROVE  KeepsList
  <1>1. /\ shown' = Nothing
        /\ \A s \in Places :
             tasks'[s] = IF OfPanel(rest[s]) THEN [rest[s] EXCEPT !.arg[2] = FALSE] ELSE rest[s]
    BY DEF SessionOver
  <1>2. ASSUME NEW s \in Places, OfPanel(rest[s])
        PROVE  GoesOn(tasks[s], tasks'[s]) /\ HandsOn(tasks[s], tasks'[s])
    <2>1. PICK k : k = tasks[s]
      OBVIOUS
    <2>2. PICK r : r = tasks'[s]
      OBVIOUS
    <2>3. k = rest[s] /\ OfPanel(k) /\ r = [k EXCEPT !.arg[2] = FALSE]
      BY <1>1, <1>2, <2>1, <2>2
    <2>4. IsTask(k) /\ IsPanelTask(k) /\ TaskOk(k)
      BY <2>1, <2>3 DEF IInv, Shapes, Listable, OfPanel, PanelOps
    <2>5. /\ r.kind = k.kind /\ r.stage = k.stage /\ r.step = k.step
          /\ r.reply = k.reply /\ r.since = k.since
      BY <2>3, <2>4, Unmounted
    <2>6. k.kind \in PanelOps /\ k.stage = k.kind /\ OfPanel(r)
      BY <2>3, <2>4, <2>5 DEF IsPanelTask, OfPanel, PanelOps
    <2>7. KindOk(r) /\ NamesOk(r) /\ ListOk(r)
      BY <2>5, <2>6 DEF KindOk, NamesOk, ListOk, PanelOps
    <2>8. SinceOk(r)
      BY <2>4, <2>5, <2>6 DEF TaskOk, SinceOk, IsAction, PanelOps
    <2>9. GoesOn(k, r)
      BY <2>5, <2>6, <2>7, <2>8 DEF GoesOn, TaskOk, PanelOps
    <2>10. HandsOn(k, r)
      BY <2>3, <2>6 DEF HandsOn, WillAsk, Doomed, Listing, Owes, IsAction, Reloads, PanelOps
    <2> QED BY <2>1, <2>2, <2>9, <2>10
  <1>3. \A s \in Places : tasks'[s] = tasks[s] \/ GoesOn(tasks[s], tasks'[s])
    BY <1>1, <1>2
  <1>4. Calm' => \/ \E s \in Places : WillAsk(tasks'[s])
                 \/ \A s \in Places : tasks'[s] = tasks[s] \/ HandsOn(tasks[s], tasks'[s])
    <2> SUFFICES ASSUME Calm', NEW s \in Places, tasks'[s] # tasks[s], ~HandsOn(tasks[s], tasks'[s])
        PROVE  WillAsk(tasks'[s])
      OBVIOUS
    <2>1. tasks'[s] = rest[s]
      BY <1>1, <1>2
    <2> QED BY <2>1
  <1> QED BY <1>1, <1>3, <1>4, QuietKeepsList

(* A failure: the list is reloaded, or the task is forgotten, which is an  *)
(* excuse (Blind) if it had changed something.                             *)
LEMMA ReceiveFailureKeepsList ==
  ASSUME IInv, Listable, NEW t \in Places, ReceiveFailure(t)
  PROVE  KeepsList
  <1>1. PICK k : k = tasks[t]
    OBVIOUS
  <1>2. /\ UNCHANGED <<images, cover, published, made>> /\ version' = version /\ upto' = upto
        /\ k.step = "answered" /\ k.reply.verdict # "ok"
        /\ excuses' = excuses \cup (IF Blind(k) THEN {"blind"} ELSE {})
                              \cup (IF BlindPanel(k) THEN {"schedule"} ELSE {})
    BY <1>1 DEF ReceiveFailure, server
  <1>3. PICK r : r = AfterFailure(k)
    OBVIOUS
  <1>4. PICK rest : rest = [tasks EXCEPT ![t] = r]
    OBVIOUS
  <1>5. IF k.again THEN SessionOver(rest) ELSE tasks' = rest /\ shown' = shown
    BY <1>1, <1>3, <1>4 DEF ReceiveFailure
  <1>6. tasks = [s \in Places |-> tasks[s]] /\ IsTask(k) /\ TaskOk(k) /\ version \in Nat /\ Fails(k)
    BY <1>1, <1>2 DEF IInv, Shapes, Counted, Listable, Fails
  <1>7. GoesOn(k, r) /\ ~OfPanel(r)
    BY <1>3, <1>6, FailureGoesOn
  <1>8. Calm' => WillAsk(r) \/ HandsOn(k, r)
    <2>1. Calm' => ~Blind(k)
      BY <1>2 DEF Calm
    <2>2. ~Blind(k) => WillAsk(r) \/ HandsOn(k, r)
      BY <1>3, <1>6, FailureGoesOn DEF Blind
    <2> QED BY <2>1, <2>2
  <1>9. rest = [s \in Places |-> rest[s]] /\ rest[t] = r /\ \A s \in Places : s # t => rest[s] = tasks[s]
    BY <1>4, <1>6
  <1>10. CASE k.again
    BY <1>1, <1>2, <1>5, <1>7, <1>8, <1>9, <1>10, OverKeepsList
  <1>11. CASE ~k.again
    BY <1>1, <1>2, <1>4, <1>5, <1>7, <1>8, <1>11, OneQuietKeepsList
  <1> QED BY <1>10, <1>11

(* The renewal fails: everything that waits for it fails too.              *)
LEMMA RenewFailsKeepsList ==
  ASSUME IInv, Listable, RenewFails
  PROVE  KeepsList
  <1>1. PICK rest :
          rest = [s \in DOMAIN tasks |-> IF s \in Renewing THEN AfterFailure(tasks[s]) ELSE tasks[s]]
    OBVIOUS
  <1>2. /\ SessionOver(rest) /\ UNCHANGED <<images, cover, published, made>>
        /\ version' = version /\ upto' = upto
        /\ excuses' = excuses \cup
             (IF \E s \in Renewing : tasks[s].stage = "list" THEN {"blind"} ELSE {})
    BY <1>1 DEF RenewFails, server
  <1>3. DOMAIN tasks = Places /\ version \in Nat
        /\ \A s \in Places : IsTask(tasks[s]) /\ TaskOk(tasks[s])
    BY DEF IInv, Shapes, Counted, Listable
  <1>4. rest = [s \in Places |-> rest[s]]
        /\ \A s \in Places : rest[s] = IF s \in Renewing THEN AfterFailure(tasks[s]) ELSE tasks[s]
    BY <1>1, <1>3
  <1>5. \A s \in Renewing : s \in Places /\ tasks[s].step = "renewing"
    BY <1>3 DEF Renewing
  <1>6. Calm' => \A s \in Renewing : tasks[s].stage # "list"
    BY <1>2 DEF Calm
  <1>7. ASSUME NEW s \in Renewing
        PROVE  /\ GoesOn(tasks[s], rest[s]) /\ ~OfPanel(rest[s])
               /\ Calm' => WillAsk(rest[s]) \/ HandsOn(tasks[s], rest[s])
    <2>1. PICK k : k = tasks[s]
      OBVIOUS
    <2>2. PICK r : r = rest[s]
      OBVIOUS
    <2>3. IsTask(k) /\ TaskOk(k) /\ k.step = "renewing" /\ r = AfterFailure(k) /\ ~Fails(k)
      BY <1>3, <1>4, <1>5, <2>1, <2>2 DEF Fails
    <2>4. /\ GoesOn(k, r) /\ ~OfPanel(r)
          /\ k.stage = "list" \/ WillAsk(r) \/ HandsOn(k, r)
      BY <1>3, <2>3, FailureGoesOn
    <2> QED BY <1>6, <2>1, <2>2, <2>4
  <1>8. \A s \in Places : rest[s] = tasks[s] \/ (GoesOn(tasks[s], rest[s]) /\ ~OfPanel(rest[s]))
    BY <1>4, <1>7
  <1>9. Calm' => \A s \in Places : rest[s] = tasks[s] \/ WillAsk(rest[s]) \/ HandsOn(tasks[s], rest[s])
    BY <1>4, <1>7
  <1> QED BY <1>2, <1>4, <1>8, <1>9, OverKeepsList

(* A sign-out empties the console, and what is under way goes on.          *)
LEMMA SignOutKeepsList ==
  ASSUME IInv, Listable, SignOut
  PROVE  KeepsList
  <1>1. /\ SessionOver(tasks) /\ UNCHANGED <<images, cover, published, made>>
        /\ version' = version /\ upto' = upto
    BY DEF SignOut, server, history
  <1>2. PICK rest : rest = tasks
    OBVIOUS
  <1>3. rest = [s \in Places |-> rest[s]] /\ SessionOver(rest) /\ \A s \in Places : rest[s] = tasks[s]
    BY <1>1, <1>2 DEF IInv, Shapes
  <1> QED BY <1>1, <1>3, OverKeepsList

(* A request sent again owes nothing, as a list is asked for beside it.    *)
LEMMA RenewSucceedsKeepsList ==
  ASSUME IInv, Listable, NEW free \in Places, RenewSucceeds(free)
  PROVE  KeepsList
  <1>1. /\ UNCHANGED <<images, cover, published, made>> /\ version' = version /\ upto' = upto
        /\ shown' = shown
    BY DEF RenewSucceeds, server, history
  <1>2. DOMAIN tasks = Places /\ version \in Nat
        /\ \A s \in Places : IsTask(tasks[s]) /\ TaskOk(tasks[s])
    BY DEF IInv, Shapes, Counted, Listable
  <1>3. \A s \in Places :
          tasks'[s] = IF s = free THEN Task("load", <<>>, expired + 1)
                      ELSE IF s \in Renewing THEN SentAgain(tasks[s], expired + 1)
                      ELSE tasks[s]
    BY <1>2 DEF RenewSucceeds
  <1>4. PICK load : load = Task("load", <<>>, expired + 1)
    OBVIOUS
  <1>5. load.kind = "load" /\ load.stage = "list" /\ load.step = "sent" /\ load.since = 0
    BY <1>4 DEF Task, Idle, FirstStage
  <1>6. GoesOn(tasks[free], load) /\ WillAsk(load)
    <2>1. ~Answered(load)
      BY <1>5 DEF Answered
    <2>2. KindOk(load) /\ SinceOk(load) /\ NamesOk(load) /\ ListOk(load)
      BY <1>2, <1>5, <2>1 DEF KindOk, SinceOk, NamesOk, ListOk
    <2> QED BY <1>5, <2>1, <2>2 DEF GoesOn, TaskOk, WillAsk
  <1>7. ASSUME NEW s \in Renewing, NEW r, r = SentAgain(tasks[s], expired + 1)
        PROVE  GoesOn(tasks[s], r)
    <2>1. PICK k : k = tasks[s]
      OBVIOUS
    <2>2. s \in Places /\ k.step = "renewing" /\ IsTask(k) /\ TaskOk(k) /\ k # Idle
      BY <1>2, <2>1, IdleTask DEF Renewing
    <2>3. PICK stage : stage = IF k.kind = "upload" /\ k.stage = "finalize" THEN "intent" ELSE k.stage
      OBVIOUS
    <2>4. r = [k EXCEPT !.step = "sent", !.token = expired + 1, !.again = TRUE, !.stage = stage,
                        !.since = 0]
      BY <1>7, <2>1, <2>2, <2>3 DEF SentAgain, IsTask
    <2>5. r.kind = k.kind /\ r.arg = k.arg /\ r.stage = stage /\ r.step = "sent" /\ r.since = 0
      BY <2>2, <2>4 DEF IsTask
    <2>6. ~Answered(r) /\ stage # "finalize"
      BY <2>2, <2>3, <2>5 DEF Answered, TaskOk, KindOk, PanelOps
    <2>7. KindOk(r)
      BY <2>2, <2>3, <2>5 DEF TaskOk, KindOk, PanelOps
    <2>8. SinceOk(r) /\ NamesOk(r) /\ ListOk(r)
      BY <1>2, <2>2, <2>5, <2>6 DEF TaskOk, SinceOk, NamesOk, ListOk
    <2> QED BY <2>1, <2>5, <2>6, <2>7, <2>8 DEF GoesOn, TaskOk
  <1>8. \A s \in Places : tasks'[s] = tasks[s] \/ GoesOn(tasks[s], tasks'[s])
    BY <1>3, <1>4, <1>6, <1>7
  <1>9. \E s \in Places : WillAsk(tasks'[s])
    BY <1>3, <1>4, <1>6
  <1> QED BY <1>1, <1>8, <1>9, QuietKeepsList

(* Steps that are not about a task.                                        *)
LEMMA RestKeepsList ==
  ASSUME IInv, Listable, tasks' = tasks, shown' = shown, UNCHANGED <<images, cover, published, made>>,
         version' = version, upto' = upto
  PROVE  KeepsList
  BY QuietKeepsList

(* The worker's change of a photo, which is an excuse.                     *)
LEMMA ElsewhereKeepsList ==
  ASSUME IInv, Listable, NEW i \in DOMAIN images, Elsewhere(i)
  PROVE  KeepsList
  <1>1. PICK status \in {"REJECTED", "DELETING"} : images' = [images EXCEPT ![i].status = status]
    BY DEF Elsewhere
  <1>2. /\ images[i].status \in {"PENDING", "READY"} /\ cover' = (IF cover = i THEN 0 ELSE cover)
        /\ published' = published /\ made' = made /\ version' = version /\ shown' = shown
        /\ tasks' = tasks /\ "elsewhere" \in excuses'
    BY DEF Elsewhere
  <1>3. /\ images' \in Seq(Row) /\ DOMAIN images' = DOMAIN images
        /\ \A j \in DOMAIN images : j # i => images'[j] = images[j]
    BY <1>1, StatusChanges DEF PhotoStatus
  <1>4. Grows
    BY <1>2, <1>3 DEF Grows, IInv, Counted
  <1>5. /\ published' \in BOOLEAN /\ made' \in Nat /\ cover' \in Nat
        /\ (cover' # 0 => IsImage(cover)' /\ images'[cover'].status = "READY")
    BY <1>2, <1>3 DEF Listable, IsImage
  <1>6. Listable'
    BY <1>2, <1>3, <1>4, <1>5, ListableOn
  <1>7. ~Calm'
    BY <1>2 DEF Calm
  <1> QED BY <1>6, <1>7 DEF KeepsList

-----------------------------------------------------------------------------
(* What is received.                                                       *)

(* The contents stay the same where nothing else is owed.                  *)
LEMMA SameUntil ==
  ASSUME version \in Nat, upto \in Nat, upto <= version, Listable, NEW h, Remembers(h), NEW t \in Places,
         ~WillAsk(tasks[t]), ~Doomed(tasks[t], upto), NEW v \in upto .. version,
         \A s \in Places : s # t => ~WillAsk(tasks[s]) /\ ~Doomed(tasks[s], v) /\ ~Listing(tasks[s]),
         NEW a \in upto .. v, NEW b \in upto .. v, a <= b,
         ~Listing(tasks[t]), \A u \in a + 1 .. b : ~Owes(tasks[t], u)
  PROVE  h[a] = h[b]
  <1> SUFFICES ASSUME a < b, h[a] # h[b] PROVE FALSE
    OBVIOUS
  <1>1. a \in upto .. version /\ b \in upto .. version
    OBVIOUS
  <1>2. PICK s \in Places : \/ WillAsk(tasks[s]) \/ Doomed(tasks[s], upto)
                            \/ Listing(tasks[s]) /\ a < tasks[s].reply.version
                            \/ \E u \in a + 1 .. b : Owes(tasks[s], u)
    BY <1>1 DEF Remembers, Steps
  <1>3. s # t
    BY <1>2
  <1>4. PICK k : k = tasks[s]
    OBVIOUS
  <1>5. TaskOk(k) /\ k.since \in Nat
    BY <1>4 DEF Listable, TaskOk, SinceOk
  <1>6. ~WillAsk(k) /\ ~Doomed(k, v) /\ ~Listing(k)
    BY <1>3, <1>4
  <1>7. ~Doomed(k, upto)
    BY <1>5, <1>6 DEF Doomed
  <1>8. PICK u \in a + 1 .. b : Owes(k, u)
    BY <1>2, <1>4, <1>6, <1>7
  <1>9. k.since <= u
    BY <1>5, <1>8 DEF Owes, TaskOk, SinceOk
  <1> QED BY <1>5, <1>6, <1>8, <1>9 DEF Owes, Doomed

(* An answer is shown. It is a change that follows what is shown directly  *)
(* (nothing else changed between the two, as nobody else owes a version),  *)
(* or a list, or a delete that was done before, or what is shown stays for *)
(* another task to put right. An answer that is crossed by another is an   *)
(* excuse.                                                                 *)
LEMMA ReceiveResultRemembers ==
  ASSUME IInv, Listable, NEW t \in Places, ReceiveResult(t), ~Crossed(tasks[t]), NEW h, Remembers(h)
  PROVE  Remembers(h)'
  <1>1. PICK k : k = tasks[t]
    OBVIOUS
  <1>2. /\ k.step = "answered" /\ k.reply.verdict = "ok" /\ k.stage \notin {"intent", "checklist"}
        /\ shown' = Updated(k) /\ tasks' = [tasks EXCEPT ![t] = Idle] /\ version' = version
        /\ images' = images /\ cover' = cover /\ published' = published /\ made' = made
        /\ upto' = Max({upto, k.reply.version}) /\ ~Crossed(k)
    BY <1>1 DEF ReceiveResult, Ends, server
  <1>3. /\ version \in Nat /\ upto \in Nat /\ upto <= version
        /\ k.reply.version \in Nat /\ k.reply.version <= version
    BY <1>1 DEF IInv, Counted
  <1>4. /\ upto' \in {upto, k.reply.version} /\ upto <= upto' /\ k.reply.version <= upto' /\ upto' \in Nat
        /\ upto' <= version
    BY <1>2, <1>3, MaxOfTwo
  <1>5. TaskOk(k) /\ Answered(k) /\ k # Idle /\ k.since \in Nat
    BY <1>1, <1>2, IdleTask DEF Listable, TaskOk, SinceOk, Answered
  <1>6. tasks'[t] = Idle /\ \A s \in Places : s # t => tasks'[s] = tasks[s]
    BY <1>2 DEF IInv, Shapes
  <1>7. ~WillAsk(k) /\ ~Doomed(k, upto)
    <2>1. ~Fails(k) /\ k.step # "renewing"
      BY <1>2 DEF Fails
    <2>2. ~WillAsk(k)
      BY <1>5, <2>1 DEF WillAsk
    <2>3. ~Doomed(k, upto)
      BY <1>2 DEF Doomed, Crossed, IsAction
    <2> QED BY <2>2, <2>3
  <1>8. \A u : Owes(k, u) => k.since <= u /\ u <= k.reply.version /\ u \in Nat
    <2> SUFFICES ASSUME NEW u, Owes(k, u) PROVE k.since <= u /\ u <= k.reply.version /\ u \in Nat
      OBVIOUS
    <2>1. CASE k.stage = "finalize"
      BY <1>3, <1>5, <2>1 DEF Owes, TaskOk, SinceOk
    <2>2. CASE k.stage # "finalize"
      BY <1>3, <1>5, <2>2 DEF Owes, TaskOk, SinceOk
    <2> QED BY <2>1, <2>2
  <1>9. Content' = Content
    BY <1>2, PhotosStay DEF Content
  <1>10. h \in [0 .. version -> Contents] /\ h[version] = Content /\ Steps(h) /\ ShownIs(h)
         /\ \A s \in Places : Effect(tasks[s], h) /\ Gone(tasks[s], h, version)
    BY DEF Remembers
  <1>11. ASSUME NEW s \in Places PROVE Effect(tasks'[s], h) /\ Gone(tasks'[s], h, version')
    <2>1. CASE s = t
      <3>1. Idle.stage = "none" /\ Idle.since = 0 /\ ~Listing(Idle)
        BY DEF Idle, Listing
      <3> QED BY <1>6, <2>1, <3>1 DEF Effect, Gone
    <2>2. CASE s # t
      BY <1>2, <1>6, <1>10, <2>2
    <2> QED BY <2>1, <2>2
  <1>12. \A s \in Places : s # t /\ Doomed(tasks[s], upto) => Doomed(tasks'[s], upto')
    <2> SUFFICES ASSUME NEW s \in Places, s # t, Doomed(tasks[s], upto) PROVE Doomed(tasks'[s], upto')
      OBVIOUS
    <2>1. tasks[s].since \in Nat
      BY <1>3 DEF Listable, TaskOk, SinceOk
    <2> QED BY <1>3, <1>4, <1>6, <2>1 DEF Doomed
  <1>13. ASSUME NEW a \in upto' .. version, NEW b \in upto' .. version, a < b
         PROVE  \/ h[a] = h[b]
                \/ \E s \in Places : \/ WillAsk(tasks'[s]) \/ Doomed(tasks'[s], upto')
                                     \/ Listing(tasks'[s]) /\ a < tasks'[s].reply.version
                                     \/ \E u \in a + 1 .. b : Owes(tasks'[s], u)
    <2> SUFFICES ASSUME h[a] # h[b]
        PROVE  \E s \in Places : \/ WillAsk(tasks'[s]) \/ Doomed(tasks'[s], upto')
                                 \/ Listing(tasks'[s]) /\ a < tasks'[s].reply.version
                                 \/ \E u \in a + 1 .. b : Owes(tasks'[s], u)
      OBVIOUS
    <2>1. a \in upto .. version /\ b \in upto .. version
      BY <1>3, <1>4
    <2>2. PICK s \in Places : \/ WillAsk(tasks[s]) \/ Doomed(tasks[s], upto)
                              \/ Listing(tasks[s]) /\ a < tasks[s].reply.version
                              \/ \E u \in a + 1 .. b : Owes(tasks[s], u)
      BY <1>10, <1>13, <2>1 DEF Steps
    <2>3. s # t
      <3> SUFFICES ASSUME s = t PROVE FALSE
        OBVIOUS
      <3>1. CASE a < k.reply.version
        BY <1>3, <1>4, <3>1
      <3>2. CASE \E u \in a + 1 .. b : Owes(k, u)
        <4>1. PICK u \in a + 1 .. b : Owes(k, u)
          BY <3>2
        <4>2. u <= k.reply.version
          BY <1>8, <4>1
        <4> QED BY <1>3, <1>4, <4>1, <4>2
      <3> QED BY <1>1, <1>7, <2>2, <3>1, <3>2
    <2> QED BY <1>6, <1>12, <2>2, <2>3
  <1>14. Steps(h)'
    BY <1>2, <1>13 DEF Steps
  <1>15. ASSUME shown'.known,
                \A s \in Places : ~WillAsk(tasks'[s]) /\ ~Doomed(tasks'[s], upto') /\ ~Listing(tasks'[s])
         PROVE  Shows(shown', h[upto'])
    <2>1. \A s \in Places : s # t => ~WillAsk(tasks[s]) /\ ~Doomed(tasks[s], upto') /\ ~Listing(tasks[s])
      BY <1>6, <1>15
    <2>2. CASE k.stage = "list"
      <3>1. upto' = k.reply.version
        BY <1>2, <1>3, <1>4, <2>2 DEF Crossed
      <3>2. Shows(k.reply.list, h[k.reply.version])
        BY <1>1, <1>5, <1>10, <2>2 DEF Effect, Listing
      <3> QED BY <1>2, <2>2, <3>1, <3>2 DEF Updated
    <2>3. CASE k.stage # "list"
      <3>1. shown.known
        <4>1. ~shown.known => shown' = shown
          BY <1>2, <2>3 DEF Updated
        <4> QED BY <1>15, <4>1
      <3>2. ~Listing(k)
        BY <2>3 DEF Listing
      <3>3. Shows(shown, h[upto])
        <4>1. \A s \in Places : s # t => ~Doomed(tasks[s], upto)
          BY <1>6, <1>12, <1>15
        <4> QED BY <1>1, <1>7, <1>10, <2>1, <3>1, <3>2, <4>1 DEF ShownIs
      <3>4. ASSUME NEW a \in upto .. upto', NEW b \in upto .. upto', a <= b,
                   \A u \in a + 1 .. b : ~Owes(k, u)
            PROVE  h[a] = h[b]
        <4>1. upto' \in upto .. version
          BY <1>3, <1>4
        <4>2. PICK w : w = upto'
          OBVIOUS
        <4>3. /\ w \in upto .. version /\ a \in upto .. w /\ b \in upto .. w
              /\ \A s \in Places : s # t => ~WillAsk(tasks[s]) /\ ~Doomed(tasks[s], w) /\ ~Listing(tasks[s])
          BY <2>1, <4>1, <4>2
        <4> HIDE <4>2
        <4> QED BY <1>1, <1>3, <1>7, <3>2, <3>4, <4>3, SameUntil
      <3>5. \A u \in 0 .. version : h[u] \in Contents
        BY <1>10
      <3>6. CASE OfPanel(k)
        <4>1. \A u \in upto + 1 .. upto' : ~Owes(k, u)
          BY <3>6 DEF Owes, IsAction
        <4>2. h[upto] = h[upto']
          BY <1>3, <1>4, <3>4, <4>1
        <4> QED BY <1>2, <2>3, <3>3, <3>6, <4>2 DEF Updated
      <3>7. CASE ~OfPanel(k) /\ k.since = 0
        <4>1. \A u \in upto + 1 .. upto' : ~Owes(k, u)
          BY <3>7 DEF Owes
        <4>2. h[upto] = h[upto']
          BY <1>3, <1>4, <3>4, <4>1
        <4>3. k.stage = "delete"
          BY <1>2, <1>5, <2>3, <3>7 DEF TaskOk, KindOk, SinceOk, OfPanel, PanelOps
        <4>4. k.reply.id \in Nat
          <5>1. k.reply.id \in DOMAIN images
            BY <1>5, <4>3 DEF TaskOk, NamesOk, IsImage
          <5> QED BY <5>1, RowOf
        <4>5. \A p \in h[upto'].photos : p.id # k.reply.id
          <5>1. upto' \in k.reply.version .. version
            BY <1>3, <1>4
          <5> QED BY <1>1, <1>5, <1>10, <4>3, <5>1 DEF Gone
        <4>6. Shows(Updated(k), h[upto])
          <5>1. h[upto] \in Contents /\ \A p \in h[upto].photos : p.id # k.reply.id
            BY <1>3, <3>5, <4>2, <4>5
          <5> QED BY <3>3, <3>7, <4>3, <4>4, <5>1, DeletedAgainShows
        <4> QED BY <1>2, <4>2, <4>6
      <3>8. CASE ~OfPanel(k) /\ k.since # 0 /\ k.stage # "finalize"
        <4>1. k.since = k.reply.version /\ IsAction(k)
          BY <1>5, <2>3, <3>8 DEF TaskOk, SinceOk, IsAction
        <4>2. upto < k.since
          BY <1>2, <1>3, <1>5, <2>3, <3>8 DEF Crossed
        <4>3. upto' = k.since
          BY <1>3, <1>4, <4>1, <4>2
        <4>4. k.since - 1 \in upto .. upto' /\ upto \in upto .. upto' /\ upto <= k.since - 1
          BY <1>3, <1>5, <4>2, <4>3
        <4>5. \A u \in upto + 1 .. k.since - 1 : ~Owes(k, u)
          BY <1>5, <3>8 DEF Owes
        <4>6. h[upto] = h[k.since - 1]
          BY <3>4, <4>4, <4>5
        <4>7. Did(k, h[k.since - 1], h[k.since])
          BY <1>1, <1>5, <1>10, <3>8, <4>1 DEF Effect
        <4>8. h[k.since - 1] \in Contents /\ h[k.since] \in Contents
          BY <1>3, <1>4, <1>5, <3>5, <4>2, <4>3
        <4>9. k.stage \in {"cover", "reorder", "delete", "publish", "create"}
          BY <1>2, <1>5, <2>3, <3>8 DEF TaskOk, KindOk, OfPanel, PanelOps
        <4>10. k.stage = "delete" => k.reply.id \in Nat
          <5>1. k.stage = "delete" => k.reply.id \in DOMAIN images
            BY <1>5 DEF TaskOk, NamesOk, IsImage
          <5> QED BY <5>1, RowOf
        <4>11. Shows(Updated(k), h[k.since])
          BY <3>3, <3>8, <4>6, <4>7, <4>8, <4>9, <4>10, UpdatedShows
        <4> QED BY <1>2, <4>3, <4>11
      <3>9. CASE ~OfPanel(k) /\ k.since # 0 /\ k.stage = "finalize"
        <4>0. PICK v : v = k.reply.version
          OBVIOUS
        <4>1. IsAction(k) /\ k.since < v /\ v \in Nat
          BY <1>3, <1>5, <2>3, <3>9, <4>0 DEF TaskOk, SinceOk, IsAction
        <4>2. upto < k.since
          BY <1>2, <1>3, <1>5, <2>3, <3>9 DEF Crossed
        <4>3. upto' = v
          BY <1>3, <1>4, <1>5, <4>0, <4>1, <4>2
        <4>4. /\ k.since - 1 \in upto .. upto' /\ upto \in upto .. upto' /\ upto <= k.since - 1
              /\ k.since \in upto .. upto' /\ v - 1 \in upto .. upto' /\ k.since <= v - 1
          BY <1>3, <1>5, <4>1, <4>2, <4>3
        <4>5. /\ \A u \in upto + 1 .. k.since - 1 : ~Owes(k, u)
              /\ \A u \in k.since + 1 .. v - 1 : ~Owes(k, u)
          BY <1>5, <4>0, <4>1 DEF Owes
        <4>6. h[upto] = h[k.since - 1] /\ h[k.since] = h[v - 1]
          BY <3>4, <4>4, <4>5
        <4>7. Did(k, h[k.since - 1], h[k.since]) /\ Finalized(k, h[v - 1], h[v])
          BY <1>1, <1>5, <1>10, <3>9, <4>0, <4>1 DEF Effect
        <4>8. h[k.since - 1] \in Contents /\ h[k.since] \in Contents /\ h[v] \in Contents
          BY <1>3, <1>4, <1>5, <3>5, <4>1, <4>2, <4>3
        <4>9. k.reply.id = k.arg[1] /\ k.reply.id \in Nat
          <5>1. k.reply.id = k.arg[1] /\ k.reply.id \in DOMAIN images
            BY <1>5, <3>9 DEF TaskOk, NamesOk, IsImage
          <5> QED BY <5>1, RowOf
        <4>10. Shows(Updated(k), h[v])
          BY <3>3, <3>9, <4>6, <4>7, <4>8, <4>9, UploadedShows
        <4> QED BY <1>2, <4>3, <4>10
      <3> QED BY <3>6, <3>7, <3>8, <3>9
    <2> QED BY <2>2, <2>3
  <1>16. ShownIs(h)'
    BY <1>15 DEF ShownIs
  <1> QED BY <1>2, <1>9, <1>10, <1>11, <1>14, <1>16 DEF Remembers

(* Whatever is shown, the list stays as it should be.                      *)
LEMMA ReceiveResultKeepsList ==
  ASSUME IInv, Listable, NEW t \in Places, ReceiveResult(t)
  PROVE  KeepsList
  <1>1. /\ tasks[t].step = "answered" /\ tasks[t].reply.verdict = "ok"
        /\ tasks[t].stage \notin {"intent", "checklist"}
        /\ shown' = Updated(tasks[t]) /\ tasks' = [tasks EXCEPT ![t] = Idle] /\ version' = version
        /\ images' = images /\ cover' = cover /\ published' = published /\ made' = made
        /\ Crossed(tasks[t]) => "crossed" \in excuses'
    BY DEF ReceiveResult, Ends, server
  <1>2. Grows /\ version \in Nat
    BY <1>1 DEF Grows, IInv, Counted
  <1>3. tasks'[t] = Idle /\ \A s \in Places : s # t => tasks'[s] = tasks[s]
    BY <1>1 DEF IInv, Shapes
  <1>4. TaskOk(Idle)
    BY <1>2 DEF TaskOk, KindOk, SinceOk, NamesOk, ListOk, Idle, IsAction, Answered
  <1>5. TaskOk(Idle)'
    <2>1. PICK k : k = Idle
      OBVIOUS
    <2>2. TaskOk(k)'
      BY <1>2, <1>4, <2>1, TaskStaysOk
    <2> QED BY <2>1, <2>2
  <1>6. \A s \in Places : tasks'[s] = tasks[s] \/ TaskOk(tasks[s])'
    <2>1. TaskOk(tasks[t])'
      BY <1>3, <1>5
    <2> QED BY <1>3, <2>1
  <1>7. /\ shown' = [known |-> shown'.known, media |-> shown'.media, published |-> shown'.published,
                     made |-> shown'.made]
        /\ HasIds(shown.media)'
    <2>1. PICK l : l = Updated(tasks[t])
      OBVIOUS
    <2>2. l = [known |-> l.known, media |-> l.media, published |-> l.published, made |-> l.made]
          /\ HasIds(l.media)
      BY <1>1, <2>1, UpdatedHasIds DEF Answered
    <2> QED BY <1>1, <2>1, <2>2 DEF HasIds
  <1>8. Listable'
    <2>1. /\ images' \in Seq(Row) /\ published' \in BOOLEAN /\ made' \in Nat /\ cover' \in Nat
          /\ (cover' # 0 => IsImage(cover)' /\ images'[cover'].status = "READY")
      BY <1>1 DEF Listable, IsImage
    <2> QED BY <1>2, <1>6, <1>7, <2>1, ListableOn
  <1>9. Calm' => ~Crossed(tasks[t])
    BY <1>1 DEF Calm
  <1>10. Calm' => \A h : Remembers(h) => \E g : Remembers(g)'
    BY <1>9, ReceiveResultRemembers
  <1> QED BY <1>8, <1>10 DEF KeepsList

-----------------------------------------------------------------------------
(* The theorems of the list.                                               *)

(* The inductive invariant of the list.                                    *)
ListInv == Listable /\ (Calm => KnownOrAsked /\ \E h : Remembers(h))

(* It holds in the beginning: the load that fills the console is sent.     *)
LEMMA InitLists ==
  ASSUME Init
  PROVE  ListInv
  <1>1. PICK load : load = [Idle EXCEPT !.kind = "load", !.stage = "list", !.held = 1,
                                        !.step = "sent", !.token = 1]
    OBVIOUS
  <1>2. /\ load.kind = "load" /\ load.stage = "list" /\ load.step = "sent" /\ load.since = 0
        /\ Idle.stage = "none" /\ Idle.step = "none" /\ Idle.since = 0 /\ Idle.kind = "idle"
    BY <1>1 DEF Idle
  <1>3. /\ DOMAIN tasks = Places /\ \A t \in Places : tasks[t] = IF t # 1 THEN Idle ELSE load
    BY <1>1 DEF Init, Places
  <1>4. version = 0 /\ upto = 0 /\ made = 0 /\ cover = 0 /\ shown = Nothing /\ published \in BOOLEAN
    BY DEF Init
  <1>5. images \in Seq(Row)
    <2>1. MaxImages \in Nat
      BY ConsoleAssumption
    <2>2. PICK n \in Nat : images = [i \in 1 .. n |-> [status |-> "READY", place |-> i - 1]]
      BY <2>1 DEF Init
    <2>3. \A i \in 1 .. n : [status |-> "READY", place |-> i - 1] \in Row
      BY DEF Row, PhotoStatus
    <2> QED BY <2>2, <2>3
  <1>6. ASSUME NEW k \in {Idle, load}
        PROVE  /\ TaskOk(k) /\ ~Answered(k) /\ k.since = 0 /\ k.stage \in {"none", "list"}
    <2>1. ~Answered(k) /\ k.since = 0 /\ k.stage \in {"none", "list"} /\ k.kind \in {"idle", "load"}
      BY <1>2 DEF Answered
    <2>2. KindOk(k)
      BY <1>2 DEF KindOk
    <2>3. SinceOk(k) /\ NamesOk(k) /\ ListOk(k)
      BY <1>4, <2>1 DEF SinceOk, NamesOk, ListOk
    <2> QED BY <2>1, <2>2, <2>3 DEF TaskOk
  <1>7. \A t \in Places : tasks[t] \in {Idle, load}
    BY <1>3
  <1>8. Listable
    <2>1. /\ shown = [known |-> shown.known, media |-> shown.media, published |-> shown.published,
                      made |-> shown.made]
          /\ HasIds(shown.media)
      <3>1. shown.media = <<>> /\ <<>> \in Seq(PhotoRow) /\ DOMAIN <<>> = {}
        BY <1>4 DEF Nothing
      <3> QED BY <1>4, <3>1 DEF Nothing, HasIds
    <2> QED BY <1>4, <1>5, <1>6, <1>7, <2>1 DEF Listable
  <1>9. KnownOrAsked
    <2>1. 1 \in Places
      BY ConsoleAssumption DEF Places
    <2>2. tasks[1].stage = "list"
      BY <1>2, <1>3, <2>1
    <2> QED BY <2>1, <2>2 DEF KnownOrAsked
  <1>10. \E h : Remembers(h)
    <2> DEFINE h == [u \in 0 .. 0 |-> Content]
    <2>1. h \in [0 .. version -> Contents] /\ h[version] = Content
      BY <1>4, <1>8, ContentTyped
    <2>2. \A t \in Places : Effect(tasks[t], h) /\ Gone(tasks[t], h, version)
      BY <1>6, <1>7 DEF Effect, Gone, Listing
    <2>3. Steps(h)
      BY <1>4 DEF Steps
    <2>4. ShownIs(h)
      BY <1>4 DEF ShownIs, Nothing
    <2> QED BY <2>1, <2>2, <2>3, <2>4 DEF Remembers
  <1> QED BY <1>8, <1>9, <1>10 DEF ListInv

(* Every step keeps the list.                                              *)
LEMMA StepKeepsList ==
  ASSUME IInv, IInv', Listable, [Next]_vars
  PROVE  KeepsList
  <1>1. DOMAIN tasks = Places
    BY DEF IInv, Shapes
  <1>2. ASSUME NEW t \in Places, \E c \in Offered : Act(t, c[1], c[2])
        PROVE  KeepsList
    BY <1>2, ActKeepsList
  <1>3. ASSUME NEW t \in Places, TaskStep(t)
        PROVE  KeepsList
    BY <1>3, ServeKeepsList, ReceiveStepKeepsList, ReceiveResultKeepsList, Receive401KeepsList,
       ReceiveFailureKeepsList DEF TaskStep
  <1>4. ASSUME NEW t \in Places, Lose(t) \/ RenewSucceeds(t)
        PROVE  KeepsList
    BY <1>4, LoseKeepsList, RenewSucceedsKeepsList
  <1>5. CASE RenewFails \/ SignOut \/ \E i \in DOMAIN images : Elsewhere(i)
    BY <1>5, RenewFailsKeepsList, SignOutKeepsList, ElsewhereKeepsList
  <1>6. ASSUME NEW d, ChooseDay(d) \/ HeldElsewhere(d)
        PROVE  KeepsList
    <2>1. /\ tasks' = tasks /\ shown' = shown /\ UNCHANGED <<images, cover, published, made>>
          /\ version' = version /\ upto' = upto
      BY <1>6 DEF ChooseDay, HeldElsewhere, server, history
    <2> QED BY <2>1, RestKeepsList
  <1>7. CASE AccessExpires \/ UNCHANGED vars
    <2>1. /\ tasks' = tasks /\ shown' = shown /\ UNCHANGED <<images, cover, published, made>>
          /\ version' = version /\ upto' = upto
      BY <1>7 DEF AccessExpires, vars, server, history
    <2> QED BY <2>1, RestKeepsList
  <1> QED BY <1>1, <1>2, <1>3, <1>4, <1>5, <1>6, <1>7 DEF Next

(* An excuse is never taken back.                                          *)
LEMMA ExcusesStay ==
  ASSUME [Next]_vars
  PROVE  excuses \subseteq excuses'
  <1>1. ASSUME NEW t, \E c \in Offered : Act(t, c[1], c[2])
        PROVE  excuses' = excuses
    BY <1>1 DEF Act, history
  <1>2. ASSUME NEW t, TaskStep(t) \/ Lose(t) \/ RenewSucceeds(t)
        PROVE  excuses \subseteq excuses'
    BY <1>2 DEF TaskStep, Serve, ReceiveStep, ReceiveResult, Receive401, ReceiveFailure, Lose,
                RenewSucceeds, history
  <1>3. CASE RenewFails \/ SignOut \/ AccessExpires \/ \E i \in DOMAIN images : Elsewhere(i)
    BY <1>3 DEF RenewFails, SignOut, AccessExpires, Elsewhere, history
  <1>4. ASSUME NEW d, ChooseDay(d) \/ HeldElsewhere(d)
        PROVE  excuses \subseteq excuses'
    BY <1>4 DEF ChooseDay, HeldElsewhere, history
  <1>5. CASE UNCHANGED vars
    BY <1>5 DEF vars, history
  <1> QED BY <1>1, <1>2, <1>3, <1>4, <1>5 DEF Next

(* Who has a session and no list has asked for one.                        *)
LEMMA StillAsked ==
  ASSUME KnownOrAsked, auth' = auth \/ auth' = 0, shown'.known = shown.known,
         \A s \in Places : tasks[s].stage = "list" => tasks'[s].stage = "list"
  PROVE  KnownOrAsked'
  BY DEF KnownOrAsked

(* Every step keeps a load under way where there is no list.               *)
LEMMA StepKeepsAsked ==
  ASSUME IInv, Listable, KnownOrAsked, Calm', [Next]_vars
  PROVE  KnownOrAsked'
  <1>1. tasks = [s \in Places |-> tasks[s]] /\ \A s \in Places : IsTask(tasks[s])
    BY DEF IInv, Shapes
  <1>2. ASSUME NEW t \in Places, \E c \in Offered : Act(t, c[1], c[2])
        PROVE  KnownOrAsked'
    <2>1. /\ auth' = auth /\ shown' = shown /\ tasks[t] = Idle
          /\ \A s \in Places : s # t => tasks'[s] = tasks[s]
      BY <1>1, <1>2 DEF Act, IsFree
    <2>2. tasks[t].stage # "list"
      BY <2>1, IdleTask
    <2> QED BY <2>1, <2>2, StillAsked
  <1>3. ASSUME NEW t \in Places, Serve(t) \/ Lose(t)
        PROVE  KnownOrAsked'
    <2>1. PICK verdict, change, id, list : Answer(t, verdict, change, id, list)
      <3>1. CASE Lose(t)
        BY <3>1 DEF Lose
      <3>2. CASE Serve(t)
        <4>1. PICK verdict, change, id, list :
                \/ Answer(t, verdict, change, id, list)
          BY <3>2, ServeCases DEF QuietReply, SlotChanged
        <4> QED BY <4>1
      <3> QED BY <1>3, <3>1, <3>2
    <2>2. tasks'[t].stage = tasks[t].stage /\ \A s \in Places : s # t => tasks'[s] = tasks[s]
      BY <2>1, AnswerTask DEF Only
    <2>3. auth' = auth /\ shown' = shown
      BY <1>3 DEF Serve, Lose
    <2> QED BY <2>2, <2>3, StillAsked
  <1>4. ASSUME NEW t \in Places, ReceiveStep(t) \/ Receive401(t)
        PROVE  KnownOrAsked'
    <2>1. auth' = auth /\ shown' = shown
      BY <1>4 DEF ReceiveStep, Receive401
    <2>2. \A s \in Places : s # t => tasks'[s] = tasks[s]
      BY <1>1, <1>4 DEF ReceiveStep, Receive401, GoOn
    <2>3. tasks[t].stage = "list" => tasks'[t].stage = "list"
      <3> SUFFICES ASSUME tasks[t].stage = "list" PROVE tasks'[t].stage = "list"
        OBVIOUS
      <3>1. tasks' = [tasks EXCEPT ![t].step = "renewing", ![t].reply = NoReply]
        BY <1>4 DEF ReceiveStep, Receive401
      <3>2. PICK k : k = [tasks[t] EXCEPT !.step = "renewing", !.reply = NoReply]
        OBVIOUS
      <3>3. IsTask(tasks[t]) /\ tasks'[t] = k
        BY <1>1, <3>1, <3>2
      <3> QED BY <3>2, <3>3 DEF IsTask
    <2> QED BY <2>1, <2>2, <2>3, StillAsked
  <1>5. ASSUME NEW t \in Places, ReceiveResult(t)
        PROVE  KnownOrAsked'
    <2>1. /\ auth' = auth /\ shown' = Updated(tasks[t]) /\ \A s \in Places : s # t => tasks'[s] = tasks[s]
          /\ tasks[t].step = "answered" /\ tasks[t].reply.verdict = "ok"
      BY <1>1, <1>5 DEF ReceiveResult, Ends
    <2>2. CASE tasks[t].stage = "list"
      <3>1. PICK l : l = tasks[t].reply.list
        OBVIOUS
      <3>2. l = [known |-> TRUE, media |-> l.media, published |-> l.published, made |-> l.made]
        BY <2>1, <2>2, <3>1 DEF Listable, TaskOk, ListOk, Answered
      <3>3. shown' = l /\ l.known
        BY <2>1, <2>2, <3>1, <3>2 DEF Updated
      <3> QED BY <3>3 DEF KnownOrAsked
    <2>3. CASE tasks[t].stage # "list"
      <3>1. ~shown'.known => ~shown.known
        <4>1. PICK m : m = MediaAfter(tasks[t])
          OBVIOUS
        <4>2. PICK p : p = IF tasks[t].stage = "publish" THEN tasks[t].reply.list.published ELSE shown.published
          OBVIOUS
        <4>3. PICK w : w = IF tasks[t].stage = "create" THEN Append(shown.made, tasks[t].reply.id) ELSE shown.made
          OBVIOUS
        <4>4. shown' = shown \/ shown' = [shown EXCEPT !.media = m, !.published = p, !.made = w]
          BY <2>1, <2>3, <4>1, <4>2, <4>3 DEF Updated
        <4>5. shown = [known |-> shown.known, media |-> shown.media, published |-> shown.published,
                       made |-> shown.made]
          BY DEF Listable
        <4>6. shown'.known = shown.known
          BY <4>4, <4>5
        <4> QED BY <4>6
      <3> QED BY <2>1, <2>3, <3>1 DEF KnownOrAsked
    <2> QED BY <2>2, <2>3
  <1>6. ASSUME NEW t \in Places, ReceiveFailure(t)
        PROVE  KnownOrAsked'
    <2>1. CASE tasks[t].again
      <3>1. auth' = 0
        BY <1>6, <2>1 DEF ReceiveFailure, SessionOver
      <3> QED BY <3>1 DEF KnownOrAsked
    <2>2. CASE ~tasks[t].again
      <3>1. /\ auth' = auth /\ shown' = shown /\ \A s \in Places : s # t => tasks'[s] = tasks[s]
            /\ excuses' = excuses \cup (IF Blind(tasks[t]) THEN {"blind"} ELSE {})
                                  \cup (IF BlindPanel(tasks[t]) THEN {"schedule"} ELSE {})
        BY <1>1, <1>6, <2>2 DEF ReceiveFailure
      <3>2. tasks[t].stage # "list"
        BY <3>1 DEF Calm, Blind
      <3> QED BY <3>1, <3>2, StillAsked
    <2> QED BY <2>1, <2>2
  <1>7. ASSUME NEW t \in Places, RenewSucceeds(t)
        PROVE  KnownOrAsked'
    <2>1. tasks'[t] = Task("load", <<>>, expired + 1)
      BY <1>1, <1>7 DEF RenewSucceeds
    <2>2. tasks'[t].stage = "list"
      BY <2>1 DEF Task, Idle, FirstStage
    <2> QED BY <2>2 DEF KnownOrAsked
  <1>8. CASE RenewFails \/ SignOut
    <2>1. auth' = 0
      BY <1>8 DEF RenewFails, SignOut, SessionOver
    <2> QED BY <2>1 DEF KnownOrAsked
  <1>9. ASSUME NEW d, ChooseDay(d) \/ HeldElsewhere(d) \/ Elsewhere(d)
        PROVE  KnownOrAsked'
    <2>1. auth' = auth /\ shown' = shown /\ tasks' = tasks
      BY <1>9 DEF ChooseDay, HeldElsewhere, Elsewhere
    <2> QED BY <2>1, StillAsked
  <1>10. CASE AccessExpires \/ UNCHANGED vars
    <2>1. auth' = auth /\ shown' = shown /\ tasks' = tasks
      BY <1>10 DEF AccessExpires, vars
    <2> QED BY <2>1, StillAsked
  <1>11. DOMAIN tasks = Places
    BY <1>1
  <1> QED BY <1>2, <1>3, <1>4, <1>5, <1>6, <1>7, <1>8, <1>9, <1>10, <1>11 DEF Next, TaskStep

(* A list without repetition has as many photos as it shows.               *)
LEMMA ListLength ==
  ASSUME Listable, NEW m, ShowsPhotos(m, {Photo(i) : i \in Listed})
  PROVE  Len(m) = Cardinality(Listed)
  <1> DEFINE f == [n \in 1 .. Len(m) |-> m[n].id]
  <1>1. /\ m \in Seq(PhotoRow) /\ Len(m) \in Nat /\ DOMAIN m = 1 .. Len(m)
        /\ \A n, p \in DOMAIN m : m[n].id = m[p].id => n = p
        /\ ToSet(m) = {Photo(i) : i \in Listed}
    BY DEF ShowsPhotos
  <1>2. \A n \in 1 .. Len(m) : m[n].id \in Listed
    <2>1. \A n \in DOMAIN m : \E i \in Listed : m[n] = Photo(i)
      BY <1>1 DEF ToSet
    <2> QED BY <1>1, <2>1, RowOf
  <1>3. \A i \in Listed : \E n \in 1 .. Len(m) : m[n].id = i
    <2>1. \A i \in Listed : \E n \in DOMAIN m : m[n] = Photo(i)
      BY <1>1 DEF ToSet
    <2> QED BY <1>1, <2>1, RowOf
  <1>4. f \in Bijection(1 .. Len(m), Listed)
    <2>1. f \in [1 .. Len(m) -> Listed]
      BY <1>2
    <2>2. \A n, p \in 1 .. Len(m) : f[n] = f[p] => n = p
      BY <1>1
    <2>3. \A i \in Listed : \E n \in 1 .. Len(m) : f[n] = i
      BY <1>3
    <2> HIDE DEF f
    <2> QED BY <2>1, <2>2, <2>3 DEF Bijection, Injection, IsInjective, Surjection
  <1>5. ExistsBijection(1 .. Len(m), Listed)
    BY <1>4 DEF ExistsBijection
  <1>6. Cardinality(Listed) = Len(m)
    BY <1>1, <1>5, FS_CountingElements
  <1> QED BY <1>6

(* The invariant of the list is one, together with the invariant of the    *)
(* tasks and of the panel: between any two contents that the API has had   *)
(* since what is shown, a task under way answers for the difference.       *)
THEOREM ListInvariant == Spec => [](IInv /\ ListInv)
  <1>1. Init => IInv /\ ListInv
    BY InitHolds, InitLists
  <1>2. IInv /\ ListInv /\ [Next]_vars => (IInv /\ ListInv)'
    <2> SUFFICES ASSUME IInv, ListInv, [Next]_vars PROVE IInv' /\ ListInv'
      OBVIOUS
    <2>1. IInv'
      BY StepKeeps
    <2>2. KeepsList
      BY <2>1, StepKeepsList DEF ListInv
    <2>3. Calm' => Calm
      BY ExcusesStay DEF Calm
    <2>4. Calm' => KnownOrAsked'
      BY <2>3, StepKeepsAsked DEF ListInv
    <2>5. Calm' => \E g : Remembers(g)'
      BY <2>2, <2>3 DEF ListInv, KeepsList
    <2>6. Listable'
      BY <2>2 DEF KeepsList
    <2> QED BY <2>1, <2>4, <2>5, <2>6 DEF ListInv
  <1> QED BY <1>1, <1>2, PTL DEF Spec

(* When no request is under way, somebody is signed in and nothing excuses *)
(* it, the console of owner-console.tsx shows the photos, the publication  *)
(* and the services that the API has: whatever was answered, failed, was   *)
(* lost, was sent again after a renewal of the token or came in another    *)
(* order than it was sent. (QuietListAgrees)                               *)
THEOREM QuietListIsTrue == Spec => []QuietListAgrees
  <1>1. ASSUME IInv, ListInv
        PROVE  QuietListAgrees
    <2> SUFFICES ASSUME AtRest, auth # 0, Calm
        PROVE  /\ shown.known
               /\ ToSet(shown.media) = {Photo(i) : i \in Listed} /\ Len(shown.media) = Cardinality(Listed)
               /\ shown.published = published
               /\ shown.made = [n \in 1 .. made |-> n]
      BY DEF QuietListAgrees, Calm
    <2>1. Listable /\ KnownOrAsked /\ \E h : Remembers(h)
      BY <1>1 DEF ListInv
    <2>2. PICK h : Remembers(h)
      BY <2>1
    <2>3. \A t \in Places : tasks[t] = Idle
      BY <1>1 DEF AtRest, IInv, Shapes
    <2>4. /\ Idle.stage = "none" /\ Idle.step = "none" /\ Idle.since = 0
      BY DEF Idle
    <2>5. ~WillAsk(Idle) /\ ~Listing(Idle) /\ \A u : ~Doomed(Idle, u) /\ ~Owes(Idle, u)
      BY <2>4 DEF WillAsk, Listing, Doomed, Owes, Fails
    <2>6. version \in Nat /\ upto \in Nat /\ upto <= version
      BY <1>1 DEF IInv, Counted
    <2>7. h[upto] = Content
      <3>1. h[version] = Content
        BY <2>2 DEF Remembers
      <3>2. ASSUME upto < version PROVE h[upto] = h[version]
        <4>1. upto \in upto .. version /\ version \in upto .. version
          BY <2>6
        <4> QED BY <2>2, <2>3, <2>5, <3>2, <4>1 DEF Remembers, Steps
      <3> QED BY <2>6, <3>1, <3>2
    <2>8. shown.known
      BY <2>1, <2>3, <2>4 DEF KnownOrAsked
    <2>9. Shows(shown, Content)
      BY <2>2, <2>3, <2>5, <2>7, <2>8 DEF Remembers, ShownIs
    <2>10. ShowsPhotos(shown.media, {Photo(i) : i \in Listed})
      BY <2>9 DEF Shows, Content
    <2>11. Len(shown.media) = Cardinality(Listed)
      BY <2>1, <2>10, ListLength
    <2>12. shown.published = published /\ shown.made = [n \in 1 .. made |-> n]
      <3>1. shown = [known |-> TRUE, media |-> shown.media, published |-> Content.published,
                     made |-> [n \in 1 .. Content.made |-> n]]
        BY <2>9 DEF Shows
      <3>2. Content.published = published /\ Content.made = made
        BY DEF Content
      <3>3. shown.published = Content.published /\ shown.made = [n \in 1 .. Content.made |-> n]
        BY <3>1
      <3> QED BY <3>2, <3>3
    <2> QED BY <2>8, <2>10, <2>11, <2>12 DEF ShowsPhotos
  <1> QED BY <1>1, ListInvariant, PTL

-----------------------------------------------------------------------------
(* The rest of the types: where each task stands, and the console beside   *)
(* its tasks.                                                              *)

TaskSteps == {"none", "sent", "answered", "renewing"}
Standing == \A t \in Places : tasks[t].step \in TaskSteps
Bounded ==
  /\ expired \in 0 .. MaxExpiries /\ auth \in 0 .. expired + 1 /\ busy \in BOOLEAN
  /\ excuses \subseteq {"crossed", "blind", "elsewhere", "schedule"}
  /\ panel.schedule.day \in 0 .. MaxDays

(* A step of one task.                                                     *)
LEMMA OneStands ==
  ASSUME IInv, Standing, NEW t \in Places, NEW k, tasks' = [tasks EXCEPT ![t] = k], k.step \in TaskSteps
  PROVE  Standing'
  <1>1. tasks'[t] = k /\ \A s \in Places : s # t => tasks'[s] = tasks[s]
    BY DEF IInv, Shapes
  <1> QED BY <1>1 DEF Standing

(* An answer, served or lost.                                              *)
LEMMA AnswerStands ==
  ASSUME IInv, Standing, NEW t \in Places, Serve(t) \/ Lose(t)
  PROVE  Standing'
  <1>1. PICK verdict, change, id, list : Answer(t, verdict, change, id, list)
    <2>1. CASE Lose(t)
      BY <2>1 DEF Lose
    <2>2. CASE Serve(t)
      BY <2>2, ServeCases DEF QuietReply, SlotChanged
    <2> QED BY <2>1, <2>2
  <1>2. tasks'[t].step = "answered" /\ \A s \in Places : s # t => tasks'[s] = tasks[s]
    BY <1>1, AnswerTask DEF Only
  <1> QED BY <1>2 DEF Standing, TaskSteps

(* The end of the session leaves each task where it stands.                *)
LEMMA OverStands ==
  ASSUME NEW rest, rest = [s \in Places |-> rest[s]], SessionOver(rest),
         \A s \in Places : /\ IsTask(rest[s]) /\ rest[s].step \in TaskSteps
                           /\ rest[s].kind \in PanelOps => IsPanelTask(rest[s])
  PROVE  Standing'
  <1> SUFFICES ASSUME NEW s \in Places PROVE tasks'[s].step \in TaskSteps
    BY DEF Standing
  <1>1. PICK k : k = rest[s]
    OBVIOUS
  <1>2. tasks'[s] = IF OfPanel(k) THEN [k EXCEPT !.arg[2] = FALSE] ELSE k
    BY <1>1 DEF SessionOver
  <1>3. CASE OfPanel(k)
    <2>1. IsTask(k) /\ IsPanelTask(k) /\ k.step \in TaskSteps
      BY <1>1, <1>3 DEF OfPanel, PanelOps
    <2> QED BY <1>2, <1>3, <2>1, Unmounted
  <1>4. CASE ~OfPanel(k)
    BY <1>1, <1>2, <1>4
  <1> QED BY <1>3, <1>4

(* What is left of a task that has failed stands where it may.             *)
LEMMA FailureStands ==
  ASSUME NEW k, IsTask(k)
  PROVE  AfterFailure(k).step \in TaskSteps
  <1>1. PICK r : r = AfterFailure(k)
    OBVIOUS
  <1>2. CASE Reloads(k)
    <2>1. r = [k EXCEPT !.stage = "list", !.step = "sent", !.token = k.held, !.again = FALSE, !.reply = NoReply]
      BY <1>1, <1>2 DEF AfterFailure
    <2>2. r.step = "sent"
      BY <2>1 DEF IsTask
    <2> QED BY <1>1, <2>2 DEF TaskSteps
  <1>3. CASE ~Reloads(k)
    BY <1>3, IdleTask DEF AfterFailure, TaskSteps
  <1> QED BY <1>2, <1>3

(* Every step leaves each task where it may stand.                         *)
LEMMA StepStands ==
  ASSUME IInv, Standing, [Next]_vars
  PROVE  Standing'
  <1>1. /\ tasks = [s \in Places |-> tasks[s]] /\ DOMAIN tasks = Places
        /\ \A s \in Places :
             /\ IsTask(tasks[s]) /\ tasks[s].step \in TaskSteps
             /\ tasks[s].kind \in PanelOps \/ tasks[s].stage \in PanelOps => IsPanelTask(tasks[s])
    BY DEF IInv, Shapes, Standing
  <1>2. ASSUME NEW t \in Places, NEW kind, NEW arg, Act(t, kind, arg)
        PROVE  Standing'
    <2>1. PICK k : k = Task(kind, arg, auth)
      OBVIOUS
    <2>2. PICK stage : stage = FirstStage(kind)
      OBVIOUS
    <2>3. k.step = "sent"
      BY <2>1, <2>2 DEF Task, Idle
    <2>4. tasks' = [tasks EXCEPT ![t] = k]
      BY <1>2, <2>1 DEF Act
    <2> QED BY <2>3, <2>4, OneStands DEF TaskSteps
  <1>3. ASSUME NEW t \in Places, ReceiveStep(t)
        PROVE  Standing'
    <2>1. PICK k : k = tasks[t]
      OBVIOUS
    <2>2. PICK stage, arg, token, again : GoOn(t, stage, arg, token, again)
      BY <1>3 DEF ReceiveStep
    <2>3. PICK j : j = [k EXCEPT !.stage = stage, !.arg = arg, !.step = "sent",
                                 !.token = token, !.again = again, !.reply = NoReply]
      OBVIOUS
    <2>4. tasks'[t] = j /\ \A s \in Places : s # t => tasks'[s] = tasks[s]
      BY <1>1, <2>1, <2>2, <2>3 DEF GoOn
    <2>5. j.step = "sent"
      BY <1>1, <2>1, <2>3 DEF IsTask
    <2> QED BY <1>1, <2>4, <2>5 DEF Standing, TaskSteps
  <1>4. ASSUME NEW t \in Places, Receive401(t)
        PROVE  Standing'
    <2>1. PICK k : k = tasks[t]
      OBVIOUS
    <2>2. PICK j : j = [k EXCEPT !.step = "renewing", !.reply = NoReply]
      OBVIOUS
    <2>3. tasks'[t] = j /\ \A s \in Places : s # t => tasks'[s] = tasks[s]
      BY <1>1, <1>4, <2>1, <2>2 DEF Receive401
    <2>4. j.step = "renewing"
      BY <1>1, <2>1, <2>2 DEF IsTask
    <2> QED BY <1>1, <2>3, <2>4 DEF Standing, TaskSteps
  <1>5. ASSUME NEW t \in Places, ReceiveResult(t)
        PROVE  Standing'
    <2>1. tasks' = [tasks EXCEPT ![t] = Idle]
      BY <1>5 DEF ReceiveResult, Ends
    <2> QED BY <2>1, OneStands, IdleTask DEF TaskSteps
  <1>6. ASSUME NEW t \in Places, ReceiveFailure(t)
        PROVE  Standing'
    <2>1. PICK r : r = AfterFailure(tasks[t])
      OBVIOUS
    <2>2. PICK rest : rest = [tasks EXCEPT ![t] = r]
      OBVIOUS
    <2>3. IsTask(r) /\ r.step \in TaskSteps /\ r.kind \notin PanelOps
      BY <1>1, <2>1, FailureLeaves, FailureStands
    <2>4. CASE tasks[t].again
      <3>1. SessionOver(rest)
        BY <1>6, <2>1, <2>2, <2>4 DEF ReceiveFailure
      <3>2. rest = [s \in Places |-> rest[s]] /\ \A s \in Places : rest[s] = IF s = t THEN r ELSE tasks[s]
        BY <1>1, <2>2
      <3> QED BY <1>1, <2>3, <3>1, <3>2, OverStands
    <2>5. CASE ~tasks[t].again
      <3>1. tasks' = rest
        BY <1>6, <2>1, <2>2, <2>5 DEF ReceiveFailure
      <3> QED BY <2>2, <2>3, <3>1, OneStands
    <2> QED BY <2>4, <2>5
  <1>7. ASSUME NEW free \in Places, RenewSucceeds(free)
        PROVE  Standing'
    <2> SUFFICES ASSUME NEW s \in Places PROVE tasks'[s].step \in TaskSteps
      BY DEF Standing
    <2>1. tasks'[s] = IF s = free THEN Task("load", <<>>, expired + 1)
                      ELSE IF s \in Renewing THEN SentAgain(tasks[s], expired + 1)
                      ELSE tasks[s]
      BY <1>1, <1>7 DEF RenewSucceeds
    <2>2. Task("load", <<>>, expired + 1).step = "sent"
      BY TaskMade DEF PanelOps
    <2>3. SentAgain(tasks[s], expired + 1).step = "sent"
      BY <1>1, ItIsSentAgain
    <2> QED BY <1>1, <2>1, <2>2, <2>3 DEF TaskSteps
  <1>8. CASE RenewFails
    <2>1. PICK rest : rest = [t \in DOMAIN tasks |-> IF t \in Renewing THEN AfterFailure(tasks[t]) ELSE tasks[t]]
      OBVIOUS
    <2>2. SessionOver(rest)
      BY <1>8, <2>1 DEF RenewFails
    <2>3. rest = [s \in Places |-> rest[s]]
          /\ \A s \in Places : rest[s] = AfterFailure(tasks[s]) \/ rest[s] = tasks[s]
      BY <1>1, <2>1
    <2>4. ASSUME NEW s \in Places
          PROVE  /\ IsTask(rest[s]) /\ rest[s].step \in TaskSteps
                 /\ rest[s].kind \in PanelOps => IsPanelTask(rest[s])
      BY <1>1, <2>3, FailureLeaves, FailureStands
    <2> QED BY <2>2, <2>3, <2>4, OverStands
  <1>9. CASE SignOut
    <2>1. SessionOver(tasks)
      BY <1>9 DEF SignOut
    <2> QED BY <1>1, <2>1, OverStands
  <1>10. CASE tasks' = tasks
    BY <1>10 DEF Standing
  <1>11. ASSUME NEW d, ChooseDay(d) \/ HeldElsewhere(d) \/ Elsewhere(d)
         PROVE  tasks' = tasks
    BY <1>11 DEF ChooseDay, HeldElsewhere, Elsewhere
  <1>12. AccessExpires \/ UNCHANGED vars => tasks' = tasks
    BY DEF AccessExpires, vars
  <1> QED BY <1>1, <1>2, <1>3, <1>4, <1>5, <1>6, <1>7, <1>8, <1>9, <1>10, <1>11, <1>12, AnswerStands
          DEF Next, TaskStep

(* A schedule that the panel takes is of one of its days.                  *)
LEMMA PanelTaken ==
  ASSUME IInv, Bounded, NEW t \in Places, tasks[t].step = "answered", tasks[t].reply.verdict = "ok"
  PROVE  PanelAfter(tasks[t]).schedule.day \in 0 .. MaxDays
  <1>1. PICK k : k = tasks[t]
    OBVIOUS
  <1>2. panel = [day |-> panel.day, schedule |-> panel.schedule] /\ panel.schedule.day \in 0 .. MaxDays
    BY DEF IInv, Counted, Bounded
  <1>3. CASE Asked(k)
    <2>1. OfPanel(k) /\ k.kind \in PanelOps
      BY <1>3 DEF Asked, OfPanel, PanelOps
    <2>2. k.arg[1] \in Days
      BY <1>1, <2>1 DEF IInv, Shapes, IsPanelTask
    <2>3. k.reply.list.day = k.arg[1]
      BY <1>1, <2>1 DEF IInv, OfItsDay, HasSchedule
    <2>4. PICK list : list = k.reply.list
      OBVIOUS
    <2>5. PanelAfter(k) = [panel EXCEPT !.schedule = list]
      BY <1>3, <2>4 DEF PanelAfter
    <2>6. PanelAfter(k).schedule = list
      BY <1>2, <2>5
    <2>7. list.day \in 0 .. MaxDays
      BY <2>2, <2>3, <2>4, ConsoleAssumption DEF Days, ConsoleAssumption
    <2> QED BY <1>1, <2>6, <2>7
  <1>4. CASE ~Asked(k)
    BY <1>1, <1>2, <1>4 DEF PanelAfter
  <1> QED BY <1>3, <1>4

(* Every step keeps the rest.                                              *)
LEMMA StepBounded ==
  ASSUME IInv, Bounded, [Next]_vars
  PROVE  Bounded'
  <1>1. /\ expired \in 0 .. MaxExpiries /\ auth \in 0 .. expired + 1 /\ busy \in BOOLEAN
        /\ excuses \subseteq {"crossed", "blind", "elsewhere", "schedule"}
        /\ panel.schedule.day \in 0 .. MaxDays /\ MaxExpiries \in Nat /\ MaxDays \in Nat
        /\ panel = [day |-> panel.day, schedule |-> panel.schedule]
    BY ConsoleAssumption DEF Bounded, IInv, Counted
  <1>2. FreshPanel.schedule.day = 0 /\ NoSchedule.day = 0
    BY DEF FreshPanel, NoSchedule
  <1>3. ASSUME NEW rest, SessionOver(rest), expired' = expired, busy' \in BOOLEAN,
               excuses' \subseteq {"crossed", "blind", "elsewhere", "schedule"}
        PROVE  Bounded'
    BY <1>1, <1>2, <1>3 DEF SessionOver, Bounded
  <1>4. ASSUME NEW t, NEW kind, NEW arg, Act(t, kind, arg)
        PROVE  Bounded'
    BY <1>1, <1>4 DEF Act, Bounded, history
  <1>5. ASSUME NEW t, Serve(t) \/ Lose(t) \/ ReceiveStep(t) \/ Receive401(t)
        PROVE  Bounded'
    BY <1>1, <1>5 DEF Serve, Lose, ReceiveStep, Receive401, Bounded, history
  <1>6. ASSUME NEW t \in Places, ReceiveResult(t)
        PROVE  Bounded'
    <2>1. /\ panel' = PanelAfter(tasks[t]) /\ tasks[t].step = "answered" /\ tasks[t].reply.verdict = "ok"
          /\ busy' = (busy /\ tasks[t].kind = "view") /\ expired' = expired /\ auth' = auth
          /\ excuses' \subseteq excuses \cup {"crossed", "schedule"}
      BY <1>6 DEF ReceiveResult, Ends
    <2>2. panel'.schedule.day \in 0 .. MaxDays
      BY <2>1, PanelTaken
    <2> QED BY <1>1, <2>1, <2>2 DEF Bounded
  <1>7. ASSUME NEW t, ReceiveFailure(t)
        PROVE  Bounded'
    <2>1. /\ busy' \in BOOLEAN /\ expired' = expired
          /\ excuses' \subseteq {"crossed", "blind", "elsewhere", "schedule"}
      BY <1>1, <1>7 DEF ReceiveFailure
    <2>2. CASE tasks[t].again
      BY <1>3, <1>7, <2>1, <2>2 DEF ReceiveFailure
    <2>3. CASE ~tasks[t].again
      BY <1>1, <1>7, <2>1, <2>3 DEF ReceiveFailure, Bounded
    <2> QED BY <2>2, <2>3
  <1>8. ASSUME NEW t, RenewSucceeds(t)
        PROVE  Bounded'
    BY <1>1, <1>8 DEF RenewSucceeds, Bounded, history
  <1>9. CASE RenewFails
    <2>1. /\ busy' \in BOOLEAN /\ expired' = expired
          /\ excuses' \subseteq {"crossed", "blind", "elsewhere", "schedule"}
      BY <1>1, <1>9 DEF RenewFails
    <2> QED BY <1>3, <1>9, <2>1 DEF RenewFails
  <1>10. CASE SignOut
    BY <1>1, <1>3, <1>10 DEF SignOut, history
  <1>11. CASE AccessExpires
    BY <1>1, <1>11 DEF AccessExpires, Bounded, history
  <1>12. ASSUME NEW d, ChooseDay(d)
         PROVE  Bounded'
    <2>1. panel'.schedule = NoSchedule
      BY <1>1, <1>12 DEF ChooseDay
    <2> QED BY <1>1, <1>2, <1>12, <2>1 DEF ChooseDay, Bounded, history
  <1>13. ASSUME NEW d, HeldElsewhere(d) \/ Elsewhere(d)
         PROVE  Bounded'
    BY <1>1, <1>13 DEF HeldElsewhere, Elsewhere, Bounded
  <1>14. CASE UNCHANGED vars
    BY <1>1, <1>14 DEF vars, Bounded, history
  <1>15. DOMAIN tasks = Places
    BY DEF IInv, Shapes
  <1> QED BY <1>4, <1>5, <1>6, <1>7, <1>8, <1>9, <1>10, <1>11, <1>12, <1>13, <1>14, <1>15 DEF Next, TaskStep

(* Only a result sets the flag of the order, to a truth value.             *)
LEMMA StepMarks ==
  ASSUME reordered \in BOOLEAN, [Next]_vars
  PROVE  reordered' \in BOOLEAN
  <1>1. ASSUME NEW t, ReceiveResult(t) PROVE reordered' \in BOOLEAN
    BY <1>1 DEF ReceiveResult
  <1>2. ASSUME NEW t, NEW kind, NEW arg, Act(t, kind, arg) PROVE reordered' = reordered
    BY <1>2 DEF Act, history
  <1>3. ASSUME NEW t, \/ Serve(t) \/ ReceiveStep(t) \/ Receive401(t) \/ ReceiveFailure(t)
                      \/ Lose(t) \/ RenewSucceeds(t)
        PROVE  reordered' = reordered
    BY <1>3 DEF Serve, ReceiveStep, Receive401, ReceiveFailure, Lose, RenewSucceeds, history
  <1>4. ASSUME NEW d, ChooseDay(d) \/ HeldElsewhere(d) \/ Elsewhere(d)
        PROVE  reordered' = reordered
    BY <1>4 DEF ChooseDay, HeldElsewhere, Elsewhere, history
  <1>5. CASE RenewFails \/ SignOut \/ AccessExpires \/ UNCHANGED vars
    BY <1>5 DEF RenewFails, SignOut, AccessExpires, vars, history
  <1> QED BY <1>1, <1>2, <1>3, <1>4, <1>5 DEF Next, TaskStep

(* The types of the console and of the API behind it: photos with their    *)
(* status and place, the cover one of them, the token never ahead of what  *)
(* has expired by more than one, schedules only of days that there are.    *)
THEOREM ConsoleTypes == Spec => []TypeOK
  <1>1. Init => Standing /\ Bounded /\ reordered \in BOOLEAN
    <2> SUFFICES ASSUME Init PROVE Standing /\ Bounded /\ reordered \in BOOLEAN
      OBVIOUS
    <2>1. PICK load : load = [Idle EXCEPT !.kind = "load", !.stage = "list", !.held = 1,
                                          !.step = "sent", !.token = 1]
      OBVIOUS
    <2>2. load.step = "sent" /\ Idle.step = "none"
      BY <2>1 DEF Idle
    <2>3. \A t \in Places : tasks[t] \in {Idle, load}
      BY <2>1 DEF Init, Places
    <2>4. Standing
      BY <2>2, <2>3 DEF Standing, TaskSteps
    <2>5. Bounded
      BY ConsoleAssumption DEF Init, Bounded, FreshPanel, NoSchedule, ConsoleAssumption
    <2>6. reordered \in BOOLEAN
      BY DEF Init
    <2> QED BY <2>4, <2>5, <2>6
  <1>2. IInv /\ ListInv /\ Standing /\ Bounded /\ reordered \in BOOLEAN /\ [Next]_vars =>
          (Standing /\ Bounded /\ reordered \in BOOLEAN)'
    BY StepStands, StepBounded, StepMarks
  <1>3. ASSUME IInv, ListInv, Standing, Bounded, reordered \in BOOLEAN
        PROVE  TypeOK
    <2>1. DOMAIN tasks = Places /\ Listable
      BY <1>3 DEF IInv, Shapes, ListInv
    <2>2. \A i \in DOMAIN images : images[i].status \in PhotoStatus /\ images[i].place \in Nat
      BY <2>1, RowOf DEF Row
    <2>3. cover \in 0 .. Len(images) /\ published \in BOOLEAN /\ made \in Nat
      <3>1. cover \in Nat /\ (cover # 0 => cover \in DOMAIN images) /\ published \in BOOLEAN /\ made \in Nat
        BY <2>1 DEF Listable, IsImage
      <3>2. DOMAIN images = 1 .. Len(images) /\ Len(images) \in Nat
        BY <2>1, RowOf
      <3> QED BY <3>1, <3>2
    <2>4. slots \in [1 .. MaxDays -> SlotStatus] /\ panel.day \in 1 .. MaxDays
      BY <1>3 DEF IInv, Counted, Days
    <2> QED BY <1>3, <2>1, <2>2, <2>3, <2>4 DEF TypeOK, Standing, Bounded, TaskSteps, PhotoStatus, SlotStatus
  <1> QED BY <1>1, <1>2, <1>3, ListInvariant, PTL DEF Spec
=============================================================================
