---------------------- MODULE ParallelToolExecutorProofs ----------------------
(***************************************************************************)
(* Proofs about ResourceLockManager and ParallelToolExecutor, for any tool *)
(* calls, resources, batches and number of workers.  The lock manager is   *)
(* proved on its own, against LockSpec; every step of the executor is a    *)
(* step of the lock manager or leaves it alone, so what is proved of       *)
(* LockSpec holds of the executor.                                         *)
(***************************************************************************)
EXTENDS ParallelToolExecutor, FiniteSetTheorems, TLAPS

\* Where a caller is says what it still wants and which object it has in hand:
\* the one the dict has for the key of the current turn, now.
CallerPlaces ==
  \A c \in Callers :
    /\ wanted[c] \cap acquired[c] = {}
    /\ pc[c] \in Referring =>
         at[c] \in wanted[c] /\ mine[c] = locks[at[c]] /\ mine[c] # NoLock
    /\ pc[c] \notin Referring => at[c] = NoKey /\ mine[c] = NoLock
    /\ pc[c] \in {"idle", "body", "unwinding"} => wanted[c] = {}
    /\ pc[c] = "idle" => acquired[c] = {}

\* Two keys never share an object.
ObjectsDistinct ==
  \A j, k \in Keys : j # k /\ locks[j] # NoLock => locks[j] # locks[k]

\* An object is owned only through a key: nobody owns an object that the dict
\* has forgotten.
OwnersAcquired ==
  \A l \in LockIds, c \in Callers :
    owner[l] = c => \E k \in acquired[c] : locks[k] = l

\* The queue of an object holds exactly the callers waiting for it, each once.
QueuesExact ==
  \A l \in LockIds :
    /\ \A c \in Callers :
         (\E i \in 1..Len(queue[l]) : queue[l][i] = c)
           <=> (pc[c] = "queued" /\ mine[c] = l)
    /\ \A i, j \in 1..Len(queue[l]) : queue[l][i] = queue[l][j] => i = j

\* The inductive invariant of the lock manager.
LockInv ==
  /\ LockTypeOK
  /\ CallerPlaces
  /\ ObjectsDistinct
  /\ HoldsAcquired
  /\ OwnersAcquired
  /\ QueuesExact
  /\ RefcountExact

-----------------------------------------------------------------------------
(* Sequences and cardinalities *)

\* What removing one element of a sequence leaves: the sequence is one shorter
\* and keeps the order of the rest.
LEMMA WithoutShifts ==
  ASSUME NEW S, NEW s \in Seq(S), NEW i \in 1..Len(s)
  PROVE  /\ Without(s, i) \in Seq(S)
         /\ Len(Without(s, i)) = Len(s) - 1
         /\ \A j \in 1..(Len(s) - 1) :
              Without(s, i)[j] = s[IF j < i THEN j ELSE j + 1]
<1>. DEFINE w == [j \in 1..(Len(s) - 1) |-> IF j < i THEN s[j] ELSE s[j + 1]]
<1>1. Len(s) - 1 \in Nat /\ \A j \in 1..(Len(s) - 1) : w[j] \in S
  OBVIOUS
<1>2. w \in Seq(S) /\ Len(w) = Len(s) - 1
  BY <1>1
<1>. QED
  BY <1>2 DEF Without

\* A duplicate-free sequence loses exactly the element that is removed, and
\* stays free of duplicates.
LEMMA WithoutLoses ==
  ASSUME NEW S, NEW s \in Seq(S), NEW i \in 1..Len(s),
         \A j, k \in 1..Len(s) : s[j] = s[k] => j = k
  PROVE  /\ \A x \in S : (\E j \in 1..Len(Without(s, i)) : Without(s, i)[j] = x)
                     <=> (x # s[i] /\ \E j \in 1..Len(s) : s[j] = x)
         /\ \A j, k \in 1..Len(Without(s, i)) :
              Without(s, i)[j] = Without(s, i)[k] => j = k
<1>. DEFINE w == Without(s, i)
<1>. HIDE DEF w
<1>1. /\ Len(w) = Len(s) - 1
      /\ \A j \in 1..(Len(s) - 1) : w[j] = s[IF j < i THEN j ELSE j + 1]
  BY WithoutShifts DEF w
<1>2. ASSUME NEW x, x # s[i], NEW k \in 1..Len(s), s[k] = x
      PROVE  \E j \in 1..Len(w) : w[j] = x
  <2>. DEFINE j == IF k < i THEN k ELSE k - 1
  <2>1. k # i
    BY <1>2
  <2>2. j \in 1..Len(w) /\ w[j] = x
    BY <1>1, <1>2, <2>1
  <2>. QED
    BY <2>2
<1>3. ASSUME NEW x, NEW j \in 1..Len(w), w[j] = x
      PROVE  x # s[i] /\ \E k \in 1..Len(s) : s[k] = x
  BY <1>1, <1>3
<1>4. ASSUME NEW j \in 1..Len(w), NEW k \in 1..Len(w), w[j] = w[k]
      PROVE  j = k
  <2>. DEFINE jj == IF j < i THEN j ELSE j + 1
              kk == IF k < i THEN k ELSE k + 1
  <2>1. jj \in 1..Len(s) /\ kk \in 1..Len(s) /\ s[jj] = s[kk]
    BY <1>1, <1>4
  <2>2. jj = kk
    BY <2>1
  <2>. QED
    BY <2>2
<1>. QED
  BY <1>2, <1>3, <1>4 DEF w

\* Only finitely many callers use a key.
LEMMA UsersFinite ==
  ASSUME NEW k \in Keys
  PROVE  IsFiniteSet(Users(k))
<1>1. Users(k) \in SUBSET Callers
  BY DEF Users
<1>. QED
  BY <1>1, CallersAssumption, FS_Subset

-----------------------------------------------------------------------------
(* The lock manager: one lemma per step *)

\* The initial state satisfies LockInv.
LEMMA LockInitInv == LockInit => LockInv
<1>. SUFFICES ASSUME LockInit PROVE LockInv
  OBVIOUS
<1>1. LockTypeOK
  BY DEF LockInit, LockTypeOK, Places
<1>2. CallerPlaces
  BY DEF LockInit, CallerPlaces, Referring
<1>3. ObjectsDistinct /\ HoldsAcquired
  BY DEF LockInit, ObjectsDistinct, HoldsAcquired
<1>4. OwnersAcquired
  BY CallersAssumption DEF LockInit, OwnersAcquired
<1>5. QueuesExact
  BY DEF LockInit, QueuesExact
<1>6. RefcountExact
  <2>. SUFFICES ASSUME NEW k \in Keys
                PROVE  refcounts[k] = Cardinality(Users(k)) /\ (locks[k] = NoLock <=> Users(k) = {})
    BY DEF RefcountExact
  <2>1. Users(k) = {}
    BY DEF LockInit, Users, Referring
  <2>. QED
    BY <2>1, FS_EmptySet DEF LockInit
<1>. QED
  BY <1>1, <1>2, <1>3, <1>4, <1>5, <1>6 DEF LockInv

\* A caller enters lock().
LEMMA EnterKeeps ==
  ASSUME LockInv, NEW c \in Callers, NEW K \in SUBSET Keys, Enter(c, K)
  PROVE  LockInv'
<1>. USE DEF LockInv
<1>1. /\ pc[c] = "idle" /\ wanted' = [wanted EXCEPT ![c] = K]
      /\ pc' = [pc EXCEPT ![c] = "looping"]
      /\ locks' = locks /\ refcounts' = refcounts /\ owner' = owner /\ queue' = queue
      /\ acquired' = acquired /\ at' = at /\ mine' = mine
  BY DEF Enter
<1>2. LockTypeOK'
  BY <1>1 DEF LockTypeOK, Places
<1>3. CallerPlaces'
  BY <1>1 DEF CallerPlaces, LockTypeOK, Referring
<1>4. ObjectsDistinct' /\ HoldsAcquired' /\ OwnersAcquired'
  BY <1>1 DEF ObjectsDistinct, HoldsAcquired, OwnersAcquired
<1>5. QueuesExact'
  BY <1>1 DEF QueuesExact, LockTypeOK
<1>6. \A k \in Keys : Users(k)' = Users(k)
  BY <1>1 DEF Users, LockTypeOK, Referring
<1>7. RefcountExact'
  BY <1>1, <1>6 DEF RefcountExact
<1>. QED
  BY <1>2, <1>3, <1>4, <1>5, <1>7

\* The caller's `with` block ends.
LEMMA LeaveBodyKeeps ==
  ASSUME LockInv, NEW c \in Callers, LeaveBody(c)
  PROVE  LockInv'
<1>. USE DEF LockInv
<1>1. /\ pc[c] = "body" /\ pc' = [pc EXCEPT ![c] = "unwinding"]
      /\ locks' = locks /\ refcounts' = refcounts /\ owner' = owner /\ queue' = queue
      /\ wanted' = wanted /\ acquired' = acquired /\ at' = at /\ mine' = mine
  BY DEF LeaveBody
<1>2. LockTypeOK'
  BY <1>1 DEF LockTypeOK, Places
<1>3. CallerPlaces'
  BY <1>1 DEF CallerPlaces, LockTypeOK, Referring
<1>4. ObjectsDistinct' /\ HoldsAcquired' /\ OwnersAcquired'
  BY <1>1 DEF ObjectsDistinct, HoldsAcquired, OwnersAcquired
<1>5. QueuesExact'
  BY <1>1 DEF QueuesExact, LockTypeOK
<1>6. \A k \in Keys : Users(k)' = Users(k)
  BY <1>1 DEF Users, LockTypeOK, Referring
<1>7. RefcountExact'
  BY <1>1, <1>6 DEF RefcountExact
<1>. QED
  BY <1>2, <1>3, <1>4, <1>5, <1>7

\* _get_lock: the caller is counted, and gets the object of the key or a new
\* one that no other key has.
LEMMA GetLockKeeps ==
  ASSUME LockInv, NEW c \in Callers, NEW k \in Keys, GetLock(c, k)
  PROVE  LockInv'
<1>. USE DEF LockInv
<1>1. PICK l \in LockIds :
        /\ locks' = [locks EXCEPT ![k] = l]
        /\ mine' = [mine EXCEPT ![c] = l]
        /\ locks[k] = NoLock => l \in Fresh
        /\ locks[k] # NoLock => l = locks[k]
  <2>1. CASE locks[k] # NoLock
    BY <2>1 DEF GetLock, LockTypeOK
  <2>2. CASE locks[k] = NoLock
    <3>1. Fresh # {} /\ Fresh \subseteq LockIds
      BY <2>2 DEF GetLock, Fresh
    <3>2. (CHOOSE x \in Fresh : TRUE) \in Fresh
      BY <3>1
    <3>. QED
      BY <2>2, <3>1, <3>2 DEF GetLock
  <2>. QED
    BY <2>1, <2>2
<1>2. /\ pc[c] = "looping" /\ k \in wanted[c]
      /\ refcounts' = [refcounts EXCEPT ![k] = @ + 1]
      /\ at' = [at EXCEPT ![c] = k] /\ pc' = [pc EXCEPT ![c] = "acquiring"]
      /\ owner' = owner /\ queue' = queue /\ wanted' = wanted /\ acquired' = acquired
  BY DEF GetLock
<1>3. l # NoLock /\ \A j \in Keys \ {k} : locks[j] # l
  BY <1>1, LockIdsAssumption DEF Fresh, ObjectsDistinct, LockTypeOK
<1>4. k \notin acquired[c] /\ pc[c] \notin Referring
  BY <1>2 DEF CallerPlaces, Referring
<1>5. LockTypeOK'
  BY <1>1, <1>2 DEF LockTypeOK, Places, Referring
<1>6. locks[k] = NoLock =>
        /\ \A d \in Callers : k \notin acquired[d] /\ ~(pc[d] \in Referring /\ at[d] = k)
  BY DEF RefcountExact, Users
<1>7. CallerPlaces'
  <2>. SUFFICES ASSUME NEW d \in Callers
                PROVE /\ wanted[d] \cap acquired[d] = {}
                      /\ pc'[d] \in Referring =>
                           at'[d] \in wanted[d] /\ mine'[d] = locks'[at'[d]] /\ mine'[d] # NoLock
                      /\ pc'[d] \notin Referring => at'[d] = NoKey /\ mine'[d] = NoLock
                      /\ pc'[d] \in {"idle", "body", "unwinding"} => wanted[d] = {}
                      /\ pc'[d] = "idle" => acquired[d] = {}
    BY <1>2 DEF CallerPlaces
  <2>1. CASE d = c
    BY <1>1, <1>2, <1>3, <2>1 DEF CallerPlaces, LockTypeOK, Referring
  <2>2. CASE d # c
    <3>1. pc'[d] = pc[d] /\ at'[d] = at[d] /\ mine'[d] = mine[d]
      BY <1>1, <1>2, <2>2 DEF LockTypeOK
    <3>2. pc[d] \in Referring => at[d] \in Keys /\ locks'[at[d]] = locks[at[d]]
      BY <1>1, <1>6 DEF LockTypeOK, CallerPlaces
    <3>. QED
      BY <3>1, <3>2 DEF CallerPlaces
  <2>. QED
    BY <2>1, <2>2
<1>8. ObjectsDistinct'
  BY <1>1, <1>3 DEF ObjectsDistinct, LockTypeOK
<1>9. HoldsAcquired'
  BY <1>1, <1>2, <1>6 DEF HoldsAcquired, LockTypeOK
<1>10. OwnersAcquired'
  <2>. SUFFICES ASSUME NEW m \in LockIds, NEW d \in Callers, owner[m] = d
                PROVE  \E j \in acquired[d] : locks'[j] = m
    BY <1>2 DEF OwnersAcquired
  <2>1. PICK j \in acquired[d] : locks[j] = m
    BY DEF OwnersAcquired
  <2>2. locks'[j] = m
    BY <1>1, <1>6, <2>1 DEF LockTypeOK
  <2>. QED
    BY <2>1, <2>2
<1>11. QueuesExact'
  BY <1>1, <1>2 DEF QueuesExact, LockTypeOK
<1>12. RefcountExact'
  <2>1. \A j \in Keys \ {k} : Users(j)' = Users(j)
    BY <1>2, <1>4 DEF Users, LockTypeOK, Referring
  <2>2. Users(k)' = Users(k) \cup {c} /\ c \notin Users(k)
    BY <1>2, <1>4 DEF Users, LockTypeOK, Referring
  <2>3. Cardinality(Users(k)') = Cardinality(Users(k)) + 1
    BY <2>2, UsersFinite, FS_AddElement
  <2>4. ASSUME NEW j \in Keys
        PROVE  refcounts'[j] = Cardinality(Users(j)') /\ (locks'[j] = NoLock <=> Users(j)' = {})
    <3>1. CASE j = k
      BY <1>1, <1>2, <1>3, <2>2, <2>3, <3>1 DEF RefcountExact, LockTypeOK
    <3>2. CASE j # k
      BY <1>1, <1>2, <2>1, <3>2 DEF RefcountExact, LockTypeOK
    <3>. QED
      BY <3>1, <3>2
  <2>. QED
    BY <2>4 DEF RefcountExact
<1>. QED
  BY <1>5, <1>7, <1>8, <1>9, <1>10, <1>11, <1>12

\* acquire() succeeded: the caller moves from the users that have the object to
\* those that hold it.  (queue' is what AcquireFree or AcquireGranted leave.)
LEMMA AcquiredKeeps ==
  ASSUME LockInv, NEW c \in Callers, pc[c] \in {"acquiring", "queued"},
         owner[mine[c]] = NoCaller, Acquired(c),
         queue' \in [LockIds -> Seq(Callers)],
         \A l \in LockIds :
           /\ \A d \in Callers :
                (\E i \in 1..Len(queue'[l]) : queue'[l][i] = d)
                  <=> (d # c /\ pc[d] = "queued" /\ mine[d] = l)
           /\ \A i, j \in 1..Len(queue'[l]) : queue'[l][i] = queue'[l][j] => i = j
  PROVE  LockInv'
<1>. USE DEF LockInv
<1>. DEFINE k == at[c]
            l == mine[c]
<1>1. /\ k \in Keys /\ k \in wanted[c] /\ k \notin acquired[c]
      /\ l = locks[k] /\ l # NoLock /\ l \in LockIds
  BY DEF CallerPlaces, LockTypeOK, Referring
<1>2. /\ owner' = [owner EXCEPT ![l] = c]
      /\ acquired' = [acquired EXCEPT ![c] = @ \cup {k}]
      /\ wanted' = [wanted EXCEPT ![c] = @ \ {k}]
      /\ pc' = [pc EXCEPT ![c] = IF wanted[c] = {k} THEN "body" ELSE "looping"]
      /\ at' = [at EXCEPT ![c] = NoKey] /\ mine' = [mine EXCEPT ![c] = NoLock]
      /\ locks' = locks /\ refcounts' = refcounts
  BY DEF Acquired
<1>3. owner[l] = NoCaller
  OBVIOUS
<1>. HIDE DEF k, l
<1>4. LockTypeOK'
  BY <1>1, <1>2 DEF LockTypeOK, Places
<1>5. CallerPlaces'
  <2>1. /\ wanted'[c] = wanted[c] \ {k} /\ acquired'[c] = acquired[c] \cup {k}
        /\ at'[c] = NoKey /\ mine'[c] = NoLock
        /\ pc'[c] = IF wanted[c] = {k} THEN "body" ELSE "looping"
    BY <1>2 DEF LockTypeOK
  <2>2. \A d \in Callers \ {c} :
          /\ wanted'[d] = wanted[d] /\ acquired'[d] = acquired[d]
          /\ at'[d] = at[d] /\ mine'[d] = mine[d] /\ pc'[d] = pc[d]
    BY <1>2 DEF LockTypeOK
  <2>3. wanted[c] \cap acquired[c] = {}
    BY DEF CallerPlaces
  <2>. QED
    BY <1>2, <2>1, <2>2, <2>3 DEF CallerPlaces, Referring
<1>6. ObjectsDistinct'
  BY <1>2 DEF ObjectsDistinct
<1>7. HoldsAcquired'
  <2>. SUFFICES ASSUME NEW d \in Callers, NEW j \in acquired'[d]
                PROVE  locks[j] # NoLock /\ owner'[locks[j]] = d
    BY <1>2 DEF HoldsAcquired
  <2>1. CASE d = c /\ j = k
    BY <1>1, <1>2, <2>1 DEF LockTypeOK
  <2>2. CASE ~(d = c /\ j = k)
    <3>1. j \in acquired[d] /\ j \in Keys
      BY <1>2, <2>2 DEF LockTypeOK
    <3>2. locks[j] # NoLock /\ owner[locks[j]] = d /\ locks[j] \in LockIds
      BY <3>1 DEF HoldsAcquired, LockTypeOK
    <3>3. locks[j] # l
      BY <1>3, <3>2, CallersAssumption
    <3>. QED
      BY <1>2, <3>2, <3>3 DEF LockTypeOK
  <2>. QED
    BY <2>1, <2>2
<1>8. OwnersAcquired'
  <2>. SUFFICES ASSUME NEW m \in LockIds, NEW d \in Callers, owner'[m] = d
                PROVE  \E j \in acquired'[d] : locks[j] = m
    BY <1>2 DEF OwnersAcquired
  <2>1. CASE m = l
    BY <1>1, <1>2, <2>1 DEF LockTypeOK
  <2>2. CASE m # l
    <3>1. PICK j \in acquired[d] : locks[j] = m
      BY <1>2, <2>2 DEF OwnersAcquired, LockTypeOK
    <3>2. acquired[d] \subseteq acquired'[d]
      BY <1>2 DEF LockTypeOK
    <3>. QED
      BY <3>1, <3>2
  <2>. QED
    BY <2>1, <2>2
<1>9. QueuesExact'
  <2>1. \A d \in Callers : pc'[d] = "queued" <=> d # c /\ pc[d] = "queued"
    BY <1>2 DEF LockTypeOK
  <2>2. \A d \in Callers : d # c => mine'[d] = mine[d]
    BY <1>2 DEF LockTypeOK
  <2>. QED
    BY <2>1, <2>2 DEF QueuesExact
<1>10. \A j \in Keys : Users(j)' = Users(j)
  <2>. SUFFICES ASSUME NEW j \in Keys, NEW d \in Callers
                PROVE  (j \in acquired'[d] \/ (pc'[d] \in Referring /\ at'[d] = j))
                         <=> (j \in acquired[d] \/ (pc[d] \in Referring /\ at[d] = j))
    BY DEF Users
  <2>1. CASE d = c
    <3>1. pc[c] \in Referring /\ pc'[c] \notin Referring /\ acquired'[c] = acquired[c] \cup {k}
      BY <1>2 DEF LockTypeOK, Referring
    <3>. QED
      BY <2>1, <3>1 DEF k
  <2>2. CASE d # c
    BY <1>2, <2>2 DEF LockTypeOK
  <2>. QED
    BY <2>1, <2>2
<1>11. RefcountExact'
  BY <1>2, <1>10 DEF RefcountExact
<1>. QED
  BY <1>4, <1>5, <1>6, <1>7, <1>8, <1>9, <1>11

\* A free object without a queue is taken at once.
LEMMA AcquireFreeKeeps ==
  ASSUME LockInv, NEW c \in Callers, AcquireFree(c)
  PROVE  LockInv'
<1>1. /\ pc[c] = "acquiring" /\ owner[mine[c]] = NoCaller
      /\ Acquired(c) /\ queue' = queue
  BY DEF AcquireFree
<1>2. queue' \in [LockIds -> Seq(Callers)]
  BY <1>1 DEF LockInv, LockTypeOK
<1>3. \A l \in LockIds :
        /\ \A d \in Callers :
             (\E i \in 1..Len(queue'[l]) : queue'[l][i] = d)
               <=> (d # c /\ pc[d] = "queued" /\ mine[d] = l)
        /\ \A i, j \in 1..Len(queue'[l]) : queue'[l][i] = queue'[l][j] => i = j
  BY <1>1 DEF LockInv, QueuesExact
<1>. QED
  BY <1>1, <1>2, <1>3, AcquiredKeeps

\* What is left of the queues when the i-th waiter of c's object, c itself, goes.
LEMMA QueueWithout ==
  ASSUME LockInv, NEW c \in Callers, pc[c] = "queued", NEW i \in 1..Len(queue[mine[c]]),
         queue[mine[c]][i] = c,
         queue' = [queue EXCEPT ![mine[c]] = Without(@, i)]
  PROVE  /\ queue' \in [LockIds -> Seq(Callers)]
         /\ \A l \in LockIds :
              /\ \A d \in Callers :
                   (\E j \in 1..Len(queue'[l]) : queue'[l][j] = d)
                     <=> (d # c /\ pc[d] = "queued" /\ mine[d] = l)
              /\ \A j, k \in 1..Len(queue'[l]) : queue'[l][j] = queue'[l][k] => j = k
<1>. USE DEF LockInv
<1>. DEFINE m == mine[c]
            w == Without(queue[m], i)
<1>1. /\ m \in LockIds
      /\ queue[m] \in Seq(Callers)
      /\ \A j, k \in 1..Len(queue[m]) : queue[m][j] = queue[m][k] => j = k
  BY DEF CallerPlaces, LockTypeOK, QueuesExact, Referring
<1>2. queue' = [queue EXCEPT ![m] = w] /\ queue[m][i] = c /\ i \in 1..Len(queue[m])
  OBVIOUS
<1>. HIDE DEF m
<1>3. w \in Seq(Callers)
  BY <1>1, <1>2, WithoutShifts
<1>4. /\ \A x \in Callers : (\E j \in 1..Len(w) : w[j] = x)
                  <=> (x # queue[m][i] /\ \E j \in 1..Len(queue[m]) : queue[m][j] = x)
      /\ \A j, k \in 1..Len(w) : w[j] = w[k] => j = k
  BY ONLY <1>1, <1>2, WithoutLoses
<1>. HIDE DEF w
<1>5. \A d \in Callers : (\E j \in 1..Len(queue[m]) : queue[m][j] = d)
                          <=> (pc[d] = "queued" /\ mine[d] = m)
  BY <1>1 DEF QueuesExact
<1>6. queue'[m] = w /\ \A l \in LockIds \ {m} : queue'[l] = queue[l]
  BY <1>1, <1>2 DEF LockTypeOK
<1>7. queue' \in [LockIds -> Seq(Callers)]
  BY <1>2, <1>3 DEF LockTypeOK
<1>8. ASSUME NEW l \in LockIds
      PROVE  /\ \A d \in Callers :
                  (\E j \in 1..Len(queue'[l]) : queue'[l][j] = d)
                    <=> (d # c /\ pc[d] = "queued" /\ mine[d] = l)
             /\ \A j, k \in 1..Len(queue'[l]) : queue'[l][j] = queue'[l][k] => j = k
  <2>1. CASE l = m
    <3>1. /\ \A d \in Callers : (\E j \in 1..Len(w) : w[j] = d)
                                 <=> (d # c /\ pc[d] = "queued" /\ mine[d] = m)
          /\ \A j, k \in 1..Len(w) : w[j] = w[k] => j = k
      BY <1>2, <1>4, <1>5
    <3>2. queue'[l] = w
      BY <1>6, <2>1
    <3>. QED
      BY ONLY <2>1, <3>1, <3>2
  <2>2. CASE l # m
    BY <1>6, <2>2 DEF QueuesExact, m
  <2>. QED
    BY <2>1, <2>2
<1>. QED
  BY <1>7, <1>8

\* The first waiter takes the object.
LEMMA AcquireGrantedKeeps ==
  ASSUME LockInv, NEW c \in Callers, AcquireGranted(c)
  PROVE  LockInv'
<1>1. /\ pc[c] = "queued" /\ owner[mine[c]] = NoCaller /\ Acquired(c)
      /\ queue' = [queue EXCEPT ![mine[c]] = Without(@, 1)]
      /\ queue[mine[c]] # <<>> /\ queue[mine[c]][1] = c
  BY DEF AcquireGranted, MyTurn
<1>2. 1 \in 1..Len(queue[mine[c]])
  <2>1. mine[c] \in LockIds
    BY <1>1 DEF LockInv, CallerPlaces, LockTypeOK, Referring
  <2>2. queue[mine[c]] \in Seq(Callers)
    BY <2>1 DEF LockInv, LockTypeOK
  <2>. QED
    BY <1>1, <2>2
<1>3. /\ queue' \in [LockIds -> Seq(Callers)]
      /\ \A l \in LockIds :
           /\ \A d \in Callers :
                (\E j \in 1..Len(queue'[l]) : queue'[l][j] = d)
                  <=> (d # c /\ pc[d] = "queued" /\ mine[d] = l)
           /\ \A j, k \in 1..Len(queue'[l]) : queue'[l][j] = queue'[l][k] => j = k
  BY <1>1, <1>2, QueueWithout
<1>. QED
  BY <1>1, <1>3, AcquiredKeeps

\* A waiter gives up after its timeout; it is still counted.
LEMMA AcquireTimeoutKeeps ==
  ASSUME LockInv, NEW c \in Callers, AcquireTimeout(c)
  PROVE  LockInv'
<1>. USE DEF LockInv
<1>1. PICK i \in 1..Len(queue[mine[c]]) :
        queue[mine[c]][i] = c /\ queue' = [queue EXCEPT ![mine[c]] = Without(@, i)]
  BY DEF AcquireTimeout
<1>2. /\ pc[c] = "queued" /\ pc' = [pc EXCEPT ![c] = "undoing"]
      /\ locks' = locks /\ refcounts' = refcounts /\ owner' = owner
      /\ wanted' = wanted /\ acquired' = acquired /\ at' = at /\ mine' = mine
  BY DEF AcquireTimeout
<1>3. /\ queue' \in [LockIds -> Seq(Callers)]
      /\ \A l \in LockIds :
           /\ \A d \in Callers :
                (\E j \in 1..Len(queue'[l]) : queue'[l][j] = d)
                  <=> (d # c /\ pc[d] = "queued" /\ mine[d] = l)
           /\ \A j, k \in 1..Len(queue'[l]) : queue'[l][j] = queue'[l][k] => j = k
  BY <1>1, <1>2, QueueWithout
<1>4. LockTypeOK'
  BY <1>2, <1>3 DEF LockTypeOK, Places, Referring
<1>5. CallerPlaces'
  BY <1>2 DEF CallerPlaces, LockTypeOK, Referring
<1>6. ObjectsDistinct' /\ HoldsAcquired' /\ OwnersAcquired'
  BY <1>2 DEF ObjectsDistinct, HoldsAcquired, OwnersAcquired
<1>7. QueuesExact'
  <2>1. \A d \in Callers : pc'[d] = "queued" <=> d # c /\ pc[d] = "queued"
    BY <1>2 DEF LockTypeOK
  <2>. QED
    BY <1>2, <1>3, <2>1 DEF QueuesExact
<1>8. \A k \in Keys : Users(k)' = Users(k)
  BY <1>2 DEF Users, LockTypeOK, Referring
<1>9. RefcountExact'
  BY <1>2, <1>8 DEF RefcountExact
<1>. QED
  BY <1>4, <1>5, <1>6, <1>7, <1>9

\* A caller joins the queue of its object.
LEMMA AcquireWaitKeeps ==
  ASSUME LockInv, NEW c \in Callers, AcquireWait(c)
  PROVE  LockInv'
<1>. USE DEF LockInv
<1>. DEFINE m == mine[c]
<1>1. /\ pc[c] = "acquiring" /\ queue' = [queue EXCEPT ![m] = Append(@, c)]
      /\ pc' = [pc EXCEPT ![c] = "queued"]
      /\ locks' = locks /\ refcounts' = refcounts /\ owner' = owner
      /\ wanted' = wanted /\ acquired' = acquired /\ at' = at /\ mine' = mine
  BY DEF AcquireWait
<1>2. m \in LockIds /\ queue[m] \in Seq(Callers)
  BY <1>1 DEF CallerPlaces, LockTypeOK, Referring
<1>. HIDE DEF m
<1>3. /\ queue'[m] = Append(queue[m], c)
      /\ \A l \in LockIds \ {m} : queue'[l] = queue[l]
      /\ queue' \in [LockIds -> Seq(Callers)]
  BY <1>1, <1>2 DEF LockTypeOK
<1>4. LockTypeOK'
  BY <1>1, <1>3 DEF LockTypeOK, Places, Referring
<1>5. CallerPlaces'
  BY <1>1 DEF CallerPlaces, LockTypeOK, Referring
<1>6. ObjectsDistinct' /\ HoldsAcquired' /\ OwnersAcquired'
  BY <1>1 DEF ObjectsDistinct, HoldsAcquired, OwnersAcquired
<1>7. QueuesExact'
  <2>. SUFFICES ASSUME NEW l \in LockIds
                PROVE  /\ \A d \in Callers :
                            (\E i \in 1..Len(queue'[l]) : queue'[l][i] = d)
                              <=> (pc'[d] = "queued" /\ mine[d] = l)
                       /\ \A i, j \in 1..Len(queue'[l]) : queue'[l][i] = queue'[l][j] => i = j
    BY <1>1 DEF QueuesExact
  <2>1. \A d \in Callers : pc'[d] = "queued" <=> d = c \/ pc[d] = "queued"
    BY <1>1 DEF LockTypeOK
  <2>2. CASE l # m
    BY SMTT(30), <1>3, <2>1, <2>2 DEF QueuesExact, m
  <2>3. CASE l = m
    <3>. DEFINE q == queue[m]
                r == queue'[m]
    <3>1. /\ Len(r) = Len(q) + 1 /\ r[Len(q) + 1] = c
          /\ \A i \in 1..Len(q) : r[i] = q[i]
      BY <1>2, <1>3
    <3>2. Len(q) \in Nat /\ \A i \in 1..Len(q) : q[i] # c
      BY <1>1, <1>2 DEF QueuesExact
    <3>3. \A i, j \in 1..Len(q) : q[i] = q[j] => i = j
      BY <1>2 DEF QueuesExact
    <3>4. \A d \in Callers : (\E i \in 1..Len(q) : q[i] = d) <=> (pc[d] = "queued" /\ mine[d] = m)
      BY <1>2 DEF QueuesExact
    <3>. HIDE DEF q, r
    <3>5. \A i, j \in 1..Len(r) : r[i] = r[j] => i = j
      BY <3>1, <3>2, <3>3
    <3>6. ASSUME NEW d \in Callers
          PROVE  (\E i \in 1..Len(r) : r[i] = d) <=> (pc'[d] = "queued" /\ mine[d] = m)
      <4>1. CASE d = c
        <5>1. Len(q) + 1 \in 1..Len(r)
          BY <3>1, <3>2
        <5>. QED
          BY <2>1, <3>1, <4>1, <5>1 DEF m
      <4>2. CASE d # c
        <5>1. (\E i \in 1..Len(r) : r[i] = d) <=> (\E i \in 1..Len(q) : q[i] = d)
          BY <3>1, <3>2, <4>2
        <5>. QED
          BY <2>1, <3>4, <4>2, <5>1
      <4>. QED
        BY <4>1, <4>2
    <3>. QED
      BY <2>3, <3>5, <3>6 DEF r
  <2>. QED
    BY <2>2, <2>3
<1>8. \A k \in Keys : Users(k)' = Users(k)
  BY <1>1 DEF Users, LockTypeOK, Referring
<1>9. RefcountExact'
  BY <1>1, <1>8 DEF RefcountExact
<1>. QED
  BY <1>4, <1>5, <1>6, <1>7, <1>9

\* One reference fewer: a key that loses its last user loses its object, and
\* only then.  c is the user that goes; owner' is what the step leaves.
LEMMA DropKeepsCount ==
  ASSUME LockInv, NEW c \in Callers, NEW k \in Keys, NEW b \in BOOLEAN,
         DropReference(k, b), c \in Users(k), Users(k)' = Users(k) \ {c},
         \A j \in Keys \ {k} : Users(j)' = Users(j),
         Users(k) = {c} => ~b
  PROVE  /\ refcounts' \in [Keys -> Nat]
         /\ locks' \in [Keys -> LockIds \cup {NoLock}]
         /\ \A j \in Keys \ {k} : locks'[j] = locks[j]
         /\ locks'[k] = (IF Users(k) = {c} THEN NoLock ELSE locks[k])
         /\ RefcountExact'
<1>. USE DEF LockInv
<1>1. IsFiniteSet(Users(k)) /\ IsFiniteSet(Users(k)')
  <2>1. IsFiniteSet(Users(k))
    BY UsersFinite
  <2>. QED
    BY <2>1, FS_RemoveElement
<1>2. Cardinality(Users(k)') = Cardinality(Users(k)) - 1
  BY <1>1, FS_RemoveElement
<1>3. refcounts[k] = Cardinality(Users(k)) /\ refcounts[k] \in Nat /\ locks[k] # NoLock
  BY DEF RefcountExact, LockTypeOK
<1>4. Cardinality(Users(k)') \in Nat /\ (Cardinality(Users(k)') = 0 <=> Users(k)' = {})
  BY <1>1, FS_CardinalityType, FS_EmptySet
<1>5. refcounts[k] = 1 <=> Users(k) = {c}
  BY <1>2, <1>3, <1>4
<1>6. /\ refcounts' = [refcounts EXCEPT ![k] = @ - 1]
      /\ locks' = [locks EXCEPT ![k] = IF Users(k) = {c} THEN NoLock ELSE @]
  BY <1>5 DEF DropReference
<1>7. refcounts'[k] = Cardinality(Users(k)') /\ \A j \in Keys \ {k} : refcounts'[j] = refcounts[j]
  BY <1>2, <1>3, <1>6 DEF LockTypeOK
<1>8. /\ locks'[k] = (IF Users(k) = {c} THEN NoLock ELSE locks[k])
      /\ \A j \in Keys \ {k} : locks'[j] = locks[j]
  BY <1>6 DEF LockTypeOK
<1>9. refcounts' \in [Keys -> Nat] /\ locks' \in [Keys -> LockIds \cup {NoLock}]
  BY <1>4, <1>6, <1>7 DEF LockTypeOK
<1>10. locks'[k] = NoLock <=> Users(k)' = {}
  BY <1>3, <1>8
<1>11. RefcountExact'
  BY <1>7, <1>8, <1>10 DEF RefcountExact
<1>. QED
  BY <1>8, <1>9, <1>11

\* The timeout path undoes its reference.  The object stays in the dict while
\* another caller uses it; if this was the last user, nobody owns the object.
LEMMA UndoReferenceKeeps ==
  ASSUME LockInv, NEW c \in Callers, UndoReference(c)
  PROVE  LockInv'
<1>. USE DEF LockInv
<1>3. PICK k \in Keys : at[c] = k
  BY DEF UndoReference, CallerPlaces, LockTypeOK, Referring
<1>1. /\ pc[c] = "undoing" /\ DropReference(k, owner[locks[k]] # NoCaller)
      /\ pc' = [pc EXCEPT ![c] = Unwind(c, acquired[c])]
      /\ wanted' = [wanted EXCEPT ![c] = {}] /\ at' = [at EXCEPT ![c] = NoKey]
      /\ mine' = [mine EXCEPT ![c] = NoLock]
      /\ owner' = owner /\ queue' = queue /\ acquired' = acquired
  BY <1>3 DEF UndoReference
<1>2. locks[k] \in LockIds /\ k \notin acquired[c] /\ c \in Users(k)
  BY <1>1, <1>3 DEF CallerPlaces, LockTypeOK, Referring, Users
<1>4. pc'[c] \in {"idle", "unwinding"} /\ (pc'[c] = "idle" => acquired[c] = {})
  BY <1>1 DEF LockTypeOK, Unwind
<1>5. \A d \in Callers \ {c} : /\ pc'[d] = pc[d] /\ wanted'[d] = wanted[d]
                               /\ at'[d] = at[d] /\ mine'[d] = mine[d]
  BY <1>1 DEF LockTypeOK
<1>6. wanted'[c] = {} /\ at'[c] = NoKey /\ mine'[c] = NoLock
  BY <1>1 DEF LockTypeOK
<1>7. Users(k)' = Users(k) \ {c} /\ \A j \in Keys \ {k} : Users(j)' = Users(j)
  <2>. SUFFICES ASSUME NEW j \in Keys, NEW d \in Callers
                PROVE  (j \in acquired[d] \/ (pc'[d] \in Referring /\ at'[d] = j))
                         <=> /\ j \in acquired[d] \/ (pc[d] \in Referring /\ at[d] = j)
                             /\ ~(j = k /\ d = c)
    BY <1>1, <1>2 DEF Users
  <2>1. CASE d = c
    BY <1>1, <1>2, <1>3, <1>4, <2>1 DEF Referring
  <2>2. CASE d # c
    BY <1>5, <2>2
  <2>. QED
    BY <2>1, <2>2
<1>8. Users(k) = {c} => owner[locks[k]] = NoCaller
  <2>. SUFFICES ASSUME NEW d \in Callers, owner[locks[k]] = d, Users(k) = {c} PROVE FALSE
    BY <1>2 DEF LockTypeOK
  <2>1. PICK j \in acquired[d] : locks[j] = locks[k]
    BY <1>2 DEF OwnersAcquired
  <2>2. j = k
    BY <1>2, <2>1, LockIdsAssumption DEF ObjectsDistinct, LockTypeOK
  <2>3. d \in Users(k) /\ d # c
    BY <1>2, <2>1, <2>2 DEF Users
  <2>. QED
    BY <2>3
<1>9. /\ refcounts' \in [Keys -> Nat] /\ locks' \in [Keys -> LockIds \cup {NoLock}]
      /\ \A j \in Keys \ {k} : locks'[j] = locks[j]
      /\ locks'[k] = (IF Users(k) = {c} THEN NoLock ELSE locks[k])
      /\ RefcountExact'
  <2>. DEFINE b == owner[locks[k]] # NoCaller
  <2>1. b \in BOOLEAN /\ DropReference(k, b) /\ (Users(k) = {c} => ~b)
    BY <1>1, <1>8
  <2>. HIDE DEF b
  <2>. QED
    BY <1>2, <1>7, <2>1, DropKeepsCount
<1>10. \A d \in Callers, j \in Keys :
         d # c /\ (j \in acquired[d] \/ (pc[d] \in Referring /\ at[d] = j)) => locks'[j] = locks[j]
  BY <1>9 DEF Users
<1>11. \A j \in acquired[c] : locks'[j] = locks[j]
  BY <1>2, <1>9 DEF LockTypeOK
<1>12. LockTypeOK'
  BY <1>1, <1>4, <1>9 DEF LockTypeOK, Places
<1>13. CallerPlaces'
  <2>. SUFFICES ASSUME NEW d \in Callers
                PROVE /\ wanted'[d] \cap acquired[d] = {}
                      /\ pc'[d] \in Referring =>
                           at'[d] \in wanted'[d] /\ mine'[d] = locks'[at'[d]] /\ mine'[d] # NoLock
                      /\ pc'[d] \notin Referring => at'[d] = NoKey /\ mine'[d] = NoLock
                      /\ pc'[d] \in {"idle", "body", "unwinding"} => wanted'[d] = {}
                      /\ pc'[d] = "idle" => acquired[d] = {}
    BY <1>1 DEF CallerPlaces
  <2>1. CASE d = c
    BY <1>4, <1>6, <2>1 DEF Referring
  <2>2. CASE d # c
    <3>1. pc[d] \in Referring => locks'[at[d]] = locks[at[d]]
      BY <1>10, <2>2 DEF CallerPlaces, LockTypeOK
    <3>. QED
      BY <1>5, <2>2, <3>1 DEF CallerPlaces
  <2>. QED
    BY <2>1, <2>2
<1>14. ObjectsDistinct'
  BY <1>9 DEF ObjectsDistinct
<1>15. HoldsAcquired'
  <2>. SUFFICES ASSUME NEW d \in Callers, NEW j \in acquired[d]
                PROVE  locks'[j] # NoLock /\ owner[locks'[j]] = d
    BY <1>1 DEF HoldsAcquired
  <2>1. locks'[j] = locks[j]
    BY <1>10, <1>11 DEF LockTypeOK
  <2>. QED
    BY <2>1 DEF HoldsAcquired
<1>16. OwnersAcquired'
  <2>. SUFFICES ASSUME NEW m \in LockIds, NEW d \in Callers, owner[m] = d
                PROVE  \E j \in acquired[d] : locks'[j] = m
    BY <1>1 DEF OwnersAcquired
  <2>1. PICK j \in acquired[d] : locks[j] = m
    BY DEF OwnersAcquired
  <2>2. locks'[j] = locks[j]
    BY <1>10, <1>11 DEF LockTypeOK
  <2>. QED
    BY <2>1, <2>2
<1>17. QueuesExact'
  <2>1. \A d \in Callers : \A l \in LockIds :
          (pc'[d] = "queued" /\ mine'[d] = l) <=> (pc[d] = "queued" /\ mine[d] = l)
    BY <1>1, <1>4, <1>5
  <2>. QED
    BY <1>1, <2>1 DEF QueuesExact
<1>. QED
  BY <1>9, <1>12, <1>13, <1>14, <1>15, <1>16, <1>17

\* _release_lock: the object is released and the holder's reference dropped.
\* Other users of the key find the object still in the dict.
LEMMA ReleaseLockKeeps ==
  ASSUME LockInv, NEW c \in Callers, NEW k \in Keys, ReleaseLock(c, k)
  PROVE  LockInv'
<1>. USE DEF LockInv
<1>1. /\ pc[c] = "unwinding" /\ k \in acquired[c]
      /\ owner' = [owner EXCEPT ![locks[k]] = NoCaller]
      /\ DropReference(k, FALSE)
      /\ acquired' = [acquired EXCEPT ![c] = @ \ {k}]
      /\ pc' = [pc EXCEPT ![c] = Unwind(c, acquired[c] \ {k})]
      /\ queue' = queue /\ wanted' = wanted /\ at' = at /\ mine' = mine
  BY DEF ReleaseLock
<1>. DEFINE l == locks[k]
<1>2. l \in LockIds /\ l # NoLock /\ owner[l] = c /\ c \in Users(k)
  BY <1>1 DEF HoldsAcquired, LockTypeOK, Users
<1>3. pc'[c] \in {"idle", "unwinding"} /\ (pc'[c] = "idle" => acquired[c] \ {k} = {})
  BY <1>1 DEF LockTypeOK, Unwind
<1>4. /\ acquired'[c] = acquired[c] \ {k}
      /\ \A d \in Callers \ {c} : pc'[d] = pc[d] /\ acquired'[d] = acquired[d]
  BY <1>1 DEF LockTypeOK
<1>5. owner'[l] = NoCaller /\ \A m \in LockIds \ {l} : owner'[m] = owner[m]
  BY <1>1, <1>2 DEF LockTypeOK
<1>6. Users(k)' = Users(k) \ {c} /\ \A j \in Keys \ {k} : Users(j)' = Users(j)
  <2>. SUFFICES ASSUME NEW j \in Keys, NEW d \in Callers
                PROVE  (j \in acquired'[d] \/ (pc'[d] \in Referring /\ at[d] = j))
                         <=> /\ j \in acquired[d] \/ (pc[d] \in Referring /\ at[d] = j)
                             /\ ~(j = k /\ d = c)
    BY <1>1 DEF Users
  <2>1. CASE d = c
    BY <1>1, <1>3, <1>4, <2>1 DEF Referring
  <2>2. CASE d # c
    BY <1>4, <2>2
  <2>. QED
    BY <2>1, <2>2
<1>7. /\ refcounts' \in [Keys -> Nat] /\ locks' \in [Keys -> LockIds \cup {NoLock}]
      /\ \A j \in Keys \ {k} : locks'[j] = locks[j]
      /\ locks'[k] = (IF Users(k) = {c} THEN NoLock ELSE locks[k])
      /\ RefcountExact'
  BY <1>1, <1>2, <1>6, DropKeepsCount
<1>8. \A d \in Callers : k \in acquired[d] => d = c
  BY <1>2 DEF HoldsAcquired
<1>. HIDE DEF l
<1>9. \A j \in Keys \ {k} : locks[j] # l
  BY <1>2, LockIdsAssumption DEF ObjectsDistinct, l
<1>10. LockTypeOK'
  BY <1>1, <1>3, <1>5, <1>7 DEF LockTypeOK, Places
<1>11. CallerPlaces'
  <2>. SUFFICES ASSUME NEW d \in Callers
                PROVE /\ wanted[d] \cap acquired'[d] = {}
                      /\ pc'[d] \in Referring =>
                           at[d] \in wanted[d] /\ mine[d] = locks'[at[d]] /\ mine[d] # NoLock
                      /\ pc'[d] \notin Referring => at[d] = NoKey /\ mine[d] = NoLock
                      /\ pc'[d] \in {"idle", "body", "unwinding"} => wanted[d] = {}
                      /\ pc'[d] = "idle" => acquired'[d] = {}
    BY <1>1 DEF CallerPlaces
  <2>1. CASE d = c
    BY <1>1, <1>3, <1>4, <2>1 DEF CallerPlaces, Referring
  <2>2. CASE d # c
    <3>1. pc[d] \in Referring => at[d] \in Keys /\ d \in Users(at[d])
      BY DEF CallerPlaces, LockTypeOK, Users
    <3>2. pc[d] \in Referring => locks'[at[d]] = locks[at[d]]
      BY <1>7, <2>2, <3>1
    <3>. QED
      BY <1>4, <2>2, <3>2 DEF CallerPlaces
  <2>. QED
    BY <2>1, <2>2
<1>12. ObjectsDistinct'
  BY <1>7 DEF ObjectsDistinct
<1>13. ASSUME NEW d \in Callers, NEW j \in acquired'[d]
       PROVE  j \in Keys \ {k} /\ j \in acquired[d]
  BY <1>4, <1>8 DEF LockTypeOK
<1>14. HoldsAcquired'
  <2>. SUFFICES ASSUME NEW d \in Callers, NEW j \in acquired'[d]
                PROVE  locks'[j] # NoLock /\ owner'[locks'[j]] = d
    BY DEF HoldsAcquired
  <2>1. j \in Keys \ {k} /\ j \in acquired[d]
    BY <1>13
  <2>2. locks'[j] = locks[j] /\ locks[j] # NoLock /\ owner[locks[j]] = d /\ locks[j] \in LockIds
    BY <1>7, <2>1 DEF HoldsAcquired, LockTypeOK
  <2>. QED
    BY <1>5, <1>9, <2>1, <2>2
<1>15. OwnersAcquired'
  <2>. SUFFICES ASSUME NEW m \in LockIds, NEW d \in Callers, owner'[m] = d
                PROVE  \E j \in acquired'[d] : locks'[j] = m
    BY DEF OwnersAcquired
  <2>1. m # l /\ owner[m] = d
    BY <1>5, CallersAssumption
  <2>2. PICK j \in acquired[d] : locks[j] = m
    BY <2>1 DEF OwnersAcquired
  <2>3. j \in Keys \ {k}
    BY <2>1, <2>2 DEF LockTypeOK, l
  <2>4. j \in acquired'[d] /\ locks'[j] = m
    BY <1>4, <1>7, <2>2, <2>3
  <2>. QED
    BY <2>4
<1>16. QueuesExact'
  <2>1. \A d \in Callers : pc'[d] = "queued" <=> pc[d] = "queued"
    BY <1>1, <1>3, <1>4
  <2>2. queue' = queue /\ mine' = mine /\ QueuesExact
    BY <1>1
  <2>. QED
    BY ONLY <2>1, <2>2 DEF QueuesExact
<1>. QED
  BY <1>7, <1>10, <1>11, <1>12, <1>14, <1>15, <1>16

-----------------------------------------------------------------------------
(* The lock manager: its theorems *)

\* Every step of a caller of lock() keeps the inductive invariant.
LEMMA LockNextInv == LockInv /\ [LockNext]_lockVars => LockInv'
<1>1. ASSUME LockInv, UNCHANGED lockVars PROVE LockInv'
  <2>1. \A k \in Keys : Users(k)' = Users(k)
    BY <1>1 DEF lockVars, Users
  <2>2. RefcountExact'
    BY <1>1, <2>1 DEF LockInv, lockVars, RefcountExact
  <2>3. LockTypeOK' /\ CallerPlaces' /\ ObjectsDistinct' /\ HoldsAcquired' /\ OwnersAcquired'
    BY <1>1 DEF LockInv, lockVars, LockTypeOK, CallerPlaces, ObjectsDistinct, HoldsAcquired,
                OwnersAcquired
  <2>4. QueuesExact'
    BY <1>1 DEF LockInv, lockVars, QueuesExact
  <2>. QED
    BY <2>2, <2>3, <2>4 DEF LockInv
<1>2. ASSUME LockInv, NEW c \in Callers,
             \/ LockProgress(c) \/ AcquireTimeout(c) \/ LeaveBody(c)
             \/ \E K \in SUBSET Keys : Enter(c, K)
      PROVE  LockInv'
  <2>1. CASE \E k \in Keys : GetLock(c, k)
    BY <1>2, <2>1, GetLockKeeps
  <2>2. CASE AcquireFree(c)
    BY <1>2, <2>2, AcquireFreeKeeps
  <2>3. CASE AcquireWait(c)
    BY <1>2, <2>3, AcquireWaitKeeps
  <2>4. CASE AcquireGranted(c)
    BY <1>2, <2>4, AcquireGrantedKeeps
  <2>5. CASE UndoReference(c)
    BY <1>2, <2>5, UndoReferenceKeeps
  <2>6. CASE \E k \in Keys : ReleaseLock(c, k)
    BY <1>2, <2>6, ReleaseLockKeeps
  <2>7. CASE AcquireTimeout(c)
    BY <1>2, <2>7, AcquireTimeoutKeeps
  <2>8. CASE LeaveBody(c)
    BY <1>2, <2>8, LeaveBodyKeeps
  <2>9. CASE \E K \in SUBSET Keys : Enter(c, K)
    BY <1>2, <2>9, EnterKeeps
  <2>. QED
    BY <1>2, <2>1, <2>2, <2>3, <2>4, <2>5, <2>6, <2>7, <2>8, <2>9 DEF LockProgress
<1>. QED
  BY <1>1, <1>2 DEF LockNext

\* The lock manager's inductive invariant holds in every reachable state.
THEOREM LockManagerInv == LockSpec => []LockInv
<1>. QED
  BY LockInitInv, LockNextInv, PTL DEF LockSpec

\* Everything a thread of the executor does with resource locks is a step of
\* lock(): _run_safe enters it with the declared keys, the tool runs at its
\* yield and the thread leaves it, whatever interrupts and batches do.
THEOREM ExecutorUsesLocks == Spec => LockSpec
<1>1. Init => LockInit
  BY DEF Init
<1>2. ASSUME [Next]_vars PROVE [LockNext]_lockVars
  <2>1. ASSUME NEW a \in Callers, RunSafe(a) PROVE [LockNext]_lockVars
    <3>1. UNCHANGED lockVars \/ Enter(a, LockKeys[a])
      BY <2>1 DEF RunSafe
    <3>2. LockKeys[a] \in SUBSET Keys
      BY LockKeysAssumption
    <3>. QED
      BY <3>1, <3>2 DEF LockNext
  <2>2. ASSUME NEW a \in Callers, LockStep(a) PROVE LockNext
    BY <2>2 DEF LockStep, LockNext
  <2>3. ASSUME NEW a \in Callers, EndTool(a) PROVE [LockNext]_lockVars
    BY <2>3 DEF EndTool, LockNext
  <2>4. ASSUME NEW a \in Callers, EndCall(a) PROVE UNCHANGED lockVars
    BY <2>4 DEF EndCall
  <2>5. ASSUME ExecuteBatch \/ CancelToken \/ CancelTask \/ PoolShutdown \/ ReturnResults
        PROVE  UNCHANGED lockVars
    BY <2>5 DEF ExecuteBatch, CancelToken, CancelTask, PoolShutdown, ReturnResults
  <2>6. CASE UNCHANGED vars
    BY <2>6 DEF vars
  <2>. QED
    BY <1>2, <2>1, <2>2, <2>3, <2>4, <2>5, <2>6 DEF Next
<1>. QED
  BY <1>1, <1>2, PTL DEF Spec, LockSpec

\* A holder always finds its object in the dict, refcounts are exact through
\* timeouts and releases, and the dicts hold no key that nobody uses.
THEOREM LocksSoundHolds == Spec => []LocksSound
<1>1. LockInv => LocksSound
  BY DEF LockInv, LocksSound
<1>. QED
  BY <1>1, ExecutorUsesLocks, LockManagerInv, PTL

\* No two tools that declared the same resource run at the same time, calls of
\* different batches included.
THEOREM BodiesExcludeHolds == Spec => []BodiesExclude
<1>1. LockInv => BodiesExclude
  <2>. SUFFICES ASSUME LockInv, NEW c \in Callers, NEW d \in Callers,
                       NEW k \in acquired[c], k \in acquired[d]
                PROVE  c = d
    BY DEF BodiesExclude
  <2>. QED
    BY DEF LockInv, HoldsAcquired
<1>. QED
  BY <1>1, ExecutorUsesLocks, LockManagerInv, PTL

\* A key is granted in the order of arrival, although the manager creates, shares
\* and forgets its lock objects: the callers of a key meet on one object.
THEOREM KeyServedInOrderHolds == Spec => KeyServedInOrder
<1>. DEFINE InOrder(c, d) == \E i, j \in 1..Len(queue[mine[c]]) :
                               i < j /\ queue[mine[c]][i] = c /\ queue[mine[c]][j] = d
<1>1. ASSUME LockInv, LockNext, NEW c \in Callers, NEW d \in Callers,
             NEW k \in acquired'[c] \ acquired[c], c # d, pc[d] = "queued", at[d] = k
      PROVE  InOrder(c, d)
  <2>0. LockInv
    BY <1>1
  <2>. USE <2>0 DEF LockInv
  <2>1. \/ ((pc[c] = "acquiring" /\ queue[mine[c]] = <<>>) /\ at[c] = k)
        \/ pc[c] = "queued" /\ MyTurn(c) /\ at[c] = k
    <3>1. PICK e \in Callers :
            \/ LockProgress(e) \/ AcquireTimeout(e) \/ LeaveBody(e)
            \/ \E K \in SUBSET Keys : Enter(e, K)
      BY <1>1 DEF LockNext
    <3>2. ~(\E j \in Keys : GetLock(e, j)) /\ ~AcquireWait(e) /\ ~UndoReference(e)
      BY <1>1 DEF GetLock, AcquireWait, UndoReference
    <3>3. ~AcquireTimeout(e) /\ ~LeaveBody(e) /\ ~(\E K \in SUBSET Keys : Enter(e, K))
      BY <1>1 DEF AcquireTimeout, LeaveBody, Enter
    <3>4. ~(\E j \in Keys : ReleaseLock(e, j))
      <4>. SUFFICES ASSUME NEW j \in Keys, ReleaseLock(e, j) PROVE FALSE
        OBVIOUS
      <4>1. acquired' = [acquired EXCEPT ![e] = acquired[e] \ {j}]
        BY DEF ReleaseLock
      <4>2. acquired'[c] \subseteq acquired[c]
        BY <4>1 DEF LockTypeOK
      <4>. QED
        BY <1>1, <4>2
    <3>5. CASE AcquireFree(e)
      BY <1>1, <3>5 DEF AcquireFree, Acquired, LockTypeOK
    <3>6. CASE AcquireGranted(e)
      BY <1>1, <3>6 DEF AcquireGranted, Acquired, LockTypeOK
    <3>. QED
      BY <3>1, <3>2, <3>3, <3>4, <3>5, <3>6 DEF LockProgress
  <2>2. /\ mine[c] \in LockIds /\ mine[d] = mine[c]
        /\ queue[mine[c]] \in Seq(Callers)
    BY <1>1, <2>1 DEF CallerPlaces, LockTypeOK, Referring
  <2>3. PICK j \in 1..Len(queue[mine[c]]) : queue[mine[c]][j] = d
    BY <1>1, <2>2 DEF QueuesExact
  <2>4. MyTurn(c) /\ queue[mine[c]] # <<>>
    BY <2>1, <2>2, <2>3
  <2>5. queue[mine[c]][1] = c /\ 1 \in 1..Len(queue[mine[c]])
    BY <2>2, <2>3, <2>4 DEF MyTurn
  <2>6. 1 < j
    BY <1>1, <2>3, <2>5
  <2>. QED
    BY <2>3, <2>5, <2>6
<1>2. LockInv /\ [LockNext]_lockVars =>
        [\A c, d \in Callers : \A k \in acquired'[c] \ acquired[c] :
           c # d /\ pc[d] = "queued" /\ at[d] = k
             => \E i, j \in 1..Len(queue[mine[c]]) :
                  i < j /\ queue[mine[c]][i] = c /\ queue[mine[c]][j] = d]_lockVars
  BY <1>1
<1>3. LockSpec => KeyServedInOrder
  BY <1>2, LockManagerInv, PTL DEF LockSpec, KeyServedInOrder
<1>. QED
  BY <1>3, ExecutorUsesLocks, PTL

-----------------------------------------------------------------------------
(* The executor *)

\* Which calls of the current batch have a result, and which can still run,
\* in each phase.
BatchPhases ==
  /\ \A a \in Callers : stage[a] = "done" => result[a] # "none"
  /\ phase \in {"active", "draining", "cancelled"} => current > 0
  /\ phase = "returned" /\ current > 0 => \A a \in InBatch : stage[a] = "done"
  /\ phase = "cancelled" /\ Pooled => \A a \in InBatch : stage[a] \notin Alive

\* A call that has been started belongs to a batch.
Submitted(a) == \E b \in 1..Len(Batches) : \E i \in 1..Len(Batches[b]) : Batches[b][i] = a

\* The calls of batch b whose tool runs, may still run, or began too late.
Exposed(b) == {a \in Callers : (stage[a] \in Alive \/ a \in late) /\ BatchOf(a) = b}

\* Tools begin under a set token only among the calls that were past
\* _run_safe's check when it was set, and these are never more than the
\* workers.
LatePlaces ==
  /\ \A a \in Callers : stage[a] \in Alive \/ a \in late => Submitted(a)
  /\ \A a \in late : token[BatchOf(a)]
  /\ \A b \in 1..Len(Batches) : Cardinality(Exposed(b)) <= MaxWorkers

ExecInv == ExecTypeOK /\ BatchPhases /\ LatePlaces

\* A call is in the batch BatchOf gives it and in no other.
LEMMA BatchOfExact ==
  ASSUME NEW a \in Callers
  PROVE  /\ Submitted(a) => /\ BatchOf(a) \in 1..Len(Batches)
                            /\ \E i \in 1..Len(Batches[BatchOf(a)]) : Batches[BatchOf(a)][i] = a
         /\ \A b \in 1..Len(Batches) :
              \A i \in 1..Len(Batches[b]) : Batches[b][i] = a => BatchOf(a) = b /\ Submitted(a)
<1>1. Submitted(a) => /\ BatchOf(a) \in 1..Len(Batches)
                      /\ \E i \in 1..Len(Batches[BatchOf(a)]) : Batches[BatchOf(a)][i] = a
  BY DEF Submitted, BatchOf
<1>2. ASSUME NEW b \in 1..Len(Batches), NEW i \in 1..Len(Batches[b]), Batches[b][i] = a
      PROVE  BatchOf(a) = b /\ Submitted(a)
  <2>1. Submitted(a)
    BY <1>2 DEF Submitted
  <2>. QED
    BY <1>1, <1>2, <2>1, CallsAssumption
<1>. QED
  BY <1>1, <1>2

\* The calls of the current batch, told by BatchOf.
LEMMA InBatchExact ==
  ASSUME ExecTypeOK, current > 0
  PROVE  /\ current \in 1..Len(Batches)
         /\ InBatch \subseteq Callers
         /\ \A a \in Callers : a \in InBatch <=> Submitted(a) /\ BatchOf(a) = current
<1>1. current \in 1..Len(Batches) /\ Batches[current] \in Seq(Callers)
  BY BatchesAssumption DEF ExecTypeOK
<1>2. InBatch \subseteq Callers
  BY <1>1 DEF InBatch, Calls
<1>. QED
  BY <1>1, <1>2, BatchOfExact DEF InBatch, Calls

\* Steps after which no new call is exposed keep the bound on late tools.
LEMMA ExposedShrinks ==
  ASSUME LatePlaces,
         \A a \in Callers : stage'[a] \in Alive \/ a \in late' => stage[a] \in Alive \/ a \in late,
         \A a \in late' : token'[BatchOf(a)]
  PROVE  LatePlaces'
<1>1. \A a \in Callers : stage'[a] \in Alive \/ a \in late' => Submitted(a)
  BY DEF LatePlaces
<1>2. ASSUME NEW b \in 1..Len(Batches) PROVE Cardinality(Exposed(b)') <= MaxWorkers
  <2>1. Exposed(b)' \subseteq Exposed(b) /\ Exposed(b) \subseteq Callers
    BY DEF Exposed
  <2>2. IsFiniteSet(Exposed(b))
    BY <2>1, CallersAssumption, FS_Subset
  <2>3. /\ Cardinality(Exposed(b)') <= Cardinality(Exposed(b))
        /\ IsFiniteSet(Exposed(b)')
    BY <2>1, <2>2, FS_Subset
  <2>4. Cardinality(Exposed(b)') \in Nat /\ Cardinality(Exposed(b)) \in Nat
    BY <2>2, <2>3, FS_CardinalityType
  <2>5. Cardinality(Exposed(b)) <= MaxWorkers
    BY DEF LatePlaces
  <2>. QED
    BY <2>3, <2>4, <2>5, MaxWorkersAssumption
<1>. QED
  BY <1>1, <1>2 DEF LatePlaces, Submitted

\* A worker takes a call: skipped under a set token, exposed otherwise, and
\* then no call of the batch has been late.
LEMMA RunSafeKeeps ==
  ASSUME ExecInv, NEW a \in Callers, RunSafe(a)
  PROVE  ExecInv'
<1>. USE DEF ExecInv
<1>1. /\ phase = "active" /\ current > 0 /\ stage[a] = "waiting"
      /\ Cardinality({b \in InBatch : stage[b] \in Alive}) < Workers
      /\ current' = current /\ phase' = phase /\ async' = async
      /\ token' = token /\ late' = late
  BY DEF RunSafe, BatchPhases
<1>2. /\ current \in 1..Len(Batches) /\ InBatch \subseteq Callers /\ a \in InBatch
      /\ \A d \in Callers : d \in InBatch <=> Submitted(d) /\ BatchOf(d) = current
  BY <1>1, InBatchExact DEF RunSafe, InBatch
<1>3. \/ /\ token[current]
         /\ stage' = [stage EXCEPT ![a] = "done"] /\ result' = [result EXCEPT ![a] = "skipped"]
      \/ /\ ~token[current] /\ result' = result
         /\ \E g \in Alive : stage' = [stage EXCEPT ![a] = g]
  BY DEF RunSafe, Alive
<1>4. ExecTypeOK'
  BY <1>1, <1>3 DEF ExecTypeOK, Stages, Alive
<1>5. BatchPhases'
  <2>1. \A d \in Callers : stage'[d] = "done" => result'[d] # "none"
    BY <1>3 DEF BatchPhases, ExecTypeOK, Alive
  <2>. QED
    BY <1>1, <2>1 DEF BatchPhases
<1>6. LatePlaces'
  <2>1. CASE token[current]
    <3>1. \A d \in Callers : stage'[d] \in Alive \/ d \in late' => stage[d] \in Alive \/ d \in late
      BY <1>1, <1>3, <2>1 DEF ExecTypeOK, Alive
    <3>2. \A d \in late' : token'[BatchOf(d)]
      BY <1>1 DEF LatePlaces
    <3>. QED
      BY <3>1, <3>2, ExposedShrinks
  <2>2. CASE ~token[current]
    <3>. DEFINE Running == {b \in InBatch : stage[b] \in Alive}
    <3>1. PICK g \in Alive : stage' = [stage EXCEPT ![a] = g]
      BY <1>3, <2>2
    <3>2. \A d \in Callers : stage'[d] \in Alive <=> (stage[d] \in Alive \/ d = a)
      BY <3>1 DEF ExecTypeOK
    <3>3. \A d \in Callers : stage'[d] \in Alive \/ d \in late' => Submitted(d)
      BY <1>1, <1>2, <3>2 DEF LatePlaces
    <3>4. \A d \in late' : token'[BatchOf(d)]
      BY <1>1 DEF LatePlaces
    <3>5. ASSUME NEW b \in 1..Len(Batches) PROVE Cardinality(Exposed(b)') <= MaxWorkers
      <4>1. CASE b # current
        <5>1. Exposed(b)' = Exposed(b)
          BY <1>1, <1>2, <3>2, <4>1 DEF Exposed
        <5>. QED
          BY <5>1 DEF LatePlaces
      <4>2. CASE b = current
        <5>1. \A d \in late : BatchOf(d) # current
          BY <2>2 DEF LatePlaces
        <5>2. Exposed(b)' = Running \cup {a}
          <6>. SUFFICES ASSUME NEW d \in Callers
                        PROVE  (stage'[d] \in Alive \/ d \in late') /\ BatchOf(d) = b
                                 <=> d = a \/ (d \in InBatch /\ stage[d] \in Alive)
            BY <1>2 DEF Exposed
          <6>. QED
            BY <1>1, <1>2, <3>2, <3>3, <4>2, <5>1
        <5>3. IsFiniteSet(Running) /\ a \notin Running
          BY <1>1, <1>2, CallersAssumption, FS_Subset DEF Alive
        <5>4. Cardinality(Running \cup {a}) = Cardinality(Running) + 1
          BY <5>3, FS_AddElement
        <5>5. Cardinality(Running) \in Nat /\ Workers <= MaxWorkers /\ Workers \in Nat
          BY <5>3, FS_CardinalityType, MaxWorkersAssumption DEF Workers
        <5>. QED
          BY <1>1, <5>2, <5>4, <5>5, MaxWorkersAssumption
      <4>. QED
        BY <4>1, <4>2
    <3>. QED
      BY <3>3, <3>4, <3>5 DEF LatePlaces, Submitted
  <2>. QED
    BY <2>1, <2>2
<1>. QED
  BY <1>4, <1>5, <1>6

\* Every step of the executor keeps its invariant.
LEMMA ExecNextInv == ExecInv /\ [Next]_vars => ExecInv'
<1>. SUFFICES ASSUME ExecInv, [Next]_vars PROVE ExecInv'
  OBVIOUS
<1>. USE DEF ExecInv
<1>1. ASSUME NEW a \in Callers, RunSafe(a) PROVE ExecInv'
  BY <1>1, RunSafeKeeps
<1>2. ASSUME UNCHANGED <<token, stage, late>> PROVE LatePlaces'
  BY <1>2, ExposedShrinks DEF LatePlaces
<1>3. CASE ExecuteBatch
  <2>1. ExecTypeOK'
    BY <1>3 DEF ExecuteBatch, ExecTypeOK
  <2>2. BatchPhases'
    BY <1>3 DEF ExecuteBatch, BatchPhases, ExecTypeOK
  <2>. QED
    BY <1>2, <1>3, <2>1, <2>2 DEF ExecuteBatch
<1>4. CASE CancelToken
  <2>1. ExecTypeOK' /\ BatchPhases'
    BY <1>4 DEF CancelToken, ExecTypeOK, BatchPhases
  <2>2. \A b \in 1..Len(Batches) : token[b] => token'[b]
    BY <1>4 DEF CancelToken, ExecTypeOK
  <2>3. \A a \in late : BatchOf(a) \in 1..Len(Batches)
    BY BatchOfExact DEF LatePlaces, ExecTypeOK
  <2>4. LatePlaces'
    BY <1>4, <2>2, <2>3, ExposedShrinks DEF CancelToken, LatePlaces
  <2>. QED
    BY <2>1, <2>4
<1>5. CASE CancelTask
  <2>1. /\ phase = "active" /\ current > 0 /\ current' = current /\ result' = result
        /\ token' = token /\ late' = late /\ async' = async
        /\ stage' = [a \in Callers |-> IF a \in InBatch /\ stage[a] = "waiting"
                                       THEN "dropped" ELSE stage[a]]
        /\ phase' = IF Pooled THEN "draining" ELSE "cancelled"
    BY <1>5 DEF CancelTask, BatchPhases
  <2>2. \A a \in Callers : /\ stage'[a] \in Alive => stage[a] \in Alive
                           /\ stage'[a] = "done" => stage[a] = "done"
    BY <2>1 DEF Alive
  <2>3. ExecTypeOK'
    BY <2>1 DEF ExecTypeOK, Stages
  <2>4. Pooled' = Pooled
    BY <2>1 DEF Pooled, Calls
  <2>5. BatchPhases'
    BY <2>1, <2>2, <2>4 DEF BatchPhases
  <2>6. LatePlaces'
    BY <2>1, <2>2, ExposedShrinks DEF LatePlaces
  <2>. QED
    BY <2>3, <2>5, <2>6
<1>6. CASE PoolShutdown
  <2>1. ExecTypeOK' /\ BatchPhases'
    BY <1>6 DEF PoolShutdown, ExecTypeOK, BatchPhases, InBatch, Calls
  <2>. QED
    BY <1>2, <1>6, <2>1 DEF PoolShutdown
<1>7. CASE ReturnResults
  <2>1. ExecTypeOK' /\ BatchPhases'
    BY <1>7 DEF ReturnResults, ExecTypeOK, BatchPhases, InBatch, Calls
  <2>. QED
    BY <1>2, <1>7, <2>1 DEF ReturnResults
<1>8. ASSUME NEW a \in Callers, LockStep(a) PROVE ExecInv'
  <2>1. /\ stage[a] = "locking" /\ late \subseteq late' /\ late' \subseteq late \cup {a}
        /\ (a \in late' \ late => token[BatchOf(a)])
        /\ current' = current /\ phase' = phase /\ async' = async /\ token' = token
        /\ stage' = stage /\ result' = result
    BY <1>8 DEF LockStep
  <2>2. ExecTypeOK' /\ BatchPhases'
    BY <2>1 DEF ExecTypeOK, BatchPhases, InBatch, Calls, Pooled
  <2>3. LatePlaces'
    BY <2>1, ExposedShrinks DEF LatePlaces, Alive
  <2>. QED
    BY <2>2, <2>3
<1>9. ASSUME NEW a \in Callers, EndTool(a) \/ EndCall(a) PROVE ExecInv'
  <2>1. /\ stage[a] \in Alive
        /\ stage' = stage \/ stage' = [stage EXCEPT ![a] = "done"]
        /\ \E v \in {"ran", "failed", "skipped"} : result' = [result EXCEPT ![a] = v]
        /\ current' = current /\ phase' = phase /\ async' = async /\ token' = token
        /\ late' = late
    BY <1>9 DEF EndTool, EndCall, ToolRuns, Alive, ExecTypeOK
  <2>2. \A d \in Callers : /\ stage'[d] \in Alive => stage[d] \in Alive
                           /\ stage[d] = "done" => stage'[d] = "done"
    BY <2>1 DEF ExecTypeOK, Alive
  <2>3. ExecTypeOK'
    BY <2>1 DEF ExecTypeOK, Stages
  <2>4. \A d \in Callers : stage'[d] = "done" => result'[d] # "none"
    BY <2>1 DEF BatchPhases, ExecTypeOK
  <2>5. current > 0 => InBatch \subseteq Callers
    BY InBatchExact
  <2>6. BatchPhases'
    BY <2>1, <2>2, <2>4, <2>5 DEF BatchPhases, InBatch, Calls, Pooled
  <2>7. LatePlaces'
    BY <2>1, <2>2, ExposedShrinks DEF LatePlaces
  <2>. QED
    BY <2>3, <2>6, <2>7
<1>10. CASE UNCHANGED vars
  <2>1. ExecTypeOK' /\ BatchPhases'
    BY <1>10 DEF vars, execVars, ExecTypeOK, BatchPhases, InBatch, Calls, Pooled
  <2>. QED
    BY <1>2, <1>10, <2>1 DEF vars, execVars
<1>. QED
  BY <1>1, <1>3, <1>4, <1>5, <1>6, <1>7, <1>8, <1>9, <1>10 DEF Next

\* The executor's inductive invariant holds in every reachable state.
THEOREM ExecutorInv == Spec => []ExecInv
<1>1. Init => ExecInv
  <2>. SUFFICES ASSUME Init PROVE ExecInv
    OBVIOUS
  <2>1. Len(Batches) \in Nat
    BY BatchesAssumption
  <2>2. ExecTypeOK
    <3>1. current \in 0..Len(Batches)
      BY <2>1 DEF Init
    <3>. QED
      BY <3>1 DEF Init, ExecTypeOK, Stages
  <2>3. BatchPhases
    BY DEF Init, BatchPhases
  <2>4. ASSUME NEW b \in 1..Len(Batches) PROVE Cardinality(Exposed(b)) <= MaxWorkers
    <3>1. Exposed(b) = {}
      BY DEF Init, Exposed, Alive
    <3>. QED
      BY <3>1, FS_EmptySet, MaxWorkersAssumption
  <2>5. LatePlaces
    BY <2>4 DEF Init, LatePlaces, Alive
  <2>. QED
    BY <2>2, <2>3, <2>5 DEF ExecInv
<1>. QED
  BY <1>1, ExecNextInv, PTL DEF Spec

\* A batch that returns has a result for every call, and an interrupted pooled
\* batch has no tool running when it is left, however the lock manager and
\* the interrupt interleave with the workers.
THEOREM BatchSoundHolds == Spec => []BatchSound
<1>1. ExecInv => BatchSound
  <2>. SUFFICES ASSUME ExecInv PROVE BatchSettled
    BY DEF ExecInv, BatchSound
  <2>. USE DEF ExecInv
  <2>1. current > 0 => InBatch \subseteq Callers
    BY InBatchExact
  <2>2. \A a \in Callers : ToolRuns(a) => stage[a] \in Alive
    BY DEF ToolRuns, Alive
  <2>. QED
    BY <2>1, <2>2 DEF BatchSettled, BatchPhases
<1>. QED
  BY <1>1, ExecutorInv, PTL

\* An interrupt is followed by at most one more tool per worker of its batch.
THEOREM LateToolsBoundedHolds == Spec => []LateToolsBounded
<1>1. ExecInv => LateToolsBounded
  <2>. SUFFICES ASSUME ExecInv, NEW b \in 1..Len(Batches)
                PROVE  Cardinality({a \in late : BatchOf(a) = b}) <= MaxWorkers
    BY DEF LateToolsBounded
  <2>. DEFINE L == {a \in late : BatchOf(a) = b}
  <2>1. L \subseteq Exposed(b) /\ Exposed(b) \subseteq Callers
    BY DEF ExecInv, ExecTypeOK, Exposed
  <2>2. IsFiniteSet(Exposed(b))
    BY <2>1, CallersAssumption, FS_Subset
  <2>3. IsFiniteSet(L) /\ Cardinality(L) <= Cardinality(Exposed(b))
    BY <2>1, <2>2, FS_Subset
  <2>4. Cardinality(L) \in Nat /\ Cardinality(Exposed(b)) \in Nat
    BY <2>2, <2>3, FS_CardinalityType
  <2>5. Cardinality(Exposed(b)) <= MaxWorkers
    BY DEF ExecInv, LatePlaces
  <2>. QED
    BY <2>3, <2>4, <2>5, MaxWorkersAssumption
<1>. QED
  BY <1>1, ExecutorInv, PTL
=============================================================================
