------------------------ MODULE ResourceLockManager ------------------------
(***************************************************************************)
(* Per-resource locks for parallel tool calls,                             *)
(* openhands-sdk/openhands/sdk/conversation/resource_lock_manager.py.      *)
(*                                                                         *)
(* A caller inside `with manager.lock(keys)` takes the lock of every key,  *)
(* smallest key first.  Lock objects are created on first use and deleted  *)
(* when nobody refers to them, so two callers are only serialised if they  *)
(* meet on the same OBJECT: objects have an identity here.  Every block    *)
(* under `with self._meta_lock` is one action.                             *)
(*                                                                         *)
(* A lock object is the fair mutex that FIFOLock implements (FairMutex): a *)
(* holder and a queue whose head is next.                                  *)
(***************************************************************************)
EXTENDS Naturals, Sequences, FiniteSets

CONSTANTS
  Callers,    \* threads that call lock()
  Keys,       \* resource keys; numbers, so that "sorted" is <=
  LockIds,    \* identities of FIFOLock objects
  NoCaller,   \* _owner = None
  NoLock,     \* "not in the dict"
  NoKey       \* between two keys

ASSUME KeysAssumption == Keys \subseteq Nat /\ NoKey \notin Keys
ASSUME CallersAssumption == IsFiniteSet(Callers) /\ NoCaller \notin Callers
ASSUME LockIdsAssumption == NoLock \notin LockIds

VARIABLES
  locks,      \* _locks: the object of each key, or NoLock
  refcounts,  \* _refcounts; 0 when the key is not in the dict
  owner,      \* the holder of each lock object
  queue,      \* the waiters of each lock object
  pc,         \* where each caller is (see Places)
  wanted,     \* the sorted_keys a caller has not acquired yet
  acquired,   \* the keys it has acquired
  at,         \* the key of the current turn of the `for` loop
  mine        \* the object _get_lock(at) returned

lockVars == <<locks, refcounts, owner, queue, pc, wanted, acquired, at, mine>>

(***************************************************************************)
(* "idle"      not in lock()                                               *)
(* "looping"   at the head of `for key in sorted_keys`                     *)
(* "acquiring" has the object, about to call acquire(timeout)              *)
(* "queued"    waiting in acquire(timeout)                                 *)
(* "undoing"   acquire() returned False; refcount not yet undone           *)
(* "body"      at the yield: the caller's `with` block runs                *)
(* "unwinding" in the finally block                                        *)
(***************************************************************************)
Referring == {"acquiring", "queued", "undoing"}
Places == Referring \cup {"idle", "looping", "body", "unwinding"}

\* The sequence s without its i-th element.
Without(s, i) == [j \in 1..(Len(s) - 1) |-> IF j < i THEN s[j] ELSE s[j + 1]]

LockInit ==
  /\ locks = [k \in Keys |-> NoLock]
  /\ refcounts = [k \in Keys |-> 0]
  /\ owner = [l \in LockIds |-> NoCaller]
  /\ queue = [l \in LockIds |-> <<>>]
  /\ pc = [c \in Callers |-> "idle"]
  /\ wanted = [c \in Callers |-> {}]
  /\ acquired = [c \in Callers |-> {}]
  /\ at = [c \in Callers |-> NoKey]
  /\ mine = [c \in Callers |-> NoLock]

-----------------------------------------------------------------------------
\* lock(keys) is called with at least one key: _run_safe does not call it
\* otherwise.
Enter(c, K) ==
  /\ pc[c] = "idle"
  /\ K # {}
  /\ wanted' = [wanted EXCEPT ![c] = K]
  /\ pc' = [pc EXCEPT ![c] = "looping"]
  /\ UNCHANGED <<locks, refcounts, owner, queue, acquired, at, mine>>

\* FIFOLock() creates an object nobody refers to.
Fresh == {l \in LockIds : /\ \A k \in Keys : locks[k] # l
                          /\ \A c \in Callers : mine[c] # l
                          /\ owner[l] = NoCaller
                          /\ queue[l] = <<>>}

\* Seeded fault: the keys are not sorted.
GetLockUnsorted(c, k) ==
  /\ pc[c] = "looping"
  /\ k \in wanted[c]
  /\ locks[k] # NoLock \/ Fresh # {}
  /\ LET l == IF locks[k] # NoLock THEN locks[k] ELSE CHOOSE x \in Fresh : TRUE
     IN  /\ locks' = [locks EXCEPT ![k] = l]
         /\ mine' = [mine EXCEPT ![c] = l]
  /\ refcounts' = [refcounts EXCEPT ![k] = @ + 1]
  /\ at' = [at EXCEPT ![c] = k]
  /\ pc' = [pc EXCEPT ![c] = "acquiring"]
  /\ UNCHANGED <<owner, queue, wanted, acquired>>

\* _get_lock(key) for the next key in sorted order.
GetLock(c, k) ==
  /\ pc[c] = "looping"
  /\ k \in wanted[c]
  /\ \A j \in wanted[c] : k <= j
  /\ locks[k] # NoLock \/ Fresh # {}
  /\ LET l == IF locks[k] # NoLock THEN locks[k] ELSE CHOOSE x \in Fresh : TRUE
     IN  /\ locks' = [locks EXCEPT ![k] = l]
         /\ mine' = [mine EXCEPT ![c] = l]
  /\ refcounts' = [refcounts EXCEPT ![k] = @ + 1]
  /\ at' = [at EXCEPT ![c] = k]
  /\ pc' = [pc EXCEPT ![c] = "acquiring"]
  /\ UNCHANGED <<owner, queue, wanted, acquired>>

\* acquire() returned True: acquired.append(key), and the next turn of the
\* loop, or the yield after the last key.
Acquired(c) ==
  /\ owner' = [owner EXCEPT ![mine[c]] = c]
  /\ acquired' = [acquired EXCEPT ![c] = @ \cup {at[c]}]
  /\ wanted' = [wanted EXCEPT ![c] = @ \ {at[c]}]
  /\ pc' = [pc EXCEPT ![c] = IF wanted[c] = {at[c]} THEN "body" ELSE "looping"]
  /\ at' = [at EXCEPT ![c] = NoKey]
  /\ mine' = [mine EXCEPT ![c] = NoLock]
  /\ UNCHANGED <<locks, refcounts>>

AcquireFree(c) ==
  /\ pc[c] = "acquiring"
  /\ owner[mine[c]] = NoCaller /\ queue[mine[c]] = <<>>
  /\ Acquired(c)
  /\ UNCHANGED queue

AcquireWait(c) ==
  /\ pc[c] = "acquiring"
  /\ ~(owner[mine[c]] = NoCaller /\ queue[mine[c]] = <<>>)
  /\ queue' = [queue EXCEPT ![mine[c]] = Append(@, c)]
  /\ pc' = [pc EXCEPT ![c] = "queued"]
  /\ UNCHANGED <<locks, refcounts, owner, wanted, acquired, at, mine>>

MyTurn(c) ==
  /\ owner[mine[c]] = NoCaller
  /\ queue[mine[c]] # <<>>
  /\ queue[mine[c]][1] = c

AcquireGranted(c) ==
  /\ pc[c] = "queued"
  /\ MyTurn(c)
  /\ queue' = [queue EXCEPT ![mine[c]] = Without(@, 1)]
  /\ Acquired(c)

\* The timeout of the key's kind (_get_timeout) expires while the lock is not
\* this caller's to take.
AcquireTimeout(c) ==
  /\ pc[c] = "queued"
  /\ ~MyTurn(c)
  /\ \E i \in 1..Len(queue[mine[c]]) :
       /\ queue[mine[c]][i] = c
       /\ queue' = [queue EXCEPT ![mine[c]] = Without(@, i)]
  /\ pc' = [pc EXCEPT ![c] = "undoing"]
  /\ UNCHANGED <<locks, refcounts, owner, wanted, acquired, at, mine>>

\* What _release_lock and the timeout path end with: one reference fewer, and
\* the key leaves both dicts with its last one.  lck says whether the object is
\* held after the step.
DropReference(k, lck) ==
  /\ refcounts' = [refcounts EXCEPT ![k] = @ - 1]
  /\ locks' = [locks EXCEPT ![k] = IF refcounts[k] = 1 /\ ~lck THEN NoLock ELSE @]

\* Where the finally block goes on: the next key, or out of lock().
Unwind(c, K) == IF K = {} THEN "idle" ELSE "unwinding"

\* Seeded fault: the timeout path raises without undoing the refcount.
UndoReferenceForgotten(c) ==
  /\ pc[c] = "undoing"
  /\ pc' = [pc EXCEPT ![c] = Unwind(c, acquired[c])]
  /\ wanted' = [wanted EXCEPT ![c] = {}]
  /\ at' = [at EXCEPT ![c] = NoKey]
  /\ mine' = [mine EXCEPT ![c] = NoLock]
  /\ UNCHANGED <<locks, refcounts, owner, queue, acquired>>

\* The block under _meta_lock of the timeout path, then ResourceLockTimeout.
UndoReference(c) ==
  /\ pc[c] = "undoing"
  /\ DropReference(at[c], owner[locks[at[c]]] # NoCaller)
  /\ pc' = [pc EXCEPT ![c] = Unwind(c, acquired[c])]
  /\ wanted' = [wanted EXCEPT ![c] = {}]
  /\ at' = [at EXCEPT ![c] = NoKey]
  /\ mine' = [mine EXCEPT ![c] = NoLock]
  /\ UNCHANGED <<owner, queue, acquired>>

\* The caller's `with` block ends, normally or with an exception.
LeaveBody(c) ==
  /\ pc[c] = "body"
  /\ pc' = [pc EXCEPT ![c] = "unwinding"]
  /\ UNCHANGED <<locks, refcounts, owner, queue, wanted, acquired, at, mine>>

\* Seeded fault: the key is deleted whenever its lock is free, although
\* another caller holds the object and has not acquired it yet.
ReleaseLockEager(c, k) ==
  /\ pc[c] = "unwinding"
  /\ k \in acquired[c]
  /\ \A j \in acquired[c] : j <= k
  /\ owner' = [owner EXCEPT ![locks[k]] = NoCaller]
  /\ refcounts' = [refcounts EXCEPT ![k] = 0]
  /\ locks' = [locks EXCEPT ![k] = NoLock]
  /\ acquired' = [acquired EXCEPT ![c] = @ \ {k}]
  /\ pc' = [pc EXCEPT ![c] = Unwind(c, acquired[c] \ {k})]
  /\ UNCHANGED <<queue, wanted, at, mine>>

\* _release_lock(key) for the last key acquired: release() and the reference.
\* The holder's key is always in the dict (HoldsAcquired), so the early return
\* for a missing key is not taken.
ReleaseLock(c, k) ==
  /\ pc[c] = "unwinding"
  /\ k \in acquired[c]
  /\ \A j \in acquired[c] : j <= k
  /\ owner' = [owner EXCEPT ![locks[k]] = NoCaller]
  /\ DropReference(k, FALSE)
  /\ acquired' = [acquired EXCEPT ![c] = @ \ {k}]
  /\ pc' = [pc EXCEPT ![c] = Unwind(c, acquired[c] \ {k})]
  /\ UNCHANGED <<queue, wanted, at, mine>>

\* The steps a thread inside lock() takes by itself once it can.
LockProgress(c) ==
  \/ \E k \in Keys : GetLock(c, k)
  \/ AcquireFree(c)
  \/ AcquireWait(c)
  \/ AcquireGranted(c)
  \/ UndoReference(c)
  \/ \E k \in Keys : ReleaseLock(c, k)

LockNext ==
  \E c \in Callers :
    \/ LockProgress(c)
    \/ AcquireTimeout(c)
    \/ LeaveBody(c)
    \/ \E K \in SUBSET Keys : Enter(c, K)

LockSpec == LockInit /\ [][LockNext]_lockVars

-----------------------------------------------------------------------------
(* Properties *)

\* Types of the manager's two dicts, of the lock objects and of the callers.
LockTypeOK ==
  /\ locks \in [Keys -> LockIds \cup {NoLock}]
  /\ refcounts \in [Keys -> Nat]
  /\ owner \in [LockIds -> Callers \cup {NoCaller}]
  /\ queue \in [LockIds -> Seq(Callers)]
  /\ pc \in [Callers -> Places]
  /\ wanted \in [Callers -> SUBSET Keys]
  /\ acquired \in [Callers -> SUBSET Keys]
  /\ at \in [Callers -> Keys \cup {NoKey}]
  /\ mine \in [Callers -> LockIds \cup {NoLock}]

\* A caller that has acquired a key holds the object the dict has for the key
\* now: _release_lock releases the right object, and every later caller of the
\* key meets this one there.
HoldsAcquired ==
  \A c \in Callers : \A k \in acquired[c] :
    locks[k] # NoLock /\ owner[locks[k]] = c

\* The callers that hold the lock of k or have its object.
Users(k) ==
  {c \in Callers : k \in acquired[c] \/ (pc[c] \in Referring /\ at[c] = k)}

\* _refcounts counts exactly the callers that hold or wait on the key,
\* timeouts included, and a key is in the dict exactly while there are any:
\* the dicts do not grow with every file the agent has ever touched.
RefcountExact ==
  \A k \in Keys :
    /\ refcounts[k] = Cardinality(Users(k))
    /\ locks[k] = NoLock <=> Users(k) = {}

\* The manager's dicts agree with what its callers hold and wait for.
LocksSound == LockTypeOK /\ HoldsAcquired /\ RefcountExact

\* The tools' bodies on one resource never overlap, calls of different batches
\* included: a thread that outlives its interrupted batch still holds its locks
\* when the next batch starts.
BodiesExclude ==
  \A c, d \in Callers :
    c # d /\ pc[c] = "body" /\ pc[d] = "body" => acquired[c] \cap acquired[d] = {}

\* "use FIFOLock for fairness (no starvation)" (the manager): a KEY is granted in
\* the order of arrival.  Whoever acquires it, everyone who waits for it then is
\* behind, in the same queue, although the key's lock object is deleted and
\* created again, and looked up before it is acquired.
KeyServedInOrder ==
  [][\A c, d \in Callers : \A k \in acquired'[c] \ acquired[c] :
       c # d /\ pc[d] = "queued" /\ at[d] = k
         => \E i, j \in 1..Len(queue[mine[c]]) :
              i < j /\ queue[mine[c]][i] = c /\ queue[mine[c]][j] = d]_lockVars
=============================================================================
