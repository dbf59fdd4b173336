------------------------------ MODULE FIFOLock ------------------------------
(***************************************************************************)
(* The reentrant FIFO lock of the SDK,                                     *)
(* openhands-sdk/openhands/sdk/conversation/fifo_lock.py.                  *)
(*                                                                         *)
(* Every block of code under `with self._mutex` is one action; a thread    *)
(* gives the mutex up only inside Condition.wait.  A thread waits on at    *)
(* most one Condition, so the deque of Conditions is a sequence of         *)
(* threads, and "the Condition of t was notified" is t \in notified.       *)
(*                                                                         *)
(* Callers use the lock through `with` (acquire, then release) and through *)
(* release_all / reacquire around an awaited call, so depth[t], the number *)
(* of `with` blocks t is in, is what t believes about the lock.            *)
(***************************************************************************)
EXTENDS Naturals, Sequences

CONSTANTS
  Threads,    \* threads that use the lock
  NoThread,   \* _owner = None
  MaxDepth    \* bound: deepest nesting of `with` blocks in one thread

ASSUME NoThreadAssumption == NoThread \notin Threads
ASSUME MaxDepthAssumption == MaxDepth \in Nat \ {0}

VARIABLES
  owner,      \* _owner
  count,      \* _count
  waiters,    \* _waiters
  notified,   \* threads whose Condition was notified and that have not run yet
  mode,       \* where each thread is (see Modes)
  depth,      \* number of `with` blocks each thread is inside
  savedDepth  \* the depth each thread got from release_all

lockVars == <<owner, count, waiters, notified, mode, depth, savedDepth>>

(***************************************************************************)
(* "running"     outside the lock's code                                   *)
(* "blocking"    in me.wait() of acquire() without a timeout               *)
(* "timed"       in me.wait(remaining) of acquire(timeout=...)             *)
(* "parked"      between release_all and reacquire                         *)
(* "reacquiring" in me.wait() of the acquire() that reacquire calls        *)
(* "restoring"   in reacquire, between acquire() and `_count = depth`      *)
(***************************************************************************)
Waiting == {"blocking", "timed", "reacquiring"}
Modes == Waiting \cup {"running", "parked", "restoring"}

\* The sequence s without its i-th element.
Without(s, i) == [j \in 1..(Len(s) - 1) |-> IF j < i THEN s[j] ELSE s[j + 1]]

LockInit ==
  /\ owner = NoThread
  /\ count = 0
  /\ waiters = <<>>
  /\ notified = {}
  /\ mode = [t \in Threads |-> "running"]
  /\ depth = [t \in Threads |-> 0]
  /\ savedDepth = [t \in Threads |-> 0]

-----------------------------------------------------------------------------
(* acquire() *)

AcquireReentrant(t) ==
  /\ mode[t] = "running"
  /\ owner = t
  /\ depth[t] < MaxDepth
  /\ count' = count + 1
  /\ depth' = [depth EXCEPT ![t] = @ + 1]
  /\ UNCHANGED <<owner, waiters, notified, mode, savedDepth>>

\* Where acquire() returns to: its caller, or the rest of reacquire.
Returned(t) ==
  IF mode[t] \in {"parked", "reacquiring"}
  THEN /\ mode' = [mode EXCEPT ![t] = "restoring"]
       /\ UNCHANGED depth
  ELSE /\ mode' = [mode EXCEPT ![t] = "running"]
       /\ depth' = [depth EXCEPT ![t] = 1]

\* Seeded fault: the fast path forgets `and not self._waiters`.
AcquireFreeBarging(t) ==
  /\ mode[t] \in {"running", "parked"}
  /\ owner = NoThread
  /\ owner' = t
  /\ count' = 1
  /\ Returned(t)
  /\ UNCHANGED <<waiters, notified, savedDepth>>

\* The lock is free and nobody waits: take it without waiting.
AcquireFree(t) ==
  /\ mode[t] \in {"running", "parked"}
  /\ owner = NoThread /\ waiters = <<>>
  /\ owner' = t
  /\ count' = 1
  /\ Returned(t)
  /\ UNCHANGED <<waiters, notified, savedDepth>>

\* Neither reentrant nor free: append a Condition and wait on it.  The check
\* at the head of the loop fails here: the queue was not empty, or the lock
\* was not free.  reacquire() never passes a timeout.
AcquireWait(t, m) ==
  /\ \/ mode[t] = "running" /\ m \in {"blocking", "timed"}
     \/ mode[t] = "parked" /\ m = "reacquiring"
  /\ owner # t
  /\ ~(owner = NoThread /\ waiters = <<>>)
  /\ waiters' = Append(waiters, t)
  /\ mode' = [mode EXCEPT ![t] = m]
  /\ UNCHANGED <<owner, count, notified, depth, savedDepth>>

\* Front of the queue and nobody owns it: pop and take.
AtFrontAndFree(t) == waiters # <<>> /\ Head(waiters) = t /\ owner = NoThread

TakeFront(t) ==
  /\ waiters' = Without(waiters, 1)
  /\ owner' = t
  /\ count' = 1
  /\ Returned(t)
  /\ UNCHANGED savedDepth

\* A notified waiter runs: one more turn of the loop in acquire().
WakeNotified(t) ==
  /\ mode[t] \in Waiting
  /\ t \in notified
  /\ notified' = notified \ {t}
  /\ IF AtFrontAndFree(t)
     THEN TakeFront(t)
     ELSE UNCHANGED <<owner, count, waiters, mode, depth, savedDepth>>

\* `self._waiters.remove(me); return False`
GiveUp(t) ==
  /\ \E i \in 1..Len(waiters) :
       waiters[i] = t /\ waiters' = Without(waiters, i)
  /\ mode' = [mode EXCEPT ![t] = "running"]
  /\ UNCHANGED <<owner, count, depth, savedDepth>>

\* Seeded fault: the deadline is looked at before the state of the lock, so a
\* waiter that was just handed the lock leaves with the notification.
ExpireDeadlineFirst(t) ==
  /\ mode[t] = "timed"
  /\ notified' = notified \ {t}
  /\ GiveUp(t)

\* The deadline of a timed waiter passes.  The loop tests the lock first, so a
\* waiter whose turn has come takes the lock even though it is late.
Expire(t) ==
  /\ mode[t] = "timed"
  /\ notified' = notified \ {t}
  /\ IF AtFrontAndFree(t) THEN TakeFront(t) ELSE GiveUp(t)

-----------------------------------------------------------------------------
(* release(), release_all(), reacquire() *)

\* `if self._waiters: self._waiters[0].notify()`
NotifyFront ==
  notified' = IF waiters = <<>> THEN notified ELSE notified \cup {Head(waiters)}

Release(t) ==
  /\ mode[t] = "running"
  /\ owner = t
  /\ count' = count - 1
  /\ depth' = [depth EXCEPT ![t] = @ - 1]
  /\ IF count = 1
     THEN owner' = NoThread /\ NotifyFront
     ELSE UNCHANGED <<owner, notified>>
  /\ UNCHANGED <<waiters, mode, savedDepth>>

ReleaseAll(t) ==
  /\ mode[t] = "running"
  /\ owner = t
  /\ savedDepth' = [savedDepth EXCEPT ![t] = count]
  /\ count' = 0
  /\ owner' = NoThread
  /\ NotifyFront
  /\ mode' = [mode EXCEPT ![t] = "parked"]
  /\ UNCHANGED <<waiters, depth>>

\* Seeded fault: reacquire() does not restore the reentrancy count.
RestoreDepthForgotten(t) ==
  /\ mode[t] = "restoring"
  /\ mode' = [mode EXCEPT ![t] = "running"]
  /\ savedDepth' = [savedDepth EXCEPT ![t] = 0]
  /\ UNCHANGED <<owner, count, waiters, notified, depth>>

\* The end of reacquire(): the second block under the mutex.
RestoreDepth(t) ==
  /\ mode[t] = "restoring"
  /\ count' = savedDepth[t]
  /\ mode' = [mode EXCEPT ![t] = "running"]
  /\ savedDepth' = [savedDepth EXCEPT ![t] = 0]
  /\ UNCHANGED <<owner, waiters, notified, depth>>

Step(t) ==
  \/ AcquireReentrant(t)
  \/ AcquireFree(t)
  \/ \E m \in Waiting : AcquireWait(t, m)
  \/ WakeNotified(t)
  \/ Expire(t)
  \/ Release(t)
  \/ ReleaseAll(t)
  \/ RestoreDepth(t)

LockNext == \E t \in Threads : Step(t)

\* A notified thread is scheduled; a thread that let the lock go around an
\* awaited call comes back for it; and a holder leaves the `with` blocks it is
\* in, the outermost one too, however often it nests inner ones.
LockFairness ==
  \A t \in Threads :
    /\ WF_lockVars(WakeNotified(t))
    /\ WF_lockVars(AcquireFree(t) /\ mode[t] = "parked")
    /\ WF_lockVars(AcquireWait(t, "reacquiring"))
    /\ WF_lockVars(RestoreDepth(t))
    /\ WF_lockVars(Release(t))
    /\ SF_lockVars(Release(t) /\ count = 1)

LockSpec == LockInit /\ [][LockNext]_lockVars

FairLockSpec == LockSpec /\ LockFairness

-----------------------------------------------------------------------------
(* Properties *)

\* Types of the lock's fields and of the threads' positions.
LockTypeOK ==
  /\ owner \in Threads \cup {NoThread}
  /\ count \in Nat
  /\ waiters \in Seq(Threads)
  /\ notified \in SUBSET Threads
  /\ mode \in [Threads -> Modes]
  /\ depth \in [Threads -> 0..MaxDepth]
  /\ savedDepth \in [Threads -> 0..MaxDepth]

\* No wakeup is lost: whenever the lock is free and somebody waits, the thread
\* at the front has been notified and not yet run, whichever waiters timed out
\* in between (release, release_all and the timeout branch of acquire).
NoLostWakeup ==
  owner = NoThread /\ waiters # <<>> => Head(waiters) \in notified

\* What a thread believes is what the lock records: a thread inside n `with`
\* blocks and not parked owns the lock with _count = n, and a thread outside
\* does not own it.  So release() never raises, and the reentrancy count
\* survives release_all / reacquire.
DepthAgrees ==
  \A t \in Threads :
    /\ mode[t] = "running" => (owner = t <=> depth[t] > 0)
    /\ mode[t] = "running" /\ owner = t => count = depth[t]
    /\ mode[t] \in {"parked", "reacquiring", "restoring"} =>
         savedDepth[t] = depth[t] /\ depth[t] > 0

\* The lock implements the abstract fair mutex: one holder, no barging past
\* the queue, and a free lock with waiters is granted.
Abstract == INSTANCE FairMutex WITH holder <- owner, queue <- waiters
ImplementsFairMutex == Abstract!Spec

\* No starvation: a thread that waits without a timeout gets the lock.
WaiterServed ==
  \A t \in Threads : mode[t] \in {"blocking", "reacquiring"} ~> owner = t
=============================================================================
