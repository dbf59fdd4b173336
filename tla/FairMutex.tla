----------------------------- MODULE FairMutex -----------------------------
(***************************************************************************)
(* What FIFOLock promises its users, without conditions, notifications or  *)
(* reentrancy counts: at most one holder, and a queue whose head is the    *)
(* only thread the lock may pass to while anybody is queued.               *)
(* Source of the promise: the FIFOLock class,                              *)
(* openhands-sdk/openhands/sdk/conversation/fifo_lock.py.                  *)
(***************************************************************************)
EXTENDS Naturals, Sequences

CONSTANTS
  Threads,   \* threads that use the lock
  NoThread   \* "nobody": the value of _owner when the lock is free

VARIABLES
  holder,    \* the thread holding the lock, or NoThread
  queue      \* the threads waiting for it, in the order they asked

vars == <<holder, queue>>

Queued == {queue[i] : i \in 1..Len(queue)}

\* The sequence s without its i-th element.
Without(s, i) == [j \in 1..(Len(s) - 1) |-> IF j < i THEN s[j] ELSE s[j + 1]]

Init ==
  /\ holder = NoThread
  /\ queue = <<>>

\* A free lock nobody waits for is taken at once.
TakeFree(t) ==
  /\ holder = NoThread
  /\ queue = <<>>
  /\ holder' = t
  /\ UNCHANGED queue

\* Everybody else joins the end of the queue.
Join(t) ==
  /\ holder # t
  /\ t \notin Queued
  /\ queue' = Append(queue, t)
  /\ UNCHANGED holder

\* The lock passes to the head of the queue and to nobody else.
Grant ==
  /\ holder = NoThread
  /\ queue # <<>>
  /\ holder' = Head(queue)
  /\ queue' = Without(queue, 1)

\* A waiter with a timeout may give up.
Leave(i) ==
  /\ queue' = Without(queue, i)
  /\ UNCHANGED holder

Drop(t) ==
  /\ holder = t
  /\ holder' = NoThread
  /\ UNCHANGED queue

Next ==
  \/ Grant
  \/ \E t \in Threads : TakeFree(t) \/ Join(t) \/ Drop(t)
  \/ \E i \in 1..Len(queue) : Leave(i)

SafeSpec == Init /\ [][Next]_vars

\* A free lock with waiters is eventually granted.
Spec == SafeSpec /\ WF_vars(Grant)
=============================================================================
