---------------------- MODULE ConversationStateProofs ----------------------
(***************************************************************************)
(* Proofs about the state of a conversation: the lock it is used under     *)
(* (FIFOLock), for any set of threads and any nesting depth; the tree of   *)
(* its events (ConversationTree), for any number of events, crashes and    *)
(* lost files; and the view of them that the LLM is shown (View), for any  *)
(* history and any condenser.  The three have no variable in common.       *)
(*                                                                         *)
(* path_to_root, append_event and enforce_properties are recursive in      *)
(* their definitions; what they return is proved here by induction along   *)
(* the log or the view, as the search for a least counterexample           *)
(* (LeastExists, Induction).                                               *)
(***************************************************************************)
EXTENDS FIFOLock, ConversationTree, View, SequenceTheorems, WellFoundedInduction, TLAPS

-----------------------------------------------------------------------------
(* The lock *)

\* The deque holds exactly the threads that are inside acquire()'s loop, each
\* of them once.
QueueExact ==
  /\ \A t \in Threads :
       mode[t] \in Waiting <=> \E i \in 1..Len(waiters) : waiters[i] = t
  /\ \A i, j \in 1..Len(waiters) : waiters[i] = waiters[j] => i = j

\* Only the front of the deque is ever notified, and only while the lock is
\* free: nobody can take the lock between the notification and the wakeup.
NotifiedIsFront ==
  \A t \in notified : owner = NoThread /\ waiters # <<>> /\ waiters[1] = t

\* Where the owner can be, and what a thread that does not own it counts.
OwnerPlace ==
  \A t \in Threads :
    /\ owner = t => mode[t] \in {"running", "restoring"}
    /\ mode[t] = "restoring" => owner = t
    /\ mode[t] \in {"blocking", "timed"} => depth[t] = 0

FifoInv ==
  /\ LockTypeOK
  /\ QueueExact
  /\ NotifiedIsFront
  /\ NoLostWakeup
  /\ OwnerPlace
  /\ DepthAgrees

-----------------------------------------------------------------------------
\* What removing one element of a sequence leaves: the sequence is one shorter
\* and keeps the order of the rest.
LEMMA WithoutType ==
  ASSUME NEW S, NEW s \in Seq(S), NEW i \in 1..Len(s)
  PROVE  /\ Without(s, i) \in Seq(S)
         /\ Len(Without(s, i)) = Len(s) - 1
         /\ \A j \in 1..(Len(s) - 1) :
              Without(s, i)[j] = IF j < i THEN s[j] ELSE s[j + 1]
<1>. DEFINE w == [j \in 1..(Len(s) - 1) |-> IF j < i THEN s[j] ELSE s[j + 1]]
<1>1. Len(s) - 1 \in Nat
  OBVIOUS
<1>2. \A j \in 1..(Len(s) - 1) : (IF j < i THEN s[j] ELSE s[j + 1]) \in S
  OBVIOUS
<1>3. w \in Seq(S) /\ Len(w) = Len(s) - 1
  BY <1>1, <1>2
<1>. QED
  BY <1>3 DEF Without

\* w holds what s holds but y, each element once.
AllBut(w, s, y) ==
  /\ \A x : (\E j \in 1..Len(w) : w[j] = x) <=> (x # y /\ \E j \in 1..Len(s) : s[j] = x)
  /\ \A j, k \in 1..Len(w) : w[j] = w[k] => j = k

\* The members of a duplicate-free sequence after one of them is removed.
LEMMA WithoutMembers ==
  ASSUME NEW S, NEW s \in Seq(S), NEW i \in 1..Len(s),
         \A j, k \in 1..Len(s) : s[j] = s[k] => j = k
  PROVE  AllBut(Without(s, i), s, s[i])
<1>. DEFINE w == Without(s, i)
<1>1. /\ Len(w) = Len(s) - 1
      /\ \A j \in 1..(Len(s) - 1) : w[j] = IF j < i THEN s[j] ELSE s[j + 1]
  BY WithoutType
<1>. HIDE DEF w
<1>2. ASSUME NEW x, NEW j \in 1..Len(w), w[j] = x
      PROVE  x # s[i] /\ \E k \in 1..Len(s) : s[k] = x
  BY <1>1, <1>2
<1>3. ASSUME NEW x, x # s[i], NEW k \in 1..Len(s), s[k] = x
      PROVE  \E j \in 1..Len(w) : w[j] = x
  <2>1. CASE k < i
    <3>1. k \in 1..Len(w) /\ w[k] = x
      BY <1>1, <1>3, <2>1
    <3>. QED
      BY <3>1
  <2>2. CASE k > i
    <3>1. k - 1 \in 1..Len(w) /\ w[k - 1] = x
      BY <1>1, <1>3, <2>2
    <3>. QED
      BY <3>1
  <2>. QED
    BY <1>3, <2>1, <2>2
<1>4. ASSUME NEW j \in 1..Len(w), NEW k \in 1..Len(w), w[j] = w[k]
      PROVE  j = k
  <2>. DEFINE jj == IF j < i THEN j ELSE j + 1
              kk == IF k < i THEN k ELSE k + 1
  <2>1. jj \in 1..Len(s) /\ kk \in 1..Len(s) /\ w[j] = s[jj] /\ w[k] = s[kk]
    BY <1>1
  <2>2. jj = kk
    BY <1>4, <2>1
  <2>. QED
    BY <2>2
<1>. QED
  BY <1>2, <1>3, <1>4 DEF w, AllBut

-----------------------------------------------------------------------------
\* A thread that takes the lock from the front of the queue keeps FifoInv: the
\* step WakeNotified and Expire share.
LEMMA TakeFrontKeeps ==
  ASSUME FifoInv, NEW t \in Threads, mode[t] \in Waiting, AtFrontAndFree(t),
         TakeFront(t), notified' = notified \ {t}
  PROVE  FifoInv'
<1>. USE DEF FifoInv
<1>1. 1 \in 1..Len(waiters) /\ waiters[1] = t /\ owner = NoThread
  BY DEF AtFrontAndFree, LockTypeOK
<1>2. waiters' = Without(waiters, 1) /\ owner' = t /\ count' = 1 /\ savedDepth' = savedDepth
  BY DEF TakeFront
<1>3. notified' = {}
  BY <1>1 DEF NotifiedIsFront
<1>4. \/ mode[t] = "reacquiring" /\ mode' = [mode EXCEPT ![t] = "restoring"]
           /\ depth' = depth
      \/ mode[t] \in {"blocking", "timed"} /\ mode' = [mode EXCEPT ![t] = "running"]
           /\ depth' = [depth EXCEPT ![t] = 1]
  BY DEF TakeFront, Returned, Waiting
<1>5. LockTypeOK'
  <2>1. waiters' \in Seq(Threads)
    BY <1>1, <1>2, WithoutType DEF LockTypeOK
  <2>2. mode' \in [Threads -> Modes] /\ depth' \in [Threads -> 0..MaxDepth]
    <3>1. "restoring" \in Modes /\ "running" \in Modes /\ 1 \in 0..MaxDepth
      BY MaxDepthAssumption DEF Modes
    <3>2. mode \in [Threads -> Modes] /\ depth \in [Threads -> 0..MaxDepth]
      BY DEF LockTypeOK
    <3>. QED
      BY <1>4, <3>1, <3>2
  <2>. QED
    BY <1>2, <1>3, <2>1, <2>2 DEF LockTypeOK
<1>6. QueueExact'
  <2>0. /\ waiters \in Seq(Threads)
        /\ \A j, k \in 1..Len(waiters) : waiters[j] = waiters[k] => j = k
    BY DEF LockTypeOK, QueueExact
  <2>1. /\ \A x : (\E j \in 1..Len(waiters') : waiters'[j] = x)
                     <=> (x # t /\ \E j \in 1..Len(waiters) : waiters[j] = x)
        /\ \A j, k \in 1..Len(waiters') : waiters'[j] = waiters'[k] => j = k
    <3>1. AllBut(Without(waiters, 1), waiters, waiters[1])
      BY <1>1, <2>0, WithoutMembers
    <3>2. AllBut(waiters', waiters, t)
      BY <1>1, <1>2, <3>1
    <3>. QED
      BY <3>2 DEF AllBut
  <2>2. mode'[t] \notin Waiting /\ \A u \in Threads \ {t} : mode'[u] = mode[u]
    BY <1>4 DEF LockTypeOK, Waiting
  <2>. QED
    BY <2>1, <2>2 DEF QueueExact
<1>7. NotifiedIsFront'
  BY <1>3 DEF NotifiedIsFront
<1>8. NoLostWakeup'
  BY <1>2, NoThreadAssumption DEF NoLostWakeup
<1>9. OwnerPlace'
  BY <1>1, <1>2, <1>4, NoThreadAssumption DEF OwnerPlace, LockTypeOK
<1>10. DepthAgrees'
  BY <1>1, <1>2, <1>4, NoThreadAssumption DEF DepthAgrees, OwnerPlace, LockTypeOK
<1>. QED
  BY <1>5, <1>6, <1>7, <1>8, <1>9, <1>10

\* A timed waiter that gives up keeps FifoInv: it was not the one the free lock
\* was handed to.
LEMMA GiveUpKeeps ==
  ASSUME FifoInv, NEW t \in Threads, mode[t] = "timed", ~AtFrontAndFree(t),
         GiveUp(t), notified' = notified \ {t}
  PROVE  FifoInv'
<1>. USE DEF FifoInv
<1>1. PICK i \in 1..Len(waiters) : waiters[i] = t /\ waiters' = Without(waiters, i)
  BY DEF GiveUp
<1>2. /\ mode' = [mode EXCEPT ![t] = "running"]
      /\ owner' = owner /\ count' = count /\ depth' = depth /\ savedDepth' = savedDepth
  BY DEF GiveUp
<1>3. /\ waiters \in Seq(Threads)
      /\ \A j, k \in 1..Len(waiters) : waiters[j] = waiters[k] => j = k
  BY DEF LockTypeOK, QueueExact
<1>4. t \notin notified /\ notified' = notified
  BY DEF NotifiedIsFront, AtFrontAndFree, LockTypeOK
<1>5. /\ waiters' \in Seq(Threads)
      /\ Len(waiters') = Len(waiters) - 1
      /\ \A j \in 1..(Len(waiters) - 1) :
           waiters'[j] = IF j < i THEN waiters[j] ELSE waiters[j + 1]
  BY ONLY <1>1, <1>3, WithoutType
<1>6. owner = NoThread => i # 1
  BY <1>1, <1>3 DEF AtFrontAndFree
<1>7. LockTypeOK'
  <2>1. mode' \in [Threads -> Modes]
    BY <1>2 DEF LockTypeOK, Modes
  <2>. QED
    BY <1>2, <1>4, <1>5, <2>1 DEF LockTypeOK
<1>8. QueueExact'
  <2>0. AllBut(Without(waiters, i), waiters, waiters[i])
    BY <1>3, WithoutMembers
  <2>1. /\ \A x : (\E j \in 1..Len(waiters') : waiters'[j] = x)
                     <=> (x # t /\ \E j \in 1..Len(waiters) : waiters[j] = x)
        /\ \A j, k \in 1..Len(waiters') : waiters'[j] = waiters'[k] => j = k
    <3>1. AllBut(waiters', waiters, t)
      BY <1>1, <2>0
    <3>. QED
      BY <3>1 DEF AllBut
  <2>2. mode'[t] \notin Waiting /\ \A u \in Threads \ {t} : mode'[u] = mode[u]
    BY <1>2 DEF LockTypeOK, Waiting
  <2>. QED
    BY <2>1, <2>2 DEF QueueExact
<1>9. owner = NoThread /\ waiters' # <<>> =>
        waiters # <<>> /\ waiters'[1] = waiters[1]
  BY <1>1, <1>3, <1>5, <1>6
<1>10. NotifiedIsFront'
  <2>. SUFFICES ASSUME NEW u \in notified
               PROVE  owner = NoThread /\ waiters' # <<>> /\ waiters'[1] = u
    BY <1>2, <1>4 DEF NotifiedIsFront
  <2>1. owner = NoThread /\ waiters # <<>> /\ waiters[1] = u
    BY DEF NotifiedIsFront
  <2>2. Len(waiters) > 1
    BY <1>1, <1>3, <1>6, <2>1
  <2>. QED
    BY <1>5, <1>9, <2>1, <2>2
<1>11. NoLostWakeup'
  BY <1>2, <1>3, <1>4, <1>5, <1>9 DEF NoLostWakeup
<1>12. OwnerPlace'
  BY <1>2 DEF OwnerPlace, LockTypeOK
<1>13. DepthAgrees'
  BY <1>2 DEF DepthAgrees, OwnerPlace, LockTypeOK
<1>. QED
  BY <1>7, <1>8, <1>10, <1>11, <1>12, <1>13

\* Waking the front waiter of a lock that was held: the front is notified and
\* nobody else was.
LEMMA NotifyFrontNotifies ==
  ASSUME FifoInv, owner # NoThread, NotifyFront
  PROVE  /\ notified' \in SUBSET Threads
         /\ \A u \in notified' : waiters # <<>> /\ waiters[1] = u
         /\ waiters # <<>> => Head(waiters) \in notified'
<1>1. notified = {}
  BY DEF FifoInv, NotifiedIsFront
<1>2. waiters \in Seq(Threads)
  BY DEF FifoInv, LockTypeOK
<1>3. CASE waiters = <<>>
  BY <1>1, <1>3 DEF NotifyFront
<1>4. CASE waiters # <<>>
  <2>1. notified' = {Head(waiters)} /\ Head(waiters) = waiters[1] /\ Head(waiters) \in Threads
    BY <1>1, <1>2, <1>4 DEF NotifyFront
  <2>. QED
    BY <1>4, <2>1
<1>. QED
  BY <1>3, <1>4

-----------------------------------------------------------------------------
\* The initial state satisfies FifoInv.
LEMMA FifoInvInit == LockInit => FifoInv
<1>. SUFFICES ASSUME LockInit PROVE FifoInv
  OBVIOUS
<1>1. LockTypeOK
  BY MaxDepthAssumption DEF LockInit, LockTypeOK, Modes
<1>2. QueueExact /\ NotifiedIsFront /\ NoLostWakeup
  BY DEF LockInit, QueueExact, NotifiedIsFront, NoLostWakeup, Waiting
<1>3. OwnerPlace /\ DepthAgrees
  BY NoThreadAssumption DEF LockInit, OwnerPlace, DepthAgrees
<1>. QED
  BY <1>1, <1>2, <1>3 DEF FifoInv

\* Every step of the lock keeps FifoInv.
LEMMA FifoInvNext == FifoInv /\ [LockNext]_lockVars => FifoInv'
<1>. SUFFICES ASSUME FifoInv, [LockNext]_lockVars PROVE FifoInv'
  OBVIOUS
<1>. USE DEF FifoInv
<1>1. CASE UNCHANGED lockVars
  BY <1>1 DEF lockVars, LockTypeOK, QueueExact, NotifiedIsFront, NoLostWakeup, OwnerPlace,
              DepthAgrees
<1>2. ASSUME NEW t \in Threads, AcquireReentrant(t) PROVE FifoInv'
  <2>1. /\ mode[t] = "running" /\ owner = t /\ depth[t] < MaxDepth
        /\ count' = count + 1 /\ depth' = [depth EXCEPT ![t] = @ + 1]
        /\ owner' = owner /\ waiters' = waiters /\ notified' = notified
        /\ mode' = mode /\ savedDepth' = savedDepth
    BY <1>2 DEF AcquireReentrant
  <2>2. LockTypeOK'
    BY <2>1, MaxDepthAssumption DEF LockTypeOK
  <2>3. QueueExact' /\ NotifiedIsFront' /\ NoLostWakeup'
    BY <2>1 DEF QueueExact, NotifiedIsFront, NoLostWakeup
  <2>4. OwnerPlace' /\ DepthAgrees'
    BY <2>1 DEF OwnerPlace, DepthAgrees, LockTypeOK
  <2>. QED
    BY <2>2, <2>3, <2>4
<1>3. ASSUME NEW t \in Threads, AcquireFree(t) PROVE FifoInv'
  <2>1. /\ owner = NoThread /\ waiters = <<>> /\ owner' = t /\ count' = 1
        /\ waiters' = waiters /\ notified' = notified /\ savedDepth' = savedDepth
    BY <1>3 DEF AcquireFree
  <2>2. \/ mode[t] = "parked" /\ mode' = [mode EXCEPT ![t] = "restoring"]
             /\ depth' = depth
        \/ mode[t] = "running" /\ mode' = mode /\ depth' = [depth EXCEPT ![t] = 1]
    BY <1>3 DEF AcquireFree, Returned, LockTypeOK
  <2>3. notified = {}
    BY <2>1 DEF NotifiedIsFront
  <2>4. LockTypeOK'
    <3>1. "restoring" \in Modes /\ 1 \in 0..MaxDepth
      BY MaxDepthAssumption DEF Modes
    <3>. QED
      BY <2>1, <2>2, <3>1 DEF LockTypeOK
  <2>5. QueueExact'
    BY <2>1, <2>2 DEF QueueExact, LockTypeOK, Waiting
  <2>6. NotifiedIsFront' /\ NoLostWakeup'
    BY <2>1, <2>3 DEF NotifiedIsFront, NoLostWakeup
  <2>7. OwnerPlace' /\ DepthAgrees'
    BY <2>1, <2>2, NoThreadAssumption DEF OwnerPlace, DepthAgrees, LockTypeOK
  <2>. QED
    BY <2>4, <2>5, <2>6, <2>7
<1>4. ASSUME NEW t \in Threads, NEW m \in Waiting, AcquireWait(t, m) PROVE FifoInv'
  <2>1. /\ mode[t] \in {"running", "parked"} /\ owner # t
        /\ ~(owner = NoThread /\ waiters = <<>>)
        /\ waiters' = Append(waiters, t) /\ mode' = [mode EXCEPT ![t] = m]
        /\ owner' = owner /\ count' = count /\ notified' = notified
        /\ depth' = depth /\ savedDepth' = savedDepth
        /\ mode[t] = "parked" <=> m = "reacquiring"
    BY <1>4 DEF AcquireWait
  <2>2. waiters \in Seq(Threads) /\ t \in Threads /\ mode[t] \notin Waiting
    BY <2>1 DEF LockTypeOK, Waiting
  <2>3. /\ waiters' \in Seq(Threads) /\ Len(waiters') = Len(waiters) + 1
        /\ waiters'[Len(waiters) + 1] = t
        /\ \A i \in 1..Len(waiters) : waiters'[i] = waiters[i]
    BY <2>1, <2>2
  <2>4. LockTypeOK'
    BY <2>1, <2>3 DEF LockTypeOK, Modes
  <2>5. \A i \in 1..Len(waiters) : waiters[i] # t
    BY <2>2 DEF QueueExact
  <2>6. QueueExact'
    <3>1. ASSUME NEW u \in Threads
          PROVE  mode'[u] \in Waiting <=> \E i \in 1..Len(waiters') : waiters'[i] = u
      <4>1. CASE u = t
        <5>1. Len(waiters) + 1 \in 1..Len(waiters')
          BY <2>2, <2>3
        <5>2. mode'[u] \in Waiting
          BY <2>1, <4>1 DEF LockTypeOK
        <5>. QED
          BY <2>3, <4>1, <5>1, <5>2
      <4>2. CASE u # t
        <5>1. mode'[u] = mode[u]
          BY <2>1, <4>2 DEF LockTypeOK
        <5>2. (\E i \in 1..Len(waiters') : waiters'[i] = u)
                <=> (\E i \in 1..Len(waiters) : waiters[i] = u)
          BY <2>2, <2>3, <4>2
        <5>. QED
          BY <5>1, <5>2 DEF QueueExact
      <4>. QED
        BY <4>1, <4>2
    <3>2. ASSUME NEW i \in 1..Len(waiters'), NEW j \in 1..Len(waiters'),
                 waiters'[i] = waiters'[j]
          PROVE  i = j
      BY <2>2, <2>3, <2>5, <3>2 DEF QueueExact
    <3>. QED
      BY <3>1, <3>2 DEF QueueExact
  <2>7. waiters # <<>> => waiters' # <<>> /\ waiters'[1] = waiters[1]
    BY <2>2, <2>3
  <2>8. NotifiedIsFront'
    BY <2>1, <2>7 DEF NotifiedIsFront
  <2>9. NoLostWakeup'
    BY <2>1, <2>2, <2>3, <2>7 DEF NoLostWakeup
  <2>10. OwnerPlace' /\ DepthAgrees'
    BY <2>1 DEF OwnerPlace, DepthAgrees, LockTypeOK, Waiting
  <2>. QED
    BY <2>4, <2>6, <2>8, <2>9, <2>10
<1>5. ASSUME NEW t \in Threads, WakeNotified(t) PROVE FifoInv'
  <2>1. AtFrontAndFree(t)
    BY <1>5 DEF WakeNotified, AtFrontAndFree, NotifiedIsFront, LockTypeOK
  <2>. QED
    BY <1>5, <2>1, TakeFrontKeeps DEF WakeNotified
<1>6. ASSUME NEW t \in Threads, Expire(t) PROVE FifoInv'
  <2>1. mode[t] = "timed" /\ mode[t] \in Waiting /\ notified' = notified \ {t}
    BY <1>6 DEF Expire, Waiting
  <2>2. CASE AtFrontAndFree(t)
    BY <1>6, <2>1, <2>2, TakeFrontKeeps DEF Expire
  <2>3. CASE ~AtFrontAndFree(t)
    BY <1>6, <2>1, <2>3, GiveUpKeeps DEF Expire
  <2>. QED
    BY <2>2, <2>3
<1>7. ASSUME NEW t \in Threads, Release(t) PROVE FifoInv'
  <2>1. /\ mode[t] = "running" /\ owner = t /\ count' = count - 1
        /\ depth' = [depth EXCEPT ![t] = @ - 1]
        /\ waiters' = waiters /\ mode' = mode /\ savedDepth' = savedDepth
    BY <1>7 DEF Release
  <2>2. count = depth[t] /\ depth[t] \in 1..MaxDepth
    BY <2>1, MaxDepthAssumption DEF DepthAgrees, LockTypeOK
  <2>3. CASE count = 1
    <3>1. owner' = NoThread /\ NotifyFront
      BY <1>7, <2>3 DEF Release
    <3>2. /\ notified' \in SUBSET Threads
          /\ \A u \in notified' : waiters # <<>> /\ waiters[1] = u
          /\ waiters # <<>> => Head(waiters) \in notified'
      BY <2>1, <3>1, NotifyFrontNotifies, NoThreadAssumption
    <3>3. LockTypeOK'
      BY <2>1, <2>2, <3>1, <3>2, MaxDepthAssumption DEF LockTypeOK
    <3>4. QueueExact' /\ NotifiedIsFront' /\ NoLostWakeup'
      BY <2>1, <3>1, <3>2 DEF QueueExact, NotifiedIsFront, NoLostWakeup
    <3>5. OwnerPlace' /\ DepthAgrees'
      BY <2>1, <2>2, <2>3, <3>1, NoThreadAssumption DEF OwnerPlace, DepthAgrees, LockTypeOK
    <3>. QED
      BY <3>3, <3>4, <3>5
  <2>4. CASE count # 1
    <3>1. owner' = owner /\ notified' = notified
      BY <1>7, <2>4 DEF Release
    <3>2. LockTypeOK'
      BY <2>1, <2>2, <3>1, MaxDepthAssumption DEF LockTypeOK
    <3>3. QueueExact' /\ NotifiedIsFront' /\ NoLostWakeup'
      BY <2>1, <3>1 DEF QueueExact, NotifiedIsFront, NoLostWakeup
    <3>4. OwnerPlace' /\ DepthAgrees'
      BY <2>1, <2>2, <2>4, <3>1 DEF OwnerPlace, DepthAgrees, LockTypeOK
    <3>. QED
      BY <3>2, <3>3, <3>4
  <2>. QED
    BY <2>3, <2>4
<1>8. ASSUME NEW t \in Threads, ReleaseAll(t) PROVE FifoInv'
  <2>1. /\ mode[t] = "running" /\ owner = t /\ count' = 0 /\ owner' = NoThread
        /\ savedDepth' = [savedDepth EXCEPT ![t] = count] /\ NotifyFront
        /\ mode' = [mode EXCEPT ![t] = "parked"]
        /\ waiters' = waiters /\ depth' = depth
    BY <1>8 DEF ReleaseAll
  <2>2. count = depth[t] /\ depth[t] \in 1..MaxDepth
    BY <2>1, MaxDepthAssumption DEF DepthAgrees, LockTypeOK
  <2>3. /\ notified' \in SUBSET Threads
        /\ \A u \in notified' : waiters # <<>> /\ waiters[1] = u
        /\ waiters # <<>> => Head(waiters) \in notified'
    BY <2>1, NotifyFrontNotifies, NoThreadAssumption
  <2>4. LockTypeOK'
    <3>1. "parked" \in Modes
      BY DEF Modes
    <3>. QED
      BY <2>1, <2>2, <2>3, <3>1, MaxDepthAssumption DEF LockTypeOK
  <2>5. QueueExact'
    BY SMTT(40), <2>1 DEF QueueExact, LockTypeOK, Waiting
  <2>6. NotifiedIsFront' /\ NoLostWakeup'
    BY <2>1, <2>3 DEF NotifiedIsFront, NoLostWakeup
  <2>7. OwnerPlace' /\ DepthAgrees'
    BY <2>1, <2>2, NoThreadAssumption DEF OwnerPlace, DepthAgrees, LockTypeOK
  <2>. QED
    BY <2>4, <2>5, <2>6, <2>7
<1>9. ASSUME NEW t \in Threads, RestoreDepth(t) PROVE FifoInv'
  <2>1. /\ mode[t] = "restoring" /\ count' = savedDepth[t]
        /\ mode' = [mode EXCEPT ![t] = "running"] /\ savedDepth' = [savedDepth EXCEPT ![t] = 0]
        /\ owner' = owner /\ waiters' = waiters /\ notified' = notified /\ depth' = depth
    BY <1>9 DEF RestoreDepth
  <2>2. owner = t /\ savedDepth[t] = depth[t] /\ depth[t] > 0
    BY <2>1 DEF OwnerPlace, DepthAgrees
  <2>3. LockTypeOK'
    <3>1. "running" \in Modes
      BY DEF Modes
    <3>. QED
      BY <2>1, <3>1, MaxDepthAssumption DEF LockTypeOK
  <2>4. QueueExact'
    BY <2>1 DEF QueueExact, LockTypeOK, Waiting
  <2>5. NotifiedIsFront' /\ NoLostWakeup'
    BY <2>1 DEF NotifiedIsFront, NoLostWakeup
  <2>6. OwnerPlace' /\ DepthAgrees'
    BY <2>1, <2>2 DEF OwnerPlace, DepthAgrees, LockTypeOK
  <2>. QED
    BY <2>3, <2>4, <2>5, <2>6
<1>. QED
  BY <1>1, <1>2, <1>3, <1>4, <1>5, <1>6, <1>7, <1>8, <1>9 DEF LockNext, Step

\* FifoInv holds in every reachable state, for any number of threads.
LEMMA FifoInvHolds == LockSpec => []FifoInv
  BY FifoInvInit, FifoInvNext, PTL DEF LockSpec

-----------------------------------------------------------------------------
\* The fields of the lock and the positions of its users keep their types;
\* in particular _count never goes below zero.
THEOREM LockTypeCorrect == LockSpec => []LockTypeOK
  BY FifoInvHolds, PTL DEF FifoInv

\* Whenever the lock is free and threads wait, the first of them has been
\* notified: release(), release_all() and waiters whose timeout expires never
\* leave the queue asleep.
THEOREM NeverLosesWakeup == LockSpec => []NoLostWakeup
  BY FifoInvHolds, PTL DEF FifoInv

\* The owner and the reentrancy count are what the threads' nested `with`
\* blocks make them, across release_all() and reacquire() too.
THEOREM DepthCorrect == LockSpec => []DepthAgrees
  BY FifoInvHolds, PTL DEF FifoInv

\* The lock implements the abstract fair mutex (its safety part): mutual
\* exclusion, first come first served, and no barging past the queue.
THEOREM RefinesFairMutex == LockSpec => Abstract!SafeSpec
<1>. USE DEF Abstract!vars, Abstract!Next, Abstract!TakeFree, Abstract!Join,
             Abstract!Grant, Abstract!Leave, Abstract!Drop, Abstract!Without, Without
<1>1. LockInit => Abstract!Init
  BY DEF LockInit, Abstract!Init
<1>2. FifoInv /\ [LockNext]_lockVars => [Abstract!Next]_(Abstract!vars)
  <2>. SUFFICES ASSUME FifoInv, [LockNext]_lockVars PROVE [Abstract!Next]_(Abstract!vars)
    OBVIOUS
  <2>1. CASE UNCHANGED lockVars
    BY <2>1 DEF lockVars
  <2>2. ASSUME NEW t \in Threads, AcquireReentrant(t) \/ RestoreDepth(t)
        PROVE  UNCHANGED Abstract!vars
    BY <2>2 DEF AcquireReentrant, RestoreDepth
  <2>3. ASSUME NEW t \in Threads, AcquireFree(t) PROVE Abstract!TakeFree(t)
    BY <2>3 DEF AcquireFree
  <2>4. ASSUME NEW t \in Threads, NEW m \in Waiting, AcquireWait(t, m)
        PROVE  Abstract!Join(t)
    BY <2>4 DEF AcquireWait, FifoInv, QueueExact, Waiting, Abstract!Queued
  <2>5. ASSUME NEW t \in Threads, WakeNotified(t)
        PROVE  Abstract!Grant \/ UNCHANGED Abstract!vars
    BY <2>5 DEF WakeNotified, AtFrontAndFree, TakeFront
  <2>6. ASSUME NEW t \in Threads, Expire(t)
        PROVE  Abstract!Grant \/ \E i \in 1..Len(waiters) : Abstract!Leave(i)
    BY <2>6 DEF Expire, AtFrontAndFree, TakeFront, GiveUp
  <2>7. ASSUME NEW t \in Threads, Release(t) \/ ReleaseAll(t)
        PROVE  Abstract!Drop(t) \/ UNCHANGED Abstract!vars
    BY <2>7 DEF Release, ReleaseAll
  <2>. QED
    BY <2>1, <2>2, <2>3, <2>4, <2>5, <2>6, <2>7 DEF LockNext, Step
<1>. QED
  BY <1>1, <1>2, FifoInvHolds, PTL DEF LockSpec, Abstract!SafeSpec

-----------------------------------------------------------------------------
(* Paths in a log *)

Event == [id : Nat, kind : {"msg", "act", "res"}, call : Nat, parent : Int]

\* A log as append() leaves it, and as lost files leave it: ids go up, and an event
\* is younger than its explicit parent.
WellFormed(s) ==
  /\ s \in Seq(Event)
  /\ \A i \in 1..Len(s) : s[i].id > 0 /\ s[i].parent < s[i].id
  /\ \A i, j \in 1..Len(s) : i < j => s[i].id < s[j].id

\* The place of an event's effective parent, 0 for a root.
ParentIndex(s, i) == IndexIn(s, EffectiveParent(s, i))

\* A non-empty set of naturals has a least element: what follows is by induction,
\* as the search for a least counterexample.
LEMMA LeastExists ==
  ASSUME NEW S \in SUBSET Nat, S # {}
  PROVE  \E x \in S : \A y \in S : x <= y
<1>1. PICK x \in S : \A y \in S : ~(<<y, x>> \in OpToRel(<, Nat))
  BY NatLessThanWellFounded, WFMin
<1>2. ASSUME NEW y \in S, y < x PROVE FALSE
  <2>1. <<y, x>> \in OpToRel(<, Nat)
    BY <1>2 DEF OpToRel
  <2>. QED
    BY <1>1, <2>1
<1>. QED
  BY <1>2

\* The types in a well-formed log.
LEMMA LogTypes ==
  ASSUME NEW s, WellFormed(s)
  PROVE  /\ Len(s) \in Nat /\ s \in Seq(Event)
         /\ \A i \in 1..Len(s) :
              /\ s[i] \in Event /\ s[i].id \in Nat /\ s[i].id # 0 /\ s[i].call \in Nat
              /\ s[i].parent \in Int /\ s[i].parent < s[i].id
<1>1. Len(s) \in Nat /\ s \in Seq(Event)
  BY DEF WellFormed
<1>2. \A i \in 1..Len(s) : s[i] \in Event
  BY <1>1
<1>3. \A e \in Event : e.id \in Nat /\ e.call \in Nat /\ e.parent \in Int
  BY DEF Event
<1>. QED
  BY <1>1, <1>2, <1>3 DEF WellFormed

\* get_index finds the event with the id, and 0 when there is none.
LEMMA IndexRange ==
  ASSUME NEW s, Len(s) \in Nat, NEW id
  PROVE  /\ IndexIn(s, id) \in 0..Len(s)
         /\ IndexIn(s, id) # 0 => s[IndexIn(s, id)].id = id
         /\ IndexIn(s, id) = 0 <=> \A i \in 1..Len(s) : s[i].id # id
<1>1. CASE \E i \in 1..Len(s) : s[i].id = id
  <2>. DEFINE c == CHOOSE i \in 1..Len(s) : s[i].id = id
  <2>1. c \in 1..Len(s) /\ s[c].id = id
    BY <1>1
  <2>2. IndexIn(s, id) = c
    BY <1>1 DEF IndexIn
  <2>. HIDE DEF c
  <2>. QED
    BY <2>1, <2>2
<1>2. CASE ~ \E i \in 1..Len(s) : s[i].id = id
  <2>1. IndexIn(s, id) = 0
    BY <1>2 DEF IndexIn
  <2>. QED
    BY <2>1, <1>2
<1>. QED
  BY <1>1, <1>2

\* In a well-formed log an event is found at its own place.
LEMMA IndexOf ==
  ASSUME NEW s, WellFormed(s), NEW i \in 1..Len(s)
  PROVE  IndexIn(s, s[i].id) = i
<1>1. Len(s) \in Nat
  BY LogTypes
<1>. DEFINE k == IndexIn(s, s[i].id)
<1>2. k \in 1..Len(s) /\ s[k].id = s[i].id
  BY <1>1, IndexRange
<1>3. s[k].id \in Nat /\ s[i].id \in Nat
  BY <1>2, LogTypes
<1>. HIDE DEF k
<1>4. k = i
  BY <1>1, <1>2, <1>3 DEF WellFormed
<1>. QED
  BY <1>4 DEF k

\* An effective parent is no event, or an event further up in the log.
LEMMA ParentBefore ==
  ASSUME NEW s, WellFormed(s), NEW i \in 1..Len(s)
  PROVE  /\ ParentIndex(s, i) \in 0..(i - 1)
         /\ ParentIndex(s, i) = 0 => EffectiveParent(s, i) = NoId
         /\ ParentIndex(s, i) # 0 => EffectiveParent(s, i) = s[ParentIndex(s, i)].id
<1>1. Len(s) \in Nat /\ s[i] \in Event
  BY LogTypes
<1>2. IndexIn(s, NoId) = 0
  <2>1. \A j \in 1..Len(s) : s[j].id # NoId
    BY LogTypes DEF NoId
  <2>. QED
    BY <1>1, <2>1, IndexRange
<1>3. CASE s[i].parent # RootId /\ s[i].parent # NoId /\ IndexIn(s, s[i].parent) # 0
  <2>. DEFINE k == IndexIn(s, s[i].parent)
  <2>1. EffectiveParent(s, i) = s[i].parent
    BY <1>3 DEF EffectiveParent
  <2>2. k \in 1..Len(s) /\ s[k].id = s[i].parent
    BY <1>1, <1>3, IndexRange
  <2>3. s[k].id < s[i].id /\ s[k].id \in Nat /\ s[i].id \in Nat
    BY <2>2, LogTypes
  <2>. HIDE DEF k
  <2>4. k < i
    BY <1>1, <2>2, <2>3 DEF WellFormed
  <2>. QED
    BY <1>1, <2>1, <2>2, <2>4 DEF ParentIndex, k
<1>4. CASE s[i].parent = RootId
  <2>1. EffectiveParent(s, i) = NoId
    BY <1>4 DEF EffectiveParent
  <2>. QED
    BY <1>1, <1>2, <2>1 DEF ParentIndex
<1>5. CASE s[i].parent # RootId /\ (s[i].parent = NoId \/ IndexIn(s, s[i].parent) = 0)
  <2>1. EffectiveParent(s, i) = IF i = 1 THEN NoId ELSE s[i - 1].id
    BY <1>5 DEF EffectiveParent
  <2>2. CASE i = 1
    BY <1>1, <1>2, <2>1, <2>2 DEF ParentIndex
  <2>3. CASE i # 1
    <3>1. i - 1 \in 1..Len(s)
      BY <1>1, <2>3
    <3>2. ParentIndex(s, i) = i - 1
      BY <2>1, <2>3, <3>1, IndexOf DEF ParentIndex
    <3>. QED
      BY <2>1, <2>3, <3>1, <3>2
  <2>. QED
    BY <2>2, <2>3
<1>. QED
  BY <1>3, <1>4, <1>5

\* f satisfies the recursion of path_to_root for the first m events of s.
Unfolds(f, m, par, s) ==
  f = [i \in 0..m |-> IF i = 0 THEN <<>> ELSE Append(f[par[i]], s[i])]

\* The recursion of path_to_root has a solution, since parents come first.
LEMMA PathExists ==
  ASSUME NEW E, NEW s \in Seq(E), NEW par \in [1..Len(s) -> Nat],
         \A i \in 1..Len(s) : par[i] < i
  PROVE  \E f \in [0..Len(s) -> Seq(E)] : Unfolds(f, Len(s), par, s)
<1>. DEFINE Ok(m) == \E f \in [0..m -> Seq(E)] : Unfolds(f, m, par, s)
            Bad == {m \in 0..Len(s) : ~Ok(m)}
<1>1. Len(s) \in Nat
  OBVIOUS
<1>2. SUFFICES ASSUME Bad # {} PROVE FALSE
  <2>1. Ok(Len(s))
    BY <1>1, <1>2
  <2>. QED
    BY <2>1
<1>3. PICK m \in Bad : \A y \in Bad : m <= y
  <2>. HIDE DEF Ok
  <2>1. Bad \subseteq Nat
    BY <1>1
  <2>. QED
    BY <1>2, <2>1, LeastExists
<1>4. m \in 0..Len(s) /\ ~Ok(m)
  OBVIOUS
<1>5. CASE m = 0
  <2>. DEFINE f == [i \in 0..0 |-> <<>>]
  <2>1. Unfolds(f, 0, par, s)
    BY DEF Unfolds
  <2>2. f \in [0..0 -> Seq(E)]
    OBVIOUS
  <2>3. Ok(0)
    BY <2>1, <2>2
  <2>. QED
    BY <1>4, <1>5, <2>3
<1>6. CASE m # 0
  <2>1. Ok(m - 1)
    <3>. HIDE DEF Ok
    <3>. QED
      BY <1>1, <1>3, <1>4, <1>6
  <2>2. PICK f \in [0..(m - 1) -> Seq(E)] : Unfolds(f, m - 1, par, s)
    BY <2>1
  <2>. DEFINE g == [i \in 0..m |-> IF i < m THEN f[i] ELSE Append(f[par[m]], s[m])]
  <2>3. ASSUME NEW i \in 1..m PROVE par[i] \in 0..(m - 1) /\ s[i] \in E
    <3>1. i \in 1..Len(s) /\ i \in Nat /\ m \in Nat
      BY <1>1, <1>4, <2>3
    <3>2. par[i] \in Nat /\ par[i] < i
      BY <3>1
    <3>. QED
      BY <3>1, <3>2
  <2>4. g \in [0..m -> Seq(E)]
    BY <1>1, <1>4, <1>6, <2>3
  <2>5. ASSUME NEW i \in 0..m
        PROVE  g[i] = IF i = 0 THEN <<>> ELSE Append(g[par[i]], s[i])
    <3>1. CASE i < m
      <4>1. i \in 0..(m - 1)
        BY <1>1, <1>4, <1>6, <3>1
      <4>2. f[i] = IF i = 0 THEN <<>> ELSE Append(f[par[i]], s[i])
        BY <2>2, <4>1 DEF Unfolds
      <4>3. ASSUME i # 0 PROVE g[par[i]] = f[par[i]]
        <5>1. i \in 1..m /\ m \in Nat
          BY <1>1, <1>4, <4>3
        <5>2. par[i] \in 0..(m - 1)
          BY <2>3, <5>1
        <5>. QED
          BY <5>1, <5>2
      <4>4. g[i] = f[i]
        BY SMTT(40), <3>1
      <4>. QED
        BY <4>2, <4>3, <4>4
    <3>2. CASE i = m
      <4>1. g[par[m]] = f[par[m]]
        BY <1>1, <1>4, <1>6, <2>3
      <4>2. g[m] = Append(f[par[m]], s[m])
        BY <1>1, <1>4
      <4>. QED
        BY <1>6, <3>2, <4>1, <4>2
    <3>. QED
      BY <1>1, <1>4, <3>1, <3>2
  <2>6. Unfolds(g, m, par, s)
    <3>. HIDE DEF g
    <3>. QED
      BY <2>4, <2>5 DEF Unfolds
  <2>. QED
    BY <1>4, <2>4, <2>6
<1>. QED
  BY <1>5, <1>6

\* What path_to_root returns: nothing for an unknown leaf, else the path of the
\* effective parent with the leaf at its end.
LEMMA PathUnfold ==
  ASSUME NEW s, WellFormed(s)
  PROVE  /\ \A id : /\ PathToRoot(s, id) \in Seq(Event)
                    /\ IndexIn(s, id) = 0 => PathToRoot(s, id) = <<>>
         /\ \A i \in 1..Len(s) :
              PathToRoot(s, s[i].id) = Append(PathToRoot(s, EffectiveParent(s, i)), s[i])
<1>. DEFINE par == [i \in 1..Len(s) |-> ParentIndex(s, i)]
            F(f) == [i \in 0..Len(s) |-> IF i = 0 THEN <<>>
                       ELSE Append(f[IndexIn(s, EffectiveParent(s, i))], s[i])]
            p == CHOOSE f : f = F(f)
<1>1. \A id : PathToRoot(s, id) = p[IndexIn(s, id)]
  BY Zenon DEF PathToRoot
<1>2. Len(s) \in Nat /\ s \in Seq(Event)
  BY DEF WellFormed
<1>3. par \in [1..Len(s) -> Nat] /\ \A i \in 1..Len(s) : par[i] < i
  <2>1. \A i \in 1..Len(s) : ParentIndex(s, i) \in 0..(i - 1)
    BY ParentBefore
  <2>. QED
    BY <1>2, <2>1
<1>4. PICK f \in [0..Len(s) -> Seq(Event)] : Unfolds(f, Len(s), par, s)
  <2>. HIDE DEF par
  <2>. QED
    BY <1>2, <1>3, PathExists
<1>5. f = F(f)
  BY <1>2, <1>4 DEF Unfolds, ParentIndex
<1>6. p = F(p)
  <2>. HIDE DEF F
  <2>. QED
    BY <1>5
<1>. HIDE DEF p
<1>7. /\ p[0] = <<>>
      /\ \A i \in 1..Len(s) : p[i] = Append(p[ParentIndex(s, i)], s[i])
  <2>1. ASSUME NEW i \in 0..Len(s)
        PROVE  p[i] = IF i = 0 THEN <<>> ELSE Append(p[ParentIndex(s, i)], s[i])
    <3>1. F(p)[i] = IF i = 0 THEN <<>> ELSE Append(p[ParentIndex(s, i)], s[i])
      BY DEF ParentIndex
    <3>2. p[i] = F(p)[i]
      <4>. HIDE DEF F
      <4>. QED
        BY <1>6
    <3>. QED
      BY <3>1, <3>2
  <2>2. 0 \in 0..Len(s) /\ \A i \in 1..Len(s) : i \in 0..Len(s) /\ i # 0
    BY <1>2
  <2>. QED
    BY <2>1, <2>2
<1>8. \A i \in 0..Len(s) : p[i] \in Seq(Event)
  <2>. DEFINE Bad == {i \in 0..Len(s) : p[i] \notin Seq(Event)}
  <2>1. SUFFICES ASSUME Bad # {} PROVE FALSE
    BY <2>1
  <2>2. PICK m \in Bad : \A y \in Bad : m <= y
    <3>1. Bad \in SUBSET Nat
      BY <1>2
    <3>. QED
      BY <2>1, <3>1, LeastExists
  <2>3. m \in 0..Len(s) /\ m # 0 /\ p[m] \notin Seq(Event)
    <3>1. <<>> \in Seq(Event)
      OBVIOUS
    <3>. QED
      BY <1>7, <3>1
  <2>4. m \in 1..Len(s) /\ m \in Nat
    BY <1>2, <2>3
  <2>5. ParentIndex(s, m) \in 0..(m - 1)
    BY <2>4, ParentBefore
  <2>6. p[ParentIndex(s, m)] \in Seq(Event)
    BY <1>2, <2>2, <2>4, <2>5
  <2>7. s[m] \in Event
    BY <2>4, LogTypes
  <2>8. Append(p[ParentIndex(s, m)], s[m]) \in Seq(Event)
    BY <2>6, <2>7
  <2>. QED
    BY <1>7, <2>3, <2>4, <2>8
<1>9. \A id : IndexIn(s, id) \in 0..Len(s)
  BY <1>2, IndexRange
<1>10. ASSUME NEW i \in 1..Len(s)
       PROVE  PathToRoot(s, s[i].id) = Append(PathToRoot(s, EffectiveParent(s, i)), s[i])
  BY <1>1, <1>7, IndexOf DEF ParentIndex
<1>. QED
  BY <1>1, <1>7, <1>8, <1>9, <1>10

\* Strong induction over 1..n, with the set of the numbers that have the property.
LEMMA Induction ==
  ASSUME NEW n \in Nat, NEW T,
         \A m \in 1..n : (\A k \in 1..(m - 1) : k \in T) => m \in T
  PROVE  \A m \in 1..n : m \in T
<1>. DEFINE Bad == {m \in 1..n : m \notin T}
<1>1. SUFFICES ASSUME Bad # {} PROVE FALSE
  BY <1>1
<1>2. PICK m \in Bad : \A y \in Bad : m <= y
  <2>1. Bad \in SUBSET Nat
    OBVIOUS
  <2>. QED
    BY <1>1, <2>1, LeastExists
<1>3. \A k \in 1..(m - 1) : k \in T
  BY <1>2
<1>. QED
  BY <1>3

\* What one more event at the end of a path adds to it.
LEMMA AppendSets ==
  ASSUME NEW p \in Seq(Event), NEW e \in Event
  PROVE  /\ IdsOf(Append(p, e)) = IdsOf(p) \cup {e.id}
         /\ ActionsIn(Append(p, e)) = ActionsIn(p) \cup (IF e.kind = "act" THEN {e.id} ELSE {})
         /\ AnsweredIn(Append(p, e)) = AnsweredIn(p) \cup (IF e.kind = "res" THEN {e.call} ELSE {})
<1>. DEFINE q == Append(p, e)
<1>1. /\ Len(p) \in Nat /\ Len(q) = Len(p) + 1
      /\ q[Len(p) + 1] = e /\ \A i \in 1..Len(p) : q[i] = p[i]
  OBVIOUS
<1>2. 1..Len(q) = 1..Len(p) \cup {Len(p) + 1}
  BY <1>1
<1>. HIDE DEF q
<1>3. IdsOf(q) = IdsOf(p) \cup {e.id}
  BY <1>1, <1>2 DEF IdsOf
<1>4. ActionsIn(q) = ActionsIn(p) \cup (IF e.kind = "act" THEN {e.id} ELSE {})
  <2>1. \A x \in ActionsIn(q) : x \in ActionsIn(p) \/ (e.kind = "act" /\ x = e.id)
    BY <1>1, <1>2 DEF ActionsIn
  <2>2. ActionsIn(p) \subseteq ActionsIn(q)
    BY <1>1, <1>2 DEF ActionsIn
  <2>3. e.kind = "act" => e.id \in ActionsIn(q)
    BY <1>1, <1>2 DEF ActionsIn
  <2>. QED
    BY <2>1, <2>2, <2>3
<1>5. AnsweredIn(q) = AnsweredIn(p) \cup (IF e.kind = "res" THEN {e.call} ELSE {})
  <2>1. \A x \in AnsweredIn(q) : x \in AnsweredIn(p) \/ (e.kind = "res" /\ x = e.call)
    BY <1>1, <1>2 DEF AnsweredIn
  <2>2. AnsweredIn(p) \subseteq AnsweredIn(q)
    BY <1>1, <1>2 DEF AnsweredIn
  <2>3. e.kind = "res" => e.call \in AnsweredIn(q)
    BY <1>1, <1>2 DEF AnsweredIn
  <2>. QED
    BY <2>1, <2>2, <2>3
<1>. QED
  BY <1>3, <1>4, <1>5 DEF q

\* An empty path has nothing.
LEMMA EmptySets == IdsOf(<<>>) = {} /\ ActionsIn(<<>>) = {} /\ AnsweredIn(<<>>) = {}
  BY DEF IdsOf, ActionsIn, AnsweredIn

\* The events on the branch of an event: those of its effective parent and itself.
LEMMA BranchUnfold ==
  ASSUME NEW s, WellFormed(s), NEW i \in 1..Len(s)
  PROVE  IdsOf(PathToRoot(s, s[i].id)) =
           IdsOf(PathToRoot(s, EffectiveParent(s, i))) \cup {s[i].id}
<1>1. PathToRoot(s, EffectiveParent(s, i)) \in Seq(Event)
  BY PathUnfold
<1>2. PathToRoot(s, s[i].id) = Append(PathToRoot(s, EffectiveParent(s, i)), s[i])
  BY PathUnfold
<1>3. s[i] \in Event
  BY LogTypes
<1>. QED
  BY <1>1, <1>2, <1>3, AppendSets

\* No event, no branch.
LEMMA NoBranch ==
  ASSUME NEW s, WellFormed(s)
  PROVE  IndexIn(s, NoId) = 0 /\ PathToRoot(s, NoId) = <<>> /\ IdsOf(PathToRoot(s, NoId)) = {}
<1>1. Len(s) \in Nat /\ \A j \in 1..Len(s) : s[j].id # NoId
  BY LogTypes DEF NoId
<1>2. IndexIn(s, NoId) = 0
  BY <1>1, IndexRange
<1>. QED
  BY <1>2, PathUnfold, EmptySets

\* A branch consists of events of the log.
LEMMA BranchInLog ==
  ASSUME NEW s, WellFormed(s), NEW id
  PROVE  IdsOf(PathToRoot(s, id)) \subseteq IdsOf(s)
<1>1. Len(s) \in Nat
  BY LogTypes
<1>. DEFINE T == {i \in 1..Len(s) : IdsOf(PathToRoot(s, s[i].id)) \subseteq IdsOf(s)}
<1>2. ASSUME NEW m \in 1..Len(s), \A k \in 1..(m - 1) : k \in T PROVE m \in T
  <2>1. s[m].id \in IdsOf(s)
    BY DEF IdsOf
  <2>2. ParentIndex(s, m) \in 0..(m - 1)
    BY ParentBefore
  <2>3. IdsOf(PathToRoot(s, EffectiveParent(s, m))) \subseteq IdsOf(s)
    <3>1. CASE ParentIndex(s, m) = 0
      BY <3>1, ParentBefore, NoBranch
    <3>2. CASE ParentIndex(s, m) # 0
      BY SMTT(40), <1>2, <2>2, <3>2, ParentBefore
    <3>. QED
      BY <3>1, <3>2
  <2>. QED
    BY <2>1, <2>3, BranchUnfold
<1>3. \A m \in 1..Len(s) : m \in T
  <2>. HIDE DEF T
  <2>. QED
    BY <1>1, <1>2, Induction
<1>4. CASE IndexIn(s, id) = 0
  BY <1>4, PathUnfold, EmptySets
<1>5. CASE IndexIn(s, id) # 0
  <2>1. IndexIn(s, id) \in 1..Len(s) /\ s[IndexIn(s, id)].id = id
    BY <1>1, <1>5, IndexRange
  <2>. QED
    BY <1>3, <2>1
<1>. QED
  BY <1>4, <1>5

-----------------------------------------------------------------------------
(* Ancestors *)

\* Every event was appended behind an older one, behind none, or as a new root.
WellBorn(b) == b \in Seq(Int) /\ \A n \in 1..Len(b) : -1 <= b[n] /\ b[n] < n

\* f satisfies the recursion of AncestorsIn up to event m.
Climbs(f, m, b) == f = [n \in -1..m |-> IF n < 1 THEN {} ELSE {n} \cup f[b[n]]]

\* The recursion of AncestorsIn has a solution.
LEMMA ClimbExists ==
  ASSUME NEW b, WellBorn(b)
  PROVE  \E f : Climbs(f, Len(b), b)
<1>. DEFINE Ok(m) == \E f : Climbs(f, m, b)
            T == {m \in 1..Len(b) : Ok(m)}
<1>1. Len(b) \in Nat /\ \A n \in 1..Len(b) : b[n] \in Int /\ -1 <= b[n] /\ b[n] < n
  BY DEF WellBorn
<1>2. Ok(0)
  <2>. DEFINE f == [n \in -1..0 |-> {}]
  <2>1. Climbs(f, 0, b)
    BY DEF Climbs
  <2>. QED
    BY <2>1
<1>3. ASSUME NEW m \in 1..Len(b), Ok(m - 1) PROVE Ok(m)
  <2>1. PICK f : Climbs(f, m - 1, b)
    BY <1>3
  <2>. DEFINE g == [n \in -1..m |-> IF n < m THEN f[n] ELSE {m} \cup f[b[m]]]
  <2>2. m \in Nat /\ m >= 1
    BY <1>1
  <2>3. ASSUME NEW n \in -1..m
        PROVE  g[n] = IF n < 1 THEN {} ELSE {n} \cup g[b[n]]
    <3>1. n \in Int /\ -1 <= n /\ n <= m
      BY <2>2
    <3>2. CASE n < m
      <4>1. n \in -1..(m - 1)
        BY <2>2, <3>1, <3>2
      <4>2. f[n] = IF n < 1 THEN {} ELSE {n} \cup f[b[n]]
        BY <2>1, <4>1 DEF Climbs
      <4>3. ASSUME ~(n < 1) PROVE g[b[n]] = f[b[n]]
        <5>1. n \in 1..Len(b)
          BY <1>1, <2>2, <3>1, <4>3
        <5>2. b[n] \in -1..m /\ b[n] < m
          BY <1>1, <2>2, <3>1, <3>2, <5>1
        <5>. QED
          BY <5>2
      <4>. QED
        BY <3>2, <4>2, <4>3
    <3>3. CASE n = m
      <4>1. b[m] \in -1..m /\ b[m] < m
        BY <1>1, <2>2
      <4>2. g[b[m]] = f[b[m]]
        BY <4>1
      <4>. QED
        BY SMTT(40), <2>2, <3>3, <4>2
    <3>. QED
      BY <2>2, <3>1, <3>2, <3>3
  <2>4. Climbs(g, m, b)
    <3>1. g = [n \in -1..m |-> g[n]]
      OBVIOUS
    <3>. HIDE DEF g
    <3>. QED
      BY <2>3, <3>1 DEF Climbs
  <2>. QED
    BY <2>4
<1>. HIDE DEF Ok
<1>4. ASSUME NEW m \in 1..Len(b), \A k \in 1..(m - 1) : k \in T PROVE m \in T
  <2>1. Ok(m - 1)
    BY <1>1, <1>2, <1>4
  <2>. QED
    BY <1>3, <2>1
<1>5. \A m \in 1..Len(b) : m \in T
  <2>. HIDE DEF T
  <2>. QED
    BY <1>1, <1>4, Induction
<1>6. Ok(Len(b))
  BY <1>1, <1>2, <1>5
<1>. QED
  BY <1>6 DEF Ok

\* The ancestors of an event: itself and those of the event it was appended behind.
LEMMA AncestorsUnfold ==
  ASSUME NEW b, WellBorn(b)
  PROVE  /\ AncestorsIn(b, -1) = {} /\ AncestorsIn(b, 0) = {}
         /\ \A n \in 1..Len(b) : AncestorsIn(b, n) = {n} \cup AncestorsIn(b, b[n])
<1>. DEFINE F(f) == [n \in -1..Len(b) |-> IF n < 1 THEN {} ELSE {n} \cup f[b[n]]]
            up == CHOOSE f : f = F(f)
<1>1. \A id : AncestorsIn(b, id) = up[id]
  BY Zenon DEF AncestorsIn
<1>2. Len(b) \in Nat
  BY DEF WellBorn
<1>3. PICK f : f = F(f)
  BY ClimbExists DEF Climbs
<1>4. up = F(up)
  <2>. HIDE DEF F
  <2>. QED
    BY <1>3
<1>. HIDE DEF up
<1>5. ASSUME NEW n \in -1..Len(b)
      PROVE  up[n] = IF n < 1 THEN {} ELSE {n} \cup up[b[n]]
  <2>1. F(up)[n] = IF n < 1 THEN {} ELSE {n} \cup up[b[n]]
    OBVIOUS
  <2>2. up[n] = F(up)[n]
    <3>. HIDE DEF F
    <3>. QED
      BY <1>4
  <2>. QED
    BY <2>1, <2>2
<1>6. ASSUME NEW n \in {-1, 0} PROVE up[n] = {}
  <2>1. n \in -1..Len(b) /\ n < 1
    BY <1>2
  <2>. QED
    BY <1>5, <2>1
<1>7. ASSUME NEW n \in 1..Len(b) PROVE up[n] = {n} \cup up[b[n]]
  <2>1. n \in -1..Len(b) /\ ~(n < 1)
    BY <1>2
  <2>. QED
    BY <1>5, <2>1
<1>. QED
  BY <1>1, <1>6, <1>7

\* Ancestors are older.
LEMMA AncestorsOlder ==
  ASSUME NEW b, WellBorn(b), NEW n \in -1..Len(b)
  PROVE  AncestorsIn(b, n) \subseteq 1..n
<1>1. Len(b) \in Nat /\ \A k \in 1..Len(b) : b[k] \in Int /\ -1 <= b[k] /\ b[k] < k
  BY DEF WellBorn
<1>. DEFINE T == {k \in 1..Len(b) : AncestorsIn(b, k) \subseteq 1..k}
<1>2. ASSUME NEW m \in 1..Len(b), \A k \in 1..(m - 1) : k \in T PROVE m \in T
  <2>1. AncestorsIn(b, m) = {m} \cup AncestorsIn(b, b[m])
    BY AncestorsUnfold
  <2>2. AncestorsIn(b, b[m]) \subseteq 1..(m - 1)
    <3>1. CASE b[m] \in {-1, 0}
      BY <3>1, AncestorsUnfold
    <3>2. CASE b[m] \in 1..(m - 1)
      <4>1. AncestorsIn(b, b[m]) \subseteq 1..b[m]
        BY <1>2, <3>2
      <4>. QED
        BY <3>2, <4>1
    <3>. QED
      BY <1>1, <3>1, <3>2
  <2>. QED
    BY <2>1, <2>2
<1>3. \A m \in 1..Len(b) : m \in T
  <2>. HIDE DEF T
  <2>. QED
    BY <1>1, <1>2, Induction
<1>4. CASE n \in {-1, 0}
  BY <1>4, AncestorsUnfold
<1>. QED
  BY <1>1, <1>3, <1>4

\* A new event changes the ancestors of none.
LEMMA AncestorsStay ==
  ASSUME NEW b, WellBorn(b), NEW p \in Int, -1 <= p, p <= Len(b)
  PROVE  /\ WellBorn(Append(b, p))
         /\ \A n \in -1..Len(b) : AncestorsIn(Append(b, p), n) = AncestorsIn(b, n)
         /\ AncestorsIn(Append(b, p), Len(b) + 1) = {Len(b) + 1} \cup AncestorsIn(b, p)
<1>. DEFINE c == Append(b, p)
<1>1. Len(b) \in Nat /\ \A k \in 1..Len(b) : b[k] \in Int /\ -1 <= b[k] /\ b[k] < k
  BY DEF WellBorn
<1>2. c \in Seq(Int) /\ Len(c) = Len(b) + 1 /\ c[Len(b) + 1] = p /\ \A k \in 1..Len(b) : c[k] = b[k]
  BY DEF WellBorn
<1>. HIDE DEF c
<1>3. WellBorn(c)
  BY SMTT(40), <1>1, <1>2 DEF WellBorn
<1>. DEFINE T == {k \in 1..Len(b) : AncestorsIn(c, k) = AncestorsIn(b, k)}
<1>4. AncestorsIn(c, -1) = AncestorsIn(b, -1) /\ AncestorsIn(c, 0) = AncestorsIn(b, 0)
  BY <1>3, AncestorsUnfold
<1>5. ASSUME NEW m \in 1..Len(b), \A k \in 1..(m - 1) : k \in T PROVE m \in T
  <2>1. m \in 1..Len(c)
    BY <1>1, <1>2
  <2>2. /\ AncestorsIn(b, m) = {m} \cup AncestorsIn(b, b[m])
        /\ AncestorsIn(c, m) = {m} \cup AncestorsIn(c, b[m])
    BY SMTT(40), <1>2, <1>3, <2>1, AncestorsUnfold
  <2>3. AncestorsIn(c, b[m]) = AncestorsIn(b, b[m])
    <3>1. CASE b[m] \in {-1, 0}
      BY <1>4, <3>1
    <3>2. CASE b[m] \in 1..(m - 1)
      BY <1>5, <3>2
    <3>. QED
      BY <1>1, <3>1, <3>2
  <2>. QED
    BY <2>2, <2>3
<1>6. \A m \in 1..Len(b) : m \in T
  <2>. HIDE DEF T
  <2>. QED
    BY <1>1, <1>5, Induction
<1>7. \A n \in -1..Len(b) : AncestorsIn(c, n) = AncestorsIn(b, n)
  BY <1>1, <1>4, <1>6
<1>8. AncestorsIn(c, Len(b) + 1) = {Len(b) + 1} \cup AncestorsIn(c, p)
  <2>1. Len(b) + 1 \in 1..Len(c)
    BY <1>1, <1>2
  <2>. QED
    BY <1>2, <1>3, <2>1, AncestorsUnfold
<1>. QED
  BY <1>1, <1>3, <1>7, <1>8 DEF c

\* Where every event was appended behind the one before, all older events are
\* ancestors.
LEMMA AncestorsLinear ==
  ASSUME NEW b, WellBorn(b), \A n \in 1..Len(b) : b[n] = n - 1, NEW n \in 0..Len(b)
  PROVE  AncestorsIn(b, n) = 1..n
<1>1. Len(b) \in Nat
  BY DEF WellBorn
<1>. DEFINE T == {k \in 1..Len(b) : AncestorsIn(b, k) = 1..k}
<1>2. ASSUME NEW m \in 1..Len(b), \A k \in 1..(m - 1) : k \in T PROVE m \in T
  <2>1. AncestorsIn(b, m) = {m} \cup AncestorsIn(b, m - 1)
    BY AncestorsUnfold
  <2>2. AncestorsIn(b, m - 1) = 1..(m - 1)
    <3>1. CASE m = 1
      BY <3>1, AncestorsUnfold
    <3>2. CASE m # 1
      <4>1. m - 1 \in 1..(m - 1)
        BY <3>2
      <4>. QED
        BY <1>2, <4>1
    <3>. QED
      BY <3>1, <3>2
  <2>3. {m} \cup 1..(m - 1) = 1..m
    BY <1>1
  <2>. QED
    BY <2>1, <2>2, <2>3
<1>3. \A m \in 1..Len(b) : m \in T
  <2>. HIDE DEF T
  <2>. QED
    BY <1>1, <1>2, Induction
<1>4. CASE n = 0
  BY <1>4, AncestorsUnfold
<1>. QED
  BY <1>1, <1>3, <1>4

-----------------------------------------------------------------------------
(* Branches and ancestors *)

\* The events of s were appended as b says; one without an explicit parent is from
\* before the tree, or was appended to an empty log.
Recorded(s, b) ==
  /\ WellFormed(s) /\ WellBorn(b)
  /\ \A i \in 1..Len(s) :
       s[i].id \in 1..Len(b) /\ (s[i].parent = NoId \/ s[i].parent = b[s[i].id])

\* No file is lost.
Complete(s, b) ==
  /\ Len(s) = Len(b)
  /\ \A i \in 1..Len(s) : s[i].id = i /\ (s[i].parent = NoId => b[i] = i - 1)

\* In a complete log a branch is what its leaf was appended behind.
LEMMA CompleteIsExact ==
  ASSUME NEW s, NEW b, Recorded(s, b), Complete(s, b), NEW n \in 0..Len(s)
  PROVE  IdsOf(PathToRoot(s, n)) = AncestorsIn(b, n)
<1>1. WellFormed(s) /\ WellBorn(b) /\ Len(s) \in Nat /\ Len(s) = Len(b)
  BY LogTypes DEF Recorded, Complete
<1>. DEFINE T == {k \in 1..Len(s) : IdsOf(PathToRoot(s, k)) = AncestorsIn(b, k)}
<1>2. ASSUME NEW m \in 1..Len(s), \A k \in 1..(m - 1) : k \in T PROVE m \in T
  <2>1. /\ s[m].id = m /\ m \in Nat /\ b[m] \in Int /\ -1 <= b[m] /\ b[m] < m
        /\ s[m].parent = b[m] \/ (s[m].parent = NoId /\ b[m] = m - 1)
    BY <1>1 DEF Recorded, Complete, WellBorn
  <2>2. /\ IdsOf(PathToRoot(s, m)) = IdsOf(PathToRoot(s, EffectiveParent(s, m))) \cup {m}
        /\ AncestorsIn(b, m) = {m} \cup AncestorsIn(b, b[m])
    <3>1. IdsOf(PathToRoot(s, s[m].id)) = IdsOf(PathToRoot(s, EffectiveParent(s, m))) \cup {s[m].id}
      BY <1>1, BranchUnfold
    <3>2. m \in 1..Len(b)
      BY <1>1
    <3>. QED
      BY <1>1, <2>1, <3>1, <3>2, AncestorsUnfold
  <2>3. CASE b[m] = -1
    <3>1. EffectiveParent(s, m) = NoId
      BY <2>1, <2>3 DEF EffectiveParent, NoId, RootId
    <3>. QED
      BY <1>1, <2>2, <2>3, <3>1, NoBranch, AncestorsUnfold
  <2>4. CASE b[m] = 0
    <3>1. m = 1
      BY <2>1, <2>4 DEF Complete, NoId
    <3>2. EffectiveParent(s, m) = NoId
      BY <2>1, <2>4, <3>1 DEF EffectiveParent, NoId, RootId
    <3>. QED
      BY <1>1, <2>2, <2>4, <3>2, NoBranch, AncestorsUnfold
  <2>5. CASE b[m] \in 1..(m - 1)
    <3>1. b[m] \in 1..Len(s) /\ s[b[m]].id = b[m]
      BY <1>1, <2>1, <2>5 DEF Complete
    <3>2. IndexIn(s, b[m]) = b[m]
      BY <1>1, <3>1, IndexOf
    <3>3. EffectiveParent(s, m) = b[m]
      <4>1. CASE s[m].parent = b[m]
        BY <2>5, <3>2, <4>1 DEF EffectiveParent, NoId, RootId
      <4>2. CASE s[m].parent = NoId /\ b[m] = m - 1
        <5>1. m # 1 /\ s[m - 1].id = m - 1
          BY <2>5, <3>1, <4>2
        <5>. QED
          BY <4>2, <5>1 DEF EffectiveParent, NoId, RootId
      <4>. QED
        BY <2>1, <4>1, <4>2
    <3>4. b[m] \in T
      BY <1>2, <2>5
    <3>. QED
      BY <2>2, <3>3, <3>4
  <2>. QED
    BY <2>1, <2>3, <2>4, <2>5
<1>3. \A m \in 1..Len(s) : m \in T
  <2>. HIDE DEF T
  <2>. QED
    BY <1>1, <1>2, Induction
<1>4. CASE n = 0
  BY <1>1, <1>4, NoBranch, AncestorsUnfold DEF NoId
<1>. QED
  BY <1>1, <1>3, <1>4

\* What an event descends from, everything recorded in between descends from too.
Nested(s, b) ==
  \A u \in IdsOf(s), n \in IdsOf(s) : \A a \in AncestorsIn(b, u) \cap IdsOf(s) :
    a <= n /\ n <= u => a \in AncestorsIn(b, n)

\* Lost files or not: a branch keeps the ancestors that survive.
LEMMA NestedIsKept ==
  ASSUME NEW s, NEW b, Recorded(s, b), Nested(s, b), NEW n \in 1..Len(s)
  PROVE  AncestorsIn(b, s[n].id) \cap IdsOf(s) \subseteq IdsOf(PathToRoot(s, s[n].id))
<1>1. WellFormed(s) /\ WellBorn(b) /\ Len(s) \in Nat /\ Len(b) \in Nat
  BY LogTypes DEF Recorded, WellBorn
<1>. DEFINE T == {k \in 1..Len(s) : AncestorsIn(b, s[k].id) \cap IdsOf(s)
                                      \subseteq IdsOf(PathToRoot(s, s[k].id))}
<1>2. ASSUME NEW m \in 1..Len(s), \A k \in 1..(m - 1) : k \in T PROVE m \in T
  <2>. DEFINE x == s[m].id
  <2>1. /\ x \in 1..Len(b) /\ x \in IdsOf(s) /\ b[x] \in Int /\ -1 <= b[x] /\ b[x] < x
        /\ s[m].parent = NoId \/ s[m].parent = b[x]
    BY SMTT(40), <1>1 DEF Recorded, WellBorn, IdsOf
  <2>2. /\ IdsOf(PathToRoot(s, x)) = IdsOf(PathToRoot(s, EffectiveParent(s, m))) \cup {x}
        /\ AncestorsIn(b, x) = {x} \cup AncestorsIn(b, b[x])
    BY <1>1, <2>1, BranchUnfold, AncestorsUnfold
  <2>. HIDE DEF x
  <2>3. SUFFICES ASSUME NEW a \in AncestorsIn(b, x) \cap IdsOf(s), a # x
                 PROVE  a \in IdsOf(PathToRoot(s, EffectiveParent(s, m)))
    BY <2>2, <2>3 DEF x
  <2>4. a \in AncestorsIn(b, b[x])
    BY <2>2, <2>3
  <2>5. a \in 1..x /\ a < x
    <3>1. x \in -1..Len(b)
      BY <1>1, <2>1
    <3>. QED
      BY <1>1, <2>1, <2>3, <3>1, AncestorsOlder
  <2>6. PICK k \in 1..Len(s) : a = s[k].id
    BY DEF IdsOf
  <2>7. k < m
    <3>1. s[k].id \in Nat /\ s[m].id \in Nat /\ s[k].id < s[m].id
      BY <1>1, <2>5, <2>6, LogTypes DEF x
    <3>. QED
      BY <1>1, <3>1 DEF WellFormed
  <2>8. CASE s[m].parent # NoId /\ s[m].parent # RootId /\ IndexIn(s, s[m].parent) # 0
    <3>. DEFINE j == ParentIndex(s, m)
    <3>1. EffectiveParent(s, m) = b[x]
      BY <2>1, <2>8 DEF EffectiveParent
    <3>2. j # 0 /\ j \in 1..(m - 1) /\ s[j].id = b[x]
      BY SMTT(40), <1>1, <2>1, <2>8, <3>1, ParentBefore DEF ParentIndex
    <3>3. j \in T
      BY <1>2, <3>2
    <3>. QED
      BY <2>4, <3>1, <3>2, <3>3
  <2>9. CASE s[m].parent = RootId
    <3>1. b[x] = -1
      BY <2>1, <2>9 DEF NoId, RootId
    <3>. QED
      BY <1>1, <2>4, <3>1, AncestorsUnfold
  <2>10. CASE s[m].parent # RootId /\ (s[m].parent = NoId \/ IndexIn(s, s[m].parent) = 0)
    <3>1. m # 1 /\ m - 1 \in 1..(m - 1) /\ m - 1 \in 1..Len(s)
      BY <1>1, <2>7
    <3>2. EffectiveParent(s, m) = s[m - 1].id
      BY <2>10, <3>1 DEF EffectiveParent
    <3>3. a <= s[m - 1].id /\ s[m - 1].id <= x
      <4>1. s[m - 1].id < s[m].id /\ (k = m - 1 \/ s[k].id < s[m - 1].id)
        BY <1>1, <2>7, <3>1 DEF WellFormed
      <4>2. s[m - 1].id \in Nat /\ s[k].id \in Nat /\ s[m].id \in Nat
        BY <1>1, <3>1, LogTypes
      <4>. QED
        BY SMTT(40), <2>6, <4>1, <4>2 DEF x
    <3>4. s[m - 1].id \in IdsOf(s)
      BY <3>1 DEF IdsOf
    <3>5. a \in AncestorsIn(b, s[m - 1].id)
      BY <2>1, <2>3, <3>3, <3>4 DEF Nested
    <3>6. m - 1 \in T
      BY <1>2, <3>1
    <3>. QED
      BY <2>3, <3>2, <3>5, <3>6
  <2>. QED
    BY <2>8, <2>9, <2>10
<1>3. \A m \in 1..Len(s) : m \in T
  <2>. HIDE DEF T
  <2>. QED
    BY <1>1, <1>2, Induction
<1>. QED
  BY <1>3

-----------------------------------------------------------------------------
(* The inductive invariant *)

\* What holds wherever the conversation lives.
TreeInv ==
  /\ TypeOK
  /\ Recorded(log, births) /\ Len(births) = nextId - 1
  /\ crashes \in Nat /\ lost \in Nat
  /\ lost = 0 => Complete(log, births)
  /\ (saved.empty => saved.leaf = NoId) /\ saved.leaf < nextId
  /\ pc = "sent" => head.leaf # NoId
  /\ pc \in {"acting", "invalid"} => left # 0
  /\ pc = "results" => batch # {}
  /\ pc \in {"acting", "invalid", "results"} => batch \subseteq LogIds

\* The first life of the process, and after its crash the time until the tree grows
\* again: nothing has branched off yet.
FirstLife == crashes = 0 \/ (crashes = 1 /\ pc \in {"down", "recover"})

\* Everything recorded since an ancestor of event l descends from that ancestor.
OpenAt(s, b, l) ==
  \A a \in AncestorsIn(b, l) \cap IdsOf(s), n \in IdsOf(s) : a <= n => a \in AncestorsIn(b, n)

\* On the server, up to the second crash.
GrowthInv ==
  place = "server" =>
  /\ ~head.empty /\ ~saved.empty
  /\ crashes = 0 => pc \notin {"down", "recover"} /\ lost = 0 /\ ActiveLeaf(log, head) = nextId - 1
  /\ FirstLife => \A n \in 1..Len(births) : births[n] = n - 1
  /\ crashes <= 1 => /\ Nested(log, births)
                     /\ pc # "down" => OpenAt(log, births, ActiveLeaf(log, head))

\* The actions of a path are U and the answered ones, and nothing else is answered.
Pairs(path, U) == AnsweredIn(path) \subseteq ActionsIn(path) /\ UnmatchedIn(path) = U

\* The actions whose results are awaited.
Awaited == IF pc \in {"acting", "invalid", "results"} THEN batch ELSE {}

\* What a save covered, on the server with all files there.
FlushInv ==
  place = "server" /\ lost = 0 =>
  /\ FirstLife => /\ saved.leaf # NoId => flushed \subseteq 1..saved.leaf
                  /\ flushed \subseteq 1..(nextId - 1)
                  /\ \A o \in UnmatchedIn(log), x \in flushed : x < o
  /\ crashes = 0 => ActiveBranch = log /\ Pairs(log, Awaited)
  /\ crashes <= 1 /\ pc # "down" => flushed \subseteq AncestorsOf(ActiveLeaf(log, head))

\* Every result comes behind the action that it answers.
Behind(s) ==
  \A k \in 1..Len(s) :
    s[k].kind = "res" => \E i \in 1..(k - 1) : s[i].kind = "act" /\ s[i].id = s[k].call

\* The points of a run, where base_state.json says RUNNING.
RunPoints == {"llm", "acting", "invalid", "results", "done"}

\* The pairing of actions and results.
PairInv ==
  place = "server" /\ lost = 0 =>
  /\ FirstLife =>
       /\ Behind(log)
       /\ saved.leaf # NoId => Pairs(PathToRoot(log, saved.leaf), {})
       /\ pc = "down" => saved.running \/ Pairs(log, {})
       /\ pc \in {"down", "recover"} /\ ~torn => ~Torn
  /\ crashes = 0 => ~torn /\ (pc \in RunPoints => saved.running)
  /\ crashes <= 1 => /\ pc \notin {"down", "recover"} /\ ~torn => Pairs(ActiveBranch, Awaited)
                     /\ pc = "recover" => head = saved

-----------------------------------------------------------------------------
(* A log that grows and a log that shrinks *)

\* A younger event at the end of a log leaves every branch as it was.
LEMMA PathStays ==
  ASSUME NEW s, WellFormed(s), NEW e \in Event, WellFormed(Append(s, e)),
         NEW id \in IdsOf(s) \cup {NoId}
  PROVE  PathToRoot(Append(s, e), id) = PathToRoot(s, id)
<1>. DEFINE t == Append(s, e)
<1>1. Len(s) \in Nat /\ s \in Seq(Event)
  BY LogTypes
<1>2. Len(t) = Len(s) + 1 /\ t[Len(s) + 1] = e /\ \A i \in 1..Len(s) : t[i] = s[i]
  BY <1>1
<1>. HIDE DEF t
<1>3. WellFormed(t)
  BY DEF t
<1>4. \A i \in 1..Len(s) : i \in 1..Len(t) /\ s[i].id < e.id
  BY <1>1, <1>2, <1>3 DEF WellFormed
<1>5. ASSUME NEW i \in 1..Len(s) PROVE EffectiveParent(t, i) = EffectiveParent(s, i)
  <2>1. t[i] = s[i] /\ (i # 1 => t[i - 1] = s[i - 1])
    BY <1>1, <1>2
  <2>2. s[i].parent # e.id
    <3>1. s[i].parent \in Int /\ s[i].id \in Nat /\ s[i].parent < s[i].id /\ e.id \in Nat
      BY LogTypes DEF Event
    <3>. QED
      BY <1>4, <3>1
  <2>3. (\A k \in 1..Len(t) : t[k].id # s[i].parent) <=> (\A k \in 1..Len(s) : s[k].id # s[i].parent)
    BY <1>1, <1>2, <2>2
  <2>4. Len(t) \in Nat
    BY <1>1, <1>2
  <2>5. IndexIn(t, s[i].parent) = 0 <=> IndexIn(s, s[i].parent) = 0
    BY <1>1, <2>3, <2>4, IndexRange
  <2>. QED
    BY <2>1, <2>5 DEF EffectiveParent
<1>. DEFINE T == {k \in 1..Len(s) : PathToRoot(t, s[k].id) = PathToRoot(s, s[k].id)}
<1>6. ASSUME NEW m \in 1..Len(s), \A k \in 1..(m - 1) : k \in T PROVE m \in T
  <2>1. /\ PathToRoot(s, s[m].id) = Append(PathToRoot(s, EffectiveParent(s, m)), s[m])
        /\ PathToRoot(t, t[m].id) = Append(PathToRoot(t, EffectiveParent(t, m)), t[m])
    BY <1>3, <1>4, PathUnfold
  <2>2. PathToRoot(t, EffectiveParent(s, m)) = PathToRoot(s, EffectiveParent(s, m))
    <3>1. CASE ParentIndex(s, m) = 0
      BY <1>3, <3>1, ParentBefore, NoBranch
    <3>2. CASE ParentIndex(s, m) # 0
      <4>1. ParentIndex(s, m) \in 1..(m - 1) /\ EffectiveParent(s, m) = s[ParentIndex(s, m)].id
        BY <3>2, ParentBefore
      <4>. QED
        BY <1>6, <4>1
    <3>. QED
      BY <3>1, <3>2
  <2>. QED
    BY <1>2, <1>5, <2>1, <2>2
<1>7. \A m \in 1..Len(s) : m \in T
  <2>. HIDE DEF T
  <2>. QED
    BY <1>1, <1>6, Induction
<1>8. CASE id = NoId
  BY <1>3, <1>8, NoBranch DEF t
<1>9. CASE id \in IdsOf(s)
  BY <1>7, <1>9 DEF IdsOf, t
<1>. QED
  BY <1>8, <1>9

\* A younger event keeps a log well-formed and recorded.
LEMMA LogGrows ==
  ASSUME NEW s, NEW b, Recorded(s, b), NEW e \in Event,
         e.id = Len(b) + 1, -1 <= e.parent, e.parent <= Len(b)
  PROVE  /\ WellFormed(Append(s, e)) /\ Recorded(Append(s, e), Append(b, e.parent))
         /\ IdsOf(Append(s, e)) = IdsOf(s) \cup {e.id}
         /\ Len(Append(s, e)) = Len(s) + 1 /\ Len(Append(b, e.parent)) = Len(b) + 1
         /\ Complete(s, b) /\ (e.parent = NoId => s = <<>>) =>
              Complete(Append(s, e), Append(b, e.parent))
<1>. DEFINE t == Append(s, e)
            c == Append(b, e.parent)
<1>1. /\ WellFormed(s) /\ WellBorn(b) /\ Len(s) \in Nat /\ s \in Seq(Event)
      /\ b \in Seq(Int) /\ Len(b) \in Nat /\ e.parent \in Int /\ e.id \in Nat
  BY LogTypes DEF Recorded, WellBorn, Event
<1>2. /\ t \in Seq(Event) /\ Len(t) = Len(s) + 1 /\ t[Len(s) + 1] = e
      /\ \A i \in 1..Len(s) : t[i] = s[i]
  BY <1>1
<1>3. /\ Len(c) = Len(b) + 1 /\ c[Len(b) + 1] = e.parent
      /\ \A n \in 1..Len(b) : c[n] = b[n]
  BY <1>1
<1>4. WellBorn(c)
  BY <1>1, AncestorsStay
<1>. HIDE DEF t, c
<1>5. \A i \in 1..Len(s) : s[i].id \in Nat /\ s[i].id < e.id /\ s[i].id \in 1..Len(b)
  <2>1. \A i \in 1..Len(s) : s[i].id \in 1..Len(b)
    BY DEF Recorded
  <2>. QED
    BY <1>1, <2>1
<1>6. WellFormed(t)
  <2>1. \A i \in 1..Len(t) : i = Len(s) + 1 \/ (i \in 1..Len(s) /\ t[i] = s[i])
    BY <1>1, <1>2
  <2>2. \A i \in 1..Len(t) : t[i].id > 0 /\ t[i].parent < t[i].id
    BY SMTT(40), <1>1, <1>2, <2>1 DEF WellFormed
  <2>3. ASSUME NEW i \in 1..Len(t), NEW j \in 1..Len(t), i < j PROVE t[i].id < t[j].id
    <3>1. i \in 1..Len(s)
      BY <1>1, <1>2, <2>3
    <3>. QED
      BY <1>1, <1>2, <1>5, <2>1, <2>3, <3>1 DEF WellFormed
  <2>. QED
    BY <1>2, <2>2, <2>3 DEF WellFormed
<1>7. Recorded(t, c)
  <2>1. ASSUME NEW i \in 1..Len(t)
        PROVE  t[i].id \in 1..Len(c) /\ (t[i].parent = NoId \/ t[i].parent = c[t[i].id])
    <3>1. CASE i = Len(s) + 1
      BY <1>1, <1>2, <1>3, <3>1
    <3>2. CASE i \in 1..Len(s)
      <4>1. t[i] = s[i] /\ s[i].id \in 1..Len(b) /\ (s[i].parent = NoId \/ s[i].parent = b[s[i].id])
        BY <1>2, <3>2 DEF Recorded
      <4>2. s[i].id \in 1..Len(c) /\ c[s[i].id] = b[s[i].id]
        BY SMTT(40), <1>1, <1>3, <4>1
      <4>. QED
        BY <4>1, <4>2
    <3>. QED
      BY <1>1, <1>2, <3>1, <3>2
  <2>. QED
    BY <1>4, <1>6, <2>1 DEF Recorded
<1>8. IdsOf(t) = IdsOf(s) \cup {e.id}
  BY <1>1, AppendSets DEF t
<1>9. ASSUME Complete(s, b), e.parent = NoId => s = <<>> PROVE Complete(t, c)
  <2>1. ASSUME NEW i \in 1..Len(t) PROVE t[i].id = i /\ (t[i].parent = NoId => c[i] = i - 1)
    <3>1. CASE i = Len(s) + 1
      BY <1>1, <1>2, <1>3, <1>9, <3>1 DEF Complete, NoId
    <3>2. CASE i \in 1..Len(s)
      BY <1>1, <1>2, <1>3, <1>9, <3>2 DEF Complete
    <3>. QED
      BY <1>1, <1>2, <3>1, <3>2
  <2>. QED
    BY <1>2, <1>3, <1>9, <2>1 DEF Complete
<1>. QED
  BY <1>2, <1>3, <1>6, <1>7, <1>8, <1>9 DEF t, c

\* A log that loses an event stays recorded.
LEMMA LogShrinks ==
  ASSUME NEW s, NEW b, Recorded(s, b), NEW k \in 1..Len(s)
  PROVE  LET t == SubSeq(s, 1, k - 1) \o SubSeq(s, k + 1, Len(s))
         IN  Recorded(t, b) /\ IdsOf(t) \subseteq IdsOf(s)
<1>1. WellFormed(s) /\ WellBorn(b) /\ Len(s) \in Nat /\ s \in Seq(Event)
  BY LogTypes DEF Recorded
<1>. DEFINE u == SubSeq(s, 1, k - 1)
            v == SubSeq(s, k + 1, Len(s))
<1>2. /\ u \in Seq(Event) /\ Len(u) = k - 1 /\ \A i \in 1..(k - 1) : u[i] = s[i]
      /\ v \in Seq(Event) /\ Len(v) = Len(s) - k /\ \A i \in 1..(Len(s) - k) : v[i] = s[k + i]
  <2>1. k \in Nat /\ k >= 1 /\ k <= Len(s)
    BY <1>1
  <2>2. u \in Seq(Event) /\ Len(u) = k - 1 /\ \A i \in 1..(k - 1) : u[i] = s[i]
    BY <1>1, <2>1
  <2>3. v \in Seq(Event) /\ Len(v) = Len(s) - k
    BY <1>1, <2>1
  <2>4. \A i \in 1..(Len(s) - k) : v[i] = s[k + i]
    BY <1>1, <2>1, <2>3
  <2>. QED
    BY <2>2, <2>3, <2>4
<1>. HIDE DEF u, v
<1>. DEFINE t == u \o v
<1>3. /\ t \in Seq(Event) /\ Len(t) = Len(u) + Len(v)
      /\ \A i \in 1..(Len(u) + Len(v)) : t[i] = IF i <= Len(u) THEN u[i] ELSE v[i - Len(u)]
  BY <1>2, ConcatProperties
<1>. HIDE DEF t
<1>4. /\ t \in Seq(Event) /\ Len(t) = Len(s) - 1 /\ k \in Nat /\ k >= 1 /\ k <= Len(s)
      /\ \A i \in 1..Len(t) : t[i] = IF i <= k - 1 THEN u[i] ELSE v[i - (k - 1)]
  <2>1. k \in Nat /\ k >= 1 /\ k <= Len(s)
    BY <1>1
  <2>2. Len(u) + Len(v) = Len(s) - 1
    BY <1>1, <1>2, <2>1
  <2>. QED
    BY <1>2, <1>3, <2>1, <2>2
<1>. DEFINE from(i) == IF i < k THEN i ELSE i + 1
<1>5. ASSUME NEW i \in 1..Len(t) PROVE t[i] = s[from(i)] /\ from(i) \in 1..Len(s)
  <2>1. CASE i < k
    <3>1. i <= k - 1 /\ i \in 1..(k - 1) /\ i \in 1..Len(s) /\ from(i) = i
      BY <1>1, <1>4, <2>1
    <3>2. t[i] = u[i]
      BY <1>4, <3>1
    <3>3. u[i] = s[i]
      BY <1>2, <3>1
    <3>. QED
      BY <3>1, <3>2, <3>3
  <2>2. CASE ~(i < k)
    <3>. DEFINE d == i - (k - 1)
    <3>1. i \in Nat /\ i >= k /\ i <= Len(s) - 1
      BY <1>1, <1>4, <2>2
    <3>2. d \in 1..(Len(s) - k) /\ k + d = i + 1
      BY <1>1, <1>4, <3>1
    <3>3. t[i] = v[d]
      BY <1>4, <3>1
    <3>. HIDE DEF d
    <3>. QED
      BY <1>1, <1>2, <1>4, <2>2, <3>1, <3>2, <3>3
  <2>. QED
    BY <2>1, <2>2
<1>6. \A i, j \in 1..Len(t) : i < j => from(i) < from(j)
  BY <1>1, <1>4
<1>. HIDE DEF from
<1>7. WellFormed(t)
  BY <1>1, <1>4, <1>5, <1>6 DEF WellFormed
<1>8. Recorded(t, b)
  BY <1>1, <1>5, <1>7 DEF Recorded
<1>9. IdsOf(t) \subseteq IdsOf(s)
  <2>1. ASSUME NEW i \in 1..Len(t) PROVE t[i].id \in IdsOf(s)
    BY <1>5 DEF IdsOf
  <2>. QED
    BY <2>1 DEF IdsOf
<1>. QED
  BY <1>8, <1>9 DEF t, u, v

-----------------------------------------------------------------------------
(* What the parts of a step do *)

\* get_unmatched_actions of a log and the batch of a step name events that are there.
LEMMA FirstIsIn ==
  ASSUME NEW s, WellFormed(s), NEW S, S \cap IdsOf(s) # {}
  PROVE  FirstIn(s, S) \in S \cap IdsOf(s)
<1>1. Len(s) \in Nat
  BY LogTypes
<1>. DEFINE I == {i \in 1..Len(s) : s[i].id \in S}
<1>2. I \in SUBSET Nat /\ I # {}
  BY <1>1 DEF IdsOf
<1>3. PICK x \in I : \A y \in I : x <= y
  BY <1>2, LeastExists
<1>4. x \in 1..Len(s) /\ s[x].id \in S /\ \A j \in 1..(x - 1) : s[j].id \notin S
  BY <1>1, <1>3
<1>. DEFINE c == CHOOSE i \in 1..Len(s) : s[i].id \in S /\ \A j \in 1..(i - 1) : s[j].id \notin S
<1>5. c \in 1..Len(s) /\ s[c].id \in S
  BY <1>4
<1>6. FirstIn(s, S) = s[c].id
  BY DEF FirstIn
<1>. HIDE DEF c
<1>. QED
  BY <1>5, <1>6 DEF IdsOf

\* The actions of a path are on it.
LEMMA UnmatchedOnPath ==
  ASSUME NEW p
  PROVE  UnmatchedIn(p) \subseteq ActionsIn(p) /\ ActionsIn(p) \subseteq IdsOf(p)
  BY DEF UnmatchedIn, ActionsIn, IdsOf

\* The types the invariant gives.
LEMMA Types ==
  ASSUME TreeInv
  PROVE  /\ MaxEvents[place] \in Nat /\ MaxEvents[place] >= 2 /\ nextId \in Nat /\ nextId >= 1
         /\ nextId <= MaxEvents[place] + 1 /\ MaxCalls \in Nat
         /\ WellFormed(log) /\ WellBorn(births) /\ Len(log) \in Nat /\ log \in Seq(Event)
         /\ Len(births) \in Nat /\ LogIds = IdsOf(log) /\ LogIds \subseteq 1..(nextId - 1)
<1>1. MaxEvents[place] \in Nat /\ MaxEvents[place] >= 2 /\ MaxCalls \in Nat
  BY BoundsAssumption DEF TreeInv, TypeOK
<1>2. nextId \in Nat /\ nextId >= 1 /\ nextId <= MaxEvents[place] + 1
  BY <1>1 DEF TreeInv, TypeOK
<1>3. WellFormed(log) /\ WellBorn(births) /\ Len(births) \in Nat
  BY DEF TreeInv, Recorded, WellBorn
<1>4. LogIds = IdsOf(log) /\ LogIds \subseteq 1..(nextId - 1)
  BY DEF LogIds, IdsOf, TreeInv, TypeOK
<1>. QED
  BY <1>1, <1>2, <1>3, <1>4, LogTypes

\* HEAD resolves to an event of the log, or to none.
LEMMA LeafInLog ==
  ASSUME TreeInv, NEW h, h.leaf \in LogIds \cup {NoId}
  PROVE  /\ ActiveLeaf(log, h) \in LogIds \cup {NoId}
         /\ ActiveLeaf(log, h) \in 0..Len(births)
         /\ ActiveLeaf(log, h) = NoId => (h.empty \/ log = <<>>)
<1>1. log # <<>> => log[Len(log)].id \in LogIds
  <2>1. log # <<>> => Len(log) \in 1..Len(log)
    BY Types
  <2>. QED
    BY <2>1 DEF LogIds
<1>2. NoId \notin LogIds
  BY Types DEF NoId
<1>3. ActiveLeaf(log, h) \in LogIds \cup {NoId}
  BY <1>1 DEF ActiveLeaf
<1>4. ActiveLeaf(log, h) = NoId => (h.empty \/ log = <<>>)
  BY <1>1, <1>2 DEF ActiveLeaf
<1>5. Len(births) = nextId - 1
  BY DEF TreeInv
<1>. QED
  BY <1>3, <1>4, <1>5, Types DEF NoId

\* The parent that _stamp_parent_id writes.
LEMMA StampFacts ==
  ASSUME TreeInv, pc # "down"
  PROVE  /\ ActiveLeaf(log, head) \in LogIds \cup {NoId} /\ ActiveLeaf(log, head) \in 0..Len(births)
         /\ Stamp \in Int /\ -1 <= Stamp /\ Stamp <= Len(births)
         /\ Stamp = ActiveLeaf(log, head) \/ (Stamp = RootId /\ ActiveLeaf(log, head) = NoId)
         /\ Stamp = NoId => log = <<>>
         /\ AncestorsIn(births, Stamp) = AncestorsOf(ActiveLeaf(log, head))
<1>1. head.leaf \in LogIds \cup {NoId}
  BY DEF TreeInv, TypeOK
<1>2. ActiveLeaf(log, head) \in LogIds \cup {NoId} /\ ActiveLeaf(log, head) \in 0..Len(births)
  BY <1>1, LeafInLog
<1>3. Stamp = ActiveLeaf(log, head) \/ (Stamp = RootId /\ ActiveLeaf(log, head) = NoId)
  BY DEF Stamp
<1>4. Stamp = NoId => log = <<>>
  BY DEF Stamp, NoId, RootId
<1>5. Stamp \in Int /\ -1 <= Stamp /\ Stamp <= Len(births)
  BY <1>2, <1>3, Types DEF RootId
<1>6. AncestorsIn(births, Stamp) = AncestorsOf(ActiveLeaf(log, head))
  <2>1. CASE Stamp = ActiveLeaf(log, head)
    BY <2>1 DEF AncestorsOf
  <2>2. CASE Stamp = RootId /\ ActiveLeaf(log, head) = NoId
    BY <2>2, Types, AncestorsUnfold DEF AncestorsOf, RootId, NoId
  <2>. QED
    BY <1>3, <2>1, <2>2
<1>. QED
  BY <1>2, <1>3, <1>4, <1>5, <1>6

NewEvent(kind, call, parent) ==
  [id |-> nextId, kind |-> kind, call |-> call, parent |-> parent]

\* append_event.
LEMMA Appended ==
  ASSUME TreeInv, NEW kind \in {"msg", "act", "res"}, NEW call \in Nat, NEW parent \in Int,
         -1 <= parent, parent <= Len(births), parent = NoId => log = <<>>,
         AppendEvent(kind, call, parent)
  PROVE  LET e == NewEvent(kind, call, parent)
         IN  /\ e \in Event /\ log' = Append(log, e) /\ births' = Append(births, parent)
             /\ e.id = nextId /\ e.kind = kind /\ e.call = call /\ e.parent = parent
             /\ WellFormed(log') /\ Recorded(log', births')
             /\ place' = place /\ nextId' = nextId + 1 /\ Len(births') = nextId' - 1
             /\ nextId' \in 1..(MaxEvents[place]' + 1)
             /\ LogIds' = LogIds \cup {nextId} /\ LogIds' \subseteq 1..(nextId' - 1)
             /\ lost = 0 => Complete(log', births')
             /\ head' \in Heads' /\ head'.leaf = nextId /\ ~head'.empty
             /\ head'.running = head.running /\ ActiveLeaf(log', head') = nextId
             /\ head'.leaf \in LogIds'
<1>. DEFINE e == NewEvent(kind, call, parent)
<1>1. /\ nextId <= MaxEvents[place] /\ place' = place /\ log' = Append(log, e)
      /\ nextId' = nextId + 1 /\ births' = Append(births, parent)
      /\ head' = [head EXCEPT !.leaf = nextId, !.empty = FALSE]
  BY DEF AppendEvent, NewEvent
<1>2. /\ nextId \in Nat /\ nextId >= 1 /\ MaxEvents[place] \in Nat
      /\ Recorded(log, births) /\ nextId = Len(births) + 1 /\ log \in Seq(Event)
  BY Types DEF TreeInv
<1>3. e \in Event /\ e.id = nextId /\ e.kind = kind /\ e.call = call /\ e.parent = parent
  BY <1>2 DEF NewEvent, Event
<1>. HIDE DEF e
<1>4. /\ WellFormed(log') /\ Recorded(log', births') /\ IdsOf(log') = IdsOf(log) \cup {nextId}
      /\ Len(births') = Len(births) + 1
      /\ Complete(log, births) => Complete(log', births')
  BY <1>1, <1>2, <1>3, LogGrows
<1>5. LogIds' = LogIds \cup {nextId}
  <2>1. LogIds' = IdsOf(log')
    BY DEF LogIds, IdsOf
  <2>. QED
    BY <1>4, <2>1, Types
<1>6. LogIds' \subseteq 1..(nextId' - 1)
  BY SMTT(40), <1>1, <1>2, <1>5, Types
<1>7. head \in Heads
  BY DEF TreeInv, TypeOK
<1>8. /\ head' \in Heads' /\ head'.leaf = nextId /\ ~head'.empty
      /\ head'.running = head.running
  <2>1. nextId \in 0..MaxEvents[place]
    BY <1>1, <1>2
  <2>2. Heads' = Heads
    BY <1>1 DEF Heads
  <2>3. head' \in Heads
    BY <1>1, <1>7, <2>1 DEF Heads
  <2>4. head'.leaf = nextId /\ head'.empty = FALSE /\ head'.running = head.running
    BY <1>1, <1>7 DEF Heads
  <2>. QED
    BY <2>2, <2>3, <2>4
<1>9. ActiveLeaf(log', head') = nextId
  BY <1>2, <1>8 DEF ActiveLeaf, NoId
<1>10. nextId' \in 1..(MaxEvents[place]' + 1)
  BY <1>1, <1>2
<1>. QED
  BY SMTT(40), <1>1, <1>2, <1>3, <1>4, <1>5, <1>6, <1>8, <1>9, <1>10 DEF e, TreeInv

\* An event with the stamp extends the active branch.
LEMMA BranchGrows ==
  ASSUME TreeInv, pc # "down", NEW kind \in {"msg", "act", "res"}, NEW call \in Nat,
         AppendEvent(kind, call, Stamp)
  PROVE  /\ ActiveBranch \in Seq(Event)
         /\ ActiveBranch' = Append(ActiveBranch, NewEvent(kind, call, Stamp))
<1>. DEFINE e == NewEvent(kind, call, Stamp)
            n == Len(log) + 1
            leaf == ActiveLeaf(log, head)
<1>1. /\ e \in Event /\ e.id = nextId /\ e.parent = Stamp
      /\ log' = Append(log, e) /\ WellFormed(log') /\ ActiveLeaf(log', head') = nextId
  <2>. DEFINE p == Stamp
  <2>1. p \in Int /\ -1 <= p /\ p <= Len(births) /\ (p = NoId => log = <<>>)
    BY StampFacts
  <2>2. AppendEvent(kind, call, p)
    OBVIOUS
  <2>. HIDE DEF p
  <2>3. LET f == NewEvent(kind, call, p)
        IN  /\ f \in Event /\ f.id = nextId /\ f.parent = p
            /\ log' = Append(log, f) /\ WellFormed(log') /\ ActiveLeaf(log', head') = nextId
    BY <2>1, <2>2, Appended
  <2>. QED
    BY <2>3 DEF p
<1>2. /\ WellFormed(log) /\ Len(log) \in Nat /\ log \in Seq(Event)
      /\ LogIds = IdsOf(log) /\ LogIds \subseteq 1..(nextId - 1) /\ nextId \in Nat
  BY Types
<1>. HIDE DEF e
<1>3. /\ Len(log') = n /\ n \in 1..Len(log') /\ log'[n] = e
      /\ n > 1 => log'[n - 1] = log[n - 1]
  BY <1>1, <1>2
<1>4. EffectiveParent(log', n) = leaf
  <2>1. CASE Stamp = RootId
    <3>1. leaf = NoId
      BY <1>2, <2>1, StampFacts DEF RootId
    <3>. QED
      BY <1>1, <1>3, <2>1, <3>1 DEF EffectiveParent
  <2>2. CASE Stamp = NoId
    <3>1. log = <<>> /\ leaf = NoId /\ n = 1
      BY <2>2, StampFacts DEF RootId, NoId
    <3>. QED
      BY <1>1, <1>3, <2>2, <3>1 DEF EffectiveParent, RootId, NoId
  <2>3. CASE Stamp # RootId /\ Stamp # NoId
    <3>1. Stamp = leaf /\ leaf \in LogIds
      BY <2>3, StampFacts
    <3>2. PICK k \in 1..Len(log) : log[k].id = leaf
      BY <1>2, <3>1 DEF IdsOf
    <3>3. k \in 1..Len(log') /\ log'[k].id = leaf
      BY <1>1, <1>2, <1>3, <3>2
    <3>4. IndexIn(log', leaf) # 0
      BY <1>3, <3>3, IndexRange
    <3>. QED
      BY <1>1, <1>3, <2>3, <3>1, <3>4 DEF EffectiveParent
  <2>. QED
    BY <2>1, <2>2, <2>3
<1>5. PathToRoot(log', leaf) = PathToRoot(log, leaf)
  <2>1. leaf \in IdsOf(log) \cup {NoId}
    BY <1>2, StampFacts
  <2>. HIDE DEF leaf
  <2>. QED
    BY <1>1, <1>2, <2>1, PathStays
<1>6. PathToRoot(log', nextId) = Append(PathToRoot(log', leaf), e)
  <2>1. PathToRoot(log', log'[n].id) = Append(PathToRoot(log', EffectiveParent(log', n)), log'[n])
    BY <1>1, <1>3, PathUnfold
  <2>. QED
    BY <1>1, <1>3, <1>4, <2>1
<1>7. ActiveBranch' = PathToRoot(log', nextId)
  BY <1>1 DEF ActiveBranch
<1>8. ActiveBranch = PathToRoot(log, leaf) /\ ActiveBranch \in Seq(Event)
  BY <1>2, PathUnfold DEF ActiveBranch
<1>. QED
  BY <1>5, <1>6, <1>7, <1>8 DEF e

-----------------------------------------------------------------------------
(* TreeInv *)

\* The linear history of a conversation from before the tree is complete.
LEMMA TreeInit == Init => TreeInv
<1>. SUFFICES ASSUME Init PROVE TreeInv
  OBVIOUS
<1>1. place \in Deployments /\ MaxEvents[place] \in Nat /\ MaxEvents[place] >= 2 /\ MaxCalls \in Nat
  BY BoundsAssumption DEF Init
<1>2. PICK n \in {0, 2} :
        /\ log = [i \in 1..n |-> [id |-> i, kind |-> "msg", call |-> NoId, parent |-> NoId]]
        /\ nextId = n + 1 /\ births = [i \in 1..n |-> i - 1] /\ flushed = 1..n
  BY DEF Init
<1>3. n \in Nat /\ n <= MaxEvents[place] /\ nextId \in Nat
  BY <1>1, <1>2
<1>4. log \in Seq(Event) /\ Len(log) = n
  <2>1. \A i \in 1..n : [id |-> i, kind |-> "msg", call |-> NoId, parent |-> NoId] \in Event
    BY DEF Event, NoId
  <2>. QED
    BY <1>2, <1>3, <2>1
<1>5. births \in Seq(Int) /\ Len(births) = n
  BY <1>2, <1>3
<1>6. \A i \in 1..n : log[i].id = i /\ log[i].parent = NoId /\ births[i] = i - 1
  BY <1>2, <1>3
<1>7. WellFormed(log)
  BY <1>3, <1>4, <1>6 DEF WellFormed, NoId
<1>8. WellBorn(births)
  BY <1>3, <1>5, <1>6 DEF WellBorn
<1>9. Recorded(log, births) /\ Complete(log, births)
  BY <1>4, <1>5, <1>6, <1>7, <1>8 DEF Recorded, Complete
<1>10. LogIds \subseteq 1..(nextId - 1)
  BY <1>2, <1>3, <1>4, <1>6 DEF LogIds
<1>11. /\ head \in Heads /\ saved \in Heads /\ ~head.empty /\ head.leaf = NoId
       /\ ~saved.empty /\ saved.leaf = NoId
  BY <1>1 DEF Init, Heads, NoId
<1>12. /\ pc = "rest" /\ left \in 0..MaxCalls /\ batch = {} /\ acked = {}
       /\ crashes = 0 /\ lost = 0 /\ flushed \subseteq 1..MaxEvents[place]
       /\ nextId \in 1..(MaxEvents[place] + 1)
  BY <1>1, <1>2, <1>3 DEF Init
<1>13. TypeOK
  BY <1>1, <1>10, <1>11, <1>12 DEF TypeOK, Points
<1>. QED
  BY <1>2, <1>3, <1>5, <1>9, <1>11, <1>12, <1>13 DEF TreeInv, NoId

\* An action that appends an event.
LEMMA TreeAppend ==
  ASSUME TreeInv, NEW kind \in {"msg", "act", "res"}, NEW call \in Nat, NEW parent \in Int,
         -1 <= parent, parent <= Len(births), parent = NoId => log = <<>>,
         AppendEvent(kind, call, parent), UNCHANGED <<faultVars, flushed>>,
         pc' \in Points, saved' = saved \/ saved' = head', left' \in 0..MaxCalls,
         batch' \subseteq batch \cup {nextId}, acked' \subseteq acked \cup {nextId},
         pc' \in {"acting", "invalid"} => left' # 0, pc' = "results" => batch' # {},
         pc' \in {"acting", "invalid", "results"} => batch' \subseteq LogIds'
  PROVE  TreeInv'
<1>1. /\ place' = place /\ nextId' = nextId + 1 /\ Len(births') = nextId' - 1
      /\ nextId' \in 1..(MaxEvents[place]' + 1) /\ Recorded(log', births')
      /\ LogIds' = LogIds \cup {nextId} /\ LogIds' \subseteq 1..(nextId' - 1)
      /\ lost = 0 => Complete(log', births')
      /\ head' \in Heads' /\ head'.leaf = nextId /\ ~head'.empty /\ head'.leaf \in LogIds'
  BY Appended
<1>2. /\ nextId \in Nat /\ nextId >= 1 /\ MaxEvents[place] \in Nat /\ nextId <= MaxEvents[place]
  BY Types DEF AppendEvent
<1>3. Heads' = Heads /\ Deployments' = Deployments /\ MaxEvents[place]' = MaxEvents[place]
  BY <1>1 DEF Heads
<1>4. /\ place \in Deployments /\ saved \in Heads /\ batch \subseteq 1..MaxEvents[place]
      /\ flushed \subseteq 1..MaxEvents[place] /\ acked \subseteq 1..MaxEvents[place]
      /\ (saved.empty => saved.leaf = NoId) /\ saved.leaf < nextId
      /\ crashes \in Nat /\ lost \in Nat
  BY DEF TreeInv, TypeOK
<1>5. saved.leaf \in Nat
  BY <1>4 DEF Heads
<1>6. /\ saved' \in Heads' /\ (saved'.empty => saved'.leaf = NoId) /\ saved'.leaf < nextId'
  BY <1>1, <1>2, <1>3, <1>4, <1>5
<1>7. /\ batch' \subseteq 1..MaxEvents[place]' /\ acked' \subseteq 1..MaxEvents[place]'
      /\ flushed' \subseteq 1..MaxEvents[place]'
  BY <1>2, <1>3, <1>4
<1>8. TypeOK'
  BY <1>1, <1>3, <1>4, <1>6, <1>7 DEF TypeOK
<1>9. crashes' = crashes /\ lost' = lost
  BY DEF faultVars
<1>10. head'.leaf # NoId
  BY <1>1, <1>2 DEF NoId
<1>. QED
  BY <1>1, <1>4, <1>6, <1>8, <1>9, <1>10 DEF TreeInv

\* An action that leaves the log alone.
LEMMA TreeKeep ==
  ASSUME TreeInv, UNCHANGED <<logVars, lost>>, crashes' \in Nat,
         head' \in Heads, head'.empty => head'.leaf = NoId,
         saved' \in Heads, saved'.empty => saved'.leaf = NoId, saved'.leaf < nextId,
         pc' \in Points, pc' # "down" => head'.leaf \in LogIds \cup {NoId},
         pc' = "sent" => head'.leaf # NoId, pc' \in {"acting", "invalid"} => left' # 0,
         pc' = "results" => batch' # {},
         pc' \in {"acting", "invalid", "results"} => batch' \subseteq LogIds,
         left' \in 0..MaxCalls, batch' \subseteq batch \cup LogIds,
         flushed' \subseteq flushed \cup LogIds, acked' \subseteq acked \cup LogIds
  PROVE  TreeInv'
<1>1. /\ place' = place /\ log' = log /\ nextId' = nextId /\ births' = births /\ lost' = lost
  BY DEF logVars
<1>2. Heads' = Heads /\ LogIds' = LogIds /\ MaxEvents[place]' = MaxEvents[place]
  BY <1>1 DEF Heads, LogIds
<1>3. /\ place \in Deployments /\ batch \subseteq 1..MaxEvents[place]
      /\ flushed \subseteq 1..MaxEvents[place] /\ acked \subseteq 1..MaxEvents[place]
      /\ nextId \in 1..(MaxEvents[place] + 1) /\ LogIds \subseteq 1..(nextId - 1)
  BY DEF TreeInv, TypeOK
<1>4. LogIds \subseteq 1..MaxEvents[place]
  BY <1>3, Types
<1>5. TypeOK'
  BY <1>1, <1>2, <1>3, <1>4 DEF TypeOK
<1>. QED
  BY <1>1, <1>2, <1>5 DEF TreeInv

\* Leaving the outermost block of the state.
LEMMA FlushFacts ==
  ASSUME TreeInv, NEW h \in Heads, h.leaf \in LogIds \cup {NoId}, Flush(h)
  PROVE  /\ head' = h /\ saved' = h /\ h.leaf < nextId
         /\ flushed' \subseteq flushed \cup LogIds
<1>1. WellFormed(log) /\ LogIds = IdsOf(log) /\ LogIds \subseteq 1..(nextId - 1)
      /\ nextId \in Nat /\ nextId >= 1
  BY Types
<1>. DEFINE l == ActiveLeaf(log, h)
<1>2. flushed' = flushed \cup IdsOf(PathToRoot(log, l)) /\ head' = h /\ saved' = h
  BY DEF Flush
<1>. HIDE DEF l
<1>3. IdsOf(PathToRoot(log, l)) \subseteq LogIds
  BY <1>1, BranchInLog
<1>4. h.leaf < nextId
  BY <1>1 DEF NoId
<1>. QED
  BY <1>2, <1>3, <1>4

\* The pending actions of the active branch are events of the log.
LEMMA PendingInLog ==
  ASSUME TreeInv
  PROVE  UnmatchedIn(ActiveBranch) \subseteq LogIds /\ UnmatchedIn(log) \subseteq LogIds
<1>. DEFINE l == ActiveLeaf(log, head)
<1>1. ActiveBranch = PathToRoot(log, l)
  BY DEF ActiveBranch
<1>. HIDE DEF l
<1>2. IdsOf(ActiveBranch) \subseteq LogIds /\ IdsOf(log) = LogIds
  BY <1>1, Types, BranchInLog
<1>. QED
  BY <1>2, UnmatchedOnPath

\* The stamped appends: every append but that of the recovery.
LEMMA TreeStamped ==
  ASSUME TreeInv, pc # "down", NEW kind \in {"msg", "act", "res"}, NEW call \in Nat,
         AppendEvent(kind, call, Stamp), UNCHANGED <<faultVars, flushed, saved>>,
         pc' \in Points, left' \in 0..MaxCalls,
         batch' \subseteq batch \cup {nextId}, acked' \subseteq acked \cup {nextId},
         pc' \in {"acting", "invalid"} => left' # 0, pc' = "results" => batch' # {},
         pc' \in {"acting", "invalid", "results"} => batch' \subseteq LogIds'
  PROVE  TreeInv'
<1>. DEFINE p == Stamp
<1>1. p \in Int /\ -1 <= p /\ p <= Len(births) /\ (p = NoId => log = <<>>)
  BY StampFacts
<1>2. AppendEvent(kind, call, p)
  OBVIOUS
<1>. HIDE DEF p
<1>. QED
  BY <1>1, <1>2, TreeAppend

\* The log after a stamped append.
LEMMA StampedIds ==
  ASSUME TreeInv, pc # "down", NEW kind \in {"msg", "act", "res"}, NEW call \in Nat,
         AppendEvent(kind, call, Stamp)
  PROVE  LogIds' = LogIds \cup {nextId}
<1>. DEFINE p == Stamp
<1>1. p \in Int /\ -1 <= p /\ p <= Len(births) /\ (p = NoId => log = <<>>)
  BY StampFacts
<1>2. AppendEvent(kind, call, p)
  OBVIOUS
<1>. HIDE DEF p
<1>. QED
  BY <1>1, <1>2, Appended

\* The action whose result comes next.
LEMMA NextResult ==
  ASSUME TreeInv, pc = "results"
  PROVE  FirstIn(log, batch) \in batch \cap LogIds /\ FirstIn(log, batch) \in Nat
<1>1. batch # {} /\ batch \subseteq LogIds
  BY DEF TreeInv
<1>2. batch \cap IdsOf(log) # {}
  BY <1>1, Types
<1>3. FirstIn(log, batch) \in batch \cap IdsOf(log)
  BY <1>2, Types, FirstIsIn
<1>. QED
  BY <1>3, Types

\* The action that the recovery answers.
LEMMA FirstOrphan ==
  ASSUME TreeInv, UnmatchedIn(log) # {}
  PROVE  LET first == FirstIn(log, UnmatchedIn(log))
         IN  /\ first \in UnmatchedIn(log) /\ first \in LogIds
             /\ first \in Nat /\ first \in Int /\ first # NoId /\ -1 <= first /\ first <= Len(births)
<1>. DEFINE S == UnmatchedIn(log)
            first == FirstIn(log, S)
<1>1. S \subseteq LogIds /\ S # {}
  BY PendingInLog
<1>. HIDE DEF S
<1>2. first \in S /\ first \in LogIds
  BY <1>1, Types, FirstIsIn
<1>3. Len(births) = nextId - 1
  BY DEF TreeInv
<1>. HIDE DEF first
<1>4. first \in Nat /\ first \in Int /\ first # NoId /\ -1 <= first /\ first <= Len(births)
  BY <1>2, <1>3, Types DEF NoId
<1>. QED
  BY <1>2, <1>4 DEF first, S

\* Every step keeps the parts of the tree together.
LEMMA TreeStep == TreeInv /\ [Next]_vars => TreeInv'
<1>. SUFFICES ASSUME TreeInv, [Next]_vars PROVE TreeInv'
  OBVIOUS
<1>1. /\ pc \in Points /\ head \in Heads /\ saved \in Heads
      /\ head.empty => head.leaf = NoId
      /\ pc # "down" => head.leaf \in LogIds \cup {NoId}
      /\ left \in 0..MaxCalls /\ crashes \in Nat /\ lost \in Nat
      /\ (saved.empty => saved.leaf = NoId) /\ saved.leaf < nextId
      /\ pc = "sent" => head.leaf # NoId
      /\ pc \in {"acting", "invalid"} => left # 0
      /\ pc = "results" => batch # {}
      /\ pc \in {"acting", "invalid", "results"} => batch \subseteq LogIds
      /\ Recorded(log, births) /\ place \in Deployments
  BY DEF TreeInv, TypeOK
<1>2. /\ nextId \in Nat /\ nextId >= 1 /\ MaxEvents[place] \in Nat /\ MaxCalls \in Nat
      /\ LogIds \subseteq 1..(nextId - 1) /\ WellFormed(log) /\ LogIds = IdsOf(log)
      /\ nextId <= MaxEvents[place] + 1 /\ Len(log) \in Nat
  BY Types
<1>3. NoId \in Nat
  BY DEF NoId
<1>4. CASE SendMessage
  BY <1>1, <1>3, <1>4, TreeStamped DEF SendMessage, workVars, Points
<1>5. CASE SendDuringCall
  BY <1>1, <1>3, <1>5, TreeStamped DEF SendDuringCall, workVars, Points
<1>6. CASE ReplyText
  BY <1>1, <1>3, <1>6, TreeStamped DEF ReplyText, workVars, Points
<1>7. CASE RecordAction
  <2>1. /\ pc = "acting" /\ AppendEvent("act", NoId, Stamp) /\ batch' = batch \cup {nextId}
        /\ left' = left - 1 /\ pc' = IF left = 1 THEN "results" ELSE "acting"
        /\ UNCHANGED <<faultVars, flushed, saved>> /\ acked' = acked
    BY <1>7 DEF RecordAction
  <2>2. LogIds' = LogIds \cup {nextId}
    BY <1>3, <2>1, StampedIds
  <2>3. left' \in 0..MaxCalls /\ (pc' = "acting" => left' # 0) /\ pc' # "invalid"
    BY <1>1, <1>2, <2>1
  <2>4. pc' \in Points /\ batch' \subseteq LogIds' /\ batch' # {}
    BY <1>1, <2>1, <2>2 DEF Points
  <2>. QED
    BY <1>3, <2>1, <2>3, <2>4, TreeStamped
<1>8. CASE RecordResult
  <2>. DEFINE a == FirstIn(log, batch)
  <2>1. /\ pc = "results" /\ AppendEvent("res", a, Stamp) /\ batch' = batch \ {a}
        /\ left' = left /\ pc' = IF batch' = {} THEN "done" ELSE "results"
        /\ UNCHANGED <<faultVars, flushed, saved>> /\ acked' = acked
    BY <1>8 DEF RecordResult
  <2>2. a \in Nat
    BY <2>1, NextResult
  <2>. HIDE DEF a
  <2>3. LogIds' = LogIds \cup {nextId}
    BY <2>1, <2>2, StampedIds
  <2>4. pc' \in Points /\ batch' \subseteq LogIds' /\ (pc' = "results" => batch' # {})
        /\ pc' \notin {"acting", "invalid"}
    BY <1>1, <2>1, <2>3 DEF Points
  <2>. QED
    BY <1>1, <2>1, <2>2, <2>4, TreeStamped
<1>9. CASE SendReturns
  <2>1. pc = "sent" /\ Flush(head) /\ acked' = acked \cup {head.leaf} /\ pc' = "rest"
        /\ UNCHANGED <<logVars, workVars, faultVars>>
    BY <1>9 DEF SendReturns
  <2>2. /\ head' = head /\ saved' = head /\ head.leaf < nextId
        /\ flushed' \subseteq flushed \cup LogIds
    BY <1>1, <2>1, FlushFacts
  <2>3. acked' \subseteq acked \cup LogIds /\ head.leaf \in LogIds
    BY <1>1, <2>1
  <2>. QED
    BY <1>1, <2>1, <2>2, <2>3, TreeKeep DEF workVars, faultVars, Points
<1>10. CASE \E id \in 0..MaxEvents[place] : NavigateTo(id)
  <2>1. PICK id \in 0..MaxEvents[place] : NavigateTo(id)
    BY <1>10
  <2>. DEFINE h == [head EXCEPT !.leaf = id, !.empty = (id = NoId)]
  <2>2. /\ pc \in {"rest", "llm"} /\ (id = NoId \/ IndexIn(log, id) # 0) /\ pc' = pc /\ acked' = acked
        /\ Flush(h) \/ (head' = h /\ saved' = saved /\ flushed' = flushed)
        /\ UNCHANGED <<logVars, workVars, faultVars>>
    BY <2>1 DEF NavigateTo
  <2>3. h \in Heads /\ h.leaf = id /\ (h.empty => id = NoId)
    BY <1>1 DEF Heads
  <2>4. id \in LogIds \cup {NoId}
    BY <1>2, <2>2, IndexRange DEF LogIds
  <2>. HIDE DEF h
  <2>5. CASE Flush(h)
    <3>1. /\ head' = h /\ saved' = h /\ h.leaf < nextId
          /\ flushed' \subseteq flushed \cup LogIds
      BY <2>3, <2>4, <2>5, FlushFacts
    <3>. QED
      BY <1>1, <2>2, <2>3, <2>4, <3>1, TreeKeep DEF workVars, faultVars
  <2>6. CASE head' = h /\ saved' = saved /\ flushed' = flushed
    BY <1>1, <2>2, <2>3, <2>4, <2>6, TreeKeep DEF workVars, faultVars
  <2>. QED
    BY <2>2, <2>5, <2>6
<1>11. CASE BeginStep
  <2>. DEFINE h == [head EXCEPT !.running = TRUE]
              pending == UnmatchedIn(ActiveBranch)
  <2>1. /\ pc = "rest" /\ Flush(h) /\ UNCHANGED <<logVars, left, faultVars, acked>>
        /\ \/ pending # {} /\ pc' = "results" /\ batch' = pending
           \/ pc' = "llm" /\ batch' = batch
    BY <1>11 DEF BeginStep
  <2>2. h \in Heads /\ h.leaf = head.leaf /\ h.empty = head.empty
    BY <1>1 DEF Heads
  <2>3. pending \subseteq LogIds
    BY PendingInLog
  <2>. HIDE DEF h, pending
  <2>4. /\ head' = h /\ saved' = h /\ h.leaf < nextId
        /\ flushed' \subseteq flushed \cup LogIds
    BY <1>1, <2>1, <2>2, FlushFacts
  <2>. QED
    BY <1>1, <2>1, <2>2, <2>3, <2>4, TreeKeep DEF faultVars, Points
<1>12. CASE \E n \in 1..MaxCalls : ReplyCalls(n)
  <2>1. PICK n \in 1..MaxCalls : ReplyCalls(n)
    BY <1>12
  <2>2. n \in 0..MaxCalls /\ n # 0
    BY <1>2
  <2>3. /\ pc = "llm" /\ left' = n /\ batch' = {} /\ pc' = "acting"
        /\ UNCHANGED <<logVars, head, saved, faultVars, flushed, acked>>
    BY <2>1 DEF ReplyCalls
  <2>. QED
    BY <1>1, <2>2, <2>3, TreeKeep DEF faultVars, Points
<1>13. CASE EndStep
  <2>1. PICK r \in BOOLEAN : Flush([head EXCEPT !.running = r])
    BY <1>13 DEF EndStep
  <2>. DEFINE h == [head EXCEPT !.running = r]
  <2>2. pc = "done" /\ pc' = "rest" /\ UNCHANGED <<logVars, workVars, faultVars, acked>>
    BY <1>13 DEF EndStep
  <2>3. h \in Heads /\ h.leaf = head.leaf /\ h.empty = head.empty
    BY <1>1 DEF Heads
  <2>. HIDE DEF h
  <2>4. /\ head' = h /\ saved' = h /\ h.leaf < nextId
        /\ flushed' \subseteq flushed \cup LogIds
    BY <1>1, <2>1, <2>2, <2>3, FlushFacts DEF h
  <2>. QED
    BY <1>1, <2>2, <2>3, <2>4, TreeKeep DEF workVars, faultVars, Points
<1>14. CASE Crash
  <2>1. /\ pc' = "down" /\ crashes' = crashes + 1 /\ left' = 0 /\ batch' = {}
        /\ head' = [leaf |-> NoId, empty |-> FALSE, running |-> FALSE]
        /\ UNCHANGED <<logVars, saved, lost, flushed, acked>>
    BY <1>14 DEF Crash
  <2>2. head' \in Heads /\ head'.leaf = NoId
    BY <1>2, <2>1 DEF Heads, NoId
  <2>. QED
    BY <1>1, <1>2, <2>1, <2>2, TreeKeep DEF Points
<1>15. CASE \E i \in 1..Len(log) : LoseFile(i)
  <2>1. PICK i \in 1..Len(log) : LoseFile(i)
    BY <1>15
  <2>2. /\ pc = "down" /\ lost' = lost + 1
        /\ log' = SubSeq(log, 1, i - 1) \o SubSeq(log, i + 1, Len(log))
        /\ UNCHANGED <<place, nextId, births, head, saved, pc, workVars, crashes, flushed, acked>>
    BY <2>1 DEF LoseFile
  <2>3. Recorded(log', births) /\ IdsOf(log') \subseteq IdsOf(log)
    BY <1>1, <2>2, LogShrinks
  <2>4. LogIds' \subseteq LogIds
    <3>1. LogIds' = IdsOf(log')
      BY DEF LogIds, IdsOf
    <3>. QED
      BY <1>2, <2>3, <3>1
  <2>5. TypeOK'
    <3>1. TypeOK /\ Heads' = Heads
      BY <2>2 DEF TreeInv, Heads
    <3>. QED
      BY <2>2, <2>4, <3>1 DEF TypeOK, workVars
  <2>. QED
    BY <1>1, <2>2, <2>3, <2>5 DEF TreeInv
<1>16. CASE Reload
  <2>. DEFINE hh == [saved EXCEPT !.leaf = NoId]
              leaf == IF saved.leaf # NoId /\ IndexIn(log, saved.leaf) = 0
                      THEN ActiveLeaf(log, hh) ELSE saved.leaf
              stale == place = "server" /\ saved.running
              r == saved.running /\ ~stale
  <2>1. /\ pc = "down" /\ head' = [saved EXCEPT !.leaf = leaf, !.running = r] /\ saved' = head'
        /\ pc' \in {"recover", "rest"}
        /\ UNCHANGED <<logVars, workVars, faultVars, flushed, acked>>
    BY <1>16 DEF Reload
  <2>2. hh.leaf = NoId /\ hh.empty = saved.empty
    BY <1>1 DEF Heads
  <2>. HIDE DEF hh
  <2>3. ActiveLeaf(log, hh) \in LogIds \cup {NoId}
    BY <2>2, LeafInLog
  <2>4. leaf \in LogIds \cup {NoId} /\ (saved.empty => leaf = NoId)
    <3>1. CASE saved.leaf # NoId /\ IndexIn(log, saved.leaf) = 0
      BY <1>1, <2>3, <3>1
    <3>2. CASE saved.leaf = NoId
      BY <3>2
    <3>3. CASE saved.leaf # NoId /\ IndexIn(log, saved.leaf) # 0
      <4>1. saved.leaf \in LogIds
        BY <1>2, <3>3, IndexRange DEF LogIds
      <4>. QED
        BY <1>1, <3>3, <4>1
    <3>. QED
      BY <3>1, <3>2, <3>3
  <2>5. r \in BOOLEAN
    BY <1>1 DEF Heads
  <2>. HIDE DEF leaf, r
  <2>6. leaf \in 0..MaxEvents[place] /\ leaf < nextId
    BY <1>2, <2>4 DEF NoId
  <2>7. head' \in Heads /\ head'.leaf = leaf /\ head'.empty = saved.empty
    BY <1>1, <2>1, <2>5, <2>6 DEF Heads
  <2>. QED
    BY <1>1, <2>1, <2>4, <2>6, <2>7, TreeKeep DEF workVars, faultVars, Points
<1>17. CASE Recover
  <2>. DEFINE first == FirstIn(log, UnmatchedIn(log))
  <2>1. /\ pc = "recover" /\ pc' \in {"rest", "recovered"} /\ saved' = saved
        /\ UNCHANGED <<workVars, faultVars, flushed, acked>>
        /\ \/ UNCHANGED <<logVars, head>>
           \/ UnmatchedIn(log) # {} /\ AppendEvent("res", first, first)
    BY <1>17 DEF Recover
  <2>2. CASE UNCHANGED <<logVars, head>>
    BY <1>1, <2>1, <2>2, TreeKeep DEF workVars, faultVars, Points
  <2>3. CASE UnmatchedIn(log) # {} /\ AppendEvent("res", first, first)
    <3>1. /\ first \in Nat /\ first \in Int /\ first # NoId /\ -1 <= first /\ first <= Len(births)
      BY <2>3, FirstOrphan
    <3>. HIDE DEF first
    <3>. QED
      BY <1>1, <2>1, <2>3, <3>1, TreeAppend DEF workVars, Points
  <2>. QED
    BY <2>1, <2>2, <2>3
<1>18. CASE RecordInvalid
  <2>1. /\ pc = "acting" /\ pc' = "invalid" /\ AppendEvent("msg", NoId, Stamp)
        /\ UNCHANGED <<faultVars, flushed, saved>> /\ left' = left /\ batch' = batch /\ acked' = acked
    BY <1>18 DEF RecordInvalid, workVars
  <2>2. LogIds' = LogIds \cup {nextId}
    BY <1>3, <2>1, StampedIds
  <2>3. pc' \in Points /\ batch' \subseteq LogIds' /\ left' # 0
    BY <1>1, <2>1, <2>2 DEF Points
  <2>. QED
    BY <1>1, <1>3, <2>1, <2>3, TreeStamped
<1>19. CASE RecordError
  <2>1. /\ pc = "invalid" /\ AppendEvent("msg", NoId, Stamp) /\ left' = left - 1
        /\ pc' = IF left > 1 THEN "acting" ELSE IF batch = {} THEN "done" ELSE "results"
        /\ UNCHANGED <<faultVars, flushed, saved>> /\ batch' = batch /\ acked' = acked
    BY <1>19 DEF RecordError
  <2>2. LogIds' = LogIds \cup {nextId}
    BY <1>3, <2>1, StampedIds
  <2>3. left' \in 0..MaxCalls /\ (pc' = "acting" => left' # 0) /\ pc' # "invalid"
    BY <1>1, <1>2, <2>1
  <2>4. pc' \in Points /\ batch' \subseteq LogIds' /\ (pc' = "results" => batch' # {})
    BY <1>1, <2>1, <2>2 DEF Points
  <2>. QED
    BY <1>3, <2>1, <2>3, <2>4, TreeStamped
<1>20. CASE RecoverySaves
  <2>1. pc = "recovered" /\ Flush(head) /\ pc' = "rest" /\ acked' = acked
        /\ UNCHANGED <<logVars, workVars, faultVars>>
    BY <1>20 DEF RecoverySaves
  <2>2. /\ head' = head /\ saved' = head /\ head.leaf < nextId
        /\ flushed' \subseteq flushed \cup LogIds
    BY <1>1, <2>1, FlushFacts
  <2>. QED
    BY <1>1, <2>1, <2>2, TreeKeep DEF workVars, faultVars, Points
<1>21. CASE UNCHANGED vars
  BY <1>1, <1>21, TreeKeep DEF vars, logVars, workVars, faultVars
<1>. QED
  BY <1>4, <1>5, <1>6, <1>7, <1>8, <1>9, <1>10, <1>11, <1>12, <1>13, <1>14, <1>15, <1>16,
     <1>17, <1>18, <1>19, <1>20, <1>21 DEF Next

-----------------------------------------------------------------------------
(* GrowthInv *)

\* In a linear history everything is open everywhere.
LEMMA LinearOpen ==
  ASSUME NEW s, NEW b, Recorded(s, b), \A n \in 1..Len(b) : b[n] = n - 1
  PROVE  Nested(s, b) /\ \A l \in 0..Len(b) : OpenAt(s, b, l)
<1>1. WellBorn(b) /\ Len(b) \in Nat /\ IdsOf(s) \subseteq 1..Len(b)
  BY DEF Recorded, WellBorn, IdsOf
<1>2. \A n \in 0..Len(b) : AncestorsIn(b, n) = 1..n
  BY <1>1, AncestorsLinear
<1>3. Nested(s, b)
  <2>1. ASSUME NEW u \in IdsOf(s), NEW n \in IdsOf(s), NEW a \in AncestorsIn(b, u) \cap IdsOf(s),
               a <= n, n <= u
        PROVE  a \in AncestorsIn(b, n)
    <3>1. a \in 1..Len(b) /\ n \in 0..Len(b) /\ n \in Nat
      BY <1>1
    <3>. QED
      BY <1>1, <1>2, <2>1, <3>1
  <2>. QED
    BY <2>1 DEF Nested
<1>4. ASSUME NEW l \in 0..Len(b) PROVE OpenAt(s, b, l)
  <2>1. ASSUME NEW a \in AncestorsIn(b, l) \cap IdsOf(s), NEW n \in IdsOf(s), a <= n
        PROVE  a \in AncestorsIn(b, n)
    <3>1. a \in 1..Len(b) /\ n \in 0..Len(b) /\ n \in Nat
      BY <1>1
    <3>. QED
      BY <1>1, <1>2, <2>1, <3>1
  <2>. QED
    BY <2>1 DEF OpenAt
<1>. QED
  BY <1>3, <1>4

\* An event behind an open one is open, and the events stay nested.
LEMMA OpenGrows ==
  ASSUME NEW s, NEW b, Recorded(s, b), NEW e \in Event,
         e.id = Len(b) + 1, -1 <= e.parent, e.parent <= Len(b),
         Nested(s, b), OpenAt(s, b, e.parent)
  PROVE  Nested(Append(s, e), Append(b, e.parent)) /\ OpenAt(Append(s, e), Append(b, e.parent), e.id)
<1>. DEFINE t == Append(s, e)
            c == Append(b, e.parent)
            N == e.id
<1>1. WellBorn(b) /\ Len(b) \in Nat /\ IdsOf(s) \subseteq 1..Len(b) /\ e.parent \in Int /\ N \in Nat
  BY DEF Recorded, WellBorn, IdsOf, Event
<1>2. IdsOf(t) = IdsOf(s) \cup {N}
  BY LogGrows
<1>3. /\ \A n \in -1..Len(b) : AncestorsIn(c, n) = AncestorsIn(b, n)
      /\ AncestorsIn(c, N) = {N} \cup AncestorsIn(b, e.parent)
  BY <1>1, AncestorsStay
<1>4. \A n \in IdsOf(s) : n \in Nat /\ n < N /\ AncestorsIn(c, n) = AncestorsIn(b, n)
  BY <1>1, <1>3
<1>. HIDE DEF t, c, N
<1>5. ASSUME NEW a \in AncestorsIn(c, N) \cap IdsOf(t), NEW n \in IdsOf(t), a <= n
      PROVE  a \in AncestorsIn(c, n)
  <2>1. CASE n = N
    BY <2>1
  <2>2. CASE n \in IdsOf(s)
    <3>1. a # N
      BY <1>1, <1>4, <1>5, <2>2
    <3>2. a \in AncestorsIn(b, e.parent) \cap IdsOf(s)
      BY <1>2, <1>3, <3>1
    <3>. QED
      BY <1>4, <1>5, <2>2, <3>2 DEF OpenAt
  <2>. QED
    BY <1>2, <2>1, <2>2
<1>6. OpenAt(t, c, N)
  BY <1>5 DEF OpenAt
<1>7. ASSUME NEW u \in IdsOf(t), NEW n \in IdsOf(t), NEW a \in AncestorsIn(c, u) \cap IdsOf(t),
             a <= n, n <= u
      PROVE  a \in AncestorsIn(c, n)
  <2>1. CASE u = N
    BY <1>5, <1>7, <2>1
  <2>2. CASE u \in IdsOf(s)
    <3>1. n # N /\ a # N
      BY <1>1, <1>2, <1>4, <1>7, <2>2
    <3>2. n \in IdsOf(s) /\ a \in AncestorsIn(b, u) \cap IdsOf(s)
      BY <1>2, <1>4, <2>2, <3>1
    <3>. QED
      BY <1>4, <1>7, <2>2, <3>2 DEF Nested
  <2>. QED
    BY <1>2, <2>1, <2>2
<1>8. Nested(t, c)
  BY <1>7 DEF Nested
<1>. QED
  BY <1>6, <1>8 DEF t, c, N

\* An append on the server.
LEMMA GrowthAppend ==
  ASSUME TreeInv, GrowthInv, NEW kind \in {"msg", "act", "res"}, NEW call \in Nat, NEW parent \in Int,
         -1 <= parent, parent <= Len(births), parent = NoId => log = <<>>,
         AppendEvent(kind, call, parent), UNCHANGED faultVars,
         pc' \notin {"down", "recover"}, saved' = saved \/ saved' = head',
         place = "server" /\ crashes = 0 => parent = nextId - 1,
         place = "server" /\ crashes <= 1 => OpenAt(log, births, parent)
  PROVE  GrowthInv'
<1>. DEFINE e == NewEvent(kind, call, parent)
<1>1. /\ e \in Event /\ log' = Append(log, e) /\ births' = Append(births, parent)
      /\ e.id = nextId /\ e.parent = parent /\ place' = place /\ nextId' = nextId + 1
      /\ Len(births') = nextId' - 1
      /\ ~head'.empty /\ ActiveLeaf(log', head') = nextId
  <2>1. LET f == NewEvent(kind, call, parent)
        IN  /\ f \in Event /\ log' = Append(log, f) /\ births' = Append(births, parent)
            /\ f.id = nextId /\ f.parent = parent /\ place' = place /\ nextId' = nextId + 1
            /\ Len(births') = nextId' - 1
            /\ ~head'.empty /\ ActiveLeaf(log', head') = nextId
    BY Appended
  <2>. QED
    BY <2>1
<1>. HIDE DEF e
<1>2. SUFFICES ASSUME place = "server" PROVE GrowthInv'
  BY <1>1, <1>2 DEF GrowthInv
<1>3. /\ Recorded(log, births) /\ nextId = Len(births) + 1 /\ Len(births) \in Nat /\ nextId \in Nat
      /\ births \in Seq(Int)
  BY Types DEF TreeInv, WellBorn
<1>4. crashes' = crashes /\ lost' = lost
  BY DEF faultVars
<1>5. ~head'.empty /\ ~saved'.empty
  BY <1>1, <1>2 DEF GrowthInv
<1>6. crashes' = 0 => pc' \notin {"down", "recover"} /\ lost' = 0
                      /\ ActiveLeaf(log', head') = nextId' - 1
  BY <1>1, <1>2, <1>3, <1>4 DEF GrowthInv
<1>7. ASSUME FirstLife', NEW n \in 1..Len(births') PROVE births'[n] = n - 1
  <2>1. crashes = 0
    BY <1>4, <1>7 DEF FirstLife
  <2>2. \A k \in 1..Len(births) : births[k] = k - 1
    BY <1>2, <2>1 DEF GrowthInv, FirstLife
  <2>. QED
    BY <1>1, <1>2, <1>3, <2>1, <2>2
<1>8. ASSUME crashes' <= 1
      PROVE  Nested(log', births') /\ OpenAt(log', births', ActiveLeaf(log', head'))
  <2>1. Nested(log, births) /\ OpenAt(log, births, parent)
    BY <1>2, <1>4, <1>8 DEF GrowthInv
  <2>. QED
    BY <1>1, <1>3, <2>1, OpenGrows
<1>. QED
  BY <1>5, <1>6, <1>7, <1>8 DEF GrowthInv

\* A stamped append on the server.
LEMMA GrowthStamped ==
  ASSUME TreeInv, GrowthInv, pc # "down", NEW kind \in {"msg", "act", "res"}, NEW call \in Nat,
         AppendEvent(kind, call, Stamp), UNCHANGED <<faultVars, saved>>,
         pc' \notin {"down", "recover"}
  PROVE  GrowthInv'
<1>. DEFINE p == Stamp
<1>1. /\ p \in Int /\ -1 <= p /\ p <= Len(births) /\ (p = NoId => log = <<>>)
      /\ AncestorsIn(births, p) = AncestorsIn(births, ActiveLeaf(log, head))
      /\ p = ActiveLeaf(log, head) \/ (p = RootId /\ ActiveLeaf(log, head) = NoId)
  BY StampFacts DEF AncestorsOf
<1>2. AppendEvent(kind, call, p)
  OBVIOUS
<1>3. ASSUME place = "server", crashes = 0 PROVE p = nextId - 1
  <2>1. ActiveLeaf(log, head) = nextId - 1
    BY <1>3 DEF GrowthInv
  <2>2. ASSUME ActiveLeaf(log, head) = NoId PROVE log = <<>>
    <3>1. nextId = 1
      BY <2>1, <2>2, Types DEF NoId
    <3>2. LogIds = {}
      BY <3>1, Types
    <3>3. Len(log) = 0
      <4>1. Len(log) \in Nat /\ ~ \E i \in 1..Len(log) : TRUE
        BY <3>2, Types DEF LogIds
      <4>2. Len(log) >= 1 => 1 \in 1..Len(log)
        BY <4>1
      <4>. QED
        BY <4>1, <4>2
    <3>. QED
      BY <3>3, Types
  <2>3. p = ActiveLeaf(log, head)
    BY <2>2 DEF Stamp
  <2>. QED
    BY <2>1, <2>3
<1>. HIDE DEF p
<1>4. ASSUME place = "server", crashes <= 1 PROVE OpenAt(log, births, p)
  <2>1. OpenAt(log, births, ActiveLeaf(log, head))
    BY <1>4 DEF GrowthInv
  <2>. QED
    BY <1>1, <2>1 DEF OpenAt
<1>. QED
  BY <1>1, <1>2, <1>3, <1>4, GrowthAppend

\* A step of a live process that appends nothing.
LEMMA GrowthKeep ==
  ASSUME GrowthInv, UNCHANGED <<logVars, faultVars>>,
         place = "server" => /\ pc # "down" /\ (pc' = "recover" => pc = "recover") /\ pc' # "down"
                             /\ head'.leaf = head.leaf /\ head'.empty = head.empty /\ ~saved'.empty
  PROVE  GrowthInv'
<1>1. /\ place' = place /\ log' = log /\ nextId' = nextId /\ births' = births
      /\ crashes' = crashes /\ lost' = lost
  BY DEF logVars, faultVars
<1>2. SUFFICES ASSUME place = "server" PROVE GrowthInv'
  BY <1>1, <1>2 DEF GrowthInv
<1>3. ActiveLeaf(log', head') = ActiveLeaf(log, head)
  BY <1>1, <1>2 DEF ActiveLeaf
<1>4. FirstLife' => FirstLife
  BY <1>1, <1>2 DEF FirstLife
<1>. QED
  BY <1>1, <1>2, <1>3, <1>4 DEF GrowthInv

\* Nothing has branched off yet.
LEMMA GrowthInit == Init => GrowthInv
<1>. SUFFICES ASSUME Init PROVE GrowthInv
  OBVIOUS
<1>1. TreeInv
  BY TreeInit
<1>2. PICK n \in {0, 2} :
        /\ log = [i \in 1..n |-> [id |-> i, kind |-> "msg", call |-> NoId, parent |-> NoId]]
        /\ nextId = n + 1 /\ births = [i \in 1..n |-> i - 1]
  BY DEF Init
<1>3. /\ ~head.empty /\ ~saved.empty /\ head.leaf = NoId /\ crashes = 0 /\ lost = 0 /\ pc = "rest"
  BY DEF Init
<1>4. Len(births) = n /\ Len(log) = n /\ \A i \in 1..n : births[i] = i - 1 /\ log[i].id = i
  BY <1>2
<1>5. ActiveLeaf(log, head) = nextId - 1
  <2>1. CASE n = 0
    <3>1. log = <<>>
      BY <1>2, <2>1
    <3>. QED
      BY <1>2, <1>3, <2>1, <3>1 DEF ActiveLeaf, NoId
  <2>2. CASE n = 2
    <3>1. log # <<>> /\ log[Len(log)].id = 2
      BY <1>4, <2>2
    <3>. QED
      BY <1>2, <1>3, <2>2, <3>1 DEF ActiveLeaf
  <2>. QED
    BY <2>1, <2>2
<1>6. Nested(log, births) /\ OpenAt(log, births, ActiveLeaf(log, head))
  <2>1. Recorded(log, births) /\ \A l \in 1..Len(births) : births[l] = l - 1
    BY <1>1, <1>4 DEF TreeInv
  <2>2. ActiveLeaf(log, head) \in 0..Len(births)
    BY <1>2, <1>4, <1>5
  <2>. QED
    BY <2>1, <2>2, LinearOpen
<1>. QED
  BY <1>3, <1>4, <1>5, <1>6 DEF GrowthInv

\* On the server the tree only forks where a recovery goes back to an older action.
LEMMA GrowthStep == TreeInv /\ GrowthInv /\ [Next]_vars => GrowthInv'
<1>. SUFFICES ASSUME TreeInv, GrowthInv, [Next]_vars PROVE GrowthInv'
  OBVIOUS
<1>1. TreeInv'
  BY TreeStep
<1>2. /\ head \in Heads /\ saved \in Heads /\ Recorded(log, births) /\ crashes \in Nat
      /\ WellFormed(log) /\ LogIds = IdsOf(log) /\ Len(births) \in Nat
  BY Types DEF TreeInv, TypeOK
<1>3. NoId \in Nat
  BY DEF NoId
<1>4. CASE SendMessage
  BY <1>3, <1>4, GrowthStamped DEF SendMessage
<1>5. CASE SendDuringCall
  BY <1>3, <1>5, GrowthStamped DEF SendDuringCall
<1>6. CASE ReplyText
  BY <1>3, <1>6, GrowthStamped DEF ReplyText
<1>7. CASE RecordAction
  BY <1>3, <1>7, GrowthStamped DEF RecordAction
<1>8. CASE RecordResult
  <2>. DEFINE a == FirstIn(log, batch)
  <2>1. /\ pc = "results" /\ AppendEvent("res", a, Stamp) /\ pc' \in {"done", "results"}
        /\ UNCHANGED <<faultVars, saved>>
    BY <1>8 DEF RecordResult
  <2>2. a \in Nat
    BY <2>1, NextResult
  <2>. HIDE DEF a
  <2>. QED
    BY <2>1, <2>2, GrowthStamped
<1>9. CASE SendReturns
  BY <1>9, GrowthKeep DEF SendReturns, Flush, GrowthInv
<1>10. CASE \E id \in 0..MaxEvents[place] : NavigateTo(id)
  <2>1. place # "server" /\ UNCHANGED <<logVars, faultVars>>
    BY <1>10 DEF NavigateTo
  <2>. QED
    BY <2>1, GrowthKeep
<1>11. CASE BeginStep
  <2>. DEFINE h == [head EXCEPT !.running = TRUE]
  <2>1. /\ pc = "rest" /\ head' = h /\ saved' = h /\ UNCHANGED <<logVars, faultVars>>
        /\ pc' \in {"results", "llm"}
    BY <1>11 DEF BeginStep, Flush
  <2>2. h.leaf = head.leaf /\ h.empty = head.empty
    BY <1>2 DEF Heads
  <2>. HIDE DEF h
  <2>. QED
    BY <2>1, <2>2, GrowthKeep DEF GrowthInv
<1>12. CASE \E n \in 1..MaxCalls : ReplyCalls(n)
  <2>1. /\ pc = "llm" /\ pc' = "acting" /\ UNCHANGED <<logVars, head, saved, faultVars>>
    BY <1>12 DEF ReplyCalls
  <2>. QED
    BY <2>1, GrowthKeep DEF GrowthInv
<1>13. CASE EndStep
  <2>1. PICK r \in BOOLEAN : Flush([head EXCEPT !.running = r])
    BY <1>13 DEF EndStep
  <2>. DEFINE h == [head EXCEPT !.running = r]
  <2>2. /\ pc = "done" /\ pc' = "rest" /\ UNCHANGED <<logVars, faultVars>>
        /\ head' = h /\ saved' = h
    BY <1>13, <2>1 DEF EndStep, Flush
  <2>3. h.leaf = head.leaf /\ h.empty = head.empty
    BY <1>2 DEF Heads
  <2>. HIDE DEF h
  <2>. QED
    BY <2>2, <2>3, GrowthKeep DEF GrowthInv
<1>14. CASE Crash
  <2>1. /\ pc' = "down" /\ crashes' = crashes + 1 /\ ~head'.empty
        /\ UNCHANGED <<logVars, saved, lost>>
    BY <1>14 DEF Crash
  <2>2. /\ place' = place /\ log' = log /\ births' = births /\ nextId' = nextId /\ saved' = saved
    BY <2>1 DEF logVars
  <2>3. SUFFICES ASSUME place = "server" PROVE GrowthInv'
    BY <2>2, <2>3 DEF GrowthInv
  <2>4. crashes' # 0 /\ (crashes' <= 1 => crashes = 0 /\ crashes <= 1)
    BY <1>2, <2>1
  <2>5. FirstLife' => FirstLife
    BY <1>2, <2>1, <2>4 DEF FirstLife
  <2>. QED
    BY <2>1, <2>2, <2>3, <2>4, <2>5 DEF GrowthInv
<1>15. CASE \E i \in 1..Len(log) : LoseFile(i)
  <2>1. PICK i \in 1..Len(log) : LoseFile(i)
    BY <1>15
  <2>2. /\ pc = "down" /\ log' = SubSeq(log, 1, i - 1) \o SubSeq(log, i + 1, Len(log))
        /\ UNCHANGED <<place, nextId, births, head, saved, pc, crashes>>
    BY <2>1 DEF LoseFile
  <2>3. IdsOf(log') \subseteq IdsOf(log)
    BY <1>2, <2>2, LogShrinks
  <2>4. Nested(log, births) => Nested(log', births)
    BY <2>3 DEF Nested
  <2>5. SUFFICES ASSUME place = "server" PROVE GrowthInv'
    BY <2>2, <2>5 DEF GrowthInv
  <2>6. crashes # 0
    BY <2>2, <2>5 DEF GrowthInv
  <2>7. FirstLife' = FirstLife
    BY <2>2 DEF FirstLife
  <2>. QED
    BY <2>2, <2>4, <2>5, <2>6, <2>7 DEF GrowthInv
<1>16. CASE Reload
  <2>1. /\ pc = "down" /\ saved' = head' /\ pc' \in {"recover", "rest"}
        /\ UNCHANGED <<logVars, faultVars>>
    BY <1>16 DEF Reload
  <2>2. head'.empty = saved.empty
    BY <1>2, <1>16 DEF Reload, Heads
  <2>3. /\ place' = place /\ log' = log /\ births' = births /\ nextId' = nextId
        /\ crashes' = crashes /\ lost' = lost
    BY <2>1 DEF logVars, faultVars
  <2>4. SUFFICES ASSUME place = "server" PROVE GrowthInv'
    BY <2>3, <2>4 DEF GrowthInv
  <2>5. crashes # 0 /\ (crashes <= 1 => crashes = 1)
    BY <1>2, <2>1, <2>4 DEF GrowthInv
  <2>6. crashes <= 1 => FirstLife
    BY <2>1, <2>5 DEF FirstLife
  <2>7. FirstLife' => FirstLife
    BY <2>1, <2>3, <2>5 DEF FirstLife
  <2>8. ASSUME crashes <= 1 PROVE OpenAt(log, births, ActiveLeaf(log, head'))
    <3>1. \A n \in 1..Len(births) : births[n] = n - 1
      BY <2>4, <2>6, <2>8 DEF GrowthInv
    <3>2. head'.leaf \in LogIds \cup {NoId}
      <4>1. LogIds' = LogIds
        BY <2>3 DEF LogIds
      <4>. QED
        BY <1>1, <2>1, <4>1 DEF TreeInv, TypeOK
    <3>. DEFINE h == head'
    <3>. HIDE DEF h
    <3>3. ActiveLeaf(log, h) \in 0..Len(births)
      BY <3>2, LeafInLog DEF h
    <3>. QED
      BY <1>2, <3>1, <3>3, LinearOpen DEF h
  <2>. QED
    BY <2>1, <2>2, <2>3, <2>4, <2>5, <2>7, <2>8 DEF GrowthInv
<1>17. CASE Recover
  <2>. DEFINE first == FirstIn(log, UnmatchedIn(log))
  <2>1. /\ pc = "recover" /\ pc' \in {"rest", "recovered"} /\ UNCHANGED faultVars /\ saved' = saved
        /\ \/ UNCHANGED <<logVars, head>>
           \/ UnmatchedIn(log) # {} /\ AppendEvent("res", first, first)
    BY <1>17 DEF Recover
  <2>2. CASE UNCHANGED <<logVars, head>>
    BY <2>1, <2>2, GrowthKeep DEF GrowthInv
  <2>3. CASE UnmatchedIn(log) # {} /\ AppendEvent("res", first, first)
    <3>1. /\ first \in Nat /\ first \in Int /\ first # NoId /\ -1 <= first /\ first <= Len(births)
      BY <2>3, FirstOrphan
    <3>. HIDE DEF first
    <3>2. ASSUME place = "server" PROVE crashes # 0 /\ (crashes <= 1 => OpenAt(log, births, first))
      <4>1. crashes # 0
        BY <2>1, <3>2 DEF GrowthInv
      <4>2. ASSUME crashes <= 1 PROVE OpenAt(log, births, first)
        <5>1. FirstLife
          BY <1>2, <2>1, <4>1, <4>2 DEF FirstLife
        <5>2. \A n \in 1..Len(births) : births[n] = n - 1
          BY <3>2, <5>1 DEF GrowthInv
        <5>3. first \in 0..Len(births)
          BY <3>1, <1>2
        <5>. QED
          BY <1>2, <5>2, <5>3, LinearOpen
      <4>. QED
        BY <4>1, <4>2
    <3>. QED
      BY <2>1, <2>3, <3>1, <3>2, GrowthAppend
  <2>. QED
    BY <2>1, <2>2, <2>3
<1>18. CASE RecordInvalid
  BY <1>3, <1>18, GrowthStamped DEF RecordInvalid
<1>19. CASE RecordError
  <2>1. /\ pc = "invalid" /\ AppendEvent("msg", NoId, Stamp) /\ UNCHANGED <<faultVars, saved>>
        /\ pc' \in {"acting", "done", "results"}
    BY <1>19 DEF RecordError
  <2>. QED
    BY <1>3, <2>1, GrowthStamped
<1>20. CASE RecoverySaves
  BY <1>20, GrowthKeep DEF RecoverySaves, Flush, GrowthInv
<1>21. CASE UNCHANGED vars
  BY <1>21 DEF vars, logVars, faultVars, GrowthInv, FirstLife, ActiveLeaf, Nested, OpenAt
<1>. QED
  BY <1>4, <1>5, <1>6, <1>7, <1>8, <1>9, <1>10, <1>11, <1>12, <1>13, <1>14, <1>15, <1>16,
     <1>17, <1>18, <1>19, <1>20, <1>21 DEF Next

-----------------------------------------------------------------------------
(* FlushInv *)

\* With every file there, branches are ancestors.
LEMMA CompleteFacts ==
  ASSUME TreeInv, lost = 0
  PROVE  /\ Complete(log, births) /\ Len(log) = nextId - 1 /\ Len(births) = nextId - 1
         /\ \A n \in 0..Len(log) : IdsOf(PathToRoot(log, n)) = AncestorsOf(n)
         /\ \A n \in 1..Len(log) : log[n].id = n /\ n \in LogIds /\ IndexIn(log, n) = n
         /\ LogIds = 1..Len(log)
<1>1. Complete(log, births) /\ Recorded(log, births) /\ Len(births) = nextId - 1
  BY DEF TreeInv
<1>2. Len(log) = nextId - 1 /\ \A n \in 1..Len(log) : log[n].id = n
  BY <1>1 DEF Complete
<1>3. \A n \in 0..Len(log) : IdsOf(PathToRoot(log, n)) = AncestorsOf(n)
  BY <1>1, CompleteIsExact DEF AncestorsOf
<1>4. \A n \in 1..Len(log) : IndexIn(log, log[n].id) = n
  BY Types, IndexOf
<1>. QED
  BY <1>1, <1>2, <1>3, <1>4 DEF LogIds

\* Actions without a result, after one more event.
LEMMA UnmatchedGrows ==
  ASSUME NEW p \in Seq(Event), NEW e \in Event
  PROVE  UnmatchedIn(Append(p, e)) \subseteq UnmatchedIn(p) \cup {e.id}
  BY AppendSets DEF UnmatchedIn

\* A stamped append on the server.
LEMMA FlushStamped ==
  ASSUME TreeInv, GrowthInv, FlushInv, pc \notin {"down", "recover"},
         NEW kind \in {"msg", "act", "res"}, NEW call \in Nat,
         AppendEvent(kind, call, Stamp), UNCHANGED <<faultVars, flushed, saved>>,
         pc' \notin {"down", "recover"},
         Pairs(log, Awaited) => Pairs(log', Awaited')
  PROVE  FlushInv'
<1>. DEFINE e == NewEvent(kind, call, Stamp)
<1>1. /\ e \in Event /\ log' = Append(log, e) /\ births' = Append(births, Stamp)
      /\ e.id = nextId /\ place' = place /\ nextId' = nextId + 1
      /\ ActiveLeaf(log', head') = nextId
  <2>. DEFINE p == Stamp
  <2>1. p \in Int /\ -1 <= p /\ p <= Len(births) /\ (p = NoId => log = <<>>)
    BY StampFacts
  <2>2. AppendEvent(kind, call, p)
    OBVIOUS
  <2>. HIDE DEF p
  <2>3. LET f == NewEvent(kind, call, p)
        IN  /\ f \in Event /\ log' = Append(log, f) /\ births' = Append(births, p)
            /\ f.id = nextId /\ place' = place /\ nextId' = nextId + 1
            /\ ActiveLeaf(log', head') = nextId
    BY <2>1, <2>2, Appended
  <2>. QED
    BY <2>3 DEF p
<1>2. crashes' = crashes /\ lost' = lost /\ flushed' = flushed /\ saved' = saved
  BY DEF faultVars
<1>3. SUFFICES ASSUME place = "server", lost = 0 PROVE FlushInv'
  BY <1>1, <1>2, <1>3 DEF FlushInv
<1>4. nextId \in Nat /\ nextId >= 1 /\ log \in Seq(Event) /\ WellBorn(births) /\ Len(births) = nextId - 1
  BY Types DEF TreeInv
<1>5. FirstLife' => FirstLife /\ crashes = 0
  BY <1>2 DEF FirstLife
<1>6. ASSUME crashes = 0
      PROVE  /\ saved'.leaf # NoId => flushed' \subseteq 1..saved'.leaf
             /\ flushed' \subseteq 1..(nextId' - 1)
             /\ \A o \in UnmatchedIn(log'), x \in flushed' : x < o
             /\ ActiveBranch' = log' /\ Pairs(log', Awaited')
  <2>1. /\ saved.leaf # NoId => flushed \subseteq 1..saved.leaf
        /\ flushed \subseteq 1..(nextId - 1)
        /\ \A o \in UnmatchedIn(log), x \in flushed : x < o
        /\ ActiveBranch = log /\ Pairs(log, Awaited)
    BY <1>3, <1>6 DEF FlushInv, FirstLife
  <2>2. UnmatchedIn(log') \subseteq UnmatchedIn(log) \cup {nextId}
    BY <1>1, <1>4, UnmatchedGrows
  <2>3. flushed \subseteq 1..(nextId' - 1) /\ \A x \in flushed : x < nextId
    BY <1>1, <1>4, <2>1
  <2>4. ActiveBranch' = Append(ActiveBranch, e)
    BY BranchGrows
  <2>. QED
    BY <1>1, <1>2, <2>1, <2>2, <2>3, <2>4
<1>7. ASSUME crashes <= 1 PROVE flushed' \subseteq AncestorsIn(births', ActiveLeaf(log', head'))
  <2>1. flushed \subseteq AncestorsOf(ActiveLeaf(log, head))
    BY <1>3, <1>7 DEF FlushInv
  <2>2. AncestorsIn(births, Stamp) = AncestorsOf(ActiveLeaf(log, head))
        /\ Stamp \in Int /\ -1 <= Stamp /\ Stamp <= Len(births)
    BY StampFacts
  <2>3. AncestorsIn(births', nextId) = {nextId} \cup AncestorsIn(births, Stamp)
    BY <1>1, <1>4, <2>2, AncestorsStay
  <2>. QED
    BY <1>1, <1>2, <2>1, <2>2, <2>3 DEF AncestorsOf
<1>. QED
  BY <1>2, <1>3, <1>5, <1>6, <1>7 DEF FlushInv, AncestorsOf

\* A save on the server.
LEMMA FlushSaved ==
  ASSUME TreeInv, GrowthInv, FlushInv, pc \in {"rest", "sent", "done", "recovered"},
         NEW h, h.leaf = head.leaf, h.empty = head.empty, Flush(h),
         UNCHANGED <<logVars, faultVars>>,
         place = "server" => pc' \notin {"down", "recover"},
         place = "server" /\ lost = 0 /\ crashes = 0 => Awaited' = {}
  PROVE  place = "server" => FlushInv'
<1>1. /\ place' = place /\ log' = log /\ nextId' = nextId /\ births' = births
      /\ crashes' = crashes /\ lost' = lost
  BY DEF logVars, faultVars
<1>2. SUFFICES ASSUME place = "server", lost = 0 PROVE FlushInv'
  BY <1>1, <1>2 DEF FlushInv
<1>. DEFINE l == ActiveLeaf(log, head)
<1>3. ActiveLeaf(log, h) = l /\ ActiveLeaf(log', head') = l
  BY <1>1 DEF ActiveLeaf, Flush
<1>4. /\ head' = h /\ saved' = h /\ flushed' = flushed \cup IdsOf(PathToRoot(log, l))
  BY <1>3 DEF Flush
<1>5. l \in 0..Len(births) /\ l \in LogIds \cup {NoId}
  BY StampFacts
<1>. HIDE DEF l
<1>6. IdsOf(PathToRoot(log, l)) = AncestorsOf(l) /\ Len(births) = nextId - 1 /\ Len(births) = Len(log)
  BY <1>2, <1>5, CompleteFacts
<1>7. nextId \in Nat /\ nextId >= 1 /\ WellBorn(births)
  BY Types
<1>8. ASSUME crashes <= 1 PROVE flushed' \subseteq AncestorsIn(births', ActiveLeaf(log', head'))
  <2>1. flushed \subseteq AncestorsOf(l)
    BY <1>2, <1>8 DEF FlushInv, l
  <2>. QED
    BY <1>1, <1>3, <1>4, <1>6, <2>1 DEF AncestorsOf
<1>9. ASSUME FirstLife'
      PROVE  /\ saved'.leaf # NoId => flushed' \subseteq 1..saved'.leaf
             /\ flushed' \subseteq 1..(nextId' - 1)
             /\ \A o \in UnmatchedIn(log'), x \in flushed' : x < o
             /\ ActiveBranch' = log' /\ Pairs(log', Awaited')
  <2>1. crashes = 0
    BY <1>1, <1>2, <1>9 DEF FirstLife
  <2>2. /\ flushed \subseteq 1..(nextId - 1) /\ ActiveBranch = log /\ Pairs(log, Awaited)
    BY <1>2, <2>1 DEF FlushInv, FirstLife
  <2>3. UnmatchedIn(log) = {} /\ Pairs(log, {})
    BY <2>2 DEF Pairs, Awaited
  <2>4. l = nextId - 1 /\ (head.leaf # NoId => head.leaf = l)
    BY <1>2, <2>1 DEF GrowthInv, l, ActiveLeaf
  <2>5. AncestorsOf(l) \subseteq 1..l
    <3>1. l \in -1..Len(births)
      BY <1>5, <1>6, <1>7
    <3>. QED
      BY <1>7, <3>1, AncestorsOlder DEF AncestorsOf
  <2>6. flushed' \subseteq 1..(nextId - 1)
    BY <1>4, <1>6, <2>2, <2>4, <2>5
  <2>7. ActiveBranch' = ActiveBranch
    BY <1>1, <1>3 DEF ActiveBranch, l
  <2>8. Awaited' = {}
    BY <1>2, <2>1
  <2>. QED
    BY <1>1, <1>4, <2>2, <2>3, <2>4, <2>6, <2>7, <2>8
<1>10. crashes' = 0 => FirstLife'
  BY DEF FirstLife
<1>. QED
  BY <1>1, <1>8, <1>9, <1>10 DEF FlushInv, AncestorsOf

\* One more event at the end.
LEMMA AppendFacts ==
  ASSUME NEW p \in Seq(Event), NEW e \in Event
  PROVE  /\ Append(p, e) \in Seq(Event) /\ Len(Append(p, e)) = Len(p) + 1
         /\ Append(p, e)[Len(p) + 1] = e
         /\ \A i \in 1..Len(p) : Append(p, e)[i] = p[i]
  OBVIOUS

\* A log of two events, event by event.
LEMMA TwoEvents ==
  ASSUME NEW s \in Seq(Event), Len(s) = 2
  PROVE  Append(Append(<<>>, s[1]), s[2]) = s
<1>. DEFINE u == Append(<<>>, s[1])
            e == s[2]
            q == Append(u, e)
<1>1. s[1] \in Event /\ e \in Event
  BY SMTT(40)
<1>. HIDE DEF e
<1>2. u \in Seq(Event) /\ Len(u) = 1 /\ u[1] = s[1]
  BY <1>1
<1>. HIDE DEF u
<1>3. /\ q \in Seq(Event) /\ Len(q) = Len(u) + 1 /\ q[Len(u) + 1] = e
      /\ \A i \in 1..Len(u) : q[i] = u[i]
  BY <1>1, <1>2, AppendFacts
<1>. HIDE DEF q
<1>4. Len(s) = Len(q) /\ \A i \in 1..Len(q) : q[i] = s[i]
  BY <1>2, <1>3 DEF e
<1>5. q = s
  BY <1>3, <1>4, SeqEqual
<1>. QED
  BY <1>5 DEF q, u, e

\* The active branch of a linear history is all of it.
LEMMA FlushInit == Init => FlushInv
<1>. SUFFICES ASSUME Init PROVE FlushInv
  OBVIOUS
<1>1. TreeInv /\ GrowthInv
  BY TreeInit, GrowthInit
<1>2. PICK n \in {0, 2} :
        /\ log = [i \in 1..n |-> [id |-> i, kind |-> "msg", call |-> NoId, parent |-> NoId]]
        /\ nextId = n + 1 /\ births = [i \in 1..n |-> i - 1] /\ flushed = 1..n
  BY DEF Init
<1>3. /\ saved.leaf = NoId /\ head.leaf = NoId /\ ~head.empty /\ crashes = 0 /\ lost = 0
      /\ pc = "rest"
  BY DEF Init
<1>4. /\ Len(log) = n /\ Len(births) = n
      /\ \A i \in 1..n : log[i].id = i /\ log[i].kind = "msg" /\ log[i].parent = NoId
                         /\ births[i] = i - 1
  BY <1>2
<1>5. ActiveLeaf(log, head) = n
  <2>1. CASE n = 0
    <3>1. log = <<>>
      BY <1>2, <2>1
    <3>. QED
      BY <1>3, <2>1, <3>1 DEF ActiveLeaf, NoId
  <2>2. CASE n = 2
    <3>1. log # <<>> /\ log[Len(log)].id = 2
      BY <1>4, <2>2
    <3>. QED
      BY <1>3, <2>2, <3>1 DEF ActiveLeaf
  <2>. QED
    BY <2>1, <2>2
<1>6. WellFormed(log) /\ log \in Seq(Event) /\ WellBorn(births)
  BY <1>1, Types
<1>7. PathToRoot(log, n) = log
  <2>1. CASE n = 0
    <3>1. log = <<>> /\ PathToRoot(log, NoId) = <<>>
      BY <1>2, <1>6, <2>1, NoBranch
    <3>. QED
      BY <2>1, <3>1 DEF NoId
  <2>2. CASE n = 2
    <3>1. 1 \in 1..Len(log) /\ 2 \in 1..Len(log) /\ log[1].id = 1 /\ log[2].id = 2
      BY <1>4, <2>2
    <3>2. EffectiveParent(log, 1) = NoId /\ EffectiveParent(log, 2) = 1
      BY <1>4, <2>2, <3>1 DEF EffectiveParent, NoId, RootId
    <3>3. PathToRoot(log, 1) = Append(<<>>, log[1])
      BY <1>6, <3>1, <3>2, PathUnfold, NoBranch
    <3>4. PathToRoot(log, 2) = Append(PathToRoot(log, 1), log[2])
      BY <1>6, <3>1, <3>2, PathUnfold
    <3>5. PathToRoot(log, 2) = Append(Append(<<>>, log[1]), log[2])
      BY <3>3, <3>4
    <3>. QED
      BY <1>4, <1>6, <2>2, <3>5, TwoEvents
  <2>. QED
    BY <2>1, <2>2
<1>8. ActionsIn(log) = {} /\ AnsweredIn(log) = {}
  BY <1>4 DEF ActionsIn, AnsweredIn
<1>9. AncestorsOf(ActiveLeaf(log, head)) = 1..n
  <2>1. \A i \in 1..Len(births) : births[i] = i - 1
    BY <1>4
  <2>2. n \in 0..Len(births)
    BY <1>4
  <2>. QED
    BY <1>5, <1>6, <2>1, <2>2, AncestorsLinear DEF AncestorsOf
<1>10. Pairs(log, Awaited) /\ UnmatchedIn(log) = {}
  BY <1>3, <1>8 DEF Pairs, Awaited, UnmatchedIn
<1>11. ActiveBranch = log
  BY <1>5, <1>7 DEF ActiveBranch
<1>12. flushed \subseteq 1..(nextId - 1)
  BY <1>2
<1>. QED
  BY <1>2, <1>3, <1>9, <1>10, <1>11, <1>12 DEF FlushInv

\* What a message does to the pairs of a path: nothing.
LEMMA PairsMessage ==
  ASSUME NEW p \in Seq(Event), NEW U, Pairs(p, U), NEW e \in Event, e.kind = "msg"
  PROVE  Pairs(Append(p, e), U)
  BY AppendSets DEF Pairs, UnmatchedIn

\* An action awaits its result.
LEMMA PairsAction ==
  ASSUME NEW p \in Seq(Event), NEW U, Pairs(p, U), NEW e \in Event, e.kind = "act", e.id \notin IdsOf(p)
  PROVE  Pairs(Append(p, e), U \cup {e.id})
<1>1. /\ ActionsIn(Append(p, e)) = ActionsIn(p) \cup {e.id}
      /\ AnsweredIn(Append(p, e)) = AnsweredIn(p)
  BY AppendSets
<1>2. ActionsIn(p) \subseteq IdsOf(p)
  BY UnmatchedOnPath
<1>. QED
  BY <1>1, <1>2 DEF Pairs, UnmatchedIn

\* A result ends the wait.
LEMMA PairsResult ==
  ASSUME NEW p \in Seq(Event), NEW U, Pairs(p, U), NEW e \in Event, e.kind = "res", e.call \in U
  PROVE  Pairs(Append(p, e), U \ {e.call})
<1>1. /\ ActionsIn(Append(p, e)) = ActionsIn(p)
      /\ AnsweredIn(Append(p, e)) = AnsweredIn(p) \cup {e.call}
  BY AppendSets
<1>. QED
  BY <1>1 DEF Pairs, UnmatchedIn

\* The log and the path of HEAD after a stamped append.
LEMMA StampedLog ==
  ASSUME TreeInv, pc # "down", NEW kind \in {"msg", "act", "res"}, NEW call \in Nat,
         AppendEvent(kind, call, Stamp)
  PROVE  LET e == NewEvent(kind, call, Stamp)
         IN  /\ e \in Event /\ log' = Append(log, e) /\ e.id = nextId /\ e.kind = kind /\ e.call = call
             /\ log \in Seq(Event) /\ ActiveBranch \in Seq(Event)
             /\ ActiveBranch' = Append(ActiveBranch, e)
             /\ nextId \notin IdsOf(log) /\ nextId \notin IdsOf(ActiveBranch)
<1>. DEFINE e == NewEvent(kind, call, Stamp)
<1>1. e \in Event /\ log' = Append(log, e) /\ e.id = nextId /\ e.kind = kind /\ e.call = call
  <2>. DEFINE p == Stamp
  <2>1. p \in Int /\ -1 <= p /\ p <= Len(births) /\ (p = NoId => log = <<>>)
    BY StampFacts
  <2>2. AppendEvent(kind, call, p)
    OBVIOUS
  <2>. HIDE DEF p
  <2>3. LET f == NewEvent(kind, call, p)
        IN  f \in Event /\ log' = Append(log, f) /\ f.id = nextId /\ f.kind = kind /\ f.call = call
    BY <2>1, <2>2, Appended
  <2>. QED
    BY <2>3 DEF p
<1>2. ActiveBranch \in Seq(Event) /\ ActiveBranch' = Append(ActiveBranch, e)
  BY BranchGrows
<1>3. nextId \notin IdsOf(log) /\ log \in Seq(Event)
  BY Types
<1>4. IdsOf(ActiveBranch) \subseteq IdsOf(log)
  <2>. DEFINE l == ActiveLeaf(log, head)
  <2>1. ActiveBranch = PathToRoot(log, l)
    BY DEF ActiveBranch
  <2>. HIDE DEF l
  <2>. QED
    BY <2>1, Types, BranchInLog
<1>. HIDE DEF e
<1>. QED
  BY <1>1, <1>2, <1>3, <1>4 DEF e

\* A message, a tool call and a result keep the pairs of the log and of the branch.
LEMMA PairsStep ==
  ASSUME TreeInv, NEW p \in Seq(Event), NEW e \in Event, e.id = nextId, nextId \notin IdsOf(p),
         \/ e.kind = "msg" /\ Awaited' = Awaited
         \/ e.kind = "act" /\ Awaited = batch /\ Awaited' = batch \cup {nextId}
         \/ e.kind = "res" /\ e.call \in batch /\ Awaited = batch /\ Awaited' = batch \ {e.call},
         Pairs(p, Awaited)
  PROVE  Pairs(Append(p, e), Awaited')
<1>1. CASE e.kind = "msg" /\ Awaited' = Awaited
  BY <1>1, PairsMessage
<1>2. CASE e.kind = "act" /\ Awaited = batch /\ Awaited' = batch \cup {nextId}
  BY <1>2, PairsAction
<1>3. CASE e.kind = "res" /\ e.call \in batch /\ Awaited = batch /\ Awaited' = batch \ {e.call}
  BY <1>3, PairsResult
<1>. QED
  BY <1>1, <1>2, <1>3

\* The steps of the process that append an event behind HEAD.
Stamps(kind, call) ==
  /\ pc \notin {"down", "recover"} /\ pc' \notin {"down", "recover"}
  /\ kind \in {"msg", "act", "res"} /\ call \in Nat
  /\ AppendEvent(kind, call, Stamp) /\ UNCHANGED <<faultVars, flushed, saved>>
  /\ \/ kind = "msg" /\ Awaited' = Awaited
     \/ kind = "act" /\ Awaited = batch /\ Awaited' = batch \cup {nextId}
     \/ kind = "res" /\ call \in batch /\ Awaited = batch /\ Awaited' = batch \ {call}

\* The appends of messages, actions and results are such steps.
LEMMA StampingActions ==
  ASSUME TreeInv,
         \/ SendMessage \/ SendDuringCall \/ ReplyText
         \/ RecordAction \/ RecordInvalid \/ RecordError \/ RecordResult
  PROVE  \E kind, call : Stamps(kind, call)
<1>1. NoId \in Nat
  BY DEF NoId
<1>2. CASE SendMessage
  <2>1. Stamps("msg", NoId)
    BY <1>1, <1>2 DEF SendMessage, Stamps, Awaited
  <2>. QED
    BY <2>1
<1>3. CASE SendDuringCall
  <2>1. Stamps("msg", NoId)
    BY <1>1, <1>3 DEF SendDuringCall, Stamps, Awaited
  <2>. QED
    BY <2>1
<1>4. CASE ReplyText
  <2>1. Stamps("msg", NoId)
    BY <1>1, <1>4 DEF ReplyText, Stamps, Awaited
  <2>. QED
    BY <2>1
<1>5. CASE RecordAction
  <2>1. Stamps("act", NoId)
    BY <1>1, <1>5 DEF RecordAction, Stamps, Awaited
  <2>. QED
    BY <2>1
<1>6. CASE RecordResult
  <2>. DEFINE a == FirstIn(log, batch)
  <2>1. /\ pc = "results" /\ AppendEvent("res", a, Stamp) /\ batch' = batch \ {a}
        /\ pc' = IF batch' = {} THEN "done" ELSE "results"
        /\ UNCHANGED <<faultVars, flushed, saved>>
    BY <1>6 DEF RecordResult
  <2>2. a \in Nat /\ a \in batch
    BY <2>1, NextResult
  <2>. HIDE DEF a
  <2>3. Awaited = batch /\ Awaited' = batch \ {a}
    BY <2>1 DEF Awaited
  <2>4. Stamps("res", a)
    BY <2>1, <2>2, <2>3 DEF Stamps
  <2>. QED
    BY <2>4
<1>7. CASE RecordInvalid
  <2>1. Stamps("msg", NoId)
    BY <1>1, <1>7 DEF RecordInvalid, Stamps, Awaited, workVars
  <2>. QED
    BY <2>1
<1>8. CASE RecordError
  <2>1. Stamps("msg", NoId)
    BY <1>1, <1>8 DEF RecordError, Stamps, Awaited
  <2>. QED
    BY <2>1
<1>. QED
  BY <1>2, <1>3, <1>4, <1>5, <1>6, <1>7, <1>8

\* What a save covered stays on the branch.
LEMMA FlushStep == TreeInv /\ GrowthInv /\ FlushInv /\ [Next]_vars => FlushInv'
<1>. SUFFICES ASSUME TreeInv, GrowthInv, FlushInv, [Next]_vars PROVE FlushInv'
  OBVIOUS
<1>1. TreeInv' /\ GrowthInv'
  BY TreeStep, GrowthStep
<1>2. /\ head \in Heads /\ saved \in Heads /\ crashes \in Nat /\ lost \in Nat
      /\ Len(births) \in Nat /\ WellBorn(births) /\ nextId \in Nat /\ nextId >= 1
      /\ log \in Seq(Event) /\ Len(births) = nextId - 1 /\ saved.leaf < nextId
  BY Types DEF TreeInv, TypeOK
<1>3. CASE \/ SendMessage \/ SendDuringCall \/ ReplyText
           \/ RecordAction \/ RecordInvalid \/ RecordError \/ RecordResult
  <2>1. PICK kind, call : Stamps(kind, call)
    BY <1>3, StampingActions
  <2>2. /\ pc \notin {"down", "recover"} /\ pc' \notin {"down", "recover"}
        /\ kind \in {"msg", "act", "res"} /\ call \in Nat
        /\ AppendEvent(kind, call, Stamp) /\ UNCHANGED <<faultVars, flushed, saved>>
    BY <2>1 DEF Stamps
  <2>. DEFINE e == NewEvent(kind, call, Stamp)
  <2>3. /\ e \in Event /\ log' = Append(log, e) /\ e.id = nextId /\ e.kind = kind /\ e.call = call
        /\ nextId \notin IdsOf(log)
    BY <2>2, StampedLog
  <2>. HIDE DEF e
  <2>4. Pairs(log, Awaited) => Pairs(log', Awaited')
    BY <1>2, <2>1, <2>3, PairsStep DEF Stamps
  <2>. QED
    BY <2>2, <2>4, FlushStamped
<1>4. CASE SendReturns
  <2>1. /\ pc = "sent" /\ Flush(head) /\ pc' = "rest" /\ UNCHANGED <<logVars, faultVars>>
    BY <1>4 DEF SendReturns
  <2>2. Awaited' = {} /\ place' = place
    BY <2>1 DEF Awaited, logVars
  <2>3. place = "server" => FlushInv'
    BY <2>1, <2>2, FlushSaved
  <2>. QED
    BY <2>2, <2>3 DEF FlushInv
<1>5. CASE \E id \in 0..MaxEvents[place] : NavigateTo(id)
  <2>1. place = "local" /\ place' = place
    BY <1>5 DEF NavigateTo, logVars
  <2>. QED
    BY <2>1 DEF FlushInv
<1>6. CASE BeginStep
  <2>. DEFINE h == [head EXCEPT !.running = TRUE]
              pending == UnmatchedIn(ActiveBranch)
  <2>1. /\ pc = "rest" /\ Flush(h) /\ UNCHANGED <<logVars, faultVars>> /\ pc' \in {"results", "llm"}
        /\ pending = {} => pc' = "llm"
    BY <1>6 DEF BeginStep
  <2>2. h.leaf = head.leaf /\ h.empty = head.empty
    BY <1>2 DEF Heads
  <2>3. ASSUME place = "server", lost = 0, crashes = 0 PROVE Awaited' = {}
    <3>1. pending = {}
      BY <2>1, <2>3 DEF FlushInv, Pairs, Awaited
    <3>. QED
      BY <2>1, <3>1 DEF Awaited
  <2>. HIDE DEF h, pending
  <2>4. place = "server" => FlushInv'
    BY <2>1, <2>2, <2>3, FlushSaved
  <2>. QED
    BY <2>1, <2>4 DEF FlushInv, logVars
<1>7. CASE \E n \in 1..MaxCalls : ReplyCalls(n)
  <2>1. /\ pc = "llm" /\ pc' = "acting" /\ batch' = {}
        /\ UNCHANGED <<logVars, head, saved, faultVars, flushed>>
    BY <1>7 DEF ReplyCalls
  <2>2. /\ place' = place /\ log' = log /\ births' = births /\ nextId' = nextId /\ crashes' = crashes
        /\ lost' = lost /\ head' = head /\ saved' = saved /\ flushed' = flushed
    BY <2>1 DEF logVars, faultVars
  <2>3. Awaited = {} /\ Awaited' = {} /\ FirstLife' = FirstLife /\ ActiveBranch' = ActiveBranch
    BY <2>1, <2>2 DEF Awaited, FirstLife, ActiveBranch
  <2>4. pc # "down"
    BY <2>1
  <2>. QED
    BY <2>2, <2>3, <2>4 DEF FlushInv, AncestorsOf
<1>8. CASE EndStep
  <2>1. PICK r \in BOOLEAN : Flush([head EXCEPT !.running = r])
    BY <1>8 DEF EndStep
  <2>. DEFINE h == [head EXCEPT !.running = r]
  <2>2. /\ pc = "done" /\ pc' = "rest" /\ UNCHANGED <<logVars, faultVars>>
    BY <1>8 DEF EndStep
  <2>3. h.leaf = head.leaf /\ h.empty = head.empty
    BY <1>2 DEF Heads
  <2>4. Awaited' = {} /\ place' = place /\ Flush(h)
    BY <2>1, <2>2 DEF Awaited, logVars
  <2>. HIDE DEF h
  <2>5. place = "server" => FlushInv'
    BY <2>2, <2>3, <2>4, FlushSaved
  <2>. QED
    BY <2>4, <2>5 DEF FlushInv
<1>9. CASE Crash
  <2>1. /\ pc' = "down" /\ crashes' = crashes + 1 /\ place' = place /\ log' = log /\ births' = births
        /\ nextId' = nextId /\ saved' = saved /\ flushed' = flushed /\ lost' = lost
    BY <1>9 DEF Crash, logVars
  <2>2. crashes' # 0 /\ (FirstLife' => FirstLife)
    BY <1>2, <2>1 DEF FirstLife
  <2>. QED
    BY <2>1, <2>2 DEF FlushInv
<1>10. CASE \E i \in 1..Len(log) : LoseFile(i)
  <2>1. lost' # 0
    BY <1>2, <1>10 DEF LoseFile
  <2>. QED
    BY <2>1 DEF FlushInv
<1>11. CASE Reload
  <2>1. /\ pc = "down" /\ saved' = head' /\ pc' \in {"recover", "rest"} /\ flushed' = flushed
        /\ UNCHANGED <<logVars, faultVars>>
    BY <1>11 DEF Reload
  <2>2. /\ place' = place /\ log' = log /\ births' = births /\ nextId' = nextId
        /\ crashes' = crashes /\ lost' = lost
    BY <2>1 DEF logVars, faultVars
  <2>3. SUFFICES ASSUME place = "server", lost = 0 PROVE FlushInv'
    BY <2>2, <2>3 DEF FlushInv
  <2>4. crashes # 0 /\ (crashes <= 1 => FirstLife) /\ (FirstLife' => FirstLife)
    BY <1>2, <2>1, <2>2, <2>3 DEF GrowthInv, FirstLife
  <2>5. head'.leaf = saved.leaf /\ head'.empty = saved.empty
    <3>1. saved.leaf # NoId => saved.leaf \in 1..Len(log)
      BY <1>2, <2>3, CompleteFacts DEF Heads, NoId
    <3>2. saved.leaf # NoId => IndexIn(log, saved.leaf) # 0
      BY <2>3, <3>1, CompleteFacts
    <3>. QED
      BY <1>2, <1>11, <3>2 DEF Reload, Heads
  <2>6. ASSUME crashes <= 1 PROVE flushed \subseteq AncestorsIn(births, ActiveLeaf(log, head'))
    <3>1. /\ \A n \in 1..Len(births) : births[n] = n - 1
          /\ ~saved.empty /\ flushed \subseteq 1..(nextId - 1)
          /\ saved.leaf # NoId => flushed \subseteq 1..saved.leaf
      BY <2>3, <2>4, <2>6 DEF GrowthInv, FlushInv
    <3>2. \A n \in 0..Len(births) : AncestorsIn(births, n) = 1..n
      BY <1>2, <3>1, AncestorsLinear
    <3>3. CASE saved.leaf # NoId
      <4>1. ActiveLeaf(log, head') = saved.leaf
        BY <2>5, <3>3 DEF ActiveLeaf
      <4>2. saved.leaf \in 0..Len(births)
        BY <1>2 DEF Heads
      <4>. QED
        BY <3>1, <3>2, <3>3, <4>1, <4>2
    <3>4. CASE saved.leaf = NoId
      <4>1. ActiveLeaf(log, head') = IF log = <<>> THEN NoId ELSE log[Len(log)].id
        BY <2>5, <3>1, <3>4 DEF ActiveLeaf
      <4>2. Len(log) = nextId - 1 /\ \A n \in 1..Len(log) : log[n].id = n
        BY <2>3, CompleteFacts
      <4>3. ActiveLeaf(log, head') = nextId - 1
        <5>1. CASE log = <<>>
          BY <4>1, <4>2, <5>1 DEF NoId
        <5>2. CASE log # <<>>
          <6>1. Len(log) \in 1..Len(log)
            BY <1>2, <5>2
          <6>. QED
            BY <4>1, <4>2, <5>2, <6>1
        <5>. QED
          BY <5>1, <5>2
      <4>4. nextId - 1 \in 0..Len(births)
        BY <1>2
      <4>. QED
        BY <3>1, <3>2, <4>3, <4>4
    <3>. QED
      BY <3>3, <3>4
  <2>7. FirstLife => (saved'.leaf # NoId => flushed' \subseteq 1..saved'.leaf)
    BY <2>1, <2>3, <2>5 DEF FlushInv
  <2>. QED
    BY <2>1, <2>2, <2>3, <2>4, <2>6, <2>7 DEF FlushInv, AncestorsOf
<1>12. CASE Recover
  <2>. DEFINE first == FirstIn(log, UnmatchedIn(log))
  <2>1. /\ pc = "recover" /\ pc' \in {"rest", "recovered"} /\ UNCHANGED <<faultVars, flushed>>
        /\ \/ UNCHANGED <<logVars, head>>
           \/ UnmatchedIn(log) # {} /\ AppendEvent("res", first, first)
    BY <1>12 DEF Recover
  <2>2. crashes' = crashes /\ lost' = lost /\ flushed' = flushed /\ place' = place
    BY <2>1 DEF faultVars, logVars, AppendEvent
  <2>3. SUFFICES ASSUME place = "server", lost = 0 PROVE FlushInv'
    BY <2>2, <2>3 DEF FlushInv
  <2>4. crashes # 0 /\ ~FirstLife' /\ (crashes <= 1 => FirstLife)
    BY <1>2, <2>1, <2>2, <2>3 DEF GrowthInv, FirstLife
  <2>5. ASSUME crashes <= 1 PROVE flushed \subseteq AncestorsIn(births', ActiveLeaf(log', head'))
    <3>1. flushed \subseteq AncestorsOf(ActiveLeaf(log, head))
      BY <2>1, <2>3, <2>5 DEF FlushInv
    <3>2. CASE UNCHANGED <<logVars, head>>
      BY <3>1, <3>2 DEF logVars, AncestorsOf
    <3>3. CASE UnmatchedIn(log) # {} /\ AppendEvent("res", first, first)
      <4>1. /\ first \in Nat /\ first \in Int /\ first # NoId /\ -1 <= first /\ first <= Len(births)
            /\ first \in UnmatchedIn(log)
        BY <3>3, FirstOrphan
      <4>. HIDE DEF first
      <4>2. births' = Append(births, first) /\ ActiveLeaf(log', head') = nextId
        <5>1. LET f == NewEvent("res", first, first)
              IN  births' = Append(births, first) /\ ActiveLeaf(log', head') = nextId
          BY <3>3, <4>1, Appended
        <5>. QED
          BY <5>1
      <4>3. AncestorsIn(births', nextId) = {nextId} \cup AncestorsIn(births, first)
        <5>1. AncestorsIn(Append(births, first), Len(births) + 1)
                = {Len(births) + 1} \cup AncestorsIn(births, first)
          BY <1>2, <4>1, AncestorsStay
        <5>2. Len(births) + 1 = nextId
          BY <1>2
        <5>. QED
          BY <4>2, <5>1, <5>2
      <4>4. AncestorsIn(births, first) = 1..first
        <5>1. \A n \in 1..Len(births) : births[n] = n - 1
          BY <2>3, <2>4, <2>5 DEF GrowthInv
        <5>2. first \in 0..Len(births)
          BY <1>2, <4>1
        <5>. QED
          BY <1>2, <5>1, <5>2, AncestorsLinear
      <4>5. \A x \in flushed : x \in 1..(nextId - 1) /\ x < first
        BY <2>3, <2>4, <2>5, <4>1 DEF FlushInv
      <4>6. flushed \subseteq 1..first
        BY <1>2, <4>1, <4>5
      <4>. QED
        BY <4>2, <4>3, <4>4, <4>6
    <3>. QED
      BY <2>1, <3>2, <3>3
  <2>. QED
    BY <2>2, <2>3, <2>4, <2>5 DEF FlushInv, AncestorsOf
<1>13. CASE RecoverySaves
  <2>1. /\ pc = "recovered" /\ Flush(head) /\ pc' = "rest" /\ UNCHANGED <<logVars, faultVars>>
    BY <1>13 DEF RecoverySaves
  <2>2. Awaited' = {} /\ place' = place
    BY <2>1 DEF Awaited, logVars
  <2>3. place = "server" => FlushInv'
    BY <2>1, <2>2, FlushSaved
  <2>. QED
    BY <2>2, <2>3 DEF FlushInv
<1>14. CASE UNCHANGED vars
  BY <1>14 DEF vars, logVars, workVars, faultVars, FlushInv, FirstLife, ActiveBranch, Awaited, AncestorsOf
<1>. QED
  BY <1>3, <1>4, <1>5, <1>6, <1>7, <1>8, <1>9, <1>10, <1>11, <1>12, <1>13, <1>14 DEF Next

-----------------------------------------------------------------------------
(* PairInv *)

\* An event behind a given one extends its path.
LEMMA ExplicitGrows ==
  ASSUME TreeInv, NEW kind \in {"msg", "act", "res"}, NEW call \in Nat, NEW parent \in Int,
         parent \in LogIds, AppendEvent(kind, call, parent)
  PROVE  /\ NewEvent(kind, call, parent) \in Event
         /\ ActiveBranch' = Append(PathToRoot(log, parent), NewEvent(kind, call, parent))
<1>. DEFINE e == NewEvent(kind, call, parent)
            n == Len(log) + 1
<1>1. /\ WellFormed(log) /\ Len(log) \in Nat /\ log \in Seq(Event) /\ nextId \in Nat
      /\ LogIds = IdsOf(log) /\ LogIds \subseteq 1..(nextId - 1) /\ Len(births) = nextId - 1
  BY Types DEF TreeInv
<1>2. -1 <= parent /\ parent <= Len(births) /\ parent # NoId /\ parent # RootId
  BY <1>1 DEF NoId, RootId
<1>3. /\ e \in Event /\ e.id = nextId /\ e.parent = parent
      /\ log' = Append(log, e) /\ WellFormed(log') /\ ActiveLeaf(log', head') = nextId
  BY <1>2, Appended
<1>. HIDE DEF e
<1>4. Len(log') = n /\ n \in 1..Len(log') /\ log'[n] = e /\ \A i \in 1..Len(log) : log'[i] = log[i]
  BY <1>1, <1>3
<1>5. EffectiveParent(log', n) = parent
  <2>1. PICK k \in 1..Len(log) : log[k].id = parent
    BY <1>1 DEF IdsOf
  <2>2. k \in 1..Len(log') /\ log'[k].id = parent
    BY <1>1, <1>4, <2>1
  <2>3. IndexIn(log', parent) # 0
    BY <1>4, <2>2, IndexRange
  <2>. QED
    BY <1>2, <1>3, <1>4, <2>3 DEF EffectiveParent
<1>6. PathToRoot(log', parent) = PathToRoot(log, parent)
  BY <1>1, <1>3, PathStays
<1>7. PathToRoot(log', nextId) = Append(PathToRoot(log', parent), e)
  <2>1. PathToRoot(log', log'[n].id) = Append(PathToRoot(log', EffectiveParent(log', n)), log'[n])
    BY <1>3, <1>4, PathUnfold
  <2>. QED
    BY <1>3, <1>4, <1>5, <2>1
<1>. QED
  BY <1>3, <1>6, <1>7 DEF ActiveBranch, e

\* The branch of event n of log s is the log up to n.
UpTo(s, n) ==
  /\ PathToRoot(s, n) \in Seq(Event) /\ Len(PathToRoot(s, n)) = n
  /\ \A i \in 1..n : PathToRoot(s, n)[i] = s[i]

\* Where every event hangs behind its neighbour, a branch is the log up to its leaf.
LEMMA ChainPath ==
  ASSUME NEW s, WellFormed(s), \A k \in 1..Len(s) : s[k].id = k,
         \A k \in 1..Len(s) : EffectiveParent(s, k) = k - 1, NEW n \in 1..Len(s)
  PROVE  UpTo(s, n)
<1>1. Len(s) \in Nat
  BY LogTypes
<1>. DEFINE T == {m \in 1..Len(s) : UpTo(s, m)}
<1>2. ASSUME NEW m \in 1..Len(s), \A k \in 1..(m - 1) : k \in T PROVE m \in T
  <2>. DEFINE p == PathToRoot(s, m - 1)
              e == s[m]
              q == Append(p, e)
  <2>1. PathToRoot(s, m) = q /\ e \in Event
    BY PathUnfold, LogTypes
  <2>2. p \in Seq(Event) /\ Len(p) = m - 1 /\ \A i \in 1..(m - 1) : p[i] = s[i]
    <3>1. CASE m = 1
      <4>1. p = <<>>
        BY <3>1, NoBranch DEF NoId
      <4>. HIDE DEF p
      <4>. QED
        BY <3>1, <4>1
    <3>2. CASE m # 1
      <4>1. m - 1 \in 1..(m - 1)
        BY <1>1, <3>2
      <4>. QED
        BY <1>2, <4>1 DEF UpTo
    <3>. QED
      BY <3>1, <3>2
  <2>. HIDE DEF p, e
  <2>3. /\ q \in Seq(Event) /\ Len(q) = Len(p) + 1 /\ q[Len(p) + 1] = e
        /\ \A i \in 1..Len(p) : q[i] = p[i]
    BY <2>1, <2>2, AppendFacts
  <2>. HIDE DEF q
  <2>4. Len(q) = m /\ \A i \in 1..m : i = m \/ i \in 1..(m - 1)
    BY <1>1, <2>2, <2>3
  <2>5. \A i \in 1..m : q[i] = s[i]
    BY <1>1, <2>2, <2>3, <2>4 DEF e
  <2>. QED
    BY <2>1, <2>3, <2>4, <2>5 DEF UpTo
<1>3. \A m \in 1..Len(s) : m \in T
  <2>. HIDE DEF T
  <2>. QED
    BY <1>1, <1>2, Induction
<1>. QED
  BY <1>3

\* Until the tree grows again after a crash, a branch is the log up to its leaf.
LEMMA FirstPaths ==
  ASSUME TreeInv, GrowthInv, place = "server", lost = 0, FirstLife, NEW n \in 1..Len(log)
  PROVE  UpTo(log, n)
<1>1. /\ WellFormed(log) /\ Len(log) \in Nat /\ Recorded(log, births) /\ Complete(log, births)
      /\ Len(births) = Len(log) /\ \A k \in 1..Len(births) : births[k] = k - 1
  BY Types, CompleteFacts DEF TreeInv, GrowthInv
<1>2. \A k \in 1..Len(log) : log[k].id = k /\ IndexIn(log, k) = k
  BY CompleteFacts
<1>3. ASSUME NEW k \in 1..Len(log) PROVE EffectiveParent(log, k) = k - 1
  <2>1. log[k].parent = NoId \/ log[k].parent = k - 1
    BY <1>1, <1>2 DEF Recorded
  <2>2. k = 1 \/ (k - 1 \in 1..Len(log) /\ k - 1 # RootId /\ k - 1 # NoId)
    BY <1>1 DEF RootId, NoId
  <2>3. k # 1 => log[k - 1].id = k - 1 /\ IndexIn(log, k - 1) # 0
    BY <1>2, <2>2
  <2>4. CASE log[k].parent = NoId
    <3>1. EffectiveParent(log, k) = IF k = 1 THEN NoId ELSE log[k - 1].id
      BY <2>4 DEF EffectiveParent, NoId, RootId
    <3>. QED
      BY <2>3, <3>1 DEF NoId
  <2>5. CASE log[k].parent = k - 1 /\ k # 1
    BY <2>2, <2>3, <2>5 DEF EffectiveParent
  <2>6. CASE log[k].parent = k - 1 /\ k = 1
    <3>1. log[k].parent = NoId
      BY <2>6 DEF NoId
    <3>. QED
      BY <2>4, <3>1
  <2>. QED
    BY <2>1, <2>4, <2>5, <2>6
<1>. QED
  BY <1>1, <1>2, <1>3, ChainPath

\* The branch of the last event is the log.
LEMMA LastPath ==
  ASSUME TreeInv, GrowthInv, place = "server", lost = 0, FirstLife, log # <<>>
  PROVE  PathToRoot(log, nextId - 1) = log
<1>1. log \in Seq(Event) /\ Len(log) = nextId - 1 /\ Len(log) \in Nat /\ Len(log) \in 1..Len(log)
  BY Types, CompleteFacts
<1>2. UpTo(log, Len(log))
  BY <1>1, FirstPaths
<1>. DEFINE p == PathToRoot(log, Len(log))
<1>3. p \in Seq(Event) /\ Len(p) = Len(log) /\ \A i \in 1..Len(p) : p[i] = log[i]
  BY <1>2 DEF UpTo
<1>. HIDE DEF p
<1>4. p = log
  BY <1>1, <1>3, SeqEqual
<1>. QED
  BY <1>1, <1>4 DEF p

\* In the first life the branch of HEAD is the whole log.
LEMMA FirstBranch ==
  ASSUME TreeInv, GrowthInv, FlushInv, place = "server", lost = 0, crashes = 0
  PROVE  /\ ActiveLeaf(log, head) = nextId - 1 /\ PathToRoot(log, nextId - 1) = log
         /\ ActiveBranch = log /\ Pairs(log, Awaited)
<1>1. ActiveBranch = log /\ Pairs(log, Awaited) /\ ActiveLeaf(log, head) = nextId - 1
  BY DEF GrowthInv, FlushInv
<1>. QED
  BY <1>1 DEF ActiveBranch

\* Where results come behind their actions, an action without a result is all that
\* can be amiss.
LEMMA BehindPairs ==
  ASSUME NEW s \in Seq(Event), Behind(s)
  PROVE  Pairs(s, UnmatchedIn(s))
<1>1. ASSUME NEW k \in 1..Len(s), s[k].kind = "res" PROVE s[k].call \in ActionsIn(s)
  <2>1. PICK i \in 1..(k - 1) : s[i].kind = "act" /\ s[i].id = s[k].call
    BY <1>1 DEF Behind
  <2>2. i \in 1..Len(s)
    OBVIOUS
  <2>. QED
    BY <2>1, <2>2 DEF ActionsIn
<1>2. AnsweredIn(s) \subseteq ActionsIn(s)
  BY <1>1 DEF AnsweredIn
<1>. QED
  BY <1>2 DEF Pairs

\* A result of an action that is there comes behind it.
LEMMA BehindGrows ==
  ASSUME NEW s \in Seq(Event), Behind(s), NEW e \in Event, e.kind = "res" => e.call \in ActionsIn(s)
  PROVE  Behind(Append(s, e))
<1>. DEFINE t == Append(s, e)
<1>1. Len(s) \in Nat /\ Len(t) = Len(s) + 1 /\ t[Len(s) + 1] = e /\ \A i \in 1..Len(s) : t[i] = s[i]
  BY AppendFacts
<1>. HIDE DEF t
<1>2. ASSUME NEW k \in 1..Len(t), t[k].kind = "res"
      PROVE  \E i \in 1..(k - 1) : t[i].kind = "act" /\ t[i].id = t[k].call
  <2>1. CASE k = Len(s) + 1
    <3>1. e.call \in ActionsIn(s) /\ t[k] = e
      BY <1>1, <1>2, <2>1
    <3>2. PICK i \in 1..Len(s) : s[i].kind = "act" /\ s[i].id = e.call
      BY <3>1 DEF ActionsIn
    <3>3. i \in 1..(k - 1) /\ t[i] = s[i]
      BY <1>1, <2>1
    <3>. QED
      BY <3>1, <3>2, <3>3
  <2>2. CASE k # Len(s) + 1
    <3>1. k \in 1..Len(s) /\ t[k] = s[k]
      BY <1>1, <2>2
    <3>2. PICK i \in 1..(k - 1) : s[i].kind = "act" /\ s[i].id = s[k].call
      BY <1>2, <3>1 DEF Behind
    <3>3. t[i] = s[i]
      BY <1>1, <3>1
    <3>. QED
      BY <3>1, <3>2, <3>3
  <2>. QED
    BY <2>1, <2>2
<1>3. Behind(t)
  BY <1>2 DEF Behind
<1>. QED
  BY <1>3 DEF t

\* Nothing before the first is in the set.
LEMMA FirstIsFirst ==
  ASSUME NEW s, WellFormed(s), NEW S, S \cap IdsOf(s) # {}
  PROVE  \E c \in 1..Len(s) : /\ FirstIn(s, S) = s[c].id /\ s[c].id \in S
                              /\ \A j \in 1..(c - 1) : s[j].id \notin S
<1>1. Len(s) \in Nat
  BY LogTypes
<1>. DEFINE I == {i \in 1..Len(s) : s[i].id \in S}
<1>2. I \in SUBSET Nat /\ I # {}
  BY <1>1 DEF IdsOf
<1>3. PICK x \in I : \A y \in I : x <= y
  BY <1>2, LeastExists
<1>4. x \in 1..Len(s) /\ s[x].id \in S /\ \A j \in 1..(x - 1) : s[j].id \notin S
  BY <1>1, <1>3
<1>. DEFINE c == CHOOSE i \in 1..Len(s) : s[i].id \in S /\ \A j \in 1..(i - 1) : s[j].id \notin S
<1>5. c \in 1..Len(s) /\ s[c].id \in S /\ \A j \in 1..(c - 1) : s[j].id \notin S
  BY <1>4
<1>6. FirstIn(s, S) = s[c].id
  BY DEF FirstIn
<1>. HIDE DEF c
<1>. QED
  BY <1>5, <1>6

\* Unless a result lies behind it, the first open action is all that is open on its
\* own branch.
LEMMA RecoveredPairs ==
  ASSUME TreeInv, GrowthInv, place = "server", lost = 0, FirstLife, Behind(log), ~Torn,
         UnmatchedIn(log) # {}
  PROVE  LET first == FirstIn(log, UnmatchedIn(log))
         IN  PathToRoot(log, first) \in Seq(Event) /\ Pairs(PathToRoot(log, first), {first})
<1>. DEFINE S == UnmatchedIn(log)
            first == FirstIn(log, S)
            p == PathToRoot(log, first)
<1>1. WellFormed(log) /\ Len(log) \in Nat /\ log \in Seq(Event) /\ S \cap IdsOf(log) # {}
  BY Types, PendingInLog
<1>2. \A n \in 1..Len(log) : log[n].id = n
  BY CompleteFacts
<1>3. PICK c \in 1..Len(log) : first = log[c].id /\ log[c].id \in S /\ \A j \in 1..(c - 1) : log[j].id \notin S
  <2>. HIDE DEF S
  <2>. QED
    BY <1>1, FirstIsFirst
<1>4. first = c /\ c \in S /\ \A j \in 1..(c - 1) : j \notin S
  <2>1. \A j \in 1..(c - 1) : j \in 1..Len(log)
    BY <1>1
  <2>. HIDE DEF S, first
  <2>. QED
    BY <1>2, <1>3, <2>1
<1>. HIDE DEF first
<1>5. p \in Seq(Event) /\ Len(p) = c /\ \A i \in 1..c : p[i] = log[i]
  BY <1>4, FirstPaths DEF UpTo
<1>. HIDE DEF p
<1>6. Behind(p)
  <2>1. ASSUME NEW k \in 1..Len(p), p[k].kind = "res"
        PROVE  \E i \in 1..(k - 1) : p[i].kind = "act" /\ p[i].id = p[k].call
    <3>1. k \in 1..Len(log) /\ p[k] = log[k]
      BY <1>1, <1>5
    <3>2. PICK i \in 1..(k - 1) : log[i].kind = "act" /\ log[i].id = log[k].call
      BY <2>1, <3>1 DEF Behind
    <3>3. p[i] = log[i]
      BY <1>1, <1>5, <3>1
    <3>. QED
      BY <3>1, <3>2, <3>3
  <2>. QED
    BY <2>1 DEF Behind
<1>7. c \in ActionsIn(log) /\ c \notin AnsweredIn(log)
  BY <1>4 DEF UnmatchedIn
<1>8. AnsweredIn(p) \subseteq AnsweredIn(log)
  <2>1. ASSUME NEW k \in 1..Len(p), p[k].kind = "res" PROVE p[k].call \in AnsweredIn(log)
    <3>1. k \in 1..Len(log) /\ p[k] = log[k]
      BY <1>1, <1>5
    <3>. QED
      BY <2>1, <3>1 DEF AnsweredIn
  <2>. QED
    BY <2>1 DEF AnsweredIn
<1>9. c \in UnmatchedIn(p)
  <2>1. PICK k \in 1..Len(log) : log[k].kind = "act" /\ log[k].id = c
    BY <1>7 DEF ActionsIn
  <2>2. k = c /\ c \in 1..Len(p) /\ p[c].kind = "act" /\ p[c].id = c
    BY <1>2, <1>5, <2>1
  <2>3. c \in ActionsIn(p)
    BY <2>2 DEF ActionsIn
  <2>. QED
    BY <1>7, <1>8, <2>3 DEF UnmatchedIn
<1>10. ASSUME NEW a \in UnmatchedIn(p), a # c PROVE FALSE
  <2>1. PICK i \in 1..Len(p) : p[i].kind = "act" /\ p[i].id = a
    BY <1>10 DEF UnmatchedIn, ActionsIn
  <2>2. i \in 1..Len(log) /\ log[i].kind = "act" /\ log[i].id = a /\ a = i /\ i <= c
    BY <1>1, <1>2, <1>5, <2>1
  <2>3. i \in 1..(c - 1) /\ i < c
    BY <1>1, <1>10, <2>2
  <2>4. a \in ActionsIn(log) /\ a \notin S
    BY <1>4, <2>2, <2>3 DEF ActionsIn
  <2>5. a \in AnsweredIn(log)
    BY <2>4 DEF UnmatchedIn
  <2>6. PICK k \in 1..Len(log) : log[k].kind = "res" /\ log[k].call = a
    BY <2>5 DEF AnsweredIn
  <2>7. k \notin 1..c
    <3>1. ASSUME k \in 1..Len(p) PROVE a \in AnsweredIn(p)
      BY <1>5, <2>6, <3>1 DEF AnsweredIn
    <3>. QED
      BY <1>5, <1>10, <3>1 DEF UnmatchedIn
  <2>8. c < k
    BY <1>1, <2>7
  <2>9. log[c].id \in UnmatchedIn(log) /\ log[k].call = log[i].id
    BY <1>3, <2>2, <2>6
  <2>. QED
    BY <2>2, <2>3, <2>6, <2>8, <2>9 DEF Torn
<1>11. UnmatchedIn(p) = {c}
  BY <1>9, <1>10
<1>12. Pairs(p, UnmatchedIn(p))
  BY <1>5, <1>6, BehindPairs
<1>13. p \in Seq(Event) /\ Pairs(p, {first})
  BY <1>4, <1>5, <1>11, <1>12
<1>. QED
  BY <1>13 DEF p, first, S

\* A new conversation and a linear history have no actions.
LEMMA PairInit == Init => PairInv
<1>. SUFFICES ASSUME Init PROVE PairInv
  OBVIOUS
<1>1. TreeInv /\ GrowthInv /\ FlushInv
  BY TreeInit, GrowthInit, FlushInit
<1>2. crashes = 0 /\ pc = "rest" /\ saved.leaf = NoId /\ ~torn
  BY DEF Init
<1>3. Behind(log)
  <2>1. \A i \in 1..Len(log) : log[i].kind = "msg"
    BY DEF Init
  <2>. QED
    BY <2>1 DEF Behind
<1>4. pc \notin RunPoints
  BY <1>2 DEF RunPoints
<1>. QED
  BY <1>1, <1>2, <1>3, <1>4, FirstBranch DEF PairInv

\* A stamped append and the pairs.
LEMMA PairStamped ==
  ASSUME TreeInv, GrowthInv, FlushInv, PairInv, TreeInv', GrowthInv', FlushInv',
         NEW kind, NEW call, Stamps(kind, call), pc' \in RunPoints => pc \in RunPoints
  PROVE  PairInv'
<1>1. /\ pc \notin {"down", "recover"} /\ pc' \notin {"down", "recover"}
      /\ kind \in {"msg", "act", "res"} /\ call \in Nat
      /\ AppendEvent(kind, call, Stamp) /\ UNCHANGED <<faultVars, flushed, saved>>
  BY DEF Stamps
<1>. DEFINE e == NewEvent(kind, call, Stamp)
<1>2. /\ e \in Event /\ log' = Append(log, e) /\ e.id = nextId /\ e.kind = kind /\ e.call = call
      /\ ActiveBranch \in Seq(Event) /\ ActiveBranch' = Append(ActiveBranch, e)
      /\ nextId \notin IdsOf(ActiveBranch) /\ log \in Seq(Event)
  BY <1>1, StampedLog
<1>. HIDE DEF e
<1>3. /\ place' = place /\ crashes' = crashes /\ lost' = lost /\ saved' = saved
      /\ torn' = torn
  BY <1>1 DEF AppendEvent, faultVars
<1>4. SUFFICES ASSUME place = "server", lost = 0 PROVE PairInv'
  BY <1>3, <1>4 DEF PairInv
<1>5. nextId \in Nat /\ nextId >= 1 /\ saved.leaf \in Nat /\ saved.leaf < nextId
  BY Types DEF TreeInv, TypeOK, Heads
<1>6. FirstLife' => crashes = 0
  BY <1>1, <1>3 DEF FirstLife
<1>7. ASSUME crashes = 0
      PROVE  /\ Behind(log')
             /\ saved'.leaf # NoId => Pairs(PathToRoot(log', saved'.leaf), {})
             /\ ~torn' /\ (pc' \in RunPoints => saved'.running)
  <2>1. Behind(log')
    <3>1. Behind(log) /\ Pairs(log, Awaited)
      BY <1>4, <1>7, FirstBranch DEF PairInv, FirstLife
    <3>2. kind = "res" => call \in UnmatchedIn(log)
      BY <3>1 DEF Stamps, Pairs
    <3>3. e.kind = "res" => e.call \in ActionsIn(log)
      BY <1>2, <3>2, UnmatchedOnPath
    <3>. QED
      BY <1>2, <3>1, <3>3, BehindGrows
  <2>2. ASSUME saved.leaf # NoId PROVE Pairs(PathToRoot(log', saved.leaf), {})
    <3>1. Pairs(PathToRoot(log, saved.leaf), {})
      BY <1>4, <1>7, <2>2 DEF PairInv, FirstLife
    <3>2. saved.leaf \in IdsOf(log)
      BY <1>4, <1>5, <2>2, CompleteFacts, Types DEF NoId
    <3>. DEFINE l == saved.leaf
    <3>. HIDE DEF l
    <3>3. PathToRoot(log', l) = PathToRoot(log, l)
      <4>1. WellFormed(log) /\ WellFormed(Append(log, e)) /\ l \in IdsOf(log) \cup {NoId}
        BY <1>2, <3>2, Types DEF TreeInv, Recorded, l
      <4>. QED
        BY <1>2, <4>1, PathStays
    <3>. QED
      BY <3>1, <3>3 DEF l
  <2>3. ~torn /\ (pc \in RunPoints => saved.running)
    BY <1>4, <1>7 DEF PairInv
  <2>. QED
    BY <1>3, <2>1, <2>2, <2>3
<1>8. ASSUME crashes <= 1, ~torn PROVE Pairs(ActiveBranch', Awaited')
  <2>1. Pairs(ActiveBranch, Awaited)
    BY <1>1, <1>4, <1>8 DEF PairInv
  <2>2. Pairs(Append(ActiveBranch, e), Awaited')
    BY <1>2, <2>1, PairsStep DEF Stamps
  <2>. QED
    BY <1>2, <2>2
<1>. QED
  BY <1>1, <1>3, <1>6, <1>7, <1>8 DEF PairInv

\* A save and the pairs: between the parts of a step nothing is awaited.
LEMMA PairSaved ==
  ASSUME TreeInv, GrowthInv, FlushInv, PairInv, pc \in {"rest", "sent", "done", "recovered"},
         NEW h, h.leaf = head.leaf, h.empty = head.empty, Flush(h),
         UNCHANGED <<logVars, faultVars>>,
         place = "server" => pc' \in {"rest", "llm"} \/ (pc' = "results" /\ UnmatchedIn(ActiveBranch) # {}),
         pc' # "rest" => h.running
  PROVE  place = "server" => PairInv'
<1>1. /\ place' = place /\ log' = log /\ nextId' = nextId /\ births' = births
      /\ crashes' = crashes /\ lost' = lost /\ torn' = torn
  BY DEF logVars, faultVars
<1>2. SUFFICES ASSUME place = "server", lost = 0 PROVE PairInv'
  BY <1>1, <1>2 DEF PairInv
<1>3. head' = h /\ saved' = h /\ ActiveLeaf(log', head') = ActiveLeaf(log, head)
  BY <1>1 DEF Flush, ActiveLeaf
<1>4. ActiveBranch' = ActiveBranch
  BY <1>1, <1>3 DEF ActiveBranch
<1>5. Awaited = {} /\ pc' \notin {"down", "recover"}
  BY <1>2 DEF Awaited
<1>6. crashes <= 1 /\ ~torn => Pairs(ActiveBranch, {}) /\ UnmatchedIn(ActiveBranch) = {}
  BY <1>2, <1>5 DEF PairInv, Pairs
<1>7. crashes <= 1 /\ ~torn => Awaited' = {}
  BY <1>2, <1>6 DEF Awaited
<1>8. ASSUME crashes = 0
      PROVE  /\ Behind(log') /\ ~torn
             /\ saved'.leaf # NoId => Pairs(PathToRoot(log', saved'.leaf), {})
  <2>1. PathToRoot(log, nextId - 1) = log /\ ActiveBranch = log /\ ActiveLeaf(log, head) = nextId - 1
    BY <1>2, <1>8, FirstBranch
  <2>2. head.leaf # NoId => head.leaf = nextId - 1
    BY <2>1 DEF ActiveLeaf
  <2>3. Behind(log) /\ ~torn
    BY <1>2, <1>8 DEF PairInv, FirstLife
  <2>. QED
    BY <1>1, <1>3, <1>6, <1>8, <2>1, <2>2, <2>3
<1>9. FirstLife' => crashes = 0
  BY <1>1, <1>5 DEF FirstLife
<1>10. crashes = 0 => crashes <= 1
  OBVIOUS
<1>11. pc' \in RunPoints => saved'.running
  BY <1>3 DEF RunPoints
<1>. QED
  BY <1>1, <1>4, <1>5, <1>6, <1>7, <1>8, <1>9, <1>10, <1>11 DEF PairInv

\* After a reload, and after a recovery with nothing to recover, the branch of HEAD
\* has its pairs.
LEMMA ReloadedPairs ==
  ASSUME TreeInv, GrowthInv, PairInv, place = "server", lost = 0, crashes <= 1,
         pc \in {"down", "recover"}, Pairs(log, {}), NEW h, h.leaf = saved.leaf, ~h.empty
  PROVE  Pairs(PathToRoot(log, ActiveLeaf(log, h)), {})
<1>1. FirstLife
  <2>1. crashes \in Nat /\ crashes # 0
    BY DEF TreeInv, GrowthInv
  <2>. QED
    BY <2>1 DEF FirstLife
<1>2. CASE saved.leaf # NoId
  <2>1. ActiveLeaf(log, h) = saved.leaf
    BY <1>2 DEF ActiveLeaf
  <2>. QED
    BY <1>1, <1>2, <2>1 DEF PairInv
<1>3. CASE saved.leaf = NoId /\ log # <<>>
  <2>1. Len(log) = nextId - 1 /\ Len(log) \in 1..Len(log) /\ nextId \in Nat
    BY <1>3, CompleteFacts, Types
  <2>2. ActiveLeaf(log, h) = log[Len(log)].id /\ log[Len(log)].id = Len(log)
    BY <1>3, <2>1, CompleteFacts DEF ActiveLeaf
  <2>3. PathToRoot(log, nextId - 1) = log
    BY <1>1, <1>3, LastPath
  <2>. QED
    BY <2>1, <2>2, <2>3
<1>4. CASE saved.leaf = NoId /\ log = <<>>
  <2>1. ActiveLeaf(log, h) = NoId
    BY <1>4 DEF ActiveLeaf
  <2>2. PathToRoot(log, NoId) = log
    BY <1>4, Types, NoBranch
  <2>. QED
    BY <2>1, <2>2
<1>. QED
  BY <1>2, <1>3, <1>4

\* Every step keeps the pairs.
LEMMA PairStep ==
  ASSUME TreeInv, GrowthInv, FlushInv, PairInv, [Next]_vars
  PROVE  PairInv'
<1>1. TreeInv' /\ GrowthInv' /\ FlushInv'
  BY TreeStep, GrowthStep, FlushStep
<1>2. /\ head \in Heads /\ saved \in Heads /\ crashes \in Nat /\ lost \in Nat /\ left \in 0..MaxCalls
      /\ nextId \in Nat /\ nextId >= 1 /\ MaxCalls \in Nat /\ log \in Seq(Event) /\ saved.leaf < nextId
      /\ Len(log) \in Nat /\ (pc = "acting" => left # 0)
  BY Types DEF TreeInv, TypeOK
<1>3. CASE \/ SendMessage \/ SendDuringCall \/ ReplyText
           \/ RecordAction \/ RecordInvalid \/ RecordError \/ RecordResult
  <2>1. PICK kind, call : Stamps(kind, call)
    BY <1>3, StampingActions
  <2>2. pc' \in RunPoints => pc \in RunPoints
    BY <1>3 DEF SendMessage, SendDuringCall, ReplyText, RecordAction, RecordInvalid, RecordError,
                RecordResult, RunPoints
  <2>. QED
    BY <1>1, <2>1, <2>2, PairStamped
<1>4. CASE RecoverySaves
  <2>1. pc = "recovered" /\ pc' = "rest" /\ Flush(head) /\ UNCHANGED <<logVars, faultVars>>
    BY <1>4 DEF RecoverySaves
  <2>2. place = "server" => PairInv'
    BY <2>1, PairSaved
  <2>. QED
    BY <2>1, <2>2 DEF PairInv, logVars
<1>6. CASE SendReturns
  <2>1. pc = "sent" /\ pc' = "rest" /\ Flush(head) /\ UNCHANGED <<logVars, faultVars>>
    BY <1>6 DEF SendReturns
  <2>2. place = "server" => PairInv'
    BY <2>1, PairSaved
  <2>. QED
    BY <2>1, <2>2 DEF PairInv, logVars
<1>7. CASE \E id \in 0..MaxEvents[place] : NavigateTo(id)
  <2>1. place = "local" /\ place' = place
    BY <1>7 DEF NavigateTo, logVars
  <2>. QED
    BY <2>1 DEF PairInv
<1>8. CASE BeginStep
  <2>. DEFINE h == [head EXCEPT !.running = TRUE]
  <2>1. /\ pc = "rest" /\ Flush(h) /\ UNCHANGED <<logVars, faultVars>>
        /\ pc' = "llm" \/ (pc' = "results" /\ UnmatchedIn(ActiveBranch) # {})
    BY <1>8 DEF BeginStep
  <2>2. h.leaf = head.leaf /\ h.empty = head.empty /\ h.running
    BY <1>2 DEF Heads
  <2>. HIDE DEF h
  <2>3. place = "server" => PairInv'
    BY <2>1, <2>2, PairSaved
  <2>. QED
    BY <2>1, <2>3 DEF PairInv, logVars
<1>9. CASE \E n \in 1..MaxCalls : ReplyCalls(n)
  <2>1. /\ pc = "llm" /\ pc' = "acting" /\ batch' = {}
        /\ place' = place /\ log' = log /\ births' = births /\ nextId' = nextId /\ crashes' = crashes
        /\ lost' = lost /\ torn' = torn /\ head' = head /\ saved' = saved
    BY <1>9 DEF ReplyCalls, logVars, faultVars
  <2>2. /\ Awaited = {} /\ Awaited' = {} /\ ActiveBranch' = ActiveBranch
        /\ (FirstLife' => FirstLife)
    BY <2>1 DEF Awaited, ActiveBranch, FirstLife
  <2>3. pc' \notin {"down", "recover"} /\ pc \notin {"down", "recover"} /\ pc \in RunPoints
    BY <2>1 DEF RunPoints
  <2>. QED
    BY <2>1, <2>2, <2>3 DEF PairInv
<1>10. CASE EndStep
  <2>1. PICK r \in BOOLEAN : Flush([head EXCEPT !.running = r])
    BY <1>10 DEF EndStep
  <2>. DEFINE h == [head EXCEPT !.running = r]
  <2>2. pc = "done" /\ pc' = "rest" /\ UNCHANGED <<logVars, faultVars>> /\ Flush(h)
    BY <1>10, <2>1 DEF EndStep
  <2>3. h.leaf = head.leaf /\ h.empty = head.empty
    BY <1>2 DEF Heads
  <2>. HIDE DEF h
  <2>4. place = "server" => PairInv'
    BY <2>2, <2>3, PairSaved
  <2>. QED
    BY <2>2, <2>4 DEF PairInv, logVars
<1>11. CASE Crash
  <2>1. /\ pc' = "down" /\ crashes' = crashes + 1 /\ place' = place /\ log' = log
        /\ nextId' = nextId /\ saved' = saved /\ lost' = lost /\ torn' = (torn \/ Torn)
    BY <1>11 DEF Crash, logVars
  <2>2. SUFFICES ASSUME place = "server", lost = 0, crashes = 0 PROVE PairInv'
    <3>1. crashes # 0 => crashes' # 0 /\ ~(crashes' <= 1) /\ ~FirstLife'
      BY <1>2, <2>1 DEF FirstLife
    <3>. QED
      BY <2>1, <2>2, <3>1 DEF PairInv
  <2>3. crashes' = 1 /\ FirstLife
    BY <2>1, <2>2 DEF FirstLife
  <2>4. Pairs(log, Awaited) /\ Behind(log)
    BY <2>2, <2>3, FirstBranch DEF PairInv
  <2>5. saved.running \/ Pairs(log, {})
    <3>1. CASE pc \in RunPoints
      BY <2>2, <3>1 DEF PairInv
    <3>2. CASE pc \notin RunPoints
      <4>1. Awaited = {}
        BY <3>2 DEF Awaited, RunPoints
      <4>. QED
        BY <2>4, <4>1
    <3>. QED
      BY <3>1, <3>2
  <2>6. Torn' = Torn
    BY <2>1 DEF Torn
  <2>7. ~torn' => ~Torn'
    BY Zenon, <2>1, <2>6
  <2>8. saved.leaf # NoId => Pairs(PathToRoot(log, saved.leaf), {})
    BY <2>2, <2>3 DEF PairInv
  <2>9. pc' \notin RunPoints /\ pc' = "down" /\ pc' # "recover"
    BY <2>1 DEF RunPoints
  <2>. HIDE DEF Behind, Torn
  <2>. QED
    BY <2>1, <2>3, <2>4, <2>5, <2>7, <2>8, <2>9 DEF PairInv
<1>12. CASE \E i \in 1..Len(log) : LoseFile(i)
  <2>1. lost' # 0
    BY <1>2, <1>12 DEF LoseFile
  <2>. QED
    BY <2>1 DEF PairInv
<1>13. CASE Reload
  <2>1. /\ pc = "down" /\ saved' = head' /\ pc' \in {"recover", "rest"}
        /\ place' = place /\ log' = log /\ births' = births /\ nextId' = nextId
        /\ crashes' = crashes /\ lost' = lost /\ torn' = torn
    BY <1>13 DEF Reload, logVars, faultVars
  <2>2. SUFFICES ASSUME place = "server", lost = 0 PROVE PairInv'
    BY <2>1, <2>2 DEF PairInv
  <2>3. pc' = "rest" => ~saved.running
    BY <1>13, <2>2 DEF Reload
  <2>4. crashes # 0 /\ (crashes <= 1 => FirstLife) /\ (FirstLife' => FirstLife /\ pc' = "recover")
    BY <1>2, <2>1, <2>2 DEF GrowthInv, FirstLife
  <2>5. head'.leaf = saved.leaf /\ head'.empty = saved.empty
    <3>1. saved.leaf # NoId => saved.leaf \in 1..Len(log)
      BY <1>2, <2>2, CompleteFacts DEF Heads, NoId
    <3>2. saved.leaf # NoId => IndexIn(log, saved.leaf) # 0
      BY <2>2, <3>1, CompleteFacts
    <3>. QED
      BY <1>2, <1>13, <3>2 DEF Reload, Heads
  <2>6. ASSUME crashes <= 1, pc' = "rest" PROVE Pairs(ActiveBranch', Awaited')
    <3>1. Pairs(log, {}) /\ ~saved.empty
      BY <2>1, <2>2, <2>3, <2>4, <2>6 DEF PairInv, GrowthInv
    <3>. DEFINE h == head'
    <3>2. h.leaf = saved.leaf /\ ~h.empty
      BY <2>5, <3>1
    <3>. HIDE DEF h
    <3>3. Pairs(PathToRoot(log, ActiveLeaf(log, h)), {})
      BY <2>1, <2>2, <2>6, <3>1, <3>2, ReloadedPairs
    <3>4. ActiveBranch' = PathToRoot(log, ActiveLeaf(log, h))
      BY <2>1 DEF ActiveBranch, h
    <3>. QED
      BY <2>6, <3>3, <3>4 DEF Awaited
  <2>7. Torn' = Torn
    BY <2>1 DEF Torn
  <2>8. FirstLife' => /\ Behind(log')
                      /\ saved'.leaf # NoId => Pairs(PathToRoot(log', saved'.leaf), {})
                      /\ ~torn' => ~Torn'
    BY <2>1, <2>2, <2>4, <2>5, <2>7 DEF PairInv
  <2>. QED
    BY <2>1, <2>2, <2>4, <2>6, <2>8 DEF PairInv
<1>14. CASE Recover
  <2>. DEFINE first == FirstIn(log, UnmatchedIn(log))
  <2>1. /\ pc = "recover" /\ pc' \in {"rest", "recovered"} /\ UNCHANGED faultVars
        /\ \/ UnmatchedIn(log) = {} /\ UNCHANGED <<logVars, head>>
           \/ UnmatchedIn(log) # {} /\ AppendEvent("res", first, first)
    BY <1>14 DEF Recover
  <2>2. crashes' = crashes /\ lost' = lost /\ torn' = torn /\ place' = place
    BY <2>1 DEF faultVars, logVars, AppendEvent
  <2>3. SUFFICES ASSUME place = "server", lost = 0, crashes <= 1, ~torn PROVE Pairs(ActiveBranch', {})
    <3>1. crashes # 0 \/ place # "server"
      BY <2>1 DEF GrowthInv
    <3>2. ~FirstLife' \/ place # "server"
      BY <2>1, <2>2, <3>1 DEF FirstLife
    <3>3. Awaited' = {}
      BY <2>1 DEF Awaited
    <3>. QED
      BY <2>1, <2>2, <2>3, <3>1, <3>2, <3>3 DEF PairInv
  <2>4. FirstLife
    BY <1>2, <2>1, <2>3 DEF GrowthInv, FirstLife
  <2>5. Behind(log) /\ ~Torn
    BY <2>1, <2>3, <2>4 DEF PairInv
  <2>6. CASE UnmatchedIn(log) = {} /\ UNCHANGED <<logVars, head>>
    <3>1. Pairs(log, {})
      BY <1>2, <2>5, <2>6, BehindPairs
    <3>2. head.leaf = saved.leaf /\ ~head.empty
      BY <2>1, <2>3 DEF PairInv, GrowthInv
    <3>3. Pairs(PathToRoot(log, ActiveLeaf(log, head)), {})
      BY <2>1, <2>3, <3>1, <3>2, ReloadedPairs
    <3>. QED
      BY <2>6, <3>3 DEF ActiveBranch, logVars
  <2>7. CASE UnmatchedIn(log) # {} /\ AppendEvent("res", first, first)
    <3>1. first \in LogIds /\ first \in Nat /\ first \in Int
      BY <2>7, FirstOrphan
    <3>2. PathToRoot(log, first) \in Seq(Event) /\ Pairs(PathToRoot(log, first), {first})
      BY <2>3, <2>4, <2>5, <2>7, RecoveredPairs
    <3>. HIDE DEF first
    <3>. DEFINE e == NewEvent("res", first, first)
                p == PathToRoot(log, first)
    <3>3. e \in Event /\ ActiveBranch' = Append(p, e)
      BY <2>7, <3>1, ExplicitGrows
    <3>4. e.kind = "res" /\ e.call = first
      BY DEF NewEvent
    <3>. HIDE DEF e, p
    <3>5. Pairs(Append(p, e), {first} \ {first})
      BY <3>2, <3>3, <3>4, PairsResult DEF p
    <3>6. {first} \ {first} = {}
      OBVIOUS
    <3>. QED
      BY <3>3, <3>5, <3>6
  <2>. QED
    BY <2>1, <2>6, <2>7
<1>15. CASE UNCHANGED vars
  BY <1>15 DEF vars, logVars, workVars, faultVars, PairInv, FirstLife, ActiveBranch, Awaited, Torn
<1>. QED
  BY <1>3, <1>4, <1>6, <1>7, <1>8, <1>9, <1>10, <1>11, <1>12, <1>13, <1>14, <1>15 DEF Next

-----------------------------------------------------------------------------
(* Forks *)

\* A path, event by event: it ends at its leaf, its ids go up, and every event is
\* preceded by its effective parent.
Shape(s, p, id) ==
  /\ p \in Seq(Event) /\ Len(p) >= 1 /\ p[Len(p)].id = id
  /\ \A k \in 1..Len(p) :
       /\ IndexIn(s, p[k].id) \in 1..Len(s) /\ s[IndexIn(s, p[k].id)] = p[k]
       /\ EffectiveParent(s, IndexIn(s, p[k].id)) = IF k = 1 THEN NoId ELSE p[k - 1].id
  /\ \A j, k \in 1..Len(p) : j < k => p[j].id < p[k].id

\* What path_to_root returns has that shape.
LEMMA PathShape ==
  ASSUME NEW s, WellFormed(s), NEW n \in 1..Len(s)
  PROVE  Shape(s, PathToRoot(s, s[n].id), s[n].id)
<1>1. Len(s) \in Nat
  BY LogTypes
<1>. DEFINE T == {m \in 1..Len(s) : Shape(s, PathToRoot(s, s[m].id), s[m].id)}
<1>2. ASSUME NEW m \in 1..Len(s), \A k \in 1..(m - 1) : k \in T PROVE m \in T
  <2>. DEFINE p == PathToRoot(s, EffectiveParent(s, m))
              e == s[m]
              q == Append(p, e)
  <2>1. PathToRoot(s, s[m].id) = q /\ p \in Seq(Event) /\ e \in Event
    BY PathUnfold, LogTypes
  <2>2. IndexIn(s, e.id) = m
    BY IndexOf
  <2>3. \/ p = <<>> /\ EffectiveParent(s, m) = NoId
        \/ /\ Shape(s, p, EffectiveParent(s, m))
           /\ EffectiveParent(s, m) \in Nat /\ EffectiveParent(s, m) < e.id
    <3>1. CASE ParentIndex(s, m) = 0
      BY <3>1, ParentBefore, NoBranch
    <3>2. CASE ParentIndex(s, m) # 0
      <4>. DEFINE j == ParentIndex(s, m)
      <4>1. j \in 1..(m - 1) /\ EffectiveParent(s, m) = s[j].id
        BY <3>2, ParentBefore
      <4>. HIDE DEF j
      <4>2. j \in T /\ j \in 1..Len(s) /\ j < m
        BY <1>1, <1>2, <4>1
      <4>3. s[j].id < s[m].id /\ s[j].id \in Nat
        BY <4>2, LogTypes DEF WellFormed
      <4>. QED
        BY <4>1, <4>2, <4>3
    <3>. QED
      BY <3>1, <3>2
  <2>. DEFINE x == EffectiveParent(s, m)
  <2>4. e.id \in Nat
    BY <2>1 DEF Event
  <2>. HIDE DEF p, e
  <2>5. /\ q \in Seq(Event) /\ Len(q) = Len(p) + 1 /\ Len(p) \in Nat
        /\ q[Len(p) + 1] = e /\ \A k \in 1..Len(p) : q[k] = p[k]
    BY <2>1, AppendFacts
  <2>. HIDE DEF q
  <2>6. \A k \in 1..Len(q) : k = Len(p) + 1 \/ (k \in 1..Len(p) /\ q[k] = p[k])
    BY <2>5
  <2>7. \/ Len(p) = 0 /\ x = NoId
        \/ Len(p) >= 1 /\ x = p[Len(p)].id /\ x \in Nat /\ x < e.id /\ Shape(s, p, x)
    BY <2>3 DEF Shape
  <2>. HIDE DEF x
  <2>8. ASSUME NEW k \in 1..Len(q)
        PROVE  /\ IndexIn(s, q[k].id) \in 1..Len(s) /\ s[IndexIn(s, q[k].id)] = q[k]
               /\ EffectiveParent(s, IndexIn(s, q[k].id)) = IF k = 1 THEN NoId ELSE q[k - 1].id
    <3>1. CASE k = Len(p) + 1
      <4>1. q[k] = e /\ IndexIn(s, q[k].id) = m /\ s[m] = e /\ EffectiveParent(s, m) = x
        BY <2>2, <2>5, <3>1 DEF e, x
      <4>2. x = IF k = 1 THEN NoId ELSE q[k - 1].id
        BY <2>5, <2>7, <3>1
      <4>. QED
        BY <4>1, <4>2
    <3>2. CASE k \in 1..Len(p)
      <4>1. Shape(s, p, x)
        BY <2>5, <2>7, <3>2
      <4>2. k # 1 => k - 1 \in 1..Len(p)
        BY <2>5, <3>2
      <4>3. q[k] = p[k] /\ (k # 1 => q[k - 1] = p[k - 1])
        BY <2>5, <3>2, <4>2
      <4>. QED
        BY <3>2, <4>1, <4>3 DEF Shape
    <3>. QED
      BY <2>6, <3>1, <3>2
  <2>9. ASSUME NEW j \in 1..Len(q), NEW k \in 1..Len(q), j < k PROVE q[j].id < q[k].id
    <3>1. j \in 1..Len(p) /\ q[j] = p[j] /\ Shape(s, p, x)
      BY <2>5, <2>7, <2>9
    <3>2. CASE k \in 1..Len(p)
      BY <2>5, <2>9, <3>1, <3>2 DEF Shape
    <3>3. CASE k = Len(p) + 1
      <4>1. j = Len(p) \/ p[j].id < p[Len(p)].id
        <5>1. Len(p) \in 1..Len(p) /\ (j = Len(p) \/ j < Len(p))
          BY <2>5, <3>1
        <5>. QED
          BY <3>1, <5>1 DEF Shape
      <4>2. p[j].id \in Nat
        <5>1. p[j] \in Event
          BY <2>1, <3>1
        <5>. QED
          BY <5>1 DEF Event
      <4>3. x = p[Len(p)].id /\ x \in Nat /\ x < e.id /\ q[k] = e
        BY <2>5, <2>7, <3>1, <3>3
      <4>. QED
        BY SMTT(40), <2>4, <3>1, <4>1, <4>2, <4>3
    <3>. QED
      BY <2>6, <3>2, <3>3
  <2>10. Len(q) >= 1 /\ q[Len(q)].id = s[m].id
    BY <2>5 DEF e
  <2>11. Shape(s, q, s[m].id)
    BY <2>5, <2>8, <2>9, <2>10 DEF Shape
  <2>. QED
    BY <2>1, <2>11
<1>3. \A m \in 1..Len(s) : m \in T
  <2>. HIDE DEF T
  <2>. QED
    BY <1>1, <1>2, Induction
<1>. QED
  BY <1>3

\* Where every event hangs behind its neighbour, the branch of the last is the log.
LEMMA ChainBranch ==
  ASSUME NEW s, WellFormed(s),
         \A k \in 1..Len(s) : EffectiveParent(s, k) = IF k = 1 THEN NoId ELSE s[k - 1].id,
         NEW n \in 1..Len(s)
  PROVE  IdsOf(PathToRoot(s, s[n].id)) = {s[k].id : k \in 1..n}
<1>1. Len(s) \in Nat
  BY LogTypes
<1>. DEFINE T == {m \in 1..Len(s) : IdsOf(PathToRoot(s, s[m].id)) = {s[k].id : k \in 1..m}}
<1>2. ASSUME NEW m \in 1..Len(s), \A k \in 1..(m - 1) : k \in T PROVE m \in T
  <2>1. IdsOf(PathToRoot(s, s[m].id)) = IdsOf(PathToRoot(s, EffectiveParent(s, m))) \cup {s[m].id}
    BY BranchUnfold
  <2>2. CASE m = 1
    <3>1. IdsOf(PathToRoot(s, EffectiveParent(s, m))) = {}
      BY <2>2, NoBranch
    <3>. QED
      BY <2>1, <2>2, <3>1
  <2>3. CASE m # 1
    <3>1. m - 1 \in 1..(m - 1) /\ EffectiveParent(s, m) = s[m - 1].id
      BY <1>1, <2>3
    <3>2. IdsOf(PathToRoot(s, s[m - 1].id)) = {s[k].id : k \in 1..(m - 1)}
      BY <1>2, <3>1
    <3>3. 1..m = 1..(m - 1) \cup {m}
      BY <1>1
    <3>. QED
      BY <2>1, <3>1, <3>2, <3>3
  <2>. QED
    BY <2>2, <2>3
<1>3. \A m \in 1..Len(s) : m \in T
  <2>. HIDE DEF T
  <2>. QED
    BY <1>1, <1>2, Induction
<1>. QED
  BY <1>3

\* Logs with the same ids and the same effective parents have the same branches.
LEMMA SameBranches ==
  ASSUME NEW s, WellFormed(s), NEW t, WellFormed(t), Len(t) = Len(s),
         \A k \in 1..Len(s) : t[k].id = s[k].id /\ EffectiveParent(t, k) = EffectiveParent(s, k),
         NEW n \in 1..Len(s)
  PROVE  IdsOf(PathToRoot(t, s[n].id)) = IdsOf(PathToRoot(s, s[n].id))
<1>1. Len(s) \in Nat
  BY LogTypes
<1>. DEFINE T == {m \in 1..Len(s) : IdsOf(PathToRoot(t, s[m].id)) = IdsOf(PathToRoot(s, s[m].id))}
<1>2. ASSUME NEW m \in 1..Len(s), \A k \in 1..(m - 1) : k \in T PROVE m \in T
  <2>1. /\ IdsOf(PathToRoot(s, s[m].id)) = IdsOf(PathToRoot(s, EffectiveParent(s, m))) \cup {s[m].id}
        /\ IdsOf(PathToRoot(t, t[m].id)) = IdsOf(PathToRoot(t, EffectiveParent(t, m))) \cup {t[m].id}
    BY BranchUnfold
  <2>2. IdsOf(PathToRoot(t, EffectiveParent(s, m))) = IdsOf(PathToRoot(s, EffectiveParent(s, m)))
    <3>1. CASE ParentIndex(s, m) = 0
      BY <3>1, ParentBefore, NoBranch
    <3>2. CASE ParentIndex(s, m) # 0
      <4>1. ParentIndex(s, m) \in 1..(m - 1) /\ EffectiveParent(s, m) = s[ParentIndex(s, m)].id
        BY <3>2, ParentBefore
      <4>. QED
        BY <1>2, <4>1
    <3>. QED
      BY <3>1, <3>2
  <2>. QED
    BY <2>1, <2>2
<1>3. \A m \in 1..Len(s) : m \in T
  <2>. HIDE DEF T
  <2>. QED
    BY <1>1, <1>2, Induction
<1>. QED
  BY <1>3

\* _copy_event_for_fork keeps the id, and a parent from which the effective one follows.
LEMMA CopyFacts ==
  ASSUME WellFormed(log), NEW i \in 1..Len(log)
  PROVE  LET c == CopyEventForFork(i)
             x == EffectiveParent(log, i)
         IN  /\ c \in Event /\ c.id = log[i].id /\ c.parent < c.id
             /\ \/ c.parent = RootId /\ x = NoId
                \/ c.parent = NoId /\ x = IF i = 1 THEN NoId ELSE log[i - 1].id
                \/ c.parent = x /\ x \in IdsOf(log) /\ x # NoId /\ x # RootId
<1>. DEFINE c == CopyEventForFork(i)
            x == EffectiveParent(log, i)
            k == ParentIndex(log, i)
<1>1. Len(log) \in Nat /\ log[i] \in Event /\ log[i].id \in Nat /\ log[i].id # 0
      /\ log[i].parent \in Int /\ log[i].parent < log[i].id
  BY LogTypes
<1>2. \/ k = 0 /\ x = NoId
      \/ k \in 1..Len(log) /\ k < i /\ x = log[k].id
  BY <1>1, ParentBefore
<1>3. \/ x = NoId
      \/ x \in IdsOf(log) /\ x \in Nat /\ x # NoId /\ x # RootId /\ x < log[i].id
  <2>1. ASSUME k \in 1..Len(log), k < i, x = log[k].id
        PROVE  x \in IdsOf(log) /\ x \in Nat /\ x # NoId /\ x # RootId /\ x < log[i].id
    <3>. HIDE DEF k, x
    <3>1. log[k].id \in Nat /\ log[k].id # 0 /\ log[k].id < log[i].id
      BY <2>1, LogTypes DEF WellFormed
    <3>2. log[k].id \in IdsOf(log)
      BY <2>1 DEF IdsOf
    <3>. QED
      BY <2>1, <3>1, <3>2 DEF NoId, RootId
  <2>. QED
    BY <1>2, <2>1
<1>4. CASE log[i].parent \in {NoId, RootId} \/ IndexIn(log, log[i].parent) # 0
  <2>1. c = log[i]
    BY <1>4 DEF CopyEventForFork
  <2>2. CASE log[i].parent = RootId
    <3>1. x = NoId
      BY <2>2 DEF EffectiveParent
    <3>. QED
      BY <1>1, <2>1, <2>2, <3>1
  <2>3. CASE log[i].parent = NoId
    <3>1. x = IF i = 1 THEN NoId ELSE log[i - 1].id
      BY <2>3 DEF EffectiveParent, NoId, RootId
    <3>. QED
      BY <1>1, <2>1, <2>3, <3>1
  <2>4. CASE log[i].parent \notin {NoId, RootId}
    <3>1. x = log[i].parent /\ x # NoId
      BY <1>4, <2>4 DEF EffectiveParent
    <3>. HIDE DEF x
    <3>. QED
      BY <1>1, <1>3, <2>1, <3>1 DEF x
  <2>. QED
    BY <2>2, <2>3, <2>4
<1>5. CASE ~(log[i].parent \in {NoId, RootId} \/ IndexIn(log, log[i].parent) # 0)
  <2>1. c = [log[i] EXCEPT !.parent = x]
    BY <1>5 DEF CopyEventForFork
  <2>2. x = IF i = 1 THEN NoId ELSE log[i - 1].id
    BY <1>5 DEF EffectiveParent
  <2>3. x \in Int /\ x < log[i].id
    BY <1>1, <1>3 DEF NoId
  <2>. HIDE DEF x
  <2>4. c \in Event /\ c.id = log[i].id /\ c.parent = x
    BY <1>1, <2>1, <2>3 DEF Event
  <2>. HIDE DEF c
  <2>5. /\ c \in Event /\ c.id = log[i].id /\ c.parent < c.id
        /\ \/ c.parent = NoId /\ x = IF i = 1 THEN NoId ELSE log[i - 1].id
           \/ c.parent = x /\ x \in IdsOf(log) /\ x # NoId /\ x # RootId
    BY <1>3, <2>2, <2>3, <2>4
  <2>. QED
    BY <2>5 DEF c, x
<1>. QED
  BY <1>4, <1>5

\* A fork of the whole log.
LEMMA ForkOfLog ==
  ASSUME WellFormed(log)
  PROVE  /\ AppendsAll(ForkedLog)
         /\ \A id \in LogIds : IdsOf(PathToRoot(ForkedLog, id)) = IdsOf(PathToRoot(log, id))
<1>. DEFINE t == ForkedLog
<1>1. Len(log) \in Nat
  BY LogTypes
<1>2. ASSUME NEW i \in 1..Len(log)
      PROVE  LET x == EffectiveParent(log, i)
             IN  /\ t[i] \in Event /\ t[i].id = log[i].id /\ t[i].parent < t[i].id
                 /\ \/ t[i].parent = RootId /\ x = NoId
                    \/ t[i].parent = NoId /\ x = IF i = 1 THEN NoId ELSE log[i - 1].id
                    \/ t[i].parent = x /\ x \in IdsOf(log) /\ x # NoId /\ x # RootId
  <2>1. t[i] = CopyEventForFork(i)
    BY DEF ForkedLog
  <2>. QED
    BY <2>1, CopyFacts
<1>3. t \in Seq(Event) /\ Len(t) = Len(log)
  <2>1. \A i \in 1..Len(log) : CopyEventForFork(i) \in Event
    BY CopyFacts
  <2>. QED
    BY <1>1, <2>1 DEF ForkedLog
<1>. HIDE DEF t
<1>4. WellFormed(t)
  <2>1. \A i \in 1..Len(t) : t[i].id > 0 /\ t[i].parent < t[i].id
    BY <1>2, <1>3 DEF WellFormed
  <2>2. \A i, j \in 1..Len(t) : i < j => t[i].id < t[j].id
    BY <1>2, <1>3 DEF WellFormed
  <2>. QED
    BY <1>3, <2>1, <2>2 DEF WellFormed
<1>5. ASSUME NEW i \in 1..Len(log)
      PROVE  /\ EffectiveParent(t, i) = EffectiveParent(log, i)
             /\ t[i].parent \in {NoId, RootId} \cup {t[j].id : j \in 1..(i - 1)}
  <2>. DEFINE x == EffectiveParent(log, i)
  <2>1. CASE t[i].parent = RootId /\ x = NoId
    BY <2>1 DEF EffectiveParent
  <2>2. CASE t[i].parent = NoId /\ x = IF i = 1 THEN NoId ELSE log[i - 1].id
    <3>1. i # 1 => t[i - 1].id = log[i - 1].id
      <4>1. i # 1 => i - 1 \in 1..Len(log)
        BY <1>1
      <4>. QED
        BY <1>2, <4>1
    <3>2. EffectiveParent(t, i) = IF i = 1 THEN NoId ELSE t[i - 1].id
      BY <2>2 DEF EffectiveParent, NoId, RootId
    <3>. QED
      BY <2>2, <3>1, <3>2
  <2>3. CASE t[i].parent = x /\ x \in IdsOf(log) /\ x # NoId /\ x # RootId
    <3>. DEFINE k == ParentIndex(log, i)
    <3>1. k \in 1..(i - 1) /\ x = log[k].id
      BY <2>3, ParentBefore
    <3>. HIDE DEF k, x
    <3>2. k \in 1..Len(log) /\ t[k].id = x
      BY <1>1, <1>2, <3>1
    <3>3. IndexIn(t, x) # 0
      BY <1>1, <1>3, <3>2, IndexRange
    <3>4. EffectiveParent(t, i) = x
      BY <2>3, <3>3 DEF EffectiveParent
    <3>. QED
      BY <2>3, <3>1, <3>2, <3>4 DEF x
  <2>. QED
    BY <1>2, <2>1, <2>2, <2>3
<1>6. AppendsAll(t)
  BY <1>3, <1>5 DEF AppendsAll
<1>7. ASSUME NEW id \in LogIds PROVE IdsOf(PathToRoot(t, id)) = IdsOf(PathToRoot(log, id))
  <2>1. PICK n \in 1..Len(log) : id = log[n].id
    BY DEF LogIds
  <2>2. \A k \in 1..Len(log) : t[k].id = log[k].id /\ EffectiveParent(t, k) = EffectiveParent(log, k)
    BY <1>2, <1>5
  <2>. QED
    BY <1>3, <1>4, <2>1, <2>2, SameBranches
<1>. QED
  BY <1>6, <1>7 DEF t

\* A fork of one branch.
LEMMA ForkOfBranch ==
  ASSUME WellFormed(log), NEW id \in LogIds
  PROVE  /\ AppendsAll(ForkedBranch(id))
         /\ IdsOf(PathToRoot(ForkedBranch(id), id)) = IdsOf(PathToRoot(log, id))
<1>. DEFINE p == PathToRoot(log, id)
            t == ForkedBranch(id)
            at(k) == IndexIn(log, p[k].id)
<1>1. Shape(log, p, id)
  <2>1. PICK n \in 1..Len(log) : id = log[n].id
    BY DEF LogIds
  <2>. QED
    BY <2>1, PathShape
<1>2. t = [k \in 1..Len(p) |-> CopyEventForFork(at(k))]
  BY Zenon DEF ForkedBranch
<1>. HIDE DEF p, t
<1>3. /\ p \in Seq(Event) /\ Len(p) \in Nat /\ Len(p) >= 1 /\ p[Len(p)].id = id
      /\ \A k \in 1..Len(p) :
           /\ at(k) \in 1..Len(log) /\ log[at(k)].id = p[k].id
           /\ EffectiveParent(log, at(k)) = IF k = 1 THEN NoId ELSE p[k - 1].id
      /\ \A j, k \in 1..Len(p) : j < k => p[j].id < p[k].id
  BY <1>1 DEF Shape
<1>4. ASSUME NEW k \in 1..Len(p)
      PROVE  LET x == EffectiveParent(log, at(k))
             IN  /\ t[k] \in Event /\ t[k].id = p[k].id /\ t[k].parent < t[k].id
                 /\ \/ t[k].parent = RootId /\ x = NoId
                    \/ t[k].parent = NoId
                    \/ t[k].parent = x /\ x # NoId /\ x # RootId
  <2>1. t[k] = CopyEventForFork(at(k)) /\ at(k) \in 1..Len(log) /\ log[at(k)].id = p[k].id
    BY <1>2, <1>3
  <2>. HIDE DEF at
  <2>. QED
    BY <2>1, CopyFacts
<1>5. t \in Seq(Event) /\ Len(t) = Len(p)
  <2>1. \A k \in 1..Len(p) : CopyEventForFork(at(k)) \in Event
    <3>. HIDE DEF at
    <3>. QED
      BY <1>3, CopyFacts
  <2>. HIDE DEF at
  <2>. QED
    BY <1>2, <1>3, <2>1
<1>. DEFINE x(k) == EffectiveParent(log, at(k))
<1>6. \A k \in 1..Len(p) : x(k) = IF k = 1 THEN NoId ELSE p[k - 1].id
  BY <1>3
<1>7. \A k \in 1..Len(p) :
        /\ t[k] \in Event /\ t[k].id = p[k].id /\ t[k].parent < t[k].id
        /\ \/ t[k].parent = RootId /\ x(k) = NoId
           \/ t[k].parent = NoId
           \/ t[k].parent = x(k) /\ x(k) # NoId /\ x(k) # RootId
  BY <1>4
<1>8. \A k \in 1..Len(p) : p[k].id > 0
  <2>1. ASSUME NEW k \in 1..Len(p) PROVE p[k].id > 0
    <3>1. at(k) \in 1..Len(log) /\ log[at(k)].id = p[k].id
      BY <1>3
    <3>. HIDE DEF at
    <3>. QED
      BY <3>1 DEF WellFormed
  <2>. QED
    BY <2>1
<1>. HIDE DEF x, at
<1>9. WellFormed(t)
  <2>1. \A k \in 1..Len(t) : t[k].id > 0 /\ t[k].parent < t[k].id
    BY <1>5, <1>7, <1>8
  <2>2. \A j, k \in 1..Len(t) : j < k => t[j].id < t[k].id
    BY <1>3, <1>5, <1>7
  <2>. QED
    BY <1>5, <2>1, <2>2 DEF WellFormed
<1>10. ASSUME NEW k \in 1..Len(t)
       PROVE  /\ EffectiveParent(t, k) = IF k = 1 THEN NoId ELSE t[k - 1].id
              /\ t[k].parent \in {NoId, RootId} \cup {t[j].id : j \in 1..(k - 1)}
  <2>1. k \in 1..Len(p) /\ k \in Nat /\ (k # 1 => k - 1 \in 1..Len(p))
    BY <1>3, <1>5
  <2>2. x(k) = IF k = 1 THEN NoId ELSE t[k - 1].id
    BY <1>6, <1>7, <2>1
  <2>3. CASE t[k].parent = RootId /\ x(k) = NoId
    <3>1. EffectiveParent(t, k) = NoId
      BY <2>3 DEF EffectiveParent
    <3>. QED
      BY <2>2, <2>3, <3>1
  <2>4. CASE t[k].parent = NoId
    <3>1. EffectiveParent(t, k) = IF k = 1 THEN NoId ELSE t[k - 1].id
      BY <2>4 DEF EffectiveParent, NoId, RootId
    <3>. QED
      BY <2>4, <3>1
  <2>5. CASE t[k].parent = x(k) /\ x(k) # NoId /\ x(k) # RootId
    <3>1. k # 1 /\ x(k) = t[k - 1].id /\ k - 1 \in 1..(k - 1) /\ k - 1 \in 1..Len(t)
      BY <1>5, <2>1, <2>2, <2>5
    <3>2. IndexIn(t, x(k)) # 0
      BY <1>3, <1>5, <3>1, IndexRange
    <3>3. EffectiveParent(t, k) = x(k)
      BY <2>5, <3>2 DEF EffectiveParent
    <3>. QED
      BY <2>5, <3>1, <3>3
  <2>. QED
    BY <1>7, <2>1, <2>3, <2>4, <2>5
<1>11. AppendsAll(t)
  BY <1>10 DEF AppendsAll
<1>12. IdsOf(PathToRoot(t, id)) = IdsOf(p)
  <2>1. Len(t) \in 1..Len(t) /\ t[Len(t)].id = id
    BY <1>3, <1>5, <1>7
  <2>2. IdsOf(PathToRoot(t, t[Len(t)].id)) = {t[k].id : k \in 1..Len(t)}
    BY ZenonT(60), <1>9, <1>10, <2>1, ChainBranch
  <2>3. {t[k].id : k \in 1..Len(t)} = IdsOf(p)
    BY <1>5, <1>7 DEF IdsOf
  <2>. QED
    BY <2>1, <2>2, <2>3
<1>. QED
  BY <1>11, <1>12 DEF t, p

-----------------------------------------------------------------------------
(* The theorems *)

\* What the invariant says of branches.
LEMMA InvIsSound == TreeInv /\ GrowthInv => BranchSound
<1>. SUFFICES ASSUME TreeInv, GrowthInv PROVE BranchSound
  OBVIOUS
<1>1. TypeOK
  BY DEF TreeInv
<1>2. BranchExact
  <2>1. ASSUME lost = 0, NEW id \in LogIds PROVE IdsOf(PathToRoot(log, id)) = AncestorsOf(id)
    <3>1. id \in 0..Len(log)
      BY <2>1, CompleteFacts, Types
    <3>. QED
      BY <2>1, <3>1, CompleteFacts
  <2>. QED
    BY <2>1 DEF BranchExact
<1>3. AncestorsKept
  <2>1. ASSUME place = "server", crashes <= 1, NEW id \in LogIds
        PROVE  AncestorsOf(id) \cap LogIds \subseteq IdsOf(PathToRoot(log, id))
    <3>1. Nested(log, births) /\ Recorded(log, births)
      BY <2>1 DEF GrowthInv, TreeInv
    <3>2. PICK n \in 1..Len(log) : id = log[n].id
      BY DEF LogIds
    <3>3. AncestorsIn(births, log[n].id) \cap IdsOf(log) \subseteq IdsOf(PathToRoot(log, log[n].id))
      BY <3>1, NestedIsKept
    <3>. QED
      BY <3>2, <3>3, Types DEF AncestorsOf
  <2>. QED
    BY <2>1 DEF AncestorsKept
<1>. QED
  BY <1>1, <1>2, <1>3 DEF BranchSound

\* The active branch holds what its leaf was appended behind.
LEMMA InvIsFlushed == TreeInv /\ FlushInv => FlushedOnBranch
<1>. SUFFICES ASSUME TreeInv, FlushInv, place = "server", lost = 0, crashes <= 1, pc # "down"
              PROVE  flushed \subseteq IdsOf(ActiveBranch)
  BY DEF FlushedOnBranch
<1>. DEFINE l == ActiveLeaf(log, head)
<1>1. flushed \subseteq AncestorsOf(l)
  BY DEF FlushInv
<1>2. l \in 0..Len(births) /\ Len(births) = Len(log)
  BY StampFacts, CompleteFacts
<1>3. IdsOf(PathToRoot(log, l)) = AncestorsOf(l)
  <2>. HIDE DEF l
  <2>. QED
    BY <1>2, CompleteFacts
<1>. QED
  BY <1>1, <1>3 DEF ActiveBranch

\* path_to_root returns exactly the events its leaf was appended behind while no event
\* file is lost, whatever was sent, navigated, crashed and recovered; and on the server,
\* up to a second crash, it keeps every surviving ancestor when files are lost.
THEOREM BranchSoundHolds == Spec => []BranchSound
<1>1. Init => TreeInv /\ GrowthInv
  BY TreeInit, GrowthInit
<1>2. TreeInv /\ GrowthInv /\ [Next]_vars => (TreeInv /\ GrowthInv)'
  BY TreeStep, GrowthStep
<1>3. TreeInv /\ GrowthInv => BranchSound
  BY InvIsSound
<1>. QED
  BY <1>1, <1>2, <1>3, PTL DEF Spec

\* A crash and the recovery of EventService.start leave HEAD on a branch with every
\* event that a save of base_state.json had covered.
THEOREM FlushedOnBranchHolds == Spec => []FlushedOnBranch
<1>. DEFINE Inv == TreeInv /\ GrowthInv /\ FlushInv
<1>1. Init => Inv
  BY TreeInit, GrowthInit, FlushInit
<1>2. Inv /\ [Next]_vars => Inv'
  BY TreeStep, GrowthStep, FlushStep
<1>3. Inv => FlushedOnBranch
  BY InvIsFlushed
<1>. QED
  BY <1>1, <1>2, <1>3, PTL DEF Spec

\* With any number of calls in a response, the active branch pairs actions and results
\* whenever no step runs, through a crash at any point and its recovery, unless the
\* crash found some results of a response recorded and some not.
THEOREM BranchMatchedHolds == Spec => []BranchMatched
<1>. DEFINE Inv == TreeInv /\ GrowthInv /\ FlushInv /\ PairInv
<1>1. Init => Inv
  BY TreeInit, GrowthInit, FlushInit, PairInit
<1>2. Inv /\ [Next]_vars => Inv'
  BY TreeStep, GrowthStep, FlushStep, PairStep
<1>3. Inv => BranchMatched
  BY DEF PairInv, BranchMatched, RestMatched, Pairs, Awaited, UnmatchedIn
<1>. QED
  BY <1>1, <1>2, <1>3, PTL DEF Spec

\* fork() between steps, of the whole log or of one branch, lost files included: append()
\* takes every copied event, and the branches of the copy are those of the source.
THEOREM ForkKeepsBranchesHolds == Spec => []ForkKeepsBranches
<1>1. Init => TreeInv
  BY TreeInit
<1>2. TreeInv /\ [Next]_vars => TreeInv'
  BY TreeStep
<1>3. TreeInv => ForkKeepsBranches
  BY Types, ForkOfLog, ForkOfBranch DEF ForkKeepsBranches
<1>. QED
  BY <1>1, <1>2, <1>3, PTL DEF Spec

-----------------------------------------------------------------------------
(* The view: recursion *)

\* f starts with e and goes on by F.
Iterated(f, n, e, F) == f[0] = e /\ \A i \in 1..n : f[i] = F[i][f[i - 1]]

\* A recursion that computes each value from the one before it has a solution.
LEMMA Iterates ==
  ASSUME NEW N \in Nat, NEW S, NEW e \in S, NEW F \in [1..N -> [S -> S]]
  PROVE  \E f \in [0..N -> S] : Iterated(f, N, e, F)
<1>. DEFINE Ok(m) == \E f \in [0..m -> S] :
                       f[0] = e /\ \A n \in 1..m : f[n] = F[n][f[n - 1]]
            T == {m \in 1..N : Ok(m)}
<1>1. Ok(0)
  <2>. DEFINE f == [i \in 0..0 |-> e]
  <2>1. f \in [0..0 -> S] /\ f[0] = e /\ \A n \in 1..0 : f[n] = F[n][f[n - 1]]
    OBVIOUS
  <2>. QED
    BY <2>1
<1>2. ASSUME NEW m \in 1..N, Ok(m - 1) PROVE Ok(m)
  <2>1. PICK f \in [0..(m - 1) -> S] :
               f[0] = e /\ \A n \in 1..(m - 1) : f[n] = F[n][f[n - 1]]
    BY <1>2
  <2>. DEFINE g == [i \in 0..m |-> IF i = m THEN F[m][f[m - 1]] ELSE f[i]]
  <2>2. g \in [0..m -> S] /\ g[0] = e
    BY <2>1
  <2>3. ASSUME NEW n \in 1..m PROVE g[n] = F[n][g[n - 1]]
    <3>1. g[n - 1] = f[n - 1]
      OBVIOUS
    <3>. QED
      BY <2>1, <3>1
  <2>. QED
    BY <2>2, <2>3
<1>3. ASSUME NEW m \in 1..N, \A k \in 1..(m - 1) : k \in T PROVE m \in T
  <2>1. Ok(m - 1)
    <3>. HIDE DEF Ok
    <3>1. CASE m = 1
      BY <1>1, <3>1
    <3>2. CASE m # 1
      <4>1. m - 1 \in 1..(m - 1)
        BY <3>2
      <4>. QED
        BY <1>3, <4>1
    <3>. QED
      BY <3>1, <3>2
  <2>. HIDE DEF Ok
  <2>. QED
    BY <1>2, <2>1
<1>4. \A m \in 1..N : m \in T
  <2>. HIDE DEF T
  <2>. QED
    BY <1>3, Induction
<1>5. Ok(N)
  <2>. HIDE DEF Ok
  <2>. QED
    BY <1>1, <1>4
<1>. QED
  BY <1>5 DEF Iterated

\* Dropping events from a view, as a recursion over the view.
LEMMA DropUnfold ==
  ASSUME NEW v \in Seq(Int), NEW ids
  PROVE  \E kept \in [0..Len(v) -> Seq(Int)] :
           /\ kept[0] = <<>>
           /\ \A i \in 1..Len(v) :
                kept[i] = IF v[i] \in ids THEN kept[i - 1] ELSE Append(kept[i - 1], v[i])
           /\ Drop(v, ids) = kept[Len(v)]
<1>. DEFINE G(f) == [i \in 0..Len(v) |-> IF i = 0 THEN <<>>
               ELSE IF v[i] \in ids THEN f[i - 1] ELSE Append(f[i - 1], v[i])]
            p == CHOOSE f : f = G(f)
            F == [i \in 1..Len(v) |-> [x \in Seq(Int) |->
                    IF v[i] \in ids THEN x ELSE Append(x, v[i])]]
<1>1. Drop(v, ids) = p[Len(v)]
  BY Zenon DEF Drop
<1>2. Len(v) \in Nat /\ <<>> \in Seq(Int) /\ \A i \in 1..Len(v) : v[i] \in Int
  OBVIOUS
<1>3. F \in [1..Len(v) -> [Seq(Int) -> Seq(Int)]]
  BY <1>2
<1>4. PICK f \in [0..Len(v) -> Seq(Int)] : Iterated(f, Len(v), <<>>, F)
  <2>. DEFINE N == Len(v)
              S == Seq(Int)
              e == <<>>
  <2>1. N \in Nat /\ e \in S /\ F \in [1..N -> [S -> S]]
    BY <1>2, <1>3
  <2>. HIDE DEF F, N, S, e
  <2>2. \E f \in [0..N -> S] : Iterated(f, N, e, F)
    BY <2>1, Iterates
  <2>. QED
    BY <2>2 DEF N, S, e
<1>5. ASSUME NEW i \in 1..Len(v)
      PROVE  f[i] = IF v[i] \in ids THEN f[i - 1] ELSE Append(f[i - 1], v[i])
  <2>0. i - 1 \in 0..Len(v)
    BY <1>2
  <2>1. f[i - 1] \in Seq(Int)
    BY <2>0
  <2>2. F[i][f[i - 1]] = IF v[i] \in ids THEN f[i - 1] ELSE Append(f[i - 1], v[i])
    BY <2>1
  <2>. QED
    BY <1>4, <2>2 DEF Iterated
<1>6. f = G(f)
  <2>1. DOMAIN f = 0..Len(v) /\ f = [i \in 0..Len(v) |-> f[i]]
    OBVIOUS
  <2>2. ASSUME NEW i \in 0..Len(v) PROVE f[i] = G(f)[i]
    <3>1. CASE i = 0
      BY <1>4, <3>1 DEF Iterated
    <3>2. CASE i \in 1..Len(v)
      <4>1. i # 0
        BY <1>2, <3>2
      <4>. QED
        BY <1>5, <3>2, <4>1
    <3>. QED
      BY <1>2, <3>1, <3>2
  <2>3. G(f) = [i \in 0..Len(v) |-> G(f)[i]]
    OBVIOUS
  <2>. HIDE DEF G
  <2>. QED
    BY <2>1, <2>2, <2>3
<1>7. p = G(p)
  <2>. HIDE DEF G
  <2>. QED
    BY <1>6
<1>. HIDE DEF p
<1>8. /\ p[0] = <<>>
      /\ \A i \in 1..Len(v) : p[i] = IF v[i] \in ids THEN p[i - 1] ELSE Append(p[i - 1], v[i])
  <2>1. ASSUME NEW i \in 0..Len(v)
        PROVE  p[i] = IF i = 0 THEN <<>>
                      ELSE IF v[i] \in ids THEN p[i - 1] ELSE Append(p[i - 1], v[i])
    <3>1. p[i] = G(p)[i]
      <4>. HIDE DEF G
      <4>. QED
        BY <1>7
    <3>. QED
      BY <3>1
  <2>2. 0 \in 0..Len(v) /\ \A i \in 1..Len(v) : i \in 0..Len(v) /\ i # 0
    BY <1>2
  <2>. QED
    BY <2>1, <2>2
<1>9. \A i \in 0..Len(v) : p[i] = f[i]
  <2>. DEFINE T == {i \in 1..Len(v) : p[i] = f[i]}
  <2>1. ASSUME NEW m \in 1..Len(v), \A k \in 1..(m - 1) : k \in T PROVE m \in T
    <3>1. p[m - 1] = f[m - 1]
      BY <1>2, <1>4, <1>8, <2>1 DEF Iterated
    <3>. QED
      BY <1>5, <1>8, <3>1
  <2>2. \A m \in 1..Len(v) : m \in T
    <3>. HIDE DEF T
    <3>. QED
      BY <1>2, <2>1, Induction
  <2>. QED
    BY <1>2, <1>4, <1>8, <2>2 DEF Iterated
<1>10. Drop(v, ids) = f[Len(v)]
  BY <1>1, <1>2, <1>9
<1>. QED
  BY <1>4, <1>5, <1>10 DEF Iterated

\* w holds the first n events of v that are not in ids, in their order: q says where
\* in v each one was.
Picks(q, w, v, n, ids) ==
  /\ w \in Seq(Int) /\ q \in [1..Len(w) -> 1..n]
  /\ \A k \in 1..Len(w) : w[k] = v[q[k]] /\ v[q[k]] \notin ids
  /\ \A k, l \in 1..Len(w) : k < l => q[k] < q[l]
  /\ \A i \in 1..n : v[i] \notin ids => \E k \in 1..Len(w) : q[k] = i
  /\ Len(w) <= n /\ (Len(w) = n => \A i \in 1..n : v[i] \notin ids)

\* Dropping keeps the others, in their order.
LEMMA DropPicks ==
  ASSUME NEW v \in Seq(Int), NEW ids
  PROVE  \E q : Picks(q, Drop(v, ids), v, Len(v), ids)
<1>1. PICK kept \in [0..Len(v) -> Seq(Int)] :
           /\ kept[0] = <<>>
           /\ \A i \in 1..Len(v) :
                kept[i] = IF v[i] \in ids THEN kept[i - 1] ELSE Append(kept[i - 1], v[i])
           /\ Drop(v, ids) = kept[Len(v)]
  BY DropUnfold
<1>. DEFINE Ok(m) == \E q : Picks(q, kept[m], v, m, ids)
            T == {m \in 1..Len(v) : Ok(m)}
<1>2. Len(v) \in Nat /\ \A i \in 1..Len(v) : v[i] \in Int
  OBVIOUS
<1>3. Ok(0)
  <2>. DEFINE q == [k \in 1..0 |-> 0]
  <2>1. Len(kept[0]) = 0 /\ kept[0] \in Seq(Int)
    BY <1>1
  <2>2. Picks(q, kept[0], v, 0, ids)
    BY <2>1 DEF Picks
  <2>. QED
    BY <2>2
<1>4. ASSUME NEW m \in 1..Len(v), Ok(m - 1) PROVE Ok(m)
  <2>. DEFINE u == kept[m - 1]
              w == kept[m]
  <2>1. PICK q : Picks(q, u, v, m - 1, ids)
    BY <1>4
  <2>2. m \in Nat /\ u \in Seq(Int) /\ Len(u) \in Nat /\ v[m] \in Int
        /\ q \in [1..Len(u) -> 1..(m - 1)]
    BY <1>2, <2>1 DEF Picks
  <2>3. w = IF v[m] \in ids THEN u ELSE Append(u, v[m])
    BY <1>1
  <2>. HIDE DEF u, w
  <2>4. CASE v[m] \in ids
    <3>1. w = u
      BY <2>3, <2>4
    <3>2. q \in [1..Len(u) -> 1..m]
      BY <2>2
    <3>3. Picks(q, u, v, m, ids)
      BY <2>1, <2>2, <2>4, <3>2 DEF Picks
    <3>. QED
      BY <3>1, <3>3 DEF w
  <2>5. CASE v[m] \notin ids
    <3>. DEFINE r == [k \in 1..(Len(u) + 1) |-> IF k = Len(u) + 1 THEN m ELSE q[k]]
    <3>1. w = Append(u, v[m])
      BY <2>3, <2>5
    <3>2. w \in Seq(Int) /\ Len(w) = Len(u) + 1 /\ w[Len(u) + 1] = v[m]
          /\ \A k \in 1..Len(u) : w[k] = u[k]
      BY <2>2, <3>1
    <3>3. r \in [1..Len(w) -> 1..m]
      BY SMTT(40), <2>2, <3>2
    <3>4. \A k \in 1..Len(w) : w[k] = v[r[k]] /\ v[r[k]] \notin ids
      BY SMTT(40), <2>1, <2>2, <2>5, <3>2 DEF Picks
    <3>5. \A k, l \in 1..Len(w) : k < l => r[k] < r[l]
      <4>1. ASSUME NEW k \in 1..Len(w), NEW l \in 1..Len(w), k < l PROVE r[k] < r[l]
        <5>0. k \in 1..Len(u) /\ k # Len(u) + 1 /\ k \in 1..(Len(u) + 1)
          <6>1. k \in 1..(Len(u) + 1) /\ l \in 1..(Len(u) + 1) /\ k < l
            BY <3>2, <4>1
          <6>. QED
            BY SMTT(40), <2>2, <6>1
        <5>1. k \in 1..Len(u) /\ r[k] = q[k] /\ q[k] \in 1..(m - 1)
          <6>1. r[k] = q[k]
            BY <5>0
          <6>. QED
            BY <2>2, <5>0, <6>1
        <5>2. CASE l = Len(u) + 1
          <6>1. r[l] = m
            BY <2>2, <5>2
          <6>2. r[k] < m /\ m \in Nat
            BY <1>2, <5>1
          <6>. QED
            BY <6>1, <6>2
        <5>3. CASE l # Len(u) + 1
          <6>1. l \in 1..Len(u) /\ r[l] = q[l]
            BY <2>2, <3>2, <5>3
          <6>. QED
            BY <2>1, <4>1, <5>1, <6>1 DEF Picks
        <5>. QED
          BY <5>2, <5>3
      <4>. QED
        BY <4>1
    <3>6. ASSUME NEW i \in 1..m, v[i] \notin ids PROVE \E k \in 1..Len(w) : r[k] = i
      <4>1. CASE i = m
        BY <2>2, <3>2, <4>1
      <4>2. CASE i # m
        <5>1. PICK k \in 1..Len(u) : q[k] = i
          <6>1. i \in 1..(m - 1)
            BY <2>2, <4>2
          <6>. QED
            BY <2>1, <3>6, <6>1 DEF Picks
        <5>. QED
          BY <2>2, <3>2, <5>1
      <4>. QED
        BY <4>1, <4>2
    <3>7. Len(w) <= m /\ (Len(w) = m => \A i \in 1..m : v[i] \notin ids)
      BY <2>1, <2>2, <2>5, <3>2 DEF Picks
    <3>8. Picks(r, w, v, m, ids)
      <4>. HIDE DEF r
      <4>. QED
        BY <3>2, <3>3, <3>4, <3>5, <3>6, <3>7 DEF Picks
    <3>. QED
      BY <3>8 DEF w
  <2>. QED
    BY <2>4, <2>5
<1>5. ASSUME NEW m \in 1..Len(v), \A k \in 1..(m - 1) : k \in T PROVE m \in T
  <2>. HIDE DEF Ok
  <2>1. Ok(m - 1)
    <3>1. CASE m = 1
      BY <1>3, <3>1
    <3>2. CASE m # 1
      <4>1. m - 1 \in 1..(m - 1)
        BY <1>2, <3>2
      <4>. QED
        BY <1>5, <4>1
    <3>. QED
      BY <3>1, <3>2
  <2>. QED
    BY <1>4, <2>1
<1>6. \A m \in 1..Len(v) : m \in T
  <2>. HIDE DEF T
  <2>. QED
    BY <1>2, <1>5, Induction
<1>7. Ok(Len(v))
  <2>. HIDE DEF Ok
  <2>. QED
    BY <1>2, <1>3, <1>6
<1>. QED
  BY <1>1, <1>7

\* Dropping an event of a view makes it shorter.
LEMMA DropShortens ==
  ASSUME NEW v \in Seq(Int), NEW ids, ids \cap ToSet(v) # {}
  PROVE  Drop(v, ids) \in Seq(Int) /\ Len(Drop(v, ids)) < Len(v)
<1>1. PICK q : Picks(q, Drop(v, ids), v, Len(v), ids)
  BY DropPicks
<1>2. PICK i \in 1..Len(v) : v[i] \in ids
  BY DEF ToSet
<1>. DEFINE w == Drop(v, ids)
<1>3. w \in Seq(Int) /\ Len(w) <= Len(v) /\ Len(w) # Len(v)
  <2>. HIDE DEF w
  <2>1. Picks(q, w, v, Len(v), ids)
    BY <1>1 DEF w
  <2>. QED
    BY <1>2, <2>1 DEF Picks
<1>4. Len(w) \in Nat /\ Len(v) \in Nat
  <2>. HIDE DEF w
  <2>. QED
    BY <1>3
<1>. QED
  BY <1>3, <1>4

\* The events of a history.
ViewEvent ==
  [kind : {"system", "message", "other", "request"}]
    \cup [kind : {"action"}, batch : Nat, thinking : BOOLEAN]
    \cup [kind : {"observation"}, call : Nat]
    \cup [kind : {"condensation"}, forgotten : SUBSET Int, summary : BOOLEAN, offset : Nat]

\* w is s with x behind its first p elements.
Inserted(w, s, p, x) ==
  /\ w \in Seq(Int) /\ Len(w) = Len(s) + 1
  /\ \A k \in 1..p : w[k] = s[k]
  /\ w[p + 1] = x
  /\ \A k \in (p + 2)..(Len(s) + 1) : w[k] = s[k - 1]

\* InsertAt puts x there.
LEMMA InsertFacts ==
  ASSUME NEW s \in Seq(Int), NEW p \in 0..Len(s), NEW x \in Int
  PROVE  Inserted(InsertAt(s, p + 1, x), s, p, x)
<1>. DEFINE a == SubSeq(s, 1, p)
            b == SubSeq(s, p + 1, Len(s))
            w == (a \o <<x>>) \o b
<1>1. Len(s) \in Nat /\ p \in Nat /\ \A i \in 1..Len(s) : s[i] \in Int
  OBVIOUS
<1>2. a \in Seq(Int) /\ Len(a) = p /\ \A k \in 1..p : a[k] = s[k]
  <2>1. \A i \in 1..p : s[i] \in Int
    BY <1>1
  <2>2. /\ a \in Seq(Int) /\ Len(a) = IF 1 <= p THEN p - 1 + 1 ELSE 0
        /\ \A i \in 1..(p - 1 + 1) : a[i] = s[1 + i - 1]
    BY <1>1, <2>1, SubSeqProperties
  <2>. HIDE DEF a
  <2>. QED
    BY <1>1, <2>2
<1>3. b \in Seq(Int) /\ Len(b) = Len(s) - p /\ \A k \in 1..(Len(s) - p) : b[k] = s[p + k]
  <2>1. \A i \in (p + 1)..Len(s) : s[i] \in Int
    BY <1>1
  <2>2. /\ b \in Seq(Int) /\ Len(b) = IF p + 1 <= Len(s) THEN Len(s) - (p + 1) + 1 ELSE 0
        /\ \A i \in 1..(Len(s) - (p + 1) + 1) : b[i] = s[(p + 1) + i - 1]
    BY <1>1, <2>1, SubSeqProperties
  <2>. HIDE DEF b
  <2>3. Len(b) = Len(s) - p
    BY <1>1, <2>2
  <2>4. ASSUME NEW k \in 1..(Len(s) - p) PROVE b[k] = s[p + k]
    <3>1. k \in 1..(Len(s) - (p + 1) + 1) /\ (p + 1) + k - 1 = p + k
      BY <1>1
    <3>. QED
      BY <2>2, <3>1
  <2>. QED
    BY <2>2, <2>3, <2>4
<1>4. InsertAt(s, p + 1, x) = w
  <2>1. (p + 1) - 1 = p
    BY <1>1
  <2>. QED
    BY <2>1 DEF InsertAt
<1>. HIDE DEF a, b
<1>. DEFINE c == a \o <<x>>
<1>5. c \in Seq(Int) /\ Len(c) = p + 1 /\ c[p + 1] = x /\ \A k \in 1..p : c[k] = s[k]
  BY <1>1, <1>2
<1>. HIDE DEF c
<1>6. w = c \o b
  BY DEF c
<1>. HIDE DEF w
<1>7. /\ w \in Seq(Int) /\ Len(w) = Len(s) + 1
      /\ \A k \in 1..(Len(s) + 1) : w[k] = IF k <= p + 1 THEN c[k] ELSE b[k - (p + 1)]
  <2>1. /\ w \in Seq(Int) /\ Len(w) = Len(c) + Len(b)
        /\ \A k \in 1..(Len(c) + Len(b)) : w[k] = IF k <= Len(c) THEN c[k] ELSE b[k - Len(c)]
    BY ZenonT(60), <1>3, <1>5, <1>6, ConcatProperties
  <2>2. Len(c) + Len(b) = Len(s) + 1
    BY <1>1, <1>3, <1>5
  <2>. QED
    BY <1>5, <2>1, <2>2
<1>8. ASSUME NEW k \in (p + 2)..(Len(s) + 1) PROVE w[k] = s[k - 1]
  <2>1. k \in 1..(Len(s) + 1) /\ ~(k <= p + 1) /\ k - (p + 1) \in 1..(Len(s) - p)
        /\ p + (k - (p + 1)) = k - 1
    BY <1>1
  <2>. QED
    BY <1>3, <1>7, <2>1
<1>9. (\A k \in 1..p : w[k] = s[k]) /\ w[p + 1] = x
  BY <1>1, <1>5, <1>7
<1>. QED
  BY <1>4, <1>7, <1>8, <1>9 DEF Inserted

\* A condensation is applied: its events go, and its summary, if there is one, comes at
\* its offset, or at the end if that is nearer.
LEMMA ApplyFacts ==
  ASSUME NEW v \in Seq(Int), NEW n \in Nat, NEW c \in ViewEvent, c.kind = "condensation"
  PROVE  LET kept == Drop(v, c.forgotten)
         IN  \/ Apply(v, n, c) = kept
             \/ \E p \in 0..Len(kept) : /\ p = IF c.offset > Len(kept) THEN Len(kept) ELSE c.offset
                                        /\ Inserted(Apply(v, n, c), kept, p, -n)
<1>. DEFINE kept == Drop(v, c.forgotten)
            p == IF c.offset > Len(kept) THEN Len(kept) ELSE c.offset
<1>1. c.offset \in Nat /\ -n \in Int
  BY DEF ViewEvent
<1>2. kept \in Seq(Int)
  BY DropPicks DEF Picks
<1>3. Apply(v, n, c) = IF c.summary THEN InsertAt(kept, p + 1, -n) ELSE kept
  BY DEF Apply
<1>. HIDE DEF kept
<1>4. p \in 0..Len(kept)
  BY <1>1, <1>2
<1>5. CASE c.summary
  <2>1. Apply(v, n, c) = InsertAt(kept, p + 1, -n)
    BY <1>3, <1>5
  <2>2. Inserted(InsertAt(kept, p + 1, -n), kept, p, -n)
    <3>. HIDE DEF p
    <3>. QED
      BY <1>1, <1>2, <1>4, InsertFacts
  <2>. QED
    BY <1>4, <2>1, <2>2 DEF kept
<1>6. CASE ~c.summary
  BY <1>3, <1>6 DEF kept
<1>. QED
  BY <1>5, <1>6

\* A view stays one when it takes an event in.
LEMMA AppendToType ==
  ASSUME NEW v \in Seq(Int), NEW n \in Nat, NEW e \in ViewEvent
  PROVE  AppendTo(v, n, e) \in Seq(Int)
<1>1. CASE e.kind = "condensation"
  <2>1. Drop(v, e.forgotten) \in Seq(Int)
    BY DropPicks DEF Picks
  <2>2. Apply(v, n, e) \in Seq(Int)
    BY <1>1, <2>1, ApplyFacts DEF Inserted
  <2>. QED
    BY <1>1, <2>2 DEF AppendTo
<1>2. CASE e.kind # "condensation"
  BY <1>2 DEF AppendTo
<1>. QED
  BY <1>1, <1>2

\* The cases of View.append_event.
LEMMA AppendToCases ==
  ASSUME NEW v, NEW n, NEW e
  PROVE  /\ e.kind = "condensation" => AppendTo(v, n, e) = Apply(v, n, e)
         /\ e.kind \in {"request", "other"} => AppendTo(v, n, e) = v
         /\ e.kind \notin {"condensation", "request", "other"} => AppendTo(v, n, e) = Append(v, n)
<1>1. CASE e.kind = "condensation"
  BY <1>1 DEF AppendTo
<1>2. CASE e.kind \in {"request", "other"}
  <2>1. e.kind # "condensation"
    BY <1>2
  <2>. QED
    BY <1>2, <2>1, Zenon DEF AppendTo
<1>3. CASE e.kind \notin {"condensation", "request", "other"}
  <2>1. e.kind # "condensation" /\ e.kind \notin {"request", "other"}
    BY <1>3
  <2>. QED
    BY <1>3, <2>1, Zenon DEF AppendTo
<1>. QED
  BY <1>1, <1>2, <1>3

\* taken is the recursion of AppendAll.
Takes(taken, v, n, events) ==
  /\ taken \in [0..Len(events) -> Seq(Int)] /\ taken[0] = v
  /\ \A k \in 1..Len(events) : taken[k] = AppendTo(taken[k - 1], n + k, events[k])

\* What the loop of from_events returns is the last value of that recursion.
LEMMA AppendAllUnfold ==
  ASSUME NEW v \in Seq(Int), NEW n \in Nat, NEW events \in Seq(ViewEvent)
  PROVE  \E taken : Takes(taken, v, n, events) /\ AppendAll(v, n, events) = taken[Len(events)]
<1>. DEFINE N == Len(events)
            G(f) == [k \in 0..N |-> IF k = 0 THEN v ELSE AppendTo(f[k - 1], n + k, events[k])]
            p == CHOOSE f : f = G(f)
            S == Seq(Int)
            F == [k \in 1..N |-> [x \in S |-> AppendTo(x, n + k, events[k])]]
<1>1. AppendAll(v, n, events) = p[N]
  BY Zenon DEF AppendAll
<1>2. N \in Nat /\ v \in S
  OBVIOUS
<1>3. F \in [1..N -> [S -> S]]
  <2>1. ASSUME NEW k \in 1..N, NEW x \in S PROVE AppendTo(x, n + k, events[k]) \in S
    <3>1. n + k \in Nat /\ events[k] \in ViewEvent
      <4>. HIDE DEF ViewEvent
      <4>. QED
        BY <1>2
    <3>. QED
      BY <3>1, AppendToType
  <2>. QED
    BY <2>1
<1>. HIDE DEF N, S
<1>4. PICK f \in [0..N -> S] : Iterated(f, N, v, F)
  <2>. HIDE DEF F
  <2>. QED
    BY <1>2, <1>3, Iterates
<1>5. ASSUME NEW i \in 1..N PROVE f[i] = AppendTo(f[i - 1], n + i, events[i])
  <2>1. i - 1 \in 0..N
    BY <1>2
  <2>2. f[i - 1] \in S
    BY <2>1
  <2>3. F[i][f[i - 1]] = AppendTo(f[i - 1], n + i, events[i])
    BY <2>2
  <2>. QED
    BY <1>4, <2>3 DEF Iterated
<1>6. f = G(f)
  <2>1. f = [i \in 0..N |-> f[i]] /\ G(f) = [i \in 0..N |-> G(f)[i]]
    OBVIOUS
  <2>2. ASSUME NEW i \in 0..N PROVE f[i] = G(f)[i]
    <3>1. CASE i = 0
      BY <1>4, <3>1 DEF Iterated
    <3>2. CASE i \in 1..N
      <4>1. i # 0
        BY <1>2, <3>2
      <4>. QED
        BY <1>5, <3>2, <4>1
    <3>. QED
      BY <1>2, <3>1, <3>2
  <2>. HIDE DEF G
  <2>. QED
    BY <2>1, <2>2
<1>7. p = G(p)
  <2>. HIDE DEF G
  <2>. QED
    BY <1>6
<1>. HIDE DEF p
<1>8. p[0] = v /\ \A i \in 1..N : p[i] = AppendTo(p[i - 1], n + i, events[i])
  <2>1. ASSUME NEW i \in 0..N
        PROVE  p[i] = IF i = 0 THEN v ELSE AppendTo(p[i - 1], n + i, events[i])
    <3>1. p[i] = G(p)[i]
      <4>. HIDE DEF G
      <4>. QED
        BY <1>7
    <3>. QED
      BY <3>1
  <2>2. 0 \in 0..N /\ \A i \in 1..N : i \in 0..N /\ i # 0
    BY <1>2
  <2>. QED
    BY <2>1, <2>2
<1>9. \A i \in 0..N : p[i] = f[i]
  <2>. DEFINE T == {i \in 1..N : p[i] = f[i]}
  <2>1. ASSUME NEW m \in 1..N, \A k \in 1..(m - 1) : k \in T PROVE m \in T
    <3>1. p[m - 1] = f[m - 1]
      BY SMTT(40), <1>2, <1>4, <1>8, <2>1 DEF Iterated
    <3>. QED
      BY <1>5, <1>8, <3>1
  <2>2. \A m \in 1..N : m \in T
    <3>. HIDE DEF T
    <3>. QED
      BY <1>2, <2>1, Induction
  <2>. QED
    BY <1>2, <1>4, <1>8, <2>2 DEF Iterated
<1>10. AppendAll(v, n, events) = f[N]
  BY <1>1, <1>2, <1>9
<1>11. Takes(f, v, n, events)
  BY <1>4, <1>5 DEF Takes, Iterated, N, S
<1>. QED
  BY <1>10, <1>11 DEF N

\* The recursion, from its end.
LEMMA AppendAllSteps ==
  ASSUME NEW v \in Seq(Int), NEW n \in Nat, NEW events \in Seq(ViewEvent), NEW e \in ViewEvent
  PROVE  /\ AppendAll(v, n, events) \in Seq(Int)
         /\ events = <<>> => AppendAll(v, n, events) = v
         /\ AppendAll(v, n, Append(events, e)) =
              AppendTo(AppendAll(v, n, events), n + (Len(events) + 1), e)
<1>. DEFINE N == Len(events)
            longer == Append(events, e)
<1>1. PICK s : Takes(s, v, n, events) /\ AppendAll(v, n, events) = s[N]
  BY AppendAllUnfold
<1>2. N \in Nat /\ longer \in Seq(ViewEvent) /\ Len(longer) = N + 1 /\ longer[N + 1] = e
      /\ \A k \in 1..N : longer[k] = events[k]
  <2>. HIDE DEF ViewEvent
  <2>. QED
    OBVIOUS
<1>. HIDE DEF longer
<1>3. PICK t : Takes(t, v, n, longer) /\ AppendAll(v, n, longer) = t[Len(longer)]
  BY <1>2, AppendAllUnfold
<1>4. /\ s[0] = v /\ \A k \in 1..N : s[k] = AppendTo(s[k - 1], n + k, events[k])
      /\ s[N] \in Seq(Int)
  <2>1. s \in [0..N -> Seq(Int)] /\ s[0] = v
        /\ \A k \in 1..N : s[k] = AppendTo(s[k - 1], n + k, events[k])
    BY <1>1 DEF Takes
  <2>2. N \in 0..N
    BY <1>2
  <2>. QED
    BY <2>1, <2>2
<1>5. t[0] = v /\ \A k \in 1..(N + 1) : t[k] = AppendTo(t[k - 1], n + k, longer[k])
  BY <1>2, <1>3 DEF Takes
<1>6. s[N] = t[N]
  <2>. DEFINE T == {k \in 1..N : s[k] = t[k]}
  <2>1. ASSUME NEW m \in 1..N, \A k \in 1..(m - 1) : k \in T PROVE m \in T
    <3>1. s[m - 1] = t[m - 1]
      BY <1>2, <1>4, <1>5, <2>1
    <3>2. t[m] = AppendTo(t[m - 1], n + m, events[m])
      <4>1. m \in 1..(N + 1)
        BY <1>2
      <4>. QED
        BY <1>2, <1>5, <4>1
    <3>. QED
      BY <1>4, <3>1, <3>2
  <2>2. \A m \in 1..N : m \in T
    <3>. HIDE DEF T
    <3>. QED
      BY <1>2, <2>1, Induction
  <2>. QED
    BY <1>2, <1>4, <1>5, <2>2
<1>7. t[N + 1] = AppendTo(t[N], n + (N + 1), e)
  <2>1. N + 1 \in 1..(N + 1) /\ (N + 1) - 1 = N
    BY <1>2
  <2>. QED
    BY <1>2, <1>5, <2>1
<1>8. events = <<>> => AppendAll(v, n, events) = v
  BY <1>1, <1>4
<1>9. AppendAll(v, n, longer) = AppendTo(AppendAll(v, n, events), n + (N + 1), e)
  BY <1>1, <1>2, <1>3, <1>6, <1>7
<1>. QED
  BY <1>1, <1>4, <1>8, <1>9 DEF longer

-----------------------------------------------------------------------------
(* The view: what from_events returns *)

\* A view of the first m events: the system prompt first, no event or summary twice,
\* events in the order of the history.
Ordered(v, m) ==
  /\ v \in Seq(Int) /\ v # <<>> /\ v[1] = 1
  /\ \A i \in 1..Len(v) : v[i] # 0 /\ v[i] <= m /\ -m <= v[i]
  /\ \A i, j \in 1..Len(v) : i < j => v[i] # v[j]
  /\ \A i, j \in 1..Len(v) : i < j /\ v[i] > 0 /\ v[j] > 0 => v[i] < v[j]

\* Dropping events keeps the order of the others.
LEMMA DropOrdered ==
  ASSUME NEW v, NEW m \in Nat, Ordered(v, m), NEW ids, 1 \notin ids
  PROVE  Ordered(Drop(v, ids), m)
<1>1. v \in Seq(Int) /\ v # <<>> /\ v[1] = 1 /\ Len(v) \in Nat
  BY DEF Ordered
<1>. DEFINE w == Drop(v, ids)
<1>2. PICK q : Picks(q, w, v, Len(v), ids)
  BY <1>1, DropPicks
<1>. HIDE DEF w
<1>3. w \in Seq(Int) /\ Len(w) \in Nat /\ q \in [1..Len(w) -> 1..Len(v)]
      /\ \A k \in 1..Len(w) : w[k] = v[q[k]]
  BY <1>2 DEF Picks
<1>4. w # <<>> /\ w[1] = 1
  <2>1. 1 \in 1..Len(v)
    BY <1>1
  <2>2. PICK k \in 1..Len(w) : q[k] = 1
    BY <1>1, <1>2, <2>1 DEF Picks
  <2>3. k = 1
    <3>1. ASSUME k # 1 PROVE FALSE
      <4>1. 1 \in 1..Len(w) /\ 1 < k
        BY <1>3, <3>1
      <4>2. q[1] < q[k] /\ q[1] \in 1..Len(v)
        BY <1>2, <1>3, <4>1 DEF Picks
      <4>. QED
        BY <1>1, <2>2, <4>2
    <3>. QED
      BY <3>1
  <2>. QED
    BY <1>1, <1>3, <2>2, <2>3
<1>5. ASSUME NEW k \in 1..Len(w) PROVE w[k] # 0 /\ w[k] <= m /\ -m <= w[k]
  BY ZenonT(60), <1>3 DEF Ordered
<1>6. ASSUME NEW i \in 1..Len(w), NEW j \in 1..Len(w), i < j
      PROVE  w[i] # w[j] /\ (w[i] > 0 /\ w[j] > 0 => w[i] < w[j])
  <2>1. q[i] < q[j] /\ q[i] \in 1..Len(v) /\ q[j] \in 1..Len(v)
        /\ w[i] = v[q[i]] /\ w[j] = v[q[j]]
    BY <1>2, <1>3, <1>6 DEF Picks
  <2>. QED
    BY <2>1 DEF Ordered
<1>7. Ordered(w, m)
  BY <1>3, <1>4, <1>5, <1>6 DEF Ordered
<1>. QED
  BY <1>7 DEF w

\* None of the four properties is broken.
Sound(v) ==
  /\ DuplicateObservations(v) = {} /\ BrokenBatches(v) = {}
  /\ Unmatched(v) = {} /\ BrokenLoops(v) = {}

\* A round of enforcement drops calls and results, or finds nothing to do.
LEMMA EnforceOnceFacts ==
  ASSUME NEW v \in Seq(Int)
  PROVE  \/ EnforceOnce(v) = v /\ Sound(v)
         \/ ~Sound(v) /\ \E ids : /\ ids # {} /\ ids \subseteq ToSet(v)
                                  /\ \A x \in ids : InToolLoop(x)
                                  /\ EnforceOnce(v) = Drop(v, ids)
<1>. DEFINE D == DuplicateObservations(v)
            B == BrokenBatches(v)
            U == Unmatched(v)
            L == BrokenLoops(v)
            removals == <<D, B, U, L>>
            broken == {p \in 1..4 : removals[p] # {}}
<1>1. /\ D \subseteq ToSet(v) /\ \A x \in D : InToolLoop(x)
      /\ B \subseteq ToSet(v) /\ \A x \in B : InToolLoop(x)
      /\ U \subseteq ToSet(v) /\ \A x \in U : InToolLoop(x)
  BY DEF DuplicateObservations, BrokenBatches, Unmatched, ToSet, Is, InToolLoop
<1>2. L \subseteq ToSet(v) /\ \A x \in L : InToolLoop(x)
  <2>1. ASSUME NEW x \in L PROVE x \in ToSet(v) /\ InToolLoop(x)
    <3>1. x \in ToSet(v) /\ \E s \in DOMAIN history : x \in LoopFrom(s)
      BY DEF BrokenLoops
    <3>2. PICK s \in DOMAIN history : x \in LoopFrom(s)
      BY <3>1
    <3>3. x \in s..Len(history) /\ \A i \in s..x : InToolLoop(i)
      BY <3>2 DEF LoopFrom
    <3>4. x \in s..x
      BY <3>3
    <3>. QED
      BY <3>1, <3>3, <3>4
  <2>. QED
    BY <2>1
<1>3. EnforceOnce(v) = IF broken = {} THEN v
        ELSE Drop(v, removals[CHOOSE p \in broken : \A q \in broken : p <= q])
  BY DEF EnforceOnce
<1>. HIDE DEF D, B, U, L
<1>4. removals[1] = D /\ removals[2] = B /\ removals[3] = U /\ removals[4] = L
  OBVIOUS
<1>5. CASE broken = {}
  <2>1. D = {} /\ B = {} /\ U = {} /\ L = {}
    BY <1>4, <1>5
  <2>. QED
    BY <1>3, <1>5, <2>1 DEF Sound, D, B, U, L
<1>6. CASE broken # {}
  <2>1. \E p \in broken : \A q \in broken : p <= q
    <3>1. broken \in SUBSET Nat
      OBVIOUS
    <3>. QED
      BY <1>6, <3>1, LeastExists
  <2>. DEFINE p == CHOOSE p \in broken : \A q \in broken : p <= q
  <2>2. p \in broken
    BY <2>1
  <2>. HIDE DEF p
  <2>3. p \in 1..4 /\ removals[p] # {}
    BY <2>2
  <2>4. removals[p] \in {D, B, U, L}
    BY <1>4, <2>3
  <2>. HIDE DEF removals
  <2>5. removals[p] \subseteq ToSet(v) /\ \A x \in removals[p] : InToolLoop(x)
    BY <1>1, <1>2, <2>4
  <2>6. EnforceOnce(v) = Drop(v, removals[p])
    BY <1>3, <1>6 DEF p
  <2>7. ~Sound(v)
    BY <2>3, <2>4 DEF Sound, D, B, U, L
  <2>. QED
    BY <2>3, <2>5, <2>6, <2>7
<1>. QED
  BY <1>5, <1>6

\* round is the recursion of enforce_properties.
Rounds(round, v) ==
  /\ round \in [0..Len(v) -> Seq(Int)] /\ round[0] = v
  /\ \A k \in 1..Len(v) : round[k] = EnforceOnce(round[k - 1])

\* What enforce_properties returns is the last value of that recursion.
LEMMA EnforcedUnfold ==
  ASSUME NEW v \in Seq(Int)
  PROVE  \E round : Rounds(round, v) /\ Enforced(v) = round[Len(v)]
<1>. DEFINE N == Len(v)
            G(f) == [k \in 0..N |-> IF k = 0 THEN v ELSE EnforceOnce(f[k - 1])]
            p == CHOOSE f : f = G(f)
            S == Seq(Int)
            F == [k \in 1..N |-> [x \in S |-> EnforceOnce(x)]]
<1>1. Enforced(v) = p[N]
  BY Zenon DEF Enforced
<1>2. N \in Nat /\ v \in S
  OBVIOUS
<1>3. F \in [1..N -> [S -> S]]
  <2>1. ASSUME NEW x \in S PROVE EnforceOnce(x) \in S
    <3>1. \A ids : Drop(x, ids) \in S
      BY DropPicks DEF Picks
    <3>. QED
      BY <3>1, EnforceOnceFacts
  <2>. QED
    BY <2>1
<1>. HIDE DEF N, S
<1>4. PICK f \in [0..N -> S] : Iterated(f, N, v, F)
  <2>. HIDE DEF F
  <2>. QED
    BY <1>2, <1>3, Iterates
<1>5. ASSUME NEW i \in 1..N PROVE f[i] = EnforceOnce(f[i - 1])
  <2>1. i - 1 \in 0..N
    BY <1>2
  <2>2. f[i - 1] \in S
    BY <2>1
  <2>3. F[i][f[i - 1]] = EnforceOnce(f[i - 1])
    BY <2>2
  <2>. QED
    BY <1>4, <2>3 DEF Iterated
<1>6. f = G(f)
  <2>1. f = [i \in 0..N |-> f[i]] /\ G(f) = [i \in 0..N |-> G(f)[i]]
    OBVIOUS
  <2>2. ASSUME NEW i \in 0..N PROVE f[i] = G(f)[i]
    <3>1. CASE i = 0
      BY <1>4, <3>1 DEF Iterated
    <3>2. CASE i \in 1..N
      <4>1. i # 0
        BY <1>2, <3>2
      <4>. QED
        BY <1>5, <3>2, <4>1
    <3>. QED
      BY <1>2, <3>1, <3>2
  <2>. HIDE DEF G
  <2>. QED
    BY <2>1, <2>2
<1>7. p = G(p)
  <2>. HIDE DEF G
  <2>. QED
    BY <1>6
<1>. HIDE DEF p
<1>8. p[0] = v /\ \A i \in 1..N : p[i] = EnforceOnce(p[i - 1])
  <2>1. ASSUME NEW i \in 0..N PROVE p[i] = IF i = 0 THEN v ELSE EnforceOnce(p[i - 1])
    <3>1. p[i] = G(p)[i]
      <4>. HIDE DEF G
      <4>. QED
        BY <1>7
    <3>. QED
      BY <3>1
  <2>2. 0 \in 0..N /\ \A i \in 1..N : i \in 0..N /\ i # 0
    BY <1>2
  <2>. QED
    BY <2>1, <2>2
<1>9. \A i \in 0..N : p[i] = f[i]
  <2>. DEFINE T == {i \in 1..N : p[i] = f[i]}
  <2>1. ASSUME NEW m \in 1..N, \A k \in 1..(m - 1) : k \in T PROVE m \in T
    <3>1. p[m - 1] = f[m - 1]
      BY <1>2, <1>4, <1>8, <2>1 DEF Iterated
    <3>. QED
      BY <1>5, <1>8, <3>1
  <2>2. \A m \in 1..N : m \in T
    <3>. HIDE DEF T
    <3>. QED
      BY <1>2, <2>1, Induction
  <2>. QED
    BY <1>2, <1>4, <1>8, <2>2 DEF Iterated
<1>10. Enforced(v) = f[N]
  BY <1>1, <1>2, <1>9
<1>11. Rounds(f, v)
  BY <1>4, <1>5 DEF Rounds, Iterated, N, S
<1>. QED
  BY <1>10, <1>11 DEF N

\* Each round that finds something broken shortens the view, so as many rounds as the
\* view is long leave none: repairing one property never leaves another one broken.
LEMMA EnforcedFacts ==
  ASSUME NEW m \in Nat, NEW v, Ordered(v, m), ~InToolLoop(1)
  PROVE  /\ Ordered(Enforced(v), m) /\ Sound(Enforced(v))
         /\ Sound(v) => Enforced(v) = v
<1>. DEFINE N == Len(v)
<1>1. v \in Seq(Int) /\ N \in Nat /\ N > 0
  BY DEF Ordered
<1>2. PICK round : Rounds(round, v) /\ Enforced(v) = round[N]
  BY <1>1, EnforcedUnfold
<1>3. round[0] = v /\ \A k \in 1..N : round[k] = EnforceOnce(round[k - 1])
  BY <1>2 DEF Rounds
<1>. DEFINE Ok(k) == /\ Ordered(round[k], m)
                     /\ Sound(round[k]) \/ Len(round[k]) <= N - k
            T == {k \in 1..N : Ok(k)}
<1>4. Ok(0)
  BY <1>1, <1>3
<1>5. ASSUME NEW k \in 1..N, Ok(k - 1) PROVE Ok(k)
  <2>. DEFINE u == round[k - 1]
              w == round[k]
  <2>1. Ordered(u, m) /\ (Sound(u) \/ Len(u) <= N - (k - 1))
    BY <1>5
  <2>2. w = EnforceOnce(u)
    BY <1>3
  <2>. HIDE DEF u, w
  <2>3. u \in Seq(Int) /\ Len(u) \in Nat
    BY <2>1 DEF Ordered
  <2>4. CASE Sound(u)
    <3>1. w = u
      BY <2>2, <2>3, <2>4, EnforceOnceFacts
    <3>. QED
      BY <2>1, <2>4, <3>1 DEF w
  <2>5. CASE ~Sound(u)
    <3>1. PICK ids : /\ ids # {} /\ ids \subseteq ToSet(u)
                     /\ \A x \in ids : InToolLoop(x)
                     /\ w = Drop(u, ids)
      BY <2>2, <2>3, <2>5, EnforceOnceFacts
    <3>2. Ordered(w, m)
      BY <2>1, <3>1, DropOrdered
    <3>3. Len(w) < Len(u) /\ w \in Seq(Int)
      <4>1. ids \cap ToSet(u) # {}
        BY <3>1
      <4>. QED
        BY <2>3, <3>1, <4>1, DropShortens
    <3>4. Len(w) <= N - k
      <4>1. Len(w) \in Nat
        BY <3>3
      <4>. QED
        BY <1>1, <2>1, <2>3, <2>5, <3>3, <4>1
    <3>. QED
      BY <3>2, <3>4 DEF w
  <2>. QED
    BY <2>4, <2>5
<1>6. ASSUME NEW k \in 1..N, \A l \in 1..(k - 1) : l \in T PROVE k \in T
  <2>. HIDE DEF Ok
  <2>1. Ok(k - 1)
    <3>1. CASE k = 1
      BY <1>4, <3>1
    <3>2. CASE k # 1
      <4>1. k - 1 \in 1..(k - 1)
        BY <1>1, <3>2
      <4>. QED
        BY <1>6, <4>1
    <3>. QED
      BY <3>1, <3>2
  <2>. QED
    BY <1>5, <2>1
<1>7. N \in T
  <2>. HIDE DEF T
  <2>1. \A k \in 1..N : k \in T
    BY <1>1, <1>6, Induction
  <2>. QED
    BY <1>1, <2>1
<1>8. Ordered(round[N], m) /\ Sound(round[N])
  <2>1. Ordered(round[N], m) /\ (Sound(round[N]) \/ Len(round[N]) <= 0)
    BY <1>1, <1>7
  <2>2. Len(round[N]) > 0
    <3>. DEFINE w == round[N]
    <3>1. w \in Seq(Int) /\ w # <<>>
      BY <2>1 DEF Ordered
    <3>. HIDE DEF w
    <3>2. Len(w) > 0
      BY <3>1
    <3>. QED
      BY <3>2 DEF w
  <2>3. Len(round[N]) \in Nat
    BY <2>1 DEF Ordered
  <2>. QED
    BY <2>1, <2>2, <2>3
<1>9. ASSUME Sound(v) PROVE round[N] = v
  <2>. DEFINE R == {k \in 1..N : round[k] = v}
  <2>1. EnforceOnce(v) = v
    BY <1>1, <1>9, EnforceOnceFacts
  <2>2. ASSUME NEW k \in 1..N, \A l \in 1..(k - 1) : l \in R PROVE k \in R
    <3>1. round[k - 1] = v
      BY <1>1, <1>3, <2>2
    <3>. QED
      BY <1>3, <2>1, <3>1
  <2>3. N \in R
    <3>. HIDE DEF R
    <3>1. \A k \in 1..N : k \in R
      BY <1>1, <2>2, Induction
    <3>. QED
      BY <1>1, <3>1
  <2>. QED
    BY <2>3
<1>. QED
  BY <1>2, <1>8, <1>9

\* What event n of a history refers to.
Fits(h, n) ==
  /\ h[n].kind = "action" =>
       \/ h[n].batch = n
       \/ n > 1 /\ h[n].batch = n - 1 /\ h[n - 1].kind = "action" /\ h[n - 1].batch = n - 1
       \/ /\ n > 2 /\ h[n].batch = n - 2 /\ h[n - 2].kind = "action" /\ h[n - 2].batch = n - 2
          /\ h[n - 1].kind = "observation" /\ h[n - 1].call = n - 2
  /\ h[n].kind = "observation" =>
       h[n].call \in 1..(n - 1) /\ h[h[n].call].kind = "action"
  /\ h[n].kind = "condensation" => 1 \notin h[n].forgotten /\ h[n].offset > 0

WellMade(h) ==
  /\ h \in Seq(ViewEvent) /\ h # <<>> /\ h[1].kind = "system"
  /\ \A n \in 1..Len(h) : Fits(h, n)

\* Nothing broken means acceptable: in an ordered view a result is behind its call.
LEMMA SoundAcceptable ==
  ASSUME WellMade(history), NEW v, Ordered(v, Len(history)), Sound(v)
  PROVE  Acceptable(v)
<1>1. Len(history) \in Nat /\ DOMAIN history = 1..Len(history)
  BY DEF WellMade
<1>2. v \in Seq(Int) /\ Len(v) \in Nat /\ DOMAIN v = 1..Len(v)
  BY DEF Ordered
<1>3. ASSUME NEW i \in DOMAIN v, ~Is(v[i], "summary")
      PROVE  v[i] \in 1..Len(history) /\ At(v[i]) = history[v[i]] /\ v[i] > 0
  <2>1. v[i] \in Int /\ v[i] # 0 /\ v[i] <= Len(history)
    BY <1>2 DEF Ordered
  <2>2. v[i] > 0
    <3>1. ASSUME v[i] < 0 PROVE FALSE
      BY <1>3, <3>1 DEF Is, At, Plain
    <3>. QED
      BY <2>1, <3>1
  <2>. QED
    BY <1>1, <2>1, <2>2 DEF At
<1>4. ASSUME NEW i \in DOMAIN v, Is(v[i], "observation")
      PROVE  /\ ~Is(v[i], "summary")
             /\ At(v[i]).call \in ToSet(v) /\ At(v[i]).call < v[i]
             /\ At(v[i]).call \in Int /\ v[i] > 0
  <2>0. ~Is(v[i], "summary")
    BY <1>4 DEF Is
  <2>1. v[i] \in 1..Len(history) /\ history[v[i]].kind = "observation" /\ At(v[i]) = history[v[i]]
    BY <1>3, <1>4, <2>0 DEF Is
  <2>2. history[v[i]].call \in 1..(v[i] - 1)
    BY <2>1 DEF WellMade, Fits
  <2>3. At(v[i]).call \in ToSet(v)
    BY <1>4 DEF Sound, Unmatched, ToSet
  <2>. QED
    BY <1>1, <2>0, <2>1, <2>2, <2>3
<1>5. ASSUME NEW i \in DOMAIN v, Is(v[i], "action")
      PROVE  \E j \in (i + 1)..Len(v) :
               {k \in DOMAIN v : Is(v[k], "observation") /\ At(v[k]).call = v[i]} = {j}
  <2>1. PICK j \in DOMAIN v : Is(v[j], "observation") /\ At(v[j]).call = v[i]
    <3>1. v[i] \in ToSet(v)
      BY DEF ToSet
    <3>2. v[i] \in {At(id).call : id \in {x \in ToSet(v) : Is(x, "observation")}}
      BY <1>5, <3>1 DEF Sound, Unmatched
    <3>. QED
      BY <3>2 DEF ToSet
  <2>2. j > i
    <3>1. v[i] < v[j] /\ v[j] > 0 /\ v[i] > 0
      <4>1. ~Is(v[i], "summary")
        BY <1>5 DEF Is
      <4>. QED
        BY <1>3, <1>4, <2>1, <4>1
    <3>2. ASSUME j < i PROVE FALSE
      BY <1>2, <3>1, <3>2 DEF Ordered
    <3>3. j # i
      BY <1>2, <3>1
    <3>. QED
      BY <1>2, <3>2, <3>3
  <2>3. ASSUME NEW k \in DOMAIN v, Is(v[k], "observation"), At(v[k]).call = v[i], k # j
        PROVE  FALSE
    <3>1. CASE k < j
      <4>1. k \in 1..(j - 1) /\ At(v[k]).call = At(v[j]).call
        BY <1>2, <2>1, <2>3, <3>1
      <4>2. v[j] \in DuplicateObservations(v)
        BY <2>1, <2>3, <4>1 DEF DuplicateObservations
      <4>. QED
        BY <4>2 DEF Sound
    <3>2. CASE j < k
      <4>1. j \in 1..(k - 1) /\ At(v[k]).call = At(v[j]).call
        BY <1>2, <2>1, <2>3, <3>2
      <4>2. v[k] \in DuplicateObservations(v)
        BY <2>1, <2>3, <4>1 DEF DuplicateObservations
      <4>. QED
        BY <4>2 DEF Sound
    <3>. QED
      BY <1>2, <2>3, <3>1, <3>2
  <2>4. {k \in DOMAIN v : Is(v[k], "observation") /\ At(v[k]).call = v[i]} = {j}
    BY <2>1, <2>3
  <2>5. j \in (i + 1)..Len(v)
    BY <1>2, <2>2
  <2>. QED
    BY <2>4, <2>5
<1>6. ASSUME NEW b \in DOMAIN history, BatchIn(ToSet(v), b) # {}
      PROVE  BatchIn(ToSet(v), b) = BatchIn(DOMAIN history, b)
  <2>1. PICK id \in ToSet(v) : Is(id, "action") /\ At(id).batch = b
    BY <1>6 DEF BatchIn
  <2>. QED
    BY <2>1 DEF Sound, BrokenBatches
<1>. QED
  BY <1>4, <1>5, <1>6 DEF Acceptable

\* An ordered view takes the next event in.
LEMMA AppendToOrdered ==
  ASSUME NEW m \in Nat, NEW v, Ordered(v, m), NEW e \in ViewEvent,
         e.kind = "condensation" => 1 \notin e.forgotten /\ e.offset > 0
  PROVE  Ordered(AppendTo(v, m + 1, e), m + 1)
<1>1. v \in Seq(Int) /\ Len(v) \in Nat /\ Len(v) > 0
  BY DEF Ordered
<1>2. ASSUME NEW w, Ordered(w, m) PROVE Ordered(w, m + 1)
  BY SMTT(40), <1>2 DEF Ordered
<1>3. CASE e.kind = "condensation"
  <2>. DEFINE kept == Drop(v, e.forgotten)
              w == Apply(v, m + 1, e)
  <2>1. Ordered(kept, m)
    BY <1>3, DropOrdered
  <2>2. \/ w = kept
        \/ \E p \in 0..Len(kept) : /\ p = IF e.offset > Len(kept) THEN Len(kept) ELSE e.offset
                                   /\ Inserted(w, kept, p, -(m + 1))
    <3>1. m + 1 \in Nat
      OBVIOUS
    <3>. QED
      BY <1>1, <1>3, <3>1, ApplyFacts
  <2>3. AppendTo(v, m + 1, e) = w
    BY <1>3, AppendToCases
  <2>4. e.offset \in Nat /\ e.offset > 0
    BY <1>3 DEF ViewEvent
  <2>. HIDE DEF kept, w
  <2>5. CASE w = kept
    BY <1>2, <2>1, <2>3, <2>5
  <2>6. ASSUME NEW p \in 0..Len(kept), p = IF e.offset > Len(kept) THEN Len(kept) ELSE e.offset,
               Inserted(w, kept, p, -(m + 1))
        PROVE  Ordered(w, m + 1)
    <3>1. kept \in Seq(Int) /\ Len(kept) \in Nat /\ Len(kept) > 0
      BY <2>1 DEF Ordered
    <3>2. p \in Nat /\ p > 0
      BY <2>4, <2>6, <3>1
    <3>3. w \in Seq(Int) /\ Len(w) = Len(kept) + 1 /\ w[p + 1] = -(m + 1)
          /\ (\A k \in 1..p : w[k] = kept[k])
          /\ \A k \in (p + 2)..(Len(kept) + 1) : w[k] = kept[k - 1]
      BY <2>6 DEF Inserted
    <3>4. w # <<>> /\ w[1] = 1
      BY SMTT(40), <2>1, <3>1, <3>2, <3>3 DEF Ordered
    <3>. DEFINE from(k) == IF k <= p THEN k ELSE k - 1
    <3>5. ASSUME NEW k \in 1..Len(w), k # p + 1
          PROVE  from(k) \in 1..Len(kept) /\ w[k] = kept[from(k)]
      <4>1. CASE k <= p
        BY SMTT(40), <3>1, <3>3, <4>1
      <4>2. CASE k > p
        <5>1. k \in (p + 2)..(Len(kept) + 1)
          BY <3>1, <3>2, <3>3, <3>5, <4>2
        <5>2. from(k) = k - 1 /\ k - 1 \in 1..Len(kept)
          BY <3>1, <3>2, <4>2, <5>1
        <5>. QED
          BY <3>3, <5>1, <5>2
      <4>. QED
        BY <3>2, <4>1, <4>2
    <3>6. ASSUME NEW k \in 1..Len(w) PROVE w[k] # 0 /\ w[k] <= m + 1 /\ -(m + 1) <= w[k]
      <4>1. CASE k = p + 1
        BY <3>3, <4>1
      <4>2. CASE k # p + 1
        <5>1. from(k) \in 1..Len(kept) /\ w[k] = kept[from(k)]
          BY <3>5, <4>2
        <5>. HIDE DEF from
        <5>2. kept[from(k)] # 0 /\ kept[from(k)] <= m /\ -m <= kept[from(k)] /\ kept[from(k)] \in Int
          BY <2>1, <3>1, <5>1 DEF Ordered
        <5>. QED
          BY <5>1, <5>2
      <4>. QED
        BY <4>1, <4>2
    <3>7. ASSUME NEW i \in 1..Len(w), NEW j \in 1..Len(w), i < j
          PROVE  w[i] # w[j] /\ (w[i] > 0 /\ w[j] > 0 => w[i] < w[j])
      <4>1. ASSUME NEW k \in 1..Len(w), k # p + 1 PROVE w[k] # w[p + 1] /\ w[k] \in Int
        <5>1. from(k) \in 1..Len(kept) /\ w[k] = kept[from(k)]
          BY <3>5, <4>1
        <5>. HIDE DEF from
        <5>2. -m <= kept[from(k)] /\ kept[from(k)] \in Int
          BY SMTT(40), <2>1, <3>1, <5>1 DEF Ordered
        <5>. QED
          BY <3>3, <5>1, <5>2
      <4>2. CASE i = p + 1 \/ j = p + 1
        BY SMTT(40), <3>3, <3>7, <4>1, <4>2
      <4>3. CASE i # p + 1 /\ j # p + 1
        <5>1. /\ from(i) \in 1..Len(kept) /\ w[i] = kept[from(i)]
              /\ from(j) \in 1..Len(kept) /\ w[j] = kept[from(j)]
          BY <3>5, <4>3
        <5>2. from(i) < from(j)
          BY <3>2, <3>7, <4>3
        <5>. HIDE DEF from
        <5>. QED
          BY <2>1, <5>1, <5>2 DEF Ordered
      <4>. QED
        BY <4>2, <4>3
    <3>. QED
      BY <3>3, <3>4, <3>6, <3>7 DEF Ordered
  <2>. QED
    BY <2>2, <2>3, <2>5, <2>6
<1>4. CASE e.kind \in {"request", "other"}
  BY <1>2, <1>4, AppendToCases
<1>5. CASE e.kind \notin {"condensation", "request", "other"}
  <2>. DEFINE w == Append(v, m + 1)
  <2>1. AppendTo(v, m + 1, e) = w
    BY <1>5, AppendToCases
  <2>2. w \in Seq(Int) /\ Len(w) = Len(v) + 1 /\ w[Len(v) + 1] = m + 1 /\ w # <<>>
        /\ \A k \in 1..Len(v) : w[k] = v[k]
    BY <1>1
  <2>. HIDE DEF w
  <2>3. \A k \in 1..Len(v) : v[k] \in Int /\ v[k] # 0 /\ v[k] <= m /\ -m <= v[k]
    BY <1>1 DEF Ordered
  <2>4. ASSUME NEW i \in 1..Len(w), NEW j \in 1..Len(w), i < j
        PROVE  w[i] # w[j] /\ (w[i] > 0 /\ w[j] > 0 => w[i] < w[j])
    <3>1. i \in 1..Len(v) /\ w[i] = v[i]
      BY SMTT(40), <1>1, <2>2, <2>4
    <3>2. CASE j = Len(v) + 1
      BY <2>2, <2>3, <3>1, <3>2
    <3>3. CASE j # Len(v) + 1
      <4>1. j \in 1..Len(v) /\ w[j] = v[j]
        BY <1>1, <2>2, <3>3
      <4>. QED
        BY <2>4, <3>1, <4>1 DEF Ordered
    <3>. QED
      BY <3>2, <3>3
  <2>5. ASSUME NEW k \in 1..Len(w) PROVE w[k] # 0 /\ w[k] <= m + 1 /\ -(m + 1) <= w[k]
    <3>1. k \in 1..Len(v) \/ k = Len(v) + 1
      BY <1>1, <2>2
    <3>. QED
      BY <2>2, <2>3, <3>1
  <2>6. w[1] = 1
    BY SMTT(40), <1>1, <2>2 DEF Ordered
  <2>7. Ordered(w, m + 1)
    BY <2>2, <2>4, <2>5, <2>6 DEF Ordered
  <2>. QED
    BY <2>1, <2>7
<1>. QED
  BY <1>3, <1>4, <1>5

\* A history takes an event in that refers to what is there.
LEMMA WellMadeGrows ==
  ASSUME NEW h, WellMade(h), NEW e \in ViewEvent, Fits(Append(h, e), Len(h) + 1)
  PROVE  WellMade(Append(h, e)) /\ Len(Append(h, e)) = Len(h) + 1
<1>. DEFINE g == Append(h, e)
<1>1. h \in Seq(ViewEvent) /\ Len(h) \in Nat /\ Len(h) > 0 /\ h[1].kind = "system"
  <2>. HIDE DEF ViewEvent
  <2>. QED
    BY DEF WellMade
<1>2. g \in Seq(ViewEvent) /\ Len(g) = Len(h) + 1 /\ g # <<>> /\ \A n \in 1..Len(h) : g[n] = h[n]
  <2>. HIDE DEF ViewEvent
  <2>. QED
    BY <1>1
<1>3. Fits(g, Len(h) + 1)
  OBVIOUS
<1>. HIDE DEF g
<1>4. ASSUME NEW n \in 1..Len(h) PROVE Fits(g, n)
  <2>1. Fits(h, n) /\ g[n] = h[n]
    BY <1>2 DEF WellMade
  <2>2. (n > 1 => g[n - 1] = h[n - 1]) /\ (n > 2 => g[n - 2] = h[n - 2])
    BY <1>1, <1>2
  <2>3. ASSUME h[n].call \in 1..(n - 1) PROVE g[h[n].call] = h[h[n].call]
    BY <1>1, <1>2, <2>3
  <2>. QED
    BY <2>1, <2>2, <2>3 DEF Fits
<1>5. g[1].kind = "system"
  BY <1>1, <1>2
<1>6. \A n \in 1..Len(g) : Fits(g, n)
  BY <1>1, <1>2, <1>3, <1>4
<1>. QED
  BY <1>2, <1>5, <1>6 DEF WellMade, g

-----------------------------------------------------------------------------
(* The view: the rebuilt one is acceptable *)

\* The view of from_events before it is repaired.
Built == AppendAll(<<>>, 0, history)

\* What is known of a condensation whose summary is being written.
SummingOK ==
  summing # None => /\ summing \in ViewEvent /\ summing.kind = "condensation"
                    /\ 1 \notin summing.forgotten /\ summing.offset > 0

OrderInv ==
  /\ WellMade(history)
  /\ Ordered(view, Len(history)) /\ Ordered(Built, Len(history))
  /\ SummingOK

\* The history, the view and the built view after some events have been recorded.
HistoryAfter(es) == history \o es
ViewAfter(es) == AppendAll(view, Len(history), es)
BuiltAfter(es) == AppendAll(<<>>, 0, history \o es)

\* They come about event by event.
LEMMA RecordFacts ==
  ASSUME history \in Seq(ViewEvent), view \in Seq(Int)
  PROVE  /\ HistoryAfter(<<>>) = history /\ ViewAfter(<<>>) = view /\ BuiltAfter(<<>>) = Built
         /\ \A es \in Seq(ViewEvent), d \in ViewEvent :
              LET n == Len(HistoryAfter(es)) + 1
              IN  /\ HistoryAfter(Append(es, d)) = Append(HistoryAfter(es), d)
                  /\ ViewAfter(Append(es, d)) = AppendTo(ViewAfter(es), n, d)
                  /\ BuiltAfter(Append(es, d)) = AppendTo(BuiltAfter(es), n, d)
         /\ \A es : Record(es) => /\ history' = HistoryAfter(es) /\ view' = ViewAfter(es)
                                  /\ Built' = BuiltAfter(es)
<1>. HIDE DEF ViewEvent
<1>. DEFINE none == <<>>
<1>1. /\ Len(history) \in Nat /\ 0 \in Nat /\ history \o none = history
      /\ none \in Seq(ViewEvent) /\ none \in Seq(Int) /\ none = <<>>
  OBVIOUS
<1>2. AppendAll(view, Len(history), none) = view
  <2>1. Plain("system") \in ViewEvent
    BY DEF Plain, ViewEvent
  <2>. HIDE DEF none
  <2>. QED
    BY ZenonT(60), <1>1, <2>1, AppendAllSteps
<1>3. ASSUME NEW es \in Seq(ViewEvent), NEW d \in ViewEvent
      PROVE  /\ HistoryAfter(Append(es, d)) = Append(HistoryAfter(es), d)
             /\ ViewAfter(Append(es, d)) = AppendTo(ViewAfter(es), Len(HistoryAfter(es)) + 1, d)
             /\ BuiltAfter(Append(es, d)) = AppendTo(BuiltAfter(es), Len(HistoryAfter(es)) + 1, d)
  <2>. DEFINE hs == history \o es
              n == Len(history)
  <2>1. hs \in Seq(ViewEvent) /\ Len(hs) = n + Len(es) /\ Len(es) \in Nat
        /\ history \o Append(es, d) = Append(hs, d)
    OBVIOUS
  <2>2. n + (Len(es) + 1) = Len(hs) + 1 /\ 0 + (Len(hs) + 1) = Len(hs) + 1
    BY <1>1, <2>1
  <2>. HIDE DEF hs, n, none
  <2>3. AppendAll(view, n, Append(es, d)) = AppendTo(AppendAll(view, n, es), Len(hs) + 1, d)
    <3>1. n \in Nat
      BY <1>1 DEF n
    <3>2. AppendAll(view, n, Append(es, d)) =
            AppendTo(AppendAll(view, n, es), n + (Len(es) + 1), d)
      BY <3>1, AppendAllSteps
    <3>. QED
      BY <2>2, <3>2
  <2>4. AppendAll(none, 0, Append(hs, d)) = AppendTo(AppendAll(none, 0, hs), Len(hs) + 1, d)
    <3>1. hs \in Seq(ViewEvent) /\ 0 \in Nat /\ none \in Seq(Int)
      BY <1>1, <2>1
    <3>2. AppendAll(none, 0, Append(hs, d)) =
            AppendTo(AppendAll(none, 0, hs), 0 + (Len(hs) + 1), d)
      BY ZenonT(60), <3>1, AppendAllSteps
    <3>. QED
      BY <2>2, <3>2
  <2>. QED
    BY <1>1, <2>1, <2>3, <2>4 DEF HistoryAfter, ViewAfter, BuiltAfter, hs, n
<1>4. ASSUME NEW es, Record(es)
      PROVE  history' = HistoryAfter(es) /\ view' = ViewAfter(es) /\ Built' = BuiltAfter(es)
  BY <1>4 DEF Record, HistoryAfter, ViewAfter, BuiltAfter, Built
<1>5. HistoryAfter(<<>>) = history /\ ViewAfter(<<>>) = view /\ BuiltAfter(<<>>) = Built
  BY <1>1, <1>2 DEF HistoryAfter, ViewAfter, BuiltAfter, Built
<1>. QED
  BY <1>3, <1>4, <1>5

\* One event is recorded.
LEMMA RecordOne ==
  ASSUME history \in Seq(ViewEvent), view \in Seq(Int), NEW d \in ViewEvent, Record(<<d>>)
  PROVE  /\ history' = Append(history, d)
         /\ view' = AppendTo(view, Len(history) + 1, d)
         /\ Built' = AppendTo(Built, Len(history) + 1, d)
<1>. HIDE DEF ViewEvent
<1>. DEFINE none == <<>>
<1>1. none \in Seq(ViewEvent) /\ <<d>> = Append(none, d)
  OBVIOUS
<1>2. HistoryAfter(none) = history /\ ViewAfter(none) = view /\ BuiltAfter(none) = Built
  BY RecordFacts
<1>3. /\ history' = HistoryAfter(<<d>>) /\ view' = ViewAfter(<<d>>)
      /\ Built' = BuiltAfter(<<d>>)
  BY RecordFacts
<1>. HIDE DEF none
<1>4. LET n == Len(HistoryAfter(none)) + 1
      IN  /\ HistoryAfter(Append(none, d)) = Append(HistoryAfter(none), d)
          /\ ViewAfter(Append(none, d)) = AppendTo(ViewAfter(none), n, d)
          /\ BuiltAfter(Append(none, d)) = AppendTo(BuiltAfter(none), n, d)
  BY <1>1, RecordFacts
<1>. QED
  BY <1>1, <1>2, <1>3, <1>4

\* What a condensation forgets: a range of the view between two manipulation indices,
\* or all of it, behind the system prompt.
CutOf(c, v, s, e) ==
  /\ s \in 1..Len(v) /\ e \in (s + 1)..Len(v)
  /\ c = Condensation(ToSet(SubSeq(v, s + 1, e)), TRUE, s)
  /\ {s, e} \subseteq ManipulationIndices(v) \/ (s = 1 /\ e = Len(v))

\* Whatever the condenser decides on is such a cut.
LEMMA CondensationCuts ==
  ASSUME WellMade(history), Ordered(view, Len(history)), NEW tokens,
         NEW c \in Condensations(tokens)
  PROVE  \E s, e : CutOf(c, view, s, e)
<1>. DEFINE systems == {i \in DOMAIN view : Is(view[i], "system")}
<1>1. view \in Seq(Int) /\ Len(view) \in Nat /\ Len(view) > 0 /\ view[1] = 1
      /\ DOMAIN view = 1..Len(view)
  BY DEF Ordered
<1>2. 1 \in systems /\ systems \in SUBSET Nat /\ \A i \in systems : i >= 1
  <2>1. Is(view[1], "system")
    BY <1>1 DEF Is, At, WellMade
  <2>. QED
    BY <1>1, <2>1
<1>. HIDE DEF systems
<1>3. Least(systems) = 1
  <2>1. \A x \in systems : (\A y \in systems : x <= y) => x = 1
    BY <1>2
  <2>2. \E x \in systems : \A y \in systems : x <= y
    BY <1>2
  <2>. QED
    BY <2>1, <2>2 DEF Least
<1>4. ASSUME NEW S \in SUBSET Nat, S # {} PROVE Least(S) \in S
  <2>1. \E x \in S : \A y \in S : x <= y
    BY <1>4, LeastExists
  <2>. QED
    BY <2>1 DEF Least
<1>5. ASSUME NEW s \in Nat, NEW e \in Nat, s >= 1, e <= Len(view), SubSeq(view, s + 1, e) # <<>>
      PROVE  s \in 1..Len(view) /\ e \in (s + 1)..Len(view)
  <2>1. ~(e < s + 1)
    BY <1>5, SubSeqEmpty
  <2>. QED
    BY <1>1, <1>5, <2>1
<1>6. CASE c \in RangeCondensations(tokens)
  <2>. DEFINE indices == ManipulationIndices(view)
              starts == {p \in indices : p >= ProtectedPrefix}
              ends == {p \in indices : p >= Len(view) - Least(SuffixesToKeep(tokens))}
              s == Least(starts)
              e == Least(ends)
  <2>1. /\ starts # {} /\ ends # {} /\ SubSeq(view, s + 1, e) # <<>>
        /\ c = Condensation(ToSet(SubSeq(view, s + 1, e)), TRUE, s)
    BY <1>6 DEF RangeCondensations
  <2>2. ProtectedPrefix \in Nat /\ ProtectedPrefix >= 1
    <3>1. ProtectedPrefix = IF systems = {} \/ Least(systems) < KeepFirst THEN KeepFirst
                            ELSE Least(systems)
      BY DEF ProtectedPrefix, systems
    <3>2. KeepFirst \in Nat
      BY SizeAssumption
    <3>. QED
      BY <1>2, <1>3, <3>1, <3>2
  <2>3. indices \subseteq 0..Len(view)
    BY DEF ManipulationIndices
  <2>4. starts \in SUBSET Nat /\ ends \in SUBSET Nat
    <3>1. starts \subseteq indices /\ ends \subseteq indices
      OBVIOUS
    <3>. HIDE DEF indices, starts, ends
    <3>. QED
      BY <1>1, <2>3, <3>1
  <2>5. s \in starts /\ e \in ends
    <3>. HIDE DEF starts, ends
    <3>. QED
      BY <1>4, <2>1, <2>4
  <2>. HIDE DEF s, e
  <2>6. s \in indices /\ e \in indices /\ s >= ProtectedPrefix
    BY <2>5
  <2>. HIDE DEF indices
  <2>7. s \in Nat /\ e \in Nat /\ s >= 1 /\ e <= Len(view)
    BY <1>1, <2>2, <2>3, <2>6
  <2>8. CutOf(c, view, s, e)
    BY <1>5, <2>1, <2>6, <2>7 DEF CutOf, indices
  <2>. QED
    BY <2>8
<1>7. CASE c \in ResetCondensations
  <2>1. /\ SubSeq(view, 1 + 1, Len(view)) # <<>>
        /\ c = Condensation(ToSet(SubSeq(view, 1 + 1, Len(view))), TRUE, 1)
    BY <1>2, <1>3, <1>7 DEF ResetCondensations, systems
  <2>2. CutOf(c, view, 1, Len(view))
    BY <1>1, <1>5, <2>1 DEF CutOf
  <2>. QED
    BY <2>2
<1>. QED
  BY <1>6, <1>7 DEF Condensations

\* A cut leaves the system prompt.
LEMMA CutFacts ==
  ASSUME WellMade(history), NEW v, Ordered(v, Len(history)), NEW c, NEW s, NEW e, CutOf(c, v, s, e)
  PROVE  /\ c \in ViewEvent /\ c.kind = "condensation" /\ c.offset = s /\ s > 0
         /\ c.forgotten = {v[i] : i \in (s + 1)..e} /\ 1 \notin c.forgotten
<1>1. v \in Seq(Int) /\ Len(v) \in Nat /\ v[1] = 1
  BY DEF Ordered
<1>2. s \in 1..Len(v) /\ e \in (s + 1)..Len(v) /\ s \in Nat /\ e \in Nat
  BY <1>1 DEF CutOf
<1>. DEFINE r == SubSeq(v, s + 1, e)
<1>3. /\ r \in Seq(Int) /\ Len(r) = e - s
      /\ \A i \in 1..(e - s) : r[i] = v[s + i]
  <2>1. s + 1 \in Int /\ e \in Int /\ \A i \in (s + 1)..e : v[i] \in Int
    BY <1>1, <1>2
  <2>2. /\ r \in Seq(Int) /\ Len(r) = IF s + 1 <= e THEN e - (s + 1) + 1 ELSE 0
        /\ \A i \in 1..(e - (s + 1) + 1) : r[i] = v[(s + 1) + i - 1]
    BY <2>1, SubSeqProperties
  <2>. HIDE DEF r
  <2>3. Len(r) = e - s
    BY <1>2, <2>2
  <2>4. ASSUME NEW i \in 1..(e - s) PROVE r[i] = v[s + i]
    <3>1. i \in 1..(e - (s + 1) + 1) /\ (s + 1) + i - 1 = s + i
      BY <1>2
    <3>. QED
      BY <2>2, <3>1
  <2>. QED
    BY <2>2, <2>3, <2>4
<1>4. ToSet(r) = {v[i] : i \in (s + 1)..e}
  <2>. HIDE DEF r
  <2>1. DOMAIN r = 1..(e - s)
    BY <1>3
  <2>2. ASSUME NEW i \in 1..(e - s) PROVE s + i \in (s + 1)..e /\ r[i] = v[s + i]
    BY <1>2, <1>3
  <2>3. ASSUME NEW i \in (s + 1)..e PROVE i - s \in 1..(e - s) /\ r[i - s] = v[i]
    <3>1. i - s \in 1..(e - s) /\ s + (i - s) = i
      BY <1>2
    <3>. QED
      BY <1>3, <3>1
  <2>. QED
    BY <2>1, <2>2, <2>3 DEF ToSet
<1>5. c = [kind |-> "condensation", forgotten |-> ToSet(r), summary |-> TRUE, offset |-> s]
  BY DEF CutOf, Condensation
<1>. HIDE DEF r
<1>6. \A i \in (s + 1)..e : v[i] \in Int /\ v[i] # 1
  <2>1. ASSUME NEW i \in (s + 1)..e PROVE v[i] \in Int /\ v[i] # v[1]
    <3>1. i \in 1..Len(v) /\ 1 \in 1..Len(v) /\ 1 < i
      BY <1>1, <1>2
    <3>. QED
      BY <1>1, <3>1 DEF Ordered
  <2>. QED
    BY <1>1, <2>1
<1>7. ToSet(r) \in SUBSET Int /\ 1 \notin ToSet(r)
  BY <1>4, <1>6
<1>. QED
  BY <1>2, <1>4, <1>5, <1>7 DEF ViewEvent

\* An event that fits keeps what OrderInv says of a history, its view and the built one.
InOrderWith(h, v, b) == WellMade(h) /\ Ordered(v, Len(h)) /\ Ordered(b, Len(h))

\* append_event keeps it.
LEMMA OrderGrows ==
  ASSUME NEW h, NEW v, NEW b, InOrderWith(h, v, b),
         NEW e \in ViewEvent, Fits(Append(h, e), Len(h) + 1)
  PROVE  InOrderWith(Append(h, e), AppendTo(v, Len(h) + 1, e), AppendTo(b, Len(h) + 1, e))
<1>1. WellMade(Append(h, e)) /\ Len(Append(h, e)) = Len(h) + 1
  BY WellMadeGrows DEF InOrderWith
<1>2. h \in Seq(ViewEvent) /\ Len(h) \in Nat
  BY DEF InOrderWith, WellMade
<1>3. e.kind = "condensation" => 1 \notin e.forgotten /\ e.offset > 0
  <2>1. Append(h, e)[Len(h) + 1] = e
    <3>. HIDE DEF ViewEvent
    <3>. QED
      BY <1>2
  <2>. QED
    BY <2>1 DEF Fits
<1>. QED
  BY <1>1, <1>2, <1>3, AppendToOrdered DEF InOrderWith

\* The last event of a longer history.
LEMMA LastOf ==
  ASSUME NEW h, WellMade(h), NEW e \in ViewEvent
  PROVE  /\ Append(h, e) \in Seq(ViewEvent) /\ Len(Append(h, e)) = Len(h) + 1
         /\ Append(h, e)[Len(h) + 1] = e
         /\ \A n \in 1..Len(h) : Append(h, e)[n] = h[n]
         /\ Len(h) \in Nat /\ Len(h) > 0 /\ h \in Seq(ViewEvent) /\ DOMAIN h = 1..Len(h)
<1>. HIDE DEF ViewEvent
<1>1. h \in Seq(ViewEvent) /\ h # <<>>
  BY DEF WellMade
<1>. QED
  BY <1>1

\* The events that the steps of the conversation record.
LEMMA EventsFit ==
  ASSUME NEW h, WellMade(h)
  PROVE  /\ \A k \in {"message", "other", "request"} :
              Plain(k) \in ViewEvent /\ Fits(Append(h, Plain(k)), Len(h) + 1)
         /\ \A t \in BOOLEAN : LET a == Action(Len(h) + 1, t)
                               IN  a \in ViewEvent /\ Fits(Append(h, a), Len(h) + 1)
         /\ \A c \in 1..Len(h) : h[c].kind = "action" =>
              Observation(c) \in ViewEvent /\ Fits(Append(h, Observation(c)), Len(h) + 1)
         /\ \A e \in ViewEvent :
              e.kind = "condensation" /\ 1 \notin e.forgotten /\ e.offset > 0 =>
                Fits(Append(h, e), Len(h) + 1)
<1>. DEFINE N == Len(h)
<1>1. N \in Nat /\ N > 0
  BY LastOf DEF WellMade, ViewEvent
<1>2. ASSUME NEW k \in {"message", "other", "request"}
      PROVE  Plain(k) \in ViewEvent /\ Fits(Append(h, Plain(k)), N + 1)
  <2>1. Plain(k) \in ViewEvent /\ Plain(k).kind = k
    BY DEF Plain, ViewEvent
  <2>2. Append(h, Plain(k))[N + 1] = Plain(k)
    BY <2>1, LastOf
  <2>. QED
    BY <2>1, <2>2 DEF Fits
<1>3. ASSUME NEW t \in BOOLEAN
      PROVE  Action(N + 1, t) \in ViewEvent /\ Fits(Append(h, Action(N + 1, t)), N + 1)
  <2>. DEFINE a == Action(N + 1, t)
              g == Append(h, a)
  <2>1. a \in ViewEvent /\ a.kind = "action" /\ a.batch = N + 1
    BY <1>1 DEF Action, ViewEvent
  <2>. HIDE DEF a
  <2>2. g[N + 1] = a /\ Len(g) = N + 1
    BY <2>1, LastOf
  <2>3. Fits(g, N + 1)
    BY <2>1, <2>2 DEF Fits
  <2>. QED
    BY <2>1, <2>3 DEF a, g
<1>4. ASSUME NEW c \in 1..N, h[c].kind = "action"
      PROVE  Observation(c) \in ViewEvent /\ Fits(Append(h, Observation(c)), N + 1)
  <2>. DEFINE o == Observation(c)
              g == Append(h, o)
  <2>1. o \in ViewEvent /\ o.kind = "observation" /\ o.call = c
    BY <1>1 DEF Observation, ViewEvent
  <2>. HIDE DEF o
  <2>2. g[N + 1] = o /\ g[c] = h[c]
    BY <2>1, LastOf
  <2>. HIDE DEF g
  <2>3. c \in 1..((N + 1) - 1)
    BY <1>1
  <2>4. Fits(g, N + 1)
    BY <1>4, <2>1, <2>2, <2>3 DEF Fits
  <2>. QED
    BY <2>1, <2>4 DEF o, g
<1>5. ASSUME NEW e \in ViewEvent, e.kind = "condensation", 1 \notin e.forgotten, e.offset > 0
      PROVE  Fits(Append(h, e), N + 1)
  <2>1. Append(h, e)[N + 1] = e
    BY LastOf
  <2>. QED
    BY <1>5, <2>1 DEF Fits
<1>. QED
  BY <1>2, <1>3, <1>4, <1>5

\* What OrderInv says, after some events have been recorded.
InOrderAfter(es) ==
  es \in Seq(ViewEvent) /\ InOrderWith(HistoryAfter(es), ViewAfter(es), BuiltAfter(es))

\* It goes on from event to event.
LEMMA OrderAfter ==
  ASSUME history \in Seq(ViewEvent), view \in Seq(Int), NEW es, InOrderAfter(es),
         NEW d \in ViewEvent, Fits(Append(HistoryAfter(es), d), Len(HistoryAfter(es)) + 1)
  PROVE  InOrderAfter(Append(es, d))
<1>. HIDE DEF ViewEvent
<1>. DEFINE h == HistoryAfter(es)
            v == ViewAfter(es)
            b == BuiltAfter(es)
<1>1. es \in Seq(ViewEvent) /\ InOrderWith(h, v, b)
  BY DEF InOrderAfter
<1>2. /\ HistoryAfter(Append(es, d)) = Append(h, d)
      /\ ViewAfter(Append(es, d)) = AppendTo(v, Len(h) + 1, d)
      /\ BuiltAfter(Append(es, d)) = AppendTo(b, Len(h) + 1, d)
  BY <1>1, RecordFacts
<1>. HIDE DEF h, v, b
<1>3. InOrderWith(Append(h, d), AppendTo(v, Len(h) + 1, d), AppendTo(b, Len(h) + 1, d))
  BY <1>1, OrderGrows DEF h
<1>4. Append(es, d) \in Seq(ViewEvent)
  BY <1>1
<1>. QED
  BY <1>2, <1>3, <1>4 DEF InOrderAfter

\* An action and the error that answers it fit behind what was recorded.
CallFits(es, b, t) ==
  LET h == HistoryAfter(es)
      a == Action(b, t)
  IN  a \in ViewEvent /\ Fits(Append(h, a), Len(h) + 1)

\* What a tool call adds, invalid or not.
CallAdds(es, b, t) ==
  LET n == Len(HistoryAfter(es)) + 1
      a == Append(es, Action(b, t))
      o == Append(a, Observation(n))
  IN  /\ InOrderAfter(a) /\ InOrderAfter(o)
      /\ HistoryAfter(a) = Append(HistoryAfter(es), Action(b, t))
      /\ HistoryAfter(o) = Append(HistoryAfter(a), Observation(n))
      /\ Observation(n) \in ViewEvent
      /\ Fits(Append(HistoryAfter(a), Observation(n)), Len(HistoryAfter(a)) + 1)
      /\ es \o ToolCall(n, b, t, FALSE) = a
      /\ es \o ToolCall(n, b, t, TRUE) = o

LEMMA CallAfter ==
  ASSUME history \in Seq(ViewEvent), view \in Seq(Int), NEW es, InOrderAfter(es),
         NEW b, NEW t, CallFits(es, b, t)
  PROVE  CallAdds(es, b, t)
<1>. HIDE DEF ViewEvent
<1>. DEFINE h == HistoryAfter(es)
            n == Len(h) + 1
            x == Action(b, t)
            y == Observation(n)
            a == Append(es, x)
<1>1. x \in ViewEvent /\ Fits(Append(h, x), n) /\ es \in Seq(ViewEvent) /\ x.kind = "action"
  BY DEF CallFits, InOrderAfter, Action
<1>2. InOrderAfter(a) /\ HistoryAfter(a) = Append(h, x) /\ a \in Seq(ViewEvent)
  <2>. HIDE DEF x
  <2>1. InOrderAfter(a)
    BY <1>1, OrderAfter
  <2>2. HistoryAfter(a) = Append(h, x)
    BY <1>1, RecordFacts
  <2>. QED
    BY <2>1, <2>2 DEF InOrderAfter
<1>3. WellMade(h) /\ WellMade(HistoryAfter(a)) /\ Len(h) \in Nat
  BY <1>2, LastOf DEF InOrderAfter, InOrderWith, WellMade
<1>. HIDE DEF x
<1>4. Len(HistoryAfter(a)) = n /\ HistoryAfter(a)[n] = x
  BY <1>1, <1>2, <1>3, LastOf
<1>. HIDE DEF h, a
<1>5. y \in ViewEvent /\ Fits(Append(HistoryAfter(a), y), Len(HistoryAfter(a)) + 1)
  <2>1. n \in 1..Len(HistoryAfter(a)) /\ HistoryAfter(a)[n].kind = "action"
    BY <1>1, <1>3, <1>4
  <2>. HIDE DEF n
  <2>. QED
    BY <1>3, <2>1, EventsFit
<1>. HIDE DEF y
<1>6. InOrderAfter(Append(a, y)) /\ HistoryAfter(Append(a, y)) = Append(HistoryAfter(a), y)
  <2>1. InOrderAfter(Append(a, y))
    BY <1>2, <1>5, OrderAfter
  <2>2. HistoryAfter(Append(a, y)) = Append(HistoryAfter(a), y)
    BY <1>2, <1>5, RecordFacts
  <2>. QED
    BY <2>1, <2>2
<1>7. es \o ToolCall(n, b, t, FALSE) = a /\ es \o ToolCall(n, b, t, TRUE) = Append(a, y)
  <2>1. x \in ViewEvent /\ y \in ViewEvent /\ a \in Seq(ViewEvent) /\ es \in Seq(ViewEvent)
    BY <1>1, <1>2, <1>5
  <2>2. <<x>> \in Seq(ViewEvent) /\ <<y>> \in Seq(ViewEvent) /\ <<>> \in Seq(ViewEvent)
    BY <2>1
  <2>3. ToolCall(n, b, t, FALSE) = <<x>> \o <<>> /\ ToolCall(n, b, t, TRUE) = <<x>> \o <<y>>
    BY DEF ToolCall, x, y
  <2>4. <<x>> \o <<>> = <<x>>
    BY <2>2
  <2>5. a = es \o <<x>> /\ Append(a, y) = a \o <<y>>
    BY <2>1, AppendIsConcat DEF a
  <2>6. (es \o <<x>>) \o <<y>> = es \o (<<x>> \o <<y>>)
    BY <2>1, <2>2, ConcatAssociative
  <2>. QED
    BY <2>3, <2>4, <2>5, <2>6
<1>. QED
  BY <1>2, <1>5, <1>6, <1>7 DEF h, n, x, y, a, CallAdds

\* The second call of a response fits behind the first.
LEMMA SecondFits ==
  ASSUME NEW h, WellMade(h), NEW a \in ViewEvent, a.kind = "action", a.batch = Len(h) + 1,
         NEW o \in ViewEvent, o.kind = "observation", o.call = Len(h) + 1,
         NEW d \in ViewEvent, d.kind = "action", d.batch = Len(h) + 1,
         WellMade(Append(h, a)), WellMade(Append(Append(h, a), o))
  PROVE  LET g == Append(h, a)
             f == Append(g, o)
         IN  Fits(Append(g, d), Len(g) + 1) /\ Fits(Append(f, d), Len(f) + 1)
<1>. DEFINE g == Append(h, a)
            f == Append(g, o)
            N == Len(h)
<1>. HIDE DEF ViewEvent
<1>1. N \in Nat /\ Len(g) = N + 1 /\ g[N + 1] = a
  BY LastOf
<1>. HIDE DEF g
<1>2. Len(f) = (N + 1) + 1 /\ f[(N + 1) + 1] = o /\ f[N + 1] = a
  <2>1. Len(f) = Len(g) + 1 /\ f[Len(g) + 1] = o /\ \A n \in 1..Len(g) : f[n] = g[n]
    BY LastOf DEF g
  <2>2. N + 1 \in 1..Len(g)
    BY <1>1
  <2>. QED
    BY <1>1, <2>1, <2>2
<1>. HIDE DEF f
<1>3. Fits(Append(g, d), (N + 1) + 1)
  <2>1. /\ Append(g, d)[(N + 1) + 1] = d /\ Append(g, d)[N + 1] = a
    <3>1. Append(g, d)[Len(g) + 1] = d /\ \A n \in 1..Len(g) : Append(g, d)[n] = g[n]
      BY LastOf DEF g
    <3>2. N + 1 \in 1..Len(g)
      BY <1>1
    <3>. QED
      BY <1>1, <3>1, <3>2
  <2>2. ((N + 1) + 1) - 1 = N + 1 /\ (N + 1) + 1 > 1
    BY <1>1
  <2>. QED
    BY <2>1, <2>2 DEF Fits, N
<1>4. Fits(Append(f, d), ((N + 1) + 1) + 1)
  <2>1. /\ Append(f, d)[((N + 1) + 1) + 1] = d /\ Append(f, d)[(N + 1) + 1] = o
        /\ Append(f, d)[N + 1] = a
    <3>1. Append(f, d)[Len(f) + 1] = d /\ \A n \in 1..Len(f) : Append(f, d)[n] = f[n]
      BY LastOf DEF f, g
    <3>2. N + 1 \in 1..Len(f) /\ (N + 1) + 1 \in 1..Len(f)
      BY <1>1, <1>2
    <3>. QED
      BY <1>1, <1>2, <3>1, <3>2
  <2>2. /\ (((N + 1) + 1) + 1) - 1 = (N + 1) + 1 /\ (((N + 1) + 1) + 1) - 2 = N + 1
        /\ ((N + 1) + 1) + 1 > 2
    BY <1>1
  <2>. QED
    BY <2>1, <2>2 DEF Fits, N
<1>. QED
  BY <1>1, <1>2, <1>3, <1>4 DEF f, g

\* The first call of a response, and what holds behind it.
FirstCall(t, i) == ToolCall(Len(history) + 1, Len(history) + 1, t, i)
BothCalls(t, i, also) ==
  FirstCall(t, i) \o ToolCall(Len(history) + 1 + Len(FirstCall(t, i)), Len(history) + 1, FALSE, also)

\* A response is one tool call, or two.
LEMMA ResponseFacts ==
  ASSUME OrderInv, NEW t \in BOOLEAN, NEW i \in BOOLEAN
  PROVE  LET n == Len(history) + 1
             first == FirstCall(t, i)
         IN  /\ history \in Seq(ViewEvent) /\ view \in Seq(Int)
             /\ InOrderAfter(<<>>) /\ CallFits(<<>>, n, t)
             /\ n = Len(HistoryAfter(<<>>)) + 1 /\ <<>> \o first = first
             /\ InOrderAfter(first) /\ CallFits(first, n, FALSE)
             /\ n + Len(first) = Len(HistoryAfter(first)) + 1
<1>. DEFINE n == Len(history) + 1
            first == FirstCall(t, i)
            a == Action(n, t)
            o == Observation(n)
            d == Action(n, FALSE)
            none == <<>>
<1>1. /\ history \in Seq(ViewEvent) /\ view \in Seq(Int) /\ WellMade(history)
      /\ Len(history) \in Nat /\ n \in Nat
  BY DEF OrderInv, WellMade, Ordered
<1>2. /\ a \in ViewEvent /\ a.kind = "action" /\ a.batch = n
      /\ d \in ViewEvent /\ d.kind = "action" /\ d.batch = n
      /\ o.kind = "observation" /\ o.call = n
  BY <1>1 DEF Action, Observation, ViewEvent
<1>. HIDE DEF ViewEvent
<1>3. HistoryAfter(none) = history /\ ViewAfter(none) = view /\ BuiltAfter(none) = Built
  BY <1>1, RecordFacts
<1>4. InOrderAfter(none) /\ n = Len(HistoryAfter(none)) + 1
  BY <1>3 DEF InOrderAfter, InOrderWith, OrderInv
<1>5. CallFits(none, n, t)
  <2>1. Fits(Append(history, a), Len(history) + 1)
    BY <1>1, EventsFit
  <2>. QED
    BY <1>2, <1>3, <2>1 DEF CallFits
<1>. HIDE DEF n, none
<1>6. /\ InOrderAfter(Append(none, a)) /\ InOrderAfter(Append(Append(none, a), o))
      /\ HistoryAfter(Append(none, a)) = Append(history, a)
      /\ HistoryAfter(Append(Append(none, a), o)) = Append(Append(history, a), o)
      /\ o \in ViewEvent
      /\ none \o ToolCall(n, n, t, FALSE) = Append(none, a)
      /\ none \o ToolCall(n, n, t, TRUE) = Append(Append(none, a), o)
  <2>1. CallAdds(none, n, t)
    BY <1>1, <1>4, <1>5, CallAfter
  <2>. QED
    BY <1>3, <1>4, <2>1 DEF CallAdds
<1>. HIDE DEF a, o, d
<1>7. none \o first = first
  <2>1. first \in Seq(ViewEvent)
    <3>1. (IF i THEN <<o>> ELSE <<>>) \in Seq(ViewEvent)
      BY <1>6
    <3>2. first = <<a>> \o (IF i THEN <<o>> ELSE <<>>)
      BY DEF FirstCall, ToolCall, a, o, n
    <3>3. <<a>> \in Seq(ViewEvent)
      BY <1>2
    <3>. QED
      BY <3>1, <3>2, <3>3
  <2>. HIDE DEF first
  <2>. QED
    BY <2>1 DEF none
<1>8. \/ first = Append(none, a) /\ Len(first) = 1
      \/ first = Append(Append(none, a), o) /\ Len(first) = 2
  <2>1. first = none \o ToolCall(n, n, t, i)
    BY <1>7 DEF FirstCall, n
  <2>2. Len(Append(none, a)) = 1 /\ Len(Append(Append(none, a), o)) = 2
    BY DEF none
  <2>3. i = TRUE \/ i = FALSE
    OBVIOUS
  <2>. QED
    BY <1>6, <2>1, <2>2, <2>3
<1>9. /\ WellMade(Append(history, a)) /\ WellMade(Append(Append(history, a), o))
  BY <1>6 DEF InOrderAfter, InOrderWith
<1>10. /\ Fits(Append(Append(history, a), d), Len(Append(history, a)) + 1)
       /\ Fits(Append(Append(Append(history, a), o), d), Len(Append(Append(history, a), o)) + 1)
  BY <1>1, <1>2, <1>6, <1>9, SecondFits DEF n
<1>11. /\ Len(Append(history, a)) = n /\ Len(Append(Append(history, a), o)) = n + 1
  <2>1. Len(Append(history, a)) = n
    BY <1>1, <1>2, LastOf DEF n
  <2>. QED
    BY <1>6, <1>9, <2>1, LastOf
<1>. HIDE DEF first
<1>12. InOrderAfter(first) /\ CallFits(first, n, FALSE) /\ n + Len(first) = Len(HistoryAfter(first)) + 1
  <2>1. CASE first = Append(none, a) /\ Len(first) = 1
    BY <1>1, <1>2, <1>6, <1>10, <1>11, <2>1 DEF CallFits, d
  <2>2. CASE first = Append(Append(none, a), o) /\ Len(first) = 2
    <3>1. n + 2 = (n + 1) + 1
      BY <1>1
    <3>. QED
      BY <1>1, <1>2, <1>6, <1>10, <1>11, <2>2, <3>1 DEF CallFits, d
  <2>. QED
    BY <1>8, <2>1, <2>2
<1>. QED
  BY <1>1, <1>4, <1>5, <1>7, <1>12 DEF n, none, first

\* The second call goes on from the first.
LEMMA BothFacts ==
  ASSUME OrderInv, NEW t \in BOOLEAN, NEW i \in BOOLEAN, NEW also \in BOOLEAN
  PROVE  InOrderAfter(FirstCall(t, i)) /\ InOrderAfter(BothCalls(t, i, also))
<1>. DEFINE n == Len(history) + 1
            first == FirstCall(t, i)
            m == Len(HistoryAfter(first)) + 1
<1>. HIDE DEF ViewEvent
<1>1. /\ history \in Seq(ViewEvent) /\ view \in Seq(Int)
      /\ InOrderAfter(first) /\ CallFits(first, n, FALSE) /\ n + Len(first) = m
  BY ResponseFacts
<1>2. BothCalls(t, i, also) = first \o ToolCall(m, n, FALSE, also)
  BY <1>1 DEF BothCalls
<1>. HIDE DEF first, n
<1>3. /\ InOrderAfter(first \o ToolCall(m, n, FALSE, TRUE))
      /\ InOrderAfter(first \o ToolCall(m, n, FALSE, FALSE))
  <2>1. CallAdds(first, n, FALSE)
    BY <1>1, CallAfter
  <2>. QED
    BY <2>1 DEF CallAdds
<1>4. also = TRUE \/ also = FALSE
  OBVIOUS
<1>. QED
  BY <1>1, <1>2, <1>3, <1>4 DEF first

\* OrderInv holds of a new conversation, whose view is the built one.
LEMMA OrderInit == ViewInit => OrderInv /\ view = Built
<1>. SUFFICES ASSUME ViewInit PROVE OrderInv /\ view = Built
  OBVIOUS
<1>. DEFINE e == Plain("system")
            none == <<>>
<1>1. e \in ViewEvent /\ e.kind = "system"
  BY DEF Plain, ViewEvent
<1>2. history = <<e>> /\ view = <<1>> /\ summing = None
  BY DEF ViewInit
<1>. HIDE DEF e
<1>3. WellMade(history) /\ Len(history) = 1
  <2>1. history \in Seq(ViewEvent) /\ Len(history) = 1 /\ history[1] = e /\ history # <<>>
    <3>. HIDE DEF ViewEvent
    <3>. QED
      BY <1>1, <1>2
  <2>2. \A n \in 1..1 : n = 1
    OBVIOUS
  <2>3. Fits(history, 1)
    BY <1>1, <2>1 DEF Fits
  <2>. QED
    BY <1>1, <2>1, <2>2, <2>3 DEF WellMade
<1>4. none \in Seq(ViewEvent) /\ none \in Seq(Int) /\ none = <<>>
      /\ history = Append(none, e) /\ 0 + (Len(none) + 1) = 1
  BY <1>2
<1>5. Built = AppendTo(AppendAll(none, 0, none), 0 + (Len(none) + 1), e)
      /\ AppendAll(none, 0, none) = none
  <2>1. Built = AppendAll(none, 0, Append(none, e))
    BY <1>4 DEF Built
  <2>2. 0 \in Nat
    OBVIOUS
  <2>3. none \in Seq(ViewEvent) /\ none \in Seq(Int) /\ none = <<>>
    BY <1>4
  <2>. HIDE DEF none, ViewEvent
  <2>4. AppendAll(none, 0, none) = none
    BY <1>1, <2>2, <2>3, AppendAllSteps
  <2>5. AppendAll(none, 0, Append(none, e)) =
          AppendTo(AppendAll(none, 0, none), 0 + (Len(none) + 1), e)
    BY ZenonT(60), <1>1, <2>2, <2>3, AppendAllSteps
  <2>. QED
    BY <2>1, <2>4, <2>5
<1>6. Built = Append(none, 1)
  <2>1. AppendTo(none, 1, e) = Append(none, 1)
    BY <1>1, AppendToCases
  <2>. QED
    BY <1>4, <1>5, <2>1
<1>7. Built = view
  BY <1>2, <1>6
<1>8. Ordered(view, 1)
  BY <1>2 DEF Ordered
<1>. QED
  BY <1>2, <1>3, <1>7, <1>8 DEF OrderInv, SummingOK

\* What each step records, and what it does to the view and to a pending condensation.
LEMMA StepCases ==
  ASSUME OrderInv, ViewNext
  PROVE  \/ /\ summing' = summing
            /\ \E k \in {"message", "other", "request"} : Record(<<Plain(k)>>)
         \/ /\ summing' = summing /\ Pending = {} /\ summing = None
            /\ \E t, i \in BOOLEAN : \/ Record(FirstCall(t, i))
                                     \/ \E also \in BOOLEAN : Record(BothCalls(t, i, also))
         \/ /\ summing' = summing
            /\ \E c \in 1..Len(history) : history[c].kind = "action" /\ Record(<<Observation(c)>>)
                                          /\ (c \in Pending \/ ~Doubled)
         \/ /\ UNCHANGED <<history, view>> /\ Pending = {}
            /\ \E s, e : CutOf(summing', view, s, e)
         \/ /\ summing # None /\ summing' = None
            /\ \E t \in BOOLEAN : Record(<<[summing EXCEPT !.summary = t]>>)
         \/ /\ history' = history /\ view' = Enforced(Built) /\ summing' = None
            /\ LoadMidCall \/ Pending = {}
<1>0. WellMade(history) /\ Ordered(view, Len(history)) /\ DOMAIN history = 1..Len(history)
      /\ Len(history) \in Nat
  BY LastOf DEF OrderInv, WellMade
<1>1. CASE PlainEvent
  BY <1>1 DEF PlainEvent
<1>2. CASE Respond
  BY <1>2 DEF Respond, FirstCall, BothCalls
<1>3. CASE Observe
  <2>1. PICK c \in Pending : Record(<<Observation(c)>>)
    BY <1>3 DEF Observe
  <2>2. c \in 1..Len(history) /\ Is(c, "action")
    BY <1>0, <2>1 DEF Pending
  <2>3. history[c].kind = "action"
    BY <1>0, <2>2 DEF Is, At
  <2>4. summing' = summing
    BY <1>3 DEF Observe
  <2>. QED
    BY <2>1, <2>2, <2>3, <2>4
<1>4. CASE LateObserve
  <2>1. PICK c \in DOMAIN history : Is(c, "action") /\ Record(<<Observation(c)>>)
    BY <1>4 DEF LateObserve
  <2>2. c \in 1..Len(history)
    BY <1>0
  <2>3. history[c].kind = "action"
    BY <1>0, <2>1, <2>2 DEF Is, At
  <2>4. summing' = summing /\ ~Doubled
    BY <1>4 DEF LateObserve
  <2>. QED
    BY <2>1, <2>2, <2>3, <2>4
<1>5. CASE Condense
  <2>1. PICK tokens : summing' \in Condensations(tokens)
    BY <1>5 DEF Condense
  <2>2. \E s, e : CutOf(summing', view, s, e)
    BY <1>0, <2>1, CondensationCuts
  <2>. QED
    BY <1>5, <2>2 DEF Condense
<1>6. CASE Summarized
  BY <1>6 DEF Summarized
<1>7. CASE Rebuild
  BY <1>7 DEF Rebuild, FromEvents, Built
<1>. QED
  BY <1>1, <1>2, <1>3, <1>4, <1>5, <1>6, <1>7 DEF ViewNext

\* Every step keeps OrderInv.
LEMMA OrderStep == OrderInv /\ [ViewNext]_viewVars => OrderInv'
<1>. SUFFICES ASSUME OrderInv, [ViewNext]_viewVars PROVE OrderInv'
  OBVIOUS
<1>. DEFINE N == Len(history)
<1>0. /\ WellMade(history) /\ InOrderWith(history, view, Built) /\ SummingOK
      /\ history \in Seq(ViewEvent) /\ view \in Seq(Int) /\ N \in Nat
  BY DEF OrderInv, InOrderWith, WellMade, Ordered
<1>. HIDE DEF ViewEvent
<1>1. ASSUME NEW d \in ViewEvent, Record(<<d>>), Fits(Append(history, d), N + 1)
      PROVE  InOrderWith(history, view, Built)'
  <2>1. InOrderWith(Append(history, d), AppendTo(view, N + 1, d), AppendTo(Built, N + 1, d))
    BY <1>0, <1>1, OrderGrows
  <2>2. /\ history' = Append(history, d) /\ view' = AppendTo(view, N + 1, d)
        /\ Built' = AppendTo(Built, N + 1, d)
    BY <1>0, <1>1, RecordOne
  <2>. QED
    BY <2>1, <2>2 DEF InOrderWith
<1>2. ASSUME InOrderWith(history, view, Built)', SummingOK' PROVE OrderInv'
  BY <1>2 DEF OrderInv, InOrderWith
<1>3. ASSUME summing' = summing PROVE SummingOK'
  BY <1>0, <1>3 DEF SummingOK
<1>4. ASSUME NEW k \in {"message", "other", "request"}, Record(<<Plain(k)>>), summing' = summing
      PROVE  OrderInv'
  BY <1>0, <1>1, <1>2, <1>3, <1>4, EventsFit
<1>5. ASSUME NEW t \in BOOLEAN, NEW i \in BOOLEAN, summing' = summing,
             Record(FirstCall(t, i)) \/ \E also \in BOOLEAN : Record(BothCalls(t, i, also))
      PROVE  OrderInv'
  <2>1. ASSUME NEW es, InOrderAfter(es), Record(es) PROVE InOrderWith(history, view, Built)'
    <3>1. history' = HistoryAfter(es) /\ view' = ViewAfter(es) /\ Built' = BuiltAfter(es)
      BY <1>0, <2>1, RecordFacts
    <3>. QED
      BY <2>1, <3>1 DEF InOrderAfter, InOrderWith
  <2>2. \A also \in BOOLEAN : InOrderAfter(FirstCall(t, i)) /\ InOrderAfter(BothCalls(t, i, also))
    BY BothFacts
  <2>. QED
    BY <1>2, <1>3, <1>5, <2>1, <2>2
<1>6. ASSUME NEW c \in 1..N, history[c].kind = "action", Record(<<Observation(c)>>),
             summing' = summing
      PROVE  OrderInv'
  BY <1>0, <1>1, <1>2, <1>3, <1>6, EventsFit
<1>7. ASSUME UNCHANGED <<history, view>>, NEW s, NEW e, CutOf(summing', view, s, e)
      PROVE  OrderInv'
  <2>1. SummingOK'
    <3>1. /\ summing' \in ViewEvent /\ summing'.kind = "condensation" /\ summing'.offset = s /\ s > 0
          /\ 1 \notin summing'.forgotten
      BY <1>0, <1>7, CutFacts DEF InOrderWith
    <3>. QED
      BY <3>1 DEF SummingOK
  <2>2. InOrderWith(history, view, Built)'
    BY <1>0, <1>7 DEF InOrderWith, Built
  <2>. QED
    BY <1>2, <2>1, <2>2
<1>8. ASSUME summing # None, summing' = None, NEW t \in BOOLEAN,
             Record(<<[summing EXCEPT !.summary = t]>>)
      PROVE  OrderInv'
  <2>. DEFINE d == [summing EXCEPT !.summary = t]
  <2>1. summing \in ViewEvent /\ summing.kind = "condensation"
        /\ 1 \notin summing.forgotten /\ summing.offset > 0
    BY <1>0, <1>8 DEF SummingOK
  <2>2. d \in ViewEvent /\ d.kind = "condensation" /\ 1 \notin d.forgotten /\ d.offset > 0
    BY <2>1 DEF ViewEvent
  <2>. HIDE DEF d
  <2>3. Fits(Append(history, d), N + 1)
    BY <1>0, <2>2, EventsFit
  <2>4. Record(<<d>>)
    BY <1>8 DEF d
  <2>5. SummingOK'
    BY <1>8 DEF SummingOK
  <2>. QED
    BY <1>1, <1>2, <2>2, <2>3, <2>4, <2>5
<1>9. ASSUME history' = history, view' = Enforced(Built), summing' = None PROVE OrderInv'
  <2>1. ~InToolLoop(1)
    BY <1>0 DEF InToolLoop, At, WellMade
  <2>2. Ordered(Enforced(Built), N)
    BY <1>0, <2>1, EnforcedFacts DEF InOrderWith
  <2>3. InOrderWith(history, view, Built)'
    BY <1>0, <1>9, <2>2 DEF InOrderWith, Built
  <2>4. SummingOK'
    BY <1>9 DEF SummingOK
  <2>. QED
    BY <1>2, <2>3, <2>4
<1>10. CASE ViewNext
  BY <1>4, <1>5, <1>6, <1>7, <1>8, <1>9, <1>10, StepCases
<1>11. CASE UNCHANGED viewVars
  BY <1>11 DEF viewVars, OrderInv, SummingOK, Built
<1>. QED
  BY <1>10, <1>11

\* Whatever calls are pending or answered twice, and however often the history was
\* condensed, from_events returns a view that an LLM accepts, in the order of the
\* history and with the system prompt first.
THEOREM RebuiltAcceptableHolds == ViewSpec => []RebuiltAcceptable
<1>1. ViewInit => OrderInv
  BY OrderInit
<1>2. OrderInv => RebuiltAcceptable
  <2>. SUFFICES ASSUME OrderInv PROVE RebuiltAcceptable
    OBVIOUS
  <2>. DEFINE v == Enforced(Built)
  <2>1. WellMade(history) /\ Ordered(Built, Len(history)) /\ Len(history) \in Nat
    BY DEF OrderInv, WellMade
  <2>2. ~InToolLoop(1)
    BY <2>1 DEF InToolLoop, At, WellMade
  <2>3. Ordered(v, Len(history)) /\ Sound(v)
    BY <2>1, <2>2, EnforcedFacts
  <2>. HIDE DEF v
  <2>4. Acceptable(v)
    BY <2>1, <2>3, SoundAcceptable
  <2>5. v # <<>> /\ v[1] = 1
        /\ \A i \in DOMAIN v : \A j \in (i + 1)..Len(v) : v[i] > 0 /\ v[j] > 0 => v[i] < v[j]
    <3>1. v \in Seq(Int) /\ v # <<>> /\ v[1] = 1
      BY <2>3 DEF Ordered
    <3>2. ASSUME NEW i \in DOMAIN v, NEW j \in (i + 1)..Len(v), v[i] > 0, v[j] > 0
          PROVE  v[i] < v[j]
      <4>1. i \in 1..Len(v) /\ j \in 1..Len(v) /\ i < j
        BY <3>1
      <4>. QED
        BY <2>3, <3>2, <4>1 DEF Ordered
    <3>. QED
      BY <3>1, <3>2
  <2>6. FromEvents = v
    BY DEF FromEvents, Built, v
  <2>. QED
    BY <2>4, <2>5, <2>6 DEF RebuiltAcceptable
<1>. QED
  BY <1>1, <1>2, OrderStep, PTL DEF ViewSpec

-----------------------------------------------------------------------------
(* The view: the cached one is the rebuilt one *)

\* Event i of h is a call or a result; it is a call that thinks.
Loops(h, i) == h[i].kind \in {"action", "observation"}
Thinking(h, i) == h[i].kind = "action" /\ h[i].thinking

\* Event n may not be shown without the event before it: they are calls of one batch,
\* or events of one tool loop.
Tied(h, n) ==
  /\ n > 1
  /\ \/ h[n].kind = "action" /\ h[n].batch = n - 1
     \/ \E s \in 1..(n - 1) :
          Thinking(h, s) /\ \A i \in s..n : Loops(h, i) /\ (i > s => ~Thinking(h, i))

Has(v, x) == \E i \in 1..Len(v) : v[i] = x

\* Tied events are both in the view, next to each other, or neither is.
Glued(h, v) ==
  \A n \in 1..Len(h) : Tied(h, n) => \A i \in 1..Len(v) :
    /\ v[i] = n => i > 1 /\ v[i - 1] = n - 1
    /\ v[i] = n - 1 => i < Len(v) /\ v[i + 1] = n

\* So are a result and its call.
Matched(h, v) ==
  \A o \in 1..Len(h) : h[o].kind = "observation" => (Has(v, o) <=> Has(v, h[o].call))

\* The calls without a result, and whether some call has two.
Open(h) == {c \in 1..Len(h) : h[c].kind = "action"
              /\ \A o \in 1..Len(h) : ~(h[o].kind = "observation" /\ h[o].call = c)}
Twice(h) == \E j \in 1..Len(h) : \E k \in 1..(j - 1) :
              h[j].kind = "observation" /\ h[k].kind = "observation" /\ h[k].call = h[j].call

\* The error of a batch's first call is recorded between its two actions, the second
\* of which is n; the view shows both actions or neither.
Split(h, n) == n > 2 /\ h[n].kind = "action" /\ h[n].batch = n - 2
Batched(h, v) == \A n \in 1..Len(h) : Split(h, n) => (Has(v, n) <=> Has(v, n - 2))

\* A condensation forgot one action of such a batch and not the other.
CutApart(h) ==
  \E m, a, c \in 1..Len(h) :
     /\ h[m].kind = "condensation" /\ h[a].kind = "action" /\ h[c].kind = "action"
     /\ h[a].batch = h[c].batch /\ \E o \in a..c : h[o].kind = "observation"
     /\ ~(a \in h[m].forgotten <=> c \in h[m].forgotten)
Clean(h) == ~Twice(h) /\ ~CutApart(h)

\* What a cached view keeps of the history.
Whole(h, v) ==
  /\ Glued(h, v) /\ Matched(h, v) /\ Batched(h, v)
  /\ \A c \in Open(h) : Has(v, c)
  /\ Loops(h, Len(h)) => v[Len(v)] = Len(h)

\* The view may be cut behind its first p events: nothing tied or matched is separated.
SafeCut(h, v, p) ==
  /\ p \in 1..Len(v)
  /\ p < Len(v) => \A n \in 1..Len(h) : Tied(h, n) => v[p + 1] # n
  /\ \A o \in 1..Len(h) : h[o].kind = "observation" =>
       \A i \in 1..p, j \in (p + 1)..Len(v) : v[j] = o => v[i] # h[o].call

\* The events of a view between two places.
Between(v, s, e) == {v[i] : i \in (s + 1)..e}

\* A condensation that forgets what is between two such places.
Cutting(h, v, c) ==
  \E s, e : /\ s \in 1..Len(v) /\ e \in (s + 1)..Len(v)
            /\ SafeCut(h, v, s) /\ SafeCut(h, v, e)
            /\ c.offset = s /\ c.forgotten = Between(v, s, e)

\* The old part of a history does not change.
LEMMA OldPart ==
  ASSUME NEW h, WellMade(h), NEW e \in ViewEvent
  PROVE  /\ \A n \in 1..Len(h) : Tied(Append(h, e), n) <=> Tied(h, n)
         /\ \A n \in 1..Len(h) : Append(h, e)[n] = h[n]
         /\ Len(Append(h, e)) = Len(h) + 1 /\ Append(h, e)[Len(h) + 1] = e
         /\ Len(h) \in Nat
<1>. DEFINE g == Append(h, e)
<1>1. /\ \A n \in 1..Len(h) : g[n] = h[n]
      /\ Len(g) = Len(h) + 1 /\ g[Len(h) + 1] = e /\ Len(h) \in Nat
  BY LastOf
<1>. HIDE DEF g
<1>2. ASSUME NEW n \in 1..Len(h) PROVE Tied(g, n) <=> Tied(h, n)
  <2>1. \A i \in 1..n : g[i] = h[i]
    BY <1>1
  <2>2. ASSUME NEW s \in 1..(n - 1)
        PROVE  /\ Thinking(g, s) <=> Thinking(h, s)
               /\ \A i \in s..n : (Loops(g, i) <=> Loops(h, i)) /\ (Thinking(g, i) <=> Thinking(h, i))
    BY <1>1, <2>1 DEF Loops, Thinking
  <2>. QED
    BY <1>1, <2>2 DEF Tied
<1>. QED
  BY <1>1, <1>2 DEF g

\* A new event is tied to the last one only if both are calls or results.
LEMMA NewTie ==
  ASSUME NEW h, WellMade(h), NEW e \in ViewEvent, Fits(Append(h, e), Len(h) + 1),
         Tied(Append(h, e), Len(h) + 1)
  PROVE  Loops(h, Len(h)) /\ e.kind \in {"action", "observation"}
<1>. DEFINE g == Append(h, e)
            N == Len(h)
<1>1. g[N] = h[N] /\ g[N + 1] = e /\ N \in Nat /\ N > 0 /\ (N + 1) - 1 = N
  BY LastOf
<1>2. Fits(g, N + 1) /\ Tied(g, N + 1)
  OBVIOUS
<1>. HIDE DEF g, N
<1>3. CASE g[N + 1].kind = "action" /\ g[N + 1].batch = N
  <2>1. g[N].kind = "action"
    BY <1>1, <1>2, <1>3 DEF Fits
  <2>. QED
    BY <1>1, <1>3, <2>1 DEF Loops, N
<1>4. ASSUME NEW s \in 1..N, \A i \in s..(N + 1) : Loops(g, i)
      PROVE  Loops(h, N) /\ e.kind \in {"action", "observation"}
  <2>1. N \in s..(N + 1) /\ N + 1 \in s..(N + 1)
    BY <1>1
  <2>. QED
    BY <1>1, <1>4, <2>1 DEF Loops
<1>. QED
  BY <1>1, <1>2, <1>3, <1>4 DEF Tied, N

\* An event that the view shows.
LEMMA WholeAppend ==
  ASSUME NEW h, WellMade(h), NEW v, Ordered(v, Len(h)), Whole(h, v),
         NEW e \in ViewEvent, Fits(Append(h, e), Len(h) + 1),
         e.kind = "observation" => e.call \in Open(h)
  PROVE  Whole(Append(h, e), Append(v, Len(h) + 1))
<1>. DEFINE g == Append(h, e)
            N == Len(h)
            w == Append(v, N + 1)
            L == Len(v)
<1>1. /\ N \in Nat /\ Len(g) = N + 1 /\ g[N + 1] = e
      /\ \A n \in 1..N : g[n] = h[n] /\ (Tied(g, n) <=> Tied(h, n))
  BY OldPart
<1>2. v \in Seq(Int) /\ L \in Nat /\ L > 0
  BY DEF Ordered
<1>3. w \in Seq(Int) /\ Len(w) = L + 1 /\ w[L + 1] = N + 1 /\ \A i \in 1..L : w[i] = v[i]
  BY <1>1, <1>2
<1>4. \A i \in 1..L : v[i] \in Int /\ v[i] <= N
  BY <1>2 DEF Ordered
<1>5. ASSUME Tied(g, N + 1) PROVE v[L] = N
  <2>1. Loops(h, N)
    BY <1>5, NewTie
  <2>. QED
    BY <2>1 DEF Whole
<1>. HIDE DEF g, N, w, L
<1>6. Glued(g, w)
  <2>1. SUFFICES ASSUME NEW n \in 1..(N + 1), Tied(g, n), NEW i \in 1..(L + 1)
                 PROVE  /\ w[i] = n => i > 1 /\ w[i - 1] = n - 1
                        /\ w[i] = n - 1 => i < L + 1 /\ w[i + 1] = n
    BY <1>1, <1>3, <2>1 DEF Glued
  <2>2. CASE n \in 1..N
    <3>1. \A j \in 1..L : /\ v[j] = n => j > 1 /\ v[j - 1] = n - 1
                          /\ v[j] = n - 1 => j < L /\ v[j + 1] = n
      BY <1>1, <2>1, <2>2 DEF Whole, Glued, N, L
    <3>2. CASE i \in 1..L
      <4>1. w[i] = v[i] /\ (i > 1 => w[i - 1] = v[i - 1]) /\ (i < L => w[i + 1] = v[i + 1])
        BY <1>2, <1>3, <3>2
      <4>. QED
        BY <1>2, <3>1, <3>2, <4>1
    <3>3. CASE i = L + 1
      BY <1>1, <1>3, <2>2, <3>3
    <3>. QED
      BY <1>2, <3>2, <3>3
  <2>3. CASE n = N + 1
    <3>1. v[L] = N
      BY <1>5, <2>1, <2>3
    <3>2. CASE i \in 1..L
      <4>1. w[i] = v[i] /\ w[i] # N + 1
        BY <1>1, <1>3, <1>4, <3>2
      <4>2. v[i] = N => i = L
        <5>1. L \in 1..L /\ i \in 1..L
          BY <1>2, <3>2
        <5>2. \A j, k \in 1..L : j < k => v[j] # v[k]
          BY DEF Ordered, L
        <5>. QED
          BY <1>2, <3>1, <5>1, <5>2
      <4>3. (N + 1) - 1 = N
        BY <1>1
      <4>. QED
        BY <1>2, <1>3, <2>3, <4>1, <4>2, <4>3
    <3>3. CASE i = L + 1
      <4>1. w[i] = N + 1 /\ i > 1 /\ i - 1 = L /\ w[L] = v[L]
        BY <1>2, <1>3, <3>3
      <4>. QED
        BY <1>1, <2>3, <3>1, <4>1
    <3>. QED
      BY <1>2, <3>2, <3>3
  <2>. QED
    BY <1>1, <2>2, <2>3
<1>7. ASSUME NEW x \in 1..N PROVE Has(w, x) <=> Has(v, x)
  <2>1. ASSUME NEW i \in 1..(L + 1), w[i] = x PROVE i \in 1..L /\ v[i] = x
    BY <1>1, <1>2, <1>3, <2>1
  <2>2. ASSUME NEW i \in 1..L, v[i] = x PROVE i \in 1..(L + 1) /\ w[i] = x
    BY <1>2, <1>3, <2>2
  <2>3. Has(w, x) <=> \E i \in 1..(L + 1) : w[i] = x
    BY <1>3 DEF Has
  <2>4. Has(v, x) <=> \E i \in 1..L : v[i] = x
    BY DEF Has, L
  <2>. QED
    BY <2>1, <2>2, <2>3, <2>4
<1>8. Has(w, N + 1)
  BY <1>2, <1>3 DEF Has
<1>9. Matched(g, w)
  <2>1. SUFFICES ASSUME NEW o \in 1..(N + 1), g[o].kind = "observation"
                 PROVE  Has(w, o) <=> Has(w, g[o].call)
    BY <1>1, <2>1 DEF Matched
  <2>2. CASE o \in 1..N
    <3>1. h[o].kind = "observation" /\ g[o] = h[o]
      BY <1>1, <2>1, <2>2
    <3>2. h[o].call \in 1..N
      <4>1. h[o].call \in 1..(o - 1)
        BY <2>2, <3>1 DEF WellMade, Fits, N
      <4>. QED
        BY <1>1, <2>2, <4>1
    <3>3. Has(v, o) <=> Has(v, h[o].call)
      BY <2>2, <3>1 DEF Whole, Matched, N
    <3>. QED
      BY <1>7, <2>2, <3>1, <3>2, <3>3
  <2>3. CASE o = N + 1
    <3>1. e.call \in Open(h)
      BY <1>1, <2>1, <2>3
    <3>2. e.call \in 1..N /\ Has(v, e.call)
      BY <3>1 DEF Open, Whole, N
    <3>. QED
      BY <1>1, <1>7, <1>8, <2>3, <3>2
  <2>. QED
    BY <1>1, <2>2, <2>3
<1>10. ASSUME NEW c \in Open(g) PROVE Has(w, c)
  <2>1. c \in 1..(N + 1) /\ g[c].kind = "action"
        /\ \A o \in 1..(N + 1) : ~(g[o].kind = "observation" /\ g[o].call = c)
    BY <1>1 DEF Open
  <2>2. CASE c \in 1..N
    <3>1. h[c].kind = "action" /\ \A o \in 1..N : ~(h[o].kind = "observation" /\ h[o].call = c)
      BY <1>1, <2>1, <2>2
    <3>2. c \in Open(h)
      BY <2>2, <3>1 DEF Open, N
    <3>. QED
      BY <1>7, <2>2, <3>2 DEF Whole
  <2>. QED
    BY <1>1, <1>8, <2>1, <2>2
<1>11. w[Len(w)] = Len(g)
  BY <1>1, <1>3
<1>12. Batched(g, w)
  <2>1. SUFFICES ASSUME NEW n \in 1..(N + 1), Split(g, n) PROVE Has(w, n) <=> Has(w, n - 2)
    BY <1>1, <2>1 DEF Batched
  <2>2. n > 2 /\ g[n].kind = "action" /\ g[n].batch = n - 2
    BY <2>1 DEF Split
  <2>3. CASE n \in 1..N
    <3>1. Split(h, n)
      BY <1>1, <2>2, <2>3 DEF Split
    <3>2. Has(v, n) <=> Has(v, n - 2)
      BY <2>3, <3>1 DEF Whole, Batched, N
    <3>3. n - 2 \in 1..N
      BY <1>1, <2>2, <2>3
    <3>. QED
      BY <1>7, <2>3, <3>2, <3>3
  <2>4. CASE n = N + 1
    <3>1. N > 1 /\ (N + 1) - 2 = N - 1 /\ (N + 1) - 1 = N /\ N \in 1..N /\ N - 1 \in 1..N
      BY <1>1, <2>2, <2>4
    <3>2. g[N].kind = "observation" /\ g[N].call = N - 1
      <4>1. Fits(g, N + 1)
        BY DEF g, N
      <4>2. N - 1 # N /\ N - 1 # N + 1
        BY <1>1
      <4>. QED
        BY <2>2, <2>4, <3>1, <4>1, <4>2 DEF Fits
    <3>3. h[N].kind = "observation" /\ h[N].call = N - 1
      BY <1>1, <3>1, <3>2
    <3>4. v[L] = N
      BY <3>3 DEF Loops, Whole, N, L
    <3>5. Has(v, N)
      BY <1>2, <3>4 DEF Has, L
    <3>6. Has(v, N - 1)
      BY <3>1, <3>3, <3>5 DEF Whole, Matched, N
    <3>. QED
      BY <1>7, <1>8, <2>4, <3>1, <3>6
  <2>. QED
    BY <1>1, <2>3, <2>4
<1>13. Whole(g, w)
  BY <1>6, <1>9, <1>10, <1>11, <1>12 DEF Whole
<1>. QED
  BY <1>13 DEF g, w, N

\* An event that the view does not show.
LEMMA WholeSkip ==
  ASSUME NEW h, WellMade(h), NEW v, Whole(h, v),
         NEW e \in ViewEvent, Fits(Append(h, e), Len(h) + 1),
         e.kind \in {"request", "other"}
  PROVE  Whole(Append(h, e), v)
<1>. DEFINE g == Append(h, e)
            N == Len(h)
<1>1. /\ N \in Nat /\ Len(g) = N + 1 /\ g[N + 1] = e
      /\ \A n \in 1..N : g[n] = h[n] /\ (Tied(g, n) <=> Tied(h, n))
  BY OldPart
<1>2. ~Tied(g, N + 1)
  BY NewTie
<1>. HIDE DEF g, N
<1>3. Glued(g, v)
  BY <1>1, <1>2 DEF Whole, Glued, N
<1>4. Matched(g, v)
  <2>1. ASSUME NEW o \in 1..(N + 1), g[o].kind = "observation" PROVE Has(v, o) <=> Has(v, g[o].call)
    <3>1. o \in 1..N
      BY <1>1, <2>1
    <3>. QED
      BY <1>1, <2>1, <3>1 DEF Whole, Matched, N
  <2>. QED
    BY <1>1, <2>1 DEF Matched
<1>5. ASSUME NEW c \in Open(g) PROVE Has(v, c)
  <2>1. c \in 1..N /\ h[c].kind = "action"
        /\ \A o \in 1..N : ~(h[o].kind = "observation" /\ h[o].call = c)
    BY <1>1 DEF Open
  <2>2. c \in Open(h)
    BY <2>1 DEF Open, N
  <2>. QED
    BY <2>2 DEF Whole
<1>6. ~Loops(g, Len(g))
  BY <1>1 DEF Loops
<1>7. Batched(g, v)
  <2>1. ASSUME NEW n \in 1..(N + 1), Split(g, n) PROVE Has(v, n) <=> Has(v, n - 2)
    <3>1. n \in 1..N
      BY <1>1, <2>1 DEF Split
    <3>2. Split(h, n)
      BY <1>1, <2>1, <3>1 DEF Split
    <3>. QED
      BY <3>1, <3>2 DEF Whole, Batched, N
  <2>. QED
    BY <1>1, <2>1 DEF Batched
<1>. QED
  BY <1>3, <1>4, <1>5, <1>6, <1>7 DEF Whole, g

\* w is v without its events s+1 to e, with x in their place if m is 1.
Cutout(w, v, s, e, m, x) ==
  /\ w \in Seq(Int) /\ Len(w) = (Len(v) - (e - s)) + m
  /\ \A k \in 1..s : w[k] = v[k]
  /\ m = 1 => w[s + 1] = x
  /\ \A k \in ((s + m) + 1)..Len(w) : w[k] = v[(k - m) + (e - s)]

\* Dropping a range of a view without repetitions leaves what is before and behind it.
LEMMA DropRange ==
  ASSUME NEW v \in Seq(Int), \A i, j \in 1..Len(v) : i < j => v[i] # v[j],
         NEW s \in 1..Len(v), NEW e \in (s + 1)..Len(v)
  PROVE  Cutout(Drop(v, {v[i] : i \in (s + 1)..e}), v, s, e, 0, 0)
<1>. DEFINE ids == {v[i] : i \in (s + 1)..e}
            L == Len(v)
<1>1. L \in Nat /\ s \in Nat /\ e \in Nat /\ s < e /\ e <= L /\ \A i \in 1..L : v[i] \in Int
  OBVIOUS
<1>2. PICK kept \in [0..L -> Seq(Int)] :
           /\ kept[0] = <<>>
           /\ \A i \in 1..L :
                kept[i] = IF v[i] \in ids THEN kept[i - 1] ELSE Append(kept[i - 1], v[i])
           /\ Drop(v, ids) = kept[L]
  <2>. HIDE DEF ids
  <2>. QED
    BY DropUnfold
<1>3. ASSUME NEW i \in 1..L PROVE v[i] \in ids <=> s < i /\ i <= e
  <2>1. ASSUME NEW j \in (s + 1)..e, v[i] = v[j] PROVE i = j
    <3>1. j \in 1..L
      BY <1>1
    <3>. QED
      BY <1>1, <2>1, <3>1
  <2>2. s < i /\ i <= e => i \in (s + 1)..e
    BY <1>1
  <2>3. ASSUME v[i] \in ids PROVE s < i /\ i <= e
    <3>1. PICK j \in (s + 1)..e : v[i] = v[j]
      BY <2>3
    <3>. QED
      BY <1>1, <2>1, <3>1
  <2>. QED
    BY <2>2, <2>3
<1>. HIDE DEF ids
<1>. DEFINE size(m) == IF m <= s THEN m ELSE IF m <= e THEN s ELSE m - (e - s)
            Ok(m) == /\ kept[m] \in Seq(Int) /\ Len(kept[m]) = size(m)
                     /\ \A k \in 1..size(m) : kept[m][k] = IF k <= s THEN v[k] ELSE v[k + (e - s)]
            T == {m \in 1..L : Ok(m)}
<1>4. Ok(0)
  <2>1. kept[0] \in Seq(Int) /\ Len(kept[0]) = 0 /\ size(0) = 0
    BY <1>1, <1>2
  <2>. QED
    BY <2>1
<1>5. ASSUME NEW m \in 1..L, Ok(m - 1) PROVE Ok(m)
  <2>. DEFINE u == kept[m - 1]
              w == kept[m]
  <2>1. /\ u \in Seq(Int) /\ Len(u) = size(m - 1)
        /\ \A k \in 1..size(m - 1) : u[k] = IF k <= s THEN v[k] ELSE v[k + (e - s)]
    BY <1>5
  <2>2. w = IF s < m /\ m <= e THEN u ELSE Append(u, v[m])
    BY <1>2, <1>3
  <2>. HIDE DEF u, w
  <2>3. CASE s < m /\ m <= e
    <3>1. w = u /\ size(m) = size(m - 1)
      BY <1>1, <2>2, <2>3
    <3>. QED
      BY <2>1, <3>1 DEF w
  <2>4. CASE ~(s < m /\ m <= e)
    <3>. DEFINE z == size(m - 1)
    <3>1. w = Append(u, v[m]) /\ size(m) = z + 1 /\ z \in Nat
      BY <1>1, <2>2, <2>4
    <3>2. v[m] = IF z + 1 <= s THEN v[z + 1] ELSE v[(z + 1) + (e - s)]
      <4>1. CASE m <= s
        BY <1>1, <4>1
      <4>2. CASE m > e
        <5>1. z = (m - 1) - (e - s)
          BY <1>1, <4>2
        <5>2. z + 1 > s /\ (z + 1) + (e - s) = m
          <6>. HIDE DEF z
          <6>. QED
            BY <1>1, <4>2, <5>1
        <5>. HIDE DEF z
        <5>. QED
          BY <1>1, <3>1, <5>2
      <4>. QED
        BY <1>1, <2>4, <4>1, <4>2
    <3>3. Len(u) = z
      BY <2>1
    <3>4. \A k \in 1..z : u[k] = IF k <= s THEN v[k] ELSE v[k + (e - s)]
      BY <2>1
    <3>. HIDE DEF z
    <3>5. w \in Seq(Int) /\ Len(w) = z + 1 /\ w[z + 1] = v[m] /\ \A k \in 1..z : w[k] = u[k]
      <4>1. w = Append(u, v[m]) /\ u \in Seq(Int) /\ v[m] \in Int
        BY <1>1, <2>1, <3>1
      <4>. QED
        BY SMTT(40), <3>3, <4>1
    <3>6. ASSUME NEW k \in 1..(z + 1) PROVE w[k] = IF k <= s THEN v[k] ELSE v[k + (e - s)]
      <4>1. CASE k \in 1..z
        BY <3>4, <3>5, <4>1
      <4>2. CASE k = z + 1
        BY <3>2, <3>5, <4>2
      <4>3. z \in Nat
        BY <3>1
      <4>. QED
        BY SMTT(40), <4>1, <4>2, <4>3
    <3>. HIDE DEF size
    <3>. QED
      BY <3>1, <3>5, <3>6 DEF w
  <2>. QED
    BY <2>3, <2>4
<1>6. ASSUME NEW m \in 1..L, \A k \in 1..(m - 1) : k \in T PROVE m \in T
  <2>. HIDE DEF Ok
  <2>1. Ok(m - 1)
    <3>1. CASE m = 1
      BY <1>4, <3>1
    <3>2. CASE m # 1
      <4>1. m - 1 \in 1..(m - 1)
        BY <1>1, <3>2
      <4>. QED
        BY <1>6, <4>1
    <3>. QED
      BY <3>1, <3>2
  <2>. QED
    BY <1>5, <2>1
<1>7. \A m \in 1..L : m \in T
  <2>. HIDE DEF T
  <2>. QED
    BY <1>1, <1>6, Induction
<1>8. Ok(L)
  <2>. HIDE DEF Ok
  <2>. QED
    BY <1>1, <1>7
<1>. DEFINE w == kept[L]
<1>9. size(L) = L - (e - s)
  <2>1. CASE L = e
    BY <1>1, <2>1
  <2>2. CASE L > e
    BY <1>1, <2>2
  <2>. QED
    BY <1>1, <2>1, <2>2
<1>10. /\ w \in Seq(Int) /\ Len(w) = L - (e - s)
       /\ \A k \in 1..(L - (e - s)) : w[k] = IF k <= s THEN v[k] ELSE v[k + (e - s)]
  BY <1>8, <1>9
<1>. HIDE DEF w
<1>11. /\ \A k \in 1..s : w[k] = v[k]
       /\ \A k \in ((s + 0) + 1)..Len(w) : w[k] = v[(k - 0) + (e - s)]
  <2>1. ASSUME NEW k \in 1..s PROVE w[k] = v[k]
    <3>1. k \in 1..(L - (e - s)) /\ k <= s
      BY <1>1
    <3>. QED
      BY <1>10, <3>1
  <2>2. ASSUME NEW k \in ((s + 0) + 1)..Len(w) PROVE w[k] = v[(k - 0) + (e - s)]
    <3>1. k \in 1..(L - (e - s)) /\ ~(k <= s) /\ k - 0 = k
      BY <1>1, <1>10
    <3>. QED
      BY <1>10, <3>1
  <2>. QED
    BY <2>1, <2>2
<1>12. Cutout(w, v, s, e, 0, 0)
  BY <1>1, <1>10, <1>11 DEF Cutout
<1>. QED
  BY <1>2, <1>12 DEF w, ids

\* What applying a condensation leaves: the events before the cut, the summary, and
\* the events behind it.
LEMMA ApplyCut ==
  ASSUME NEW N \in Nat, NEW v, Ordered(v, N), NEW c \in ViewEvent, c.kind = "condensation",
         NEW s \in 1..Len(v), NEW e \in (s + 1)..Len(v),
         c.offset = s, c.forgotten = Between(v, s, e)
  PROVE  \E m \in {0, 1}, x \in Int : x < 0 /\ Cutout(Apply(v, N + 1, c), v, s, e, m, x)
<1>. DEFINE kept == Drop(v, c.forgotten)
            w == Apply(v, N + 1, c)
            L == Len(v)
<1>1. v \in Seq(Int) /\ L \in Nat /\ s \in Nat /\ e \in Nat /\ s < e /\ e <= L /\ s >= 1
  BY DEF Ordered
<1>2. Cutout(kept, v, s, e, 0, 0)
  <2>1. \A i, j \in 1..Len(v) : i < j => v[i] # v[j]
    BY DEF Ordered
  <2>. QED
    BY <1>1, <2>1, DropRange DEF Between
<1>3. \/ w = kept
      \/ \E p \in 0..Len(kept) : /\ p = IF c.offset > Len(kept) THEN Len(kept) ELSE c.offset
                                 /\ Inserted(w, kept, p, -(N + 1))
  <2>1. N + 1 \in Nat
    OBVIOUS
  <2>. QED
    BY <1>1, <2>1, ApplyFacts
<1>. HIDE DEF kept, w
<1>4. /\ kept \in Seq(Int) /\ Len(kept) = L - (e - s)
      /\ \A k \in 1..s : kept[k] = v[k]
      /\ \A k \in (s + 1)..Len(kept) : kept[k] = v[k + (e - s)]
  <2>1. /\ kept \in Seq(Int) /\ Len(kept) = (L - (e - s)) + 0
        /\ \A k \in 1..s : kept[k] = v[k]
        /\ \A k \in ((s + 0) + 1)..Len(kept) : kept[k] = v[(k - 0) + (e - s)]
    BY <1>2 DEF Cutout
  <2>2. Len(kept) = L - (e - s)
    BY <1>1, <2>1
  <2>3. ASSUME NEW k \in (s + 1)..Len(kept) PROVE kept[k] = v[k + (e - s)]
    <3>1. k \in ((s + 0) + 1)..Len(kept) /\ k - 0 = k
      BY <1>1, <2>2
    <3>. QED
      BY <2>1, <3>1
  <2>. QED
    BY <2>1, <2>2, <2>3
<1>5. CASE w = kept
  <2>1. Cutout(w, v, s, e, 0, -1)
    BY <1>2, <1>5 DEF Cutout
  <2>. QED
    BY <2>1 DEF w
<1>6. ASSUME NEW p \in 0..Len(kept), p = IF c.offset > Len(kept) THEN Len(kept) ELSE c.offset,
             Inserted(w, kept, p, -(N + 1))
      PROVE  Cutout(w, v, s, e, 1, -(N + 1))
  <2>1. p = s
    BY <1>1, <1>4, <1>6
  <2>2. /\ w \in Seq(Int) /\ Len(w) = Len(kept) + 1
        /\ \A k \in 1..s : w[k] = kept[k]
        /\ w[s + 1] = -(N + 1)
        /\ \A k \in (s + 2)..(Len(kept) + 1) : w[k] = kept[k - 1]
    BY <1>6, <2>1 DEF Inserted
  <2>3. ASSUME NEW k \in ((s + 1) + 1)..Len(w) PROVE w[k] = v[(k - 1) + (e - s)]
    <3>1. k \in (s + 2)..(Len(kept) + 1) /\ k - 1 \in (s + 1)..Len(kept)
      BY <1>1, <1>4, <2>2
    <3>. QED
      BY <1>4, <2>2, <3>1
  <2>4. Len(w) = (L - (e - s)) + 1
    BY <1>4, <2>2
  <2>. QED
    BY <1>4, <2>2, <2>3, <2>4 DEF Cutout
<1>7. -(N + 1) \in Int /\ -(N + 1) < 0
  OBVIOUS
<1>. QED
  BY <1>3, <1>5, <1>6, <1>7 DEF w

\* Where the events of a cut view come from.
Placed(w, v, s, e, m, x) ==
  /\ Len(w) \in Nat /\ s <= Len(w)
  /\ \A k \in 1..Len(w) :
       \/ k <= s /\ w[k] = v[k]
       \/ m = 1 /\ k = s + 1 /\ w[k] = x
       \/ \E j \in (e + 1)..Len(v) : k = (j - (e - s)) + m /\ w[k] = v[j]
  /\ \A j \in (e + 1)..Len(v) :
       (j - (e - s)) + m \in ((s + m) + 1)..Len(w) /\ w[(j - (e - s)) + m] = v[j]

\* A cut view is placed like that.
LEMMA CutoutPlaces ==
  ASSUME NEW v \in Seq(Int), NEW s \in 1..Len(v), NEW e \in (s + 1)..Len(v),
         NEW m \in {0, 1}, NEW x \in Int, NEW w, Cutout(w, v, s, e, m, x)
  PROVE  Placed(w, v, s, e, m, x)
<1>. DEFINE L == Len(v)
<1>1. L \in Nat /\ s \in Nat /\ e \in Nat /\ s < e /\ e <= L /\ s >= 1 /\ m \in Nat
  OBVIOUS
<1>2. /\ Len(w) = (L - (e - s)) + m
      /\ \A k \in 1..s : w[k] = v[k]
      /\ m = 1 => w[s + 1] = x
      /\ \A k \in ((s + m) + 1)..Len(w) : w[k] = v[(k - m) + (e - s)]
  BY DEF Cutout
<1>3. Len(w) \in Nat /\ s <= Len(w)
  BY <1>1, <1>2
<1>4. ASSUME NEW k \in 1..Len(w)
      PROVE  \/ k <= s /\ w[k] = v[k]
             \/ m = 1 /\ k = s + 1 /\ w[k] = x
             \/ \E j \in (e + 1)..L : k = (j - (e - s)) + m /\ w[k] = v[j]
  <2>1. CASE k <= s
    BY <1>1, <1>2, <1>3, <2>1
  <2>2. CASE m = 1 /\ k = s + 1
    BY <1>2, <2>2
  <2>3. CASE k > s + m
    <3>. DEFINE j == (k - m) + (e - s)
    <3>1. j \in (e + 1)..L /\ k = (j - (e - s)) + m /\ k \in ((s + m) + 1)..Len(w)
      BY <1>1, <1>2, <1>3, <2>3
    <3>2. w[k] = v[j]
      BY <1>2, <3>1
    <3>. QED
      BY <3>1, <3>2
  <2>. QED
    BY <1>1, <1>3, <2>1, <2>2, <2>3
<1>5. ASSUME NEW j \in (e + 1)..L
      PROVE  (j - (e - s)) + m \in ((s + m) + 1)..Len(w) /\ w[(j - (e - s)) + m] = v[j]
  <2>. DEFINE k == (j - (e - s)) + m
  <2>1. k \in ((s + m) + 1)..Len(w) /\ (k - m) + (e - s) = j
    BY <1>1, <1>2
  <2>. HIDE DEF k
  <2>2. w[k] = v[j]
    BY <1>2, <2>1
  <2>. QED
    BY <2>1, <2>2 DEF k
<1>. QED
  BY <1>3, <1>4, <1>5 DEF Placed

\* A cut at safe places leaves a view of whole parts, summary or not.
LEMMA WholeCut ==
  ASSUME NEW h, WellMade(h), NEW v, Ordered(v, Len(h)), Whole(h, v), Open(h) = {},
         NEW c \in ViewEvent, c.kind = "condensation", Fits(Append(h, c), Len(h) + 1),
         Cutting(h, v, c), ~CutApart(Append(h, c))
  PROVE  Whole(Append(h, c), Apply(v, Len(h) + 1, c))
<1>. DEFINE g == Append(h, c)
            N == Len(h)
            L == Len(v)
            w == Apply(v, N + 1, c)
<1>1. /\ N \in Nat /\ Len(g) = N + 1 /\ g[N + 1] = c
      /\ \A n \in 1..N : g[n] = h[n] /\ (Tied(g, n) <=> Tied(h, n))
  BY OldPart
<1>2. ~Tied(g, N + 1)
  BY NewTie
<1>3. PICK s, e : /\ s \in 1..L /\ e \in (s + 1)..L
                  /\ SafeCut(h, v, s) /\ SafeCut(h, v, e)
                  /\ c.offset = s /\ c.forgotten = Between(v, s, e)
  BY DEF Cutting
<1>4. PICK m \in {0, 1}, x \in Int : x < 0 /\ Cutout(w, v, s, e, m, x)
  <2>1. Ordered(v, N) /\ s \in 1..Len(v) /\ e \in (s + 1)..Len(v)
    BY <1>3
  <2>. HIDE DEF N, L
  <2>. QED
    BY SMTT(40), <1>1, <1>3, <2>1, ApplyCut DEF w
<1>5. v \in Seq(Int) /\ L \in Nat /\ s \in Nat /\ e \in Nat /\ s < e /\ e <= L /\ s >= 1
      /\ m \in Nat
  BY <1>3, <1>4 DEF Ordered
<1>. HIDE DEF g, w
<1>6. /\ Len(w) \in Nat /\ s <= Len(w)
      /\ \A k \in 1..Len(w) :
              \/ k <= s /\ w[k] = v[k]
              \/ m = 1 /\ k = s + 1 /\ w[k] = x
              \/ \E j \in (e + 1)..L : k = (j - (e - s)) + m /\ w[k] = v[j]
      /\ \A j \in (e + 1)..L :
              (j - (e - s)) + m \in ((s + m) + 1)..Len(w) /\ w[(j - (e - s)) + m] = v[j]
  <2>1. Placed(w, v, s, e, m, x)
    BY <1>3, <1>4, <1>5, CutoutPlaces
  <2>. QED
    BY <2>1 DEF Placed
<1>7. \A k \in 1..s : w[k] = v[k]
  BY <1>4 DEF Cutout
<1>. HIDE DEF N, L
<1>8. Glued(g, w)
  <2>1. SUFFICES ASSUME NEW n \in 1..(N + 1), Tied(g, n), NEW k \in 1..Len(w)
                 PROVE  /\ w[k] = n => k > 1 /\ w[k - 1] = n - 1
                        /\ w[k] = n - 1 => k < Len(w) /\ w[k + 1] = n
    BY <1>1, <2>1 DEF Glued
  <2>2. n \in 1..N /\ Tied(h, n) /\ n > 1
    <3>1. n \in 1..N
      BY <1>1, <1>2, <2>1
    <3>2. Tied(h, n)
      BY <1>1, <2>1, <3>1
    <3>3. n > 1
      BY <3>2 DEF Tied
    <3>. QED
      BY <3>1, <3>2, <3>3
  <2>3. \A j \in 1..L : /\ v[j] = n => j > 1 /\ v[j - 1] = n - 1
                        /\ v[j] = n - 1 => j < L /\ v[j + 1] = n
    BY <2>2 DEF Whole, Glued, N, L
  <2>4. v[s + 1] # n /\ (e < L => v[e + 1] # n)
    BY SMTT(40), <1>3, <1>5, <2>2 DEF SafeCut, N, L
  <2>5. CASE k <= s /\ w[k] = v[k]
    <3>1. k \in 1..L /\ (k > 1 => w[k - 1] = v[k - 1]) /\ (k < s => w[k + 1] = v[k + 1])
      BY <1>5, <1>6, <1>7, <2>5
    <3>2. w[k] = n - 1 => k # s
      BY <2>3, <2>4, <2>5, <3>1
    <3>. QED
      BY SMTT(40), <1>5, <1>6, <2>3, <2>5, <3>1, <3>2
  <2>6. CASE m = 1 /\ k = s + 1 /\ w[k] = x
    BY <1>1, <1>4, <2>2, <2>6
  <2>7. ASSUME NEW j \in (e + 1)..L, k = (j - (e - s)) + m, w[k] = v[j]
        PROVE  /\ w[k] = n => k > 1 /\ w[k - 1] = n - 1
               /\ w[k] = n - 1 => k < Len(w) /\ w[k + 1] = n
    <3>1. j \in 1..L /\ j - 1 \in Nat /\ k > 1
      BY SMTT(40), <1>5, <2>7
    <3>2. ASSUME w[k] = n PROVE w[k - 1] = n - 1
      <4>1. v[j - 1] = n - 1 /\ j # e + 1
        <5>1. v[j] = n
          BY <2>7, <3>2
        <5>2. v[j - 1] = n - 1
          BY <2>3, <3>1, <5>1
        <5>3. ASSUME j = e + 1 PROVE FALSE
          <6>1. e < L
            BY <1>5, <2>7, <5>3
          <6>. QED
            BY <2>4, <5>1, <5>3, <6>1
        <5>. QED
          BY <5>2, <5>3
      <4>2. j - 1 \in (e + 1)..L /\ ((j - 1) - (e - s)) + m = k - 1
        BY <1>5, <2>7, <4>1
      <4>. QED
        BY <1>6, <4>1, <4>2
    <3>3. ASSUME w[k] = n - 1 PROVE k < Len(w) /\ w[k + 1] = n
      <4>1. v[j + 1] = n /\ j < L
        BY <2>3, <2>7, <3>1, <3>3
      <4>2. j + 1 \in (e + 1)..L /\ ((j + 1) - (e - s)) + m = k + 1
        BY <1>5, <2>7, <4>1
      <4>3. k + 1 \in ((s + m) + 1)..Len(w) /\ w[k + 1] = v[j + 1]
        BY <1>6, <4>2
      <4>4. k < Len(w)
        BY <1>6, <4>3
      <4>. QED
        BY <4>1, <4>3, <4>4
    <3>. QED
      BY <3>1, <3>2, <3>3
  <2>. QED
    BY <1>6, <2>5, <2>6, <2>7
<1>9. ASSUME NEW y \in 1..N
      PROVE  Has(w, y) <=> \E j \in 1..L : v[j] = y /\ (j <= s \/ e < j)
  <2>1. ASSUME NEW k \in 1..Len(w), w[k] = y
        PROVE  \E j \in 1..L : v[j] = y /\ (j <= s \/ e < j)
    <3>1. w[k] # x
      BY <1>1, <1>4, <2>1
    <3>2. CASE k <= s /\ w[k] = v[k]
      BY <1>5, <2>1, <3>2
    <3>3. ASSUME NEW j \in (e + 1)..L, w[k] = v[j]
          PROVE  \E i \in 1..L : v[i] = y /\ (i <= s \/ e < i)
      <4>1. j \in 1..L /\ e < j
        BY <1>5
      <4>. QED
        BY <2>1, <3>3, <4>1
    <3>. QED
      BY <1>6, <3>1, <3>2, <3>3
  <2>2. ASSUME NEW j \in 1..L, v[j] = y, j <= s PROVE Has(w, y)
    <3>1. j \in 1..s /\ j \in 1..Len(w)
      BY <1>5, <1>6, <2>2
    <3>. QED
      BY <1>7, <2>2, <3>1 DEF Has
  <2>3. ASSUME NEW j \in 1..L, v[j] = y, e < j PROVE Has(w, y)
    <3>. DEFINE k == (j - (e - s)) + m
    <3>1. k \in ((s + m) + 1)..Len(w) /\ w[k] = v[j]
      <4>1. j \in (e + 1)..L
        BY <1>5, <2>3
      <4>. QED
        BY <1>6, <4>1
    <3>. HIDE DEF k
    <3>2. k \in 1..Len(w)
      BY <1>5, <1>6, <3>1
    <3>. QED
      BY <2>3, <3>1, <3>2 DEF Has
  <2>. QED
    BY <2>1, <2>2, <2>3 DEF Has
<1>10. Matched(g, w)
  <2>1. SUFFICES ASSUME NEW o \in 1..(N + 1), g[o].kind = "observation"
                 PROVE  Has(w, o) <=> Has(w, g[o].call)
    BY <1>1, <2>1 DEF Matched
  <2>2. o \in 1..N /\ g[o] = h[o] /\ h[o].kind = "observation"
    BY <1>1, <2>1
  <2>. DEFINE a == h[o].call
  <2>3. a \in 1..N /\ a < o
    <3>1. a \in 1..(o - 1)
      BY <2>2 DEF WellMade, Fits, N
    <3>. QED
      BY <1>1, <2>2, <3>1
  <2>4. Has(v, o) <=> Has(v, a)
    BY <2>2 DEF Whole, Matched, N
  <2>5. ASSUME NEW i \in 1..L, NEW j \in 1..L, v[i] = a, v[j] = o
        PROVE  i < j /\ ~(i <= s /\ s < j) /\ ~(i <= e /\ e < j)
    <3>1. i < j
      <4>1. v[i] > 0 /\ v[j] > 0 /\ v[i] < v[j]
        BY <1>1, <2>2, <2>3, <2>5
      <4>2. \A p, q \in 1..L : p < q /\ v[p] > 0 /\ v[q] > 0 => v[p] < v[q]
        BY DEF Ordered, L
      <4>3. ASSUME j < i PROVE FALSE
        <5>1. v[j] < v[i]
          BY <4>1, <4>2, <4>3
        <5>2. v[i] \in Int /\ v[j] \in Int
          BY <1>1, <2>2, <2>3, <2>5
        <5>. QED
          BY <4>1, <5>1, <5>2
      <4>4. i # j
        BY <1>1, <2>2, <2>3, <2>5
      <4>. QED
        BY <1>5, <4>3, <4>4
    <3>2. ASSUME NEW p \in 1..L, SafeCut(h, v, p), i <= p, p < j PROVE FALSE
      <4>1. i \in 1..p /\ j \in (p + 1)..L
        BY <1>5, <3>2
      <4>2. \A i1 \in 1..p, j1 \in (p + 1)..L : v[j1] = o => v[i1] # h[o].call
        BY <2>2, <3>2 DEF SafeCut, N, L
      <4>. QED
        BY <2>5, <4>1, <4>2
    <3>3. s \in 1..L /\ e \in 1..L
      BY <1>5
    <3>. QED
      BY <1>3, <3>1, <3>2, <3>3
  <2>. HIDE DEF a
  <2>6. ASSUME Has(w, o) PROVE Has(w, a)
    <3>1. PICK j \in 1..L : v[j] = o /\ (j <= s \/ e < j)
      BY <1>9, <2>2, <2>6
    <3>2. PICK i \in 1..L : v[i] = a
      BY <2>4, <3>1 DEF Has, L
    <3>3. i <= s \/ e < i
      BY <1>5, <2>5, <3>1, <3>2
    <3>. QED
      BY <1>9, <2>3, <3>2, <3>3
  <2>7. ASSUME Has(w, a) PROVE Has(w, o)
    <3>1. PICK i \in 1..L : v[i] = a /\ (i <= s \/ e < i)
      BY <1>9, <2>3, <2>7
    <3>2. PICK j \in 1..L : v[j] = o
      BY <2>4, <3>1 DEF Has, L
    <3>3. j <= s \/ e < j
      BY <1>5, <2>5, <3>1, <3>2
    <3>. QED
      BY <1>9, <2>2, <3>2, <3>3
  <2>. QED
    BY <2>2, <2>6, <2>7 DEF a
<1>11. Open(g) = {}
  <2>1. ASSUME NEW a \in Open(g) PROVE FALSE
    <3>1. a \in 1..N /\ h[a].kind = "action"
          /\ \A o \in 1..N : ~(h[o].kind = "observation" /\ h[o].call = a)
      BY <1>1 DEF Open
    <3>. QED
      BY <3>1 DEF Open, N
  <2>. QED
    BY <2>1
<1>12. ~Loops(g, Len(g))
  BY <1>1 DEF Loops
<1>13. ASSUME NEW y \in 1..N PROVE Has(w, y) <=> Has(v, y) /\ y \notin c.forgotten
  <2>1. \A j, k \in 1..L : j < k => v[j] # v[k]
    BY DEF Ordered, L
  <2>2. \A j, k \in 1..L : v[j] = v[k] => j = k
    BY <1>5, <2>1
  <2>3. ASSUME NEW j \in 1..L, v[j] = y, j <= s \/ e < j PROVE y \notin c.forgotten
    <3>1. SUFFICES ASSUME NEW k \in (s + 1)..e, v[k] = y PROVE FALSE
      BY <1>3, <3>1 DEF Between
    <3>2. k \in 1..L /\ k # j
      BY <1>5, <2>3
    <3>. QED
      BY <2>2, <2>3, <3>1, <3>2
  <2>4. ASSUME NEW j \in 1..L, v[j] = y, y \notin c.forgotten PROVE j <= s \/ e < j
    <3>1. ASSUME s < j, j <= e PROVE FALSE
      <4>1. j \in (s + 1)..e
        BY <1>5, <3>1
      <4>. QED
        BY <1>3, <2>4, <4>1 DEF Between
    <3>. QED
      BY <1>5, <3>1
  <2>5. Has(v, y) <=> \E j \in 1..L : v[j] = y
    BY DEF Has, L
  <2>. QED
    BY <1>9, <2>3, <2>4, <2>5
<1>14. Batched(g, w)
  <2>1. SUFFICES ASSUME NEW n \in 1..(N + 1), Split(g, n) PROVE Has(w, n) <=> Has(w, n - 2)
    BY <1>1, <2>1 DEF Batched
  <2>2. n \in 1..N /\ n > 2
    BY <1>1, <2>1 DEF Split
  <2>3. n - 2 \in 1..N /\ n - 1 \in 1..N /\ n - 1 \in (n - 2)..n /\ n - 2 # n
    BY <1>1, <2>2
  <2>4. g[n] = h[n] /\ g[n - 1] = h[n - 1] /\ g[n - 2] = h[n - 2]
    BY <1>1, <2>2, <2>3
  <2>5. Split(h, n) /\ h[n].kind = "action" /\ h[n].batch = n - 2
    BY <2>1, <2>4 DEF Split
  <2>6. h[n - 2].kind = "action" /\ h[n - 2].batch = n - 2 /\ h[n - 1].kind = "observation"
    <3>1. Fits(h, n)
      BY <2>2 DEF WellMade, N
    <3>2. n - 2 # n - 1 /\ n - 2 # n
      BY <1>1, <2>2
    <3>. QED
      BY <2>5, <3>1, <3>2 DEF Fits
  <2>7. Has(v, n) <=> Has(v, n - 2)
    BY <2>2, <2>5 DEF Whole, Batched, N
  <2>8. n \in c.forgotten <=> n - 2 \in c.forgotten
    <3>1. SUFFICES ASSUME ~(n - 2 \in c.forgotten <=> n \in c.forgotten) PROVE FALSE
      OBVIOUS
    <3>2. N + 1 \in 1..Len(g) /\ n \in 1..Len(g) /\ n - 2 \in 1..Len(g)
      BY <1>1, <2>2, <2>3
    <3>3. /\ g[N + 1].kind = "condensation" /\ g[n - 2].kind = "action" /\ g[n].kind = "action"
          /\ g[n - 2].batch = g[n].batch /\ g[n - 1].kind = "observation"
          /\ ~(n - 2 \in g[N + 1].forgotten <=> n \in g[N + 1].forgotten)
      BY <1>1, <2>4, <2>5, <2>6, <3>1
    <3>4. CutApart(g)
      BY <2>3, <3>2, <3>3 DEF CutApart
    <3>. QED
      BY <3>4 DEF g
  <2>. QED
    BY <1>13, <2>2, <2>3, <2>7, <2>8
<1>15. Whole(g, w)
  BY <1>8, <1>10, <1>11, <1>12, <1>14 DEF Whole
<1>. QED
  BY <1>15 DEF g, w, N

\* Events s to e are a tool loop, or its beginning.
LoopRun(h, s, e) ==
  Thinking(h, s) /\ \A i \in s..e : Loops(h, i) /\ (i > s => ~Thinking(h, i))

\* They are in the view next to each other; event m is at place p.
Aligned(v, p, m, s, e) == \A x \in s..e : p + (x - m) \in 1..Len(v) /\ v[p + (x - m)] = x

\* A view that has one event of a tool loop has all of them, next to each other.
LEMMA RunInView ==
  ASSUME NEW h, Len(h) \in Nat, NEW v, Len(v) \in Nat, Glued(h, v),
         NEW s \in 1..Len(h), NEW e \in s..Len(h), LoopRun(h, s, e),
         NEW p \in 1..Len(v), NEW m \in s..e, v[p] = m
  PROVE  Aligned(v, p, m, s, e)
<1>. DEFINE N == Len(h)
            L == Len(v)
            Ok(x) == p + (x - m) \in 1..L /\ v[p + (x - m)] = x
<1>1. N \in Nat /\ L \in Nat /\ s \in 1..N /\ e \in s..N /\ m \in s..e /\ p \in 1..L
  OBVIOUS
<1>2. ASSUME NEW x \in (s + 1)..e PROVE x \in 1..N /\ Tied(h, x)
  <2>1. s \in 1..(x - 1) /\ x > 1 /\ x \in 1..N /\ \A i \in s..x : i \in s..e
    BY <1>1
  <2>. QED
    BY <2>1 DEF Tied, LoopRun
<1>3. ASSUME NEW x \in (s + 1)..e, NEW i \in 1..L
      PROVE  /\ v[i] = x => i > 1 /\ v[i - 1] = x - 1
             /\ v[i] = x - 1 => i < L /\ v[i + 1] = x
  BY <1>2 DEF Glued
<1>. HIDE DEF N, L
<1>4. Ok(m)
  <2>1. p + (m - m) = p
    BY <1>1
  <2>. QED
    BY <1>1, <2>1
<1>5. ASSUME NEW x \in (s + 1)..e, Ok(x) PROVE Ok(x - 1)
  <2>. DEFINE i == p + (x - m)
  <2>1. i \in 1..L /\ v[i] = x
    BY <1>5
  <2>2. p + ((x - 1) - m) = i - 1
    BY <1>1
  <2>. HIDE DEF i
  <2>3. i > 1 /\ v[i - 1] = x - 1
    BY <1>3, <2>1
  <2>4. i - 1 \in 1..L
    BY <1>1, <2>1, <2>3
  <2>. QED
    BY <2>2, <2>3, <2>4
<1>6. ASSUME NEW x \in (s + 1)..e, Ok(x - 1) PROVE Ok(x)
  <2>. DEFINE i == p + ((x - 1) - m)
  <2>1. i \in 1..L /\ v[i] = x - 1
    BY <1>6
  <2>2. p + (x - m) = i + 1
    BY <1>1
  <2>. HIDE DEF i
  <2>3. i < L /\ v[i + 1] = x
    BY <1>3, <2>1
  <2>4. i + 1 \in 1..L
    BY <1>1, <2>1, <2>3
  <2>. QED
    BY <2>2, <2>3, <2>4
<1>. HIDE DEF Ok
<1>7. \A d \in 1..(m - s) : d \in {k \in 1..(m - s) : Ok(m - k)}
  <2>. DEFINE T == {k \in 1..(m - s) : Ok(m - k)}
  <2>1. m - s \in Nat
    BY <1>1
  <2>2. ASSUME NEW d \in 1..(m - s), \A k \in 1..(d - 1) : k \in T PROVE d \in T
    <3>1. Ok(m - (d - 1))
      <4>1. CASE d = 1
        <5>1. m - (d - 1) = m
          BY <1>1, <4>1
        <5>. QED
          BY <1>4, <5>1
      <4>2. CASE d # 1
        <5>1. d - 1 \in 1..(d - 1)
          BY <1>1, <4>2
        <5>. QED
          BY <2>2, <5>1
      <4>. QED
        BY <4>1, <4>2
    <3>2. m - (d - 1) \in (s + 1)..e /\ (m - (d - 1)) - 1 = m - d
      BY <1>1
    <3>3. Ok(m - d)
      BY <1>5, <3>1, <3>2
    <3>. QED
      BY <3>3
  <2>. HIDE DEF T
  <2>3. \A d \in 1..(m - s) : d \in T
    BY <2>1, <2>2, Induction
  <2>. QED
    BY <2>3 DEF T
<1>8. \A d \in 1..(e - m) : d \in {k \in 1..(e - m) : Ok(m + k)}
  <2>. DEFINE T == {k \in 1..(e - m) : Ok(m + k)}
  <2>1. e - m \in Nat
    BY <1>1
  <2>2. ASSUME NEW d \in 1..(e - m), \A k \in 1..(d - 1) : k \in T PROVE d \in T
    <3>1. Ok(m + (d - 1))
      <4>1. CASE d = 1
        <5>1. m + (d - 1) = m
          BY <1>1, <4>1
        <5>. QED
          BY <1>4, <5>1
      <4>2. CASE d # 1
        <5>1. d - 1 \in 1..(d - 1)
          BY <1>1, <4>2
        <5>. QED
          BY <2>2, <5>1
      <4>. QED
        BY <4>1, <4>2
    <3>2. m + d \in (s + 1)..e /\ (m + d) - 1 = m + (d - 1)
      BY <1>1
    <3>3. Ok(m + d)
      BY <1>6, <3>1, <3>2
    <3>. QED
      BY <3>3
  <2>. HIDE DEF T
  <2>3. \A d \in 1..(e - m) : d \in T
    BY <2>1, <2>2, Induction
  <2>. QED
    BY <2>3 DEF T
<1>9. ASSUME NEW x \in s..e PROVE Ok(x)
  <2>1. CASE x < m
    <3>1. m - x \in 1..(m - s) /\ m - (m - x) = x
      BY <1>1, <2>1
    <3>2. Ok(m - (m - x))
      BY <1>7, <3>1
    <3>. QED
      BY <3>1, <3>2
  <2>2. CASE x > m
    <3>1. x - m \in 1..(e - m) /\ m + (x - m) = x
      BY <1>1, <2>2
    <3>2. Ok(m + (x - m))
      BY <1>8, <3>1
    <3>. QED
      BY <3>1, <3>2
  <2>3. CASE x = m
    BY <1>4, <2>3
  <2>. QED
    BY <1>1, <2>1, <2>2, <2>3
<1>. QED
  BY <1>9 DEF Ok, L, Aligned

\* What is in a view: events of the history, unless they are summaries.
LEMMA InHistory ==
  ASSUME WellMade(history), NEW v, Ordered(v, Len(history))
  PROVE  /\ Len(history) \in Nat /\ DOMAIN history = 1..Len(history)
         /\ v \in Seq(Int) /\ Len(v) \in Nat /\ DOMAIN v = 1..Len(v) /\ v[1] = 1 /\ Len(v) > 0
         /\ \A n \in 1..Len(history) : At(n) = history[n]
         /\ \A i \in 1..Len(v) : InToolLoop(v[i]) => v[i] \in 1..Len(history)
<1>1. Len(history) \in Nat /\ DOMAIN history = 1..Len(history)
  BY LastOf DEF WellMade, ViewEvent
<1>2. v \in Seq(Int) /\ Len(v) \in Nat /\ DOMAIN v = 1..Len(v) /\ v[1] = 1 /\ Len(v) > 0
  BY DEF Ordered
<1>3. \A n \in 1..Len(history) : At(n) = history[n]
  BY <1>1 DEF At
<1>4. ASSUME NEW i \in 1..Len(v), InToolLoop(v[i]) PROVE v[i] \in 1..Len(history)
  <2>1. v[i] \in Int /\ v[i] # 0 /\ v[i] <= Len(history)
    BY <1>2 DEF Ordered
  <2>2. ~(v[i] < 0)
    BY <1>4 DEF InToolLoop, At, Plain
  <2>. QED
    BY <1>1, <2>1, <2>2
<1>. QED
  BY <1>1, <1>2, <1>3, <1>4

\* A manipulation index is a safe place to cut a view of whole parts.
LEMMA IndexIsSafe ==
  ASSUME WellMade(history), NEW v, Ordered(v, Len(history)), Whole(history, v), ~Twice(history),
         NEW p \in ManipulationIndices(v), p > 0
  PROVE  SafeCut(history, v, p)
<1>. DEFINE N == Len(history)
            L == Len(v)
<1>1. /\ N \in Nat /\ v \in Seq(Int) /\ L \in Nat
      /\ \A n \in 1..N : At(n) = history[n]
      /\ \A i \in 1..L : InToolLoop(v[i]) => v[i] \in 1..N
  BY InHistory
<1>2. p \in 1..L /\ ~BetweenCallAndResult(v, p) /\ ~InsideBatch(v, p) /\ ~InsideLoop(v, p)
  BY <1>1 DEF ManipulationIndices
<1>3. \A n \in 1..N : Fits(history, n)
  BY DEF WellMade
<1>4. ASSUME p < L, NEW n \in 1..N, Tied(history, n), v[p + 1] = n PROVE FALSE
  <2>1. v[p] = n - 1 /\ p + 1 \in 1..L /\ n > 1
    <3>1. p + 1 \in 1..L /\ (p + 1) - 1 = p
      BY <1>1, <1>2, <1>4
    <3>2. v[(p + 1) - 1] = n - 1
      BY <1>4, <3>1 DEF Whole, Glued
    <3>. QED
      BY <1>4, <3>1, <3>2 DEF Tied
  <2>2. p \in 1..(L - 1) /\ n - 1 \in 1..N
    BY <1>1, <1>2, <1>4, <2>1
  <2>3. At(v[p]) = history[n - 1] /\ At(v[p + 1]) = history[n]
    BY <1>1, <1>4, <2>1, <2>2
  <2>4. CASE history[n].kind = "action" /\ history[n].batch = n - 1
    <3>1. history[n - 1].kind = "action" /\ history[n - 1].batch = n - 1
      BY <1>3, <2>4 DEF Fits
    <3>2. InsideBatch(v, p)
      BY <2>2, <2>3, <2>4, <3>1 DEF InsideBatch, Is
    <3>. QED
      BY <1>2, <3>2
  <2>5. ASSUME NEW s \in 1..(n - 1), LoopRun(history, s, n) PROVE FALSE
    <3>1. s \in 1..N /\ n \in s..N /\ n - 1 \in s..n /\ n > s /\ s \in s..n
      BY <1>1, <2>1
    <3>2. \A x \in s..n : p + (x - (n - 1)) \in 1..L /\ v[p + (x - (n - 1))] = x
      <4>1. Glued(history, v)
        BY DEF Whole
      <4>2. v[p] = n - 1 /\ s \in 1..Len(history) /\ n \in s..Len(history) /\ p \in 1..Len(v)
        BY <1>2, <2>1, <3>1
      <4>3. Aligned(v, p, n - 1, s, n)
        <5>1. Len(history) \in Nat /\ Len(v) \in Nat
          BY <1>1
        <5>2. LoopRun(history, s, n) /\ n - 1 \in s..n
          BY <2>5, <3>1
        <5>. HIDE DEF N, L
        <5>. QED
          BY <4>1, <4>2, <5>1, <5>2, RunInView
      <4>. QED
        BY <4>3 DEF Aligned
    <3>. DEFINE q == p + (s - (n - 1))
    <3>3. q \in 1..L /\ v[q] = s
      BY <3>1, <3>2
    <3>4. q \in 1..p
      BY <1>1, <1>2, <3>1, <3>3
    <3>5. ASSUME NEW i \in q..p PROVE InToolLoop(v[i])
      <4>. DEFINE x == (i - p) + (n - 1)
      <4>1. x \in s..n /\ p + (x - (n - 1)) = i /\ x \in 1..N
        BY <1>1, <1>2, <3>1, <3>4
      <4>. HIDE DEF x
      <4>2. v[i] = x
        BY <3>2, <4>1
      <4>3. Loops(history, x) /\ At(x) = history[x]
        BY <1>1, <2>5, <4>1 DEF LoopRun
      <4>. QED
        BY <4>2, <4>3 DEF Loops, InToolLoop
    <3>. HIDE DEF q
    <3>6. Thinks(v[q])
      <4>1. Thinking(history, s) /\ At(v[q]) = history[s]
        BY <1>1, <2>5, <3>1, <3>3 DEF LoopRun
      <4>. QED
        BY <4>1 DEF Thinks, Thinking, Is
    <3>7. InToolLoop(v[p + 1]) /\ ~Thinks(v[p + 1])
      <4>1. Loops(history, n) /\ ~Thinking(history, n)
        BY <2>5, <3>1 DEF LoopRun
      <4>. QED
        BY <2>3, <4>1 DEF InToolLoop, Thinks, Loops, Thinking, Is
    <3>8. InsideLoop(v, p)
      BY <2>2, <3>4, <3>5, <3>6, <3>7 DEF InsideLoop
    <3>. QED
      BY <1>2, <3>8
  <2>. QED
    BY <1>4, <2>4, <2>5 DEF Tied, LoopRun
<1>5. ASSUME NEW o \in 1..N, history[o].kind = "observation", NEW i \in 1..p, NEW j \in (p + 1)..L,
             v[j] = o, v[i] = history[o].call
      PROVE  FALSE
  <2>1. i \in 1..L /\ j \in 1..L /\ i <= p /\ p < j
    BY <1>1, <1>2
  <2>2. v[i] \in 1..N /\ history[v[i]].kind = "action"
    <3>1. history[o].call \in 1..(o - 1) /\ history[history[o].call].kind = "action"
      BY <1>3, <1>5 DEF Fits
    <3>. QED
      BY <1>1, <1>5, <3>1
  <2>3. Is(v[i], "action")
    BY <1>1, <2>2 DEF Is
  <2>4. PICK k \in (i + 1)..p : Is(v[k], "observation") /\ At(v[k]).call = v[i]
    BY <1>2, <2>3 DEF BetweenCallAndResult
  <2>5. k \in 1..L /\ k < j
    <3>. HIDE DEF L
    <3>1. k <= p /\ k >= 1 /\ k \in Int /\ p \in Int /\ p <= L
      BY <1>1, <1>2, <2>1
    <3>. QED
      BY <1>1, <2>1, <3>1
  <2>6. v[k] \in 1..N
    BY <1>1, <2>4, <2>5 DEF InToolLoop, Is
  <2>7. history[v[k]].kind = "observation" /\ history[v[k]].call = history[o].call
    BY <1>1, <1>5, <2>4, <2>6 DEF Is
  <2>8. v[k] < o
    <3>1. v[k] > 0 /\ v[j] > 0
      BY <1>1, <1>5, <2>6
    <3>. QED
      BY <1>5, <2>1, <2>5, <3>1 DEF Ordered
  <2>9. v[k] \in 1..(o - 1)
    BY <1>1, <2>6, <2>8
  <2>. QED
    BY <1>5, <2>7, <2>9 DEF Twice
<1>. QED
  BY <1>2, <1>4, <1>5 DEF SafeCut

\* So are the places of a reset: behind the system prompt, and at the end.
LEMMA ResetIsSafe ==
  ASSUME WellMade(history), NEW v, Ordered(v, Len(history)), Whole(history, v)
  PROVE  SafeCut(history, v, 1) /\ SafeCut(history, v, Len(v))
<1>. DEFINE N == Len(history)
            L == Len(v)
<1>1. N \in Nat /\ L \in Nat /\ L > 0 /\ v[1] = 1
  BY InHistory
<1>2. history[1].kind = "system" /\ \A n \in 1..N : Fits(history, n)
  BY DEF WellMade
<1>3. ASSUME 1 < L, NEW n \in 1..N, Tied(history, n), v[1 + 1] = n PROVE FALSE
  <2>1. 2 \in 1..L /\ 1 + 1 = 2 /\ 2 - 1 = 1
    BY <1>1, <1>3
  <2>2. v[1] = n - 1
    <3>1. v[2] = n
      BY <1>3, <2>1
    <3>2. v[2 - 1] = n - 1
      BY <1>3, <2>1, <3>1 DEF Whole, Glued
    <3>. QED
      BY <2>1, <3>2
  <2>3. n = 2
    BY <1>1, <2>2
  <2>4. n - 1 = 1
    BY <2>3
  <2>5. ~(history[n].kind = "action" /\ history[n].batch = n - 1)
    BY <1>2, <2>3, <2>4 DEF Fits
  <2>6. ASSUME NEW s \in 1..(n - 1), Thinking(history, s) PROVE FALSE
    <3>1. s = 1
      BY <2>4
    <3>. QED
      BY <1>2, <2>6, <3>1 DEF Thinking
  <2>. QED
    BY <1>3, <2>5, <2>6 DEF Tied
<1>4. ASSUME NEW o \in 1..N, history[o].kind = "observation", v[1] = history[o].call PROVE FALSE
  BY <1>1, <1>2, <1>4 DEF Fits
<1>5. SafeCut(history, v, 1)
  <2>1. 1 \in 1..L /\ \A i \in 1..1 : i = 1
    BY <1>1
  <2>. QED
    BY <1>3, <1>4, <2>1 DEF SafeCut
<1>6. SafeCut(history, v, L)
  <2>1. L \in 1..L /\ ~(L < L) /\ \A j \in (L + 1)..L : FALSE
    BY <1>1
  <2>. QED
    BY <2>1 DEF SafeCut
<1>. QED
  BY <1>5, <1>6

\* Nothing is broken in a view of whole parts when no call is open.
LEMMA WholeIsSound ==
  ASSUME WellMade(history), NEW v, Ordered(v, Len(history)), Whole(history, v), ~Twice(history),
         Open(history) = {}
  PROVE  Sound(v)
<1>. DEFINE N == Len(history)
            L == Len(v)
<1>1. /\ N \in Nat /\ v \in Seq(Int) /\ L \in Nat /\ DOMAIN v = 1..L /\ DOMAIN history = 1..N
      /\ \A n \in 1..N : At(n) = history[n]
      /\ \A i \in 1..L : InToolLoop(v[i]) => v[i] \in 1..N
  BY InHistory
<1>2. \A n \in 1..N : Fits(history, n)
  BY DEF WellMade
<1>3. Glued(history, v) /\ Matched(history, v) /\ Batched(history, v)
  BY DEF Whole
<1>4. \A x : x \in ToSet(v) <=> \E i \in 1..L : v[i] = x
  BY <1>1 DEF ToSet
<1>. HIDE DEF N, L
<1>5. ASSUME NEW x \in ToSet(v), NEW k \in {"action", "observation"}, Is(x, k)
      PROVE  x \in 1..N /\ history[x].kind = k /\ At(x) = history[x]
  <2>1. x \in 1..N
    BY <1>1, <1>4, <1>5 DEF Is, InToolLoop
  <2>. QED
    BY <1>1, <1>5, <2>1 DEF Is
<1>6. DuplicateObservations(v) = {}
  <2>1. ASSUME NEW j \in 1..L, Is(v[j], "observation"), NEW k \in 1..(j - 1),
               Is(v[k], "observation"), At(v[k]).call = At(v[j]).call
        PROVE  FALSE
    <3>1. k \in 1..L /\ k < j /\ v[j] \in ToSet(v) /\ v[k] \in ToSet(v)
      <4>1. k \in 1..L /\ k < j
        BY <1>1
      <4>. QED
        BY <1>4, <4>1
    <3>2. /\ v[j] \in 1..N /\ history[v[j]].kind = "observation"
          /\ v[k] \in 1..N /\ history[v[k]].kind = "observation"
          /\ history[v[k]].call = history[v[j]].call
      BY <1>5, <2>1, <3>1
    <3>3. v[k] < v[j]
      <4>1. v[k] > 0 /\ v[j] > 0
        BY <1>1, <3>2
      <4>. QED
        BY <3>1, <4>1 DEF Ordered, L
    <3>4. v[k] \in 1..(v[j] - 1)
      BY <1>1, <3>2, <3>3
    <3>. QED
      BY <3>2, <3>4 DEF Twice, N
  <2>. QED
    BY <1>1, <2>1 DEF DuplicateObservations
<1>7. BrokenBatches(v) = {}
  <2>1. SUFFICES ASSUME NEW x \in ToSet(v), Is(x, "action")
                 PROVE  BatchIn(ToSet(v), At(x).batch) = BatchIn(DOMAIN history, At(x).batch)
    BY <2>1 DEF BrokenBatches
  <2>2. x \in 1..N /\ history[x].kind = "action" /\ At(x) = history[x]
    BY <1>5, <2>1
  <2>. DEFINE b == At(x).batch
  <2>3. ASSUME NEW y \in BatchIn(ToSet(v), b) PROVE y \in BatchIn(DOMAIN history, b)
    BY <1>1, <1>5, <2>3 DEF BatchIn
  <2>4. ASSUME NEW y \in BatchIn(DOMAIN history, b) PROVE y \in BatchIn(ToSet(v), b)
    <3>1. y \in 1..N /\ Is(y, "action") /\ At(y).batch = b
      BY <1>1, <2>4 DEF BatchIn
    <3>2. history[y].kind = "action" /\ history[y].batch = b /\ history[x].batch = b
      BY <1>1, <2>2, <3>1 DEF Is
    <3>. HIDE DEF b
    <3>3. \A n \in {x, y} : \/ b = n
                            \/ n > 1 /\ b = n - 1
                            \/ n > 2 /\ b = n - 2 /\ history[n - 1].kind = "observation"
      BY <1>2, <2>2, <3>1, <3>2 DEF Fits
    <3>4. PICK i \in 1..L : v[i] = x
      BY <1>4, <2>1
    <3>5. CASE x = y
      BY <2>1, <3>1, <3>5 DEF BatchIn
    <3>6. CASE x > 1 /\ b = x - 1 /\ y = x - 1
      <4>1. Tied(history, x)
        BY <2>2, <3>2, <3>6 DEF Tied
      <4>2. i > 1 /\ v[i - 1] = y
        BY <1>3, <2>2, <3>4, <3>6, <4>1 DEF Glued, N, L
      <4>3. i - 1 \in 1..L
        BY <1>1, <4>2
      <4>4. y \in ToSet(v)
        BY <1>4, <4>2, <4>3
      <4>. QED
        BY <3>1, <4>4 DEF BatchIn
    <3>7. CASE y > 1 /\ b = y - 1 /\ x = y - 1
      <4>1. Tied(history, y)
        BY <3>1, <3>2, <3>7 DEF Tied
      <4>2. i < L /\ v[i + 1] = y
        BY <1>3, <3>1, <3>4, <3>7, <4>1 DEF Glued, N, L
      <4>3. i + 1 \in 1..L
        BY <1>1, <4>2
      <4>4. y \in ToSet(v)
        BY <1>4, <4>2, <4>3
      <4>. QED
        BY <3>1, <4>4 DEF BatchIn
    <3>8. ASSUME NEW n \in {x, y}, n > 2, b = n - 2 PROVE Has(v, n) <=> Has(v, n - 2)
      <4>1. Split(history, n) /\ n \in 1..N
        BY <2>2, <3>1, <3>2, <3>8 DEF Split
      <4>. QED
        BY <1>3, <4>1 DEF Batched, N
    <3>9. Has(v, x) /\ (Has(v, y) => y \in BatchIn(ToSet(v), b))
      BY <1>4, <2>1, <3>1, <3>4 DEF Has, L, BatchIn
    <3>10. CASE x > 2 /\ b = x - 2 /\ y = x - 2
      BY <3>8, <3>9, <3>10
    <3>11. CASE y > 2 /\ b = y - 2 /\ x = y - 2
      BY <3>8, <3>9, <3>11
    <3>12. CASE x > 2 /\ y > 1 /\ b = x - 2 /\ b = y - 1 /\ history[x - 1].kind = "observation"
      <4>1. x - 1 = y
        BY <1>1, <2>2, <3>1, <3>12
      <4>. QED
        BY <3>2, <3>12, <4>1
    <3>13. CASE y > 2 /\ x > 1 /\ b = y - 2 /\ b = x - 1 /\ history[y - 1].kind = "observation"
      <4>1. y - 1 = x
        BY <1>1, <2>2, <3>1, <3>13
      <4>. QED
        BY <2>2, <3>13, <4>1
    <3>. QED
      BY <1>1, <2>2, <3>1, <3>3, <3>5, <3>6, <3>7, <3>10, <3>11, <3>12, <3>13
  <2>. QED
    BY <2>3, <2>4
<1>8. Unmatched(v) = {}
  <2>0. \A x : Has(v, x) <=> x \in ToSet(v)
    BY <1>4 DEF Has, L
  <2>. DEFINE actions == {id \in ToSet(v) : Is(id, "action")}
              observed == {At(id).call : id \in {x \in ToSet(v) : Is(x, "observation")}}
  <2>1. ASSUME NEW x \in ToSet(v), Is(x, "action") PROVE x \in observed
    <3>1. x \in 1..N /\ history[x].kind = "action"
      BY <1>5, <2>1
    <3>2. PICK o \in 1..N : history[o].kind = "observation" /\ history[o].call = x
      <4>1. x \notin Open(history)
        OBVIOUS
      <4>. QED
        BY <3>1, <4>1 DEF Open, N
    <3>3. o \in ToSet(v)
      BY <1>3, <2>0, <2>1, <3>2 DEF Matched, N
    <3>4. Is(o, "observation") /\ At(o).call = x
      BY <1>1, <3>2 DEF Is
    <3>. QED
      BY <3>3, <3>4
  <2>2. ASSUME NEW x \in ToSet(v), Is(x, "observation") PROVE At(x).call \in actions
    <3>1. x \in 1..N /\ history[x].kind = "observation" /\ At(x) = history[x]
      BY <1>5, <2>2
    <3>. DEFINE a == history[x].call
    <3>2. a \in 1..N /\ history[a].kind = "action"
      <4>1. a \in 1..(x - 1) /\ history[a].kind = "action"
        BY <1>2, <3>1 DEF Fits
      <4>. QED
        BY <1>1, <3>1, <4>1
    <3>3. a \in ToSet(v)
      BY <1>3, <2>0, <3>1 DEF Matched, N
    <3>. HIDE DEF a
    <3>4. Is(a, "action")
      BY <1>1, <3>2 DEF Is
    <3>. QED
      BY <3>1, <3>3, <3>4 DEF a
  <2>3. Unmatched(v) = (actions \ observed)
           \cup {id \in ToSet(v) : Is(id, "observation") /\ At(id).call \notin actions}
    BY DEF Unmatched
  <2>4. actions \ observed = {}
    <3>. HIDE DEF observed
    <3>. QED
      BY <2>1
  <2>. HIDE DEF actions, observed
  <2>. QED
    BY <2>2, <2>3, <2>4
<1>9. BrokenLoops(v) = {}
  <2>1. SUFFICES ASSUME NEW x \in ToSet(v), NEW s \in 1..N, Thinks(s), x \in LoopFrom(s),
                        NEW e \in LoopFrom(s)
                 PROVE  e \in ToSet(v)
    BY <1>1, <2>1 DEF BrokenLoops
  <2>2. ASSUME NEW y \in LoopFrom(s) PROVE y \in s..N /\ y \in 1..N /\ LoopRun(history, s, y)
    <3>1. y \in s..N /\ \A i \in s..y : InToolLoop(i) /\ (i > s => ~Thinks(i))
      BY DEF LoopFrom, N
    <3>2. \A i \in s..y : i \in 1..N /\ At(i) = history[i]
      BY <1>1, <3>1
    <3>3. y \in 1..N /\ At(s) = history[s]
      BY <1>1, <3>1
    <3>. QED
      BY <2>1, <3>1, <3>2, <3>3
      DEF LoopRun, Loops, Thinking, InToolLoop, Thinks, Is
  <2>3. PICK i \in 1..L : v[i] = x
    BY <1>4
  <2>4. ASSUME NEW y \in 1..N, y \in s..N, LoopRun(history, s, y), x \in s..y, e \in s..y
        PROVE  e \in ToSet(v)
    <3>1. i + (e - x) \in 1..L /\ v[i + (e - x)] = e
      <4>1. Len(history) \in Nat /\ Len(v) \in Nat /\ s \in 1..Len(history) /\ y \in s..Len(history)
            /\ i \in 1..Len(v)
        BY <1>1, <2>3, <2>4 DEF N, L
      <4>2. Aligned(v, i, x, s, y)
        BY <1>3, <2>3, <2>4, <4>1, RunInView
      <4>. QED
        BY <2>4, <4>2 DEF L, Aligned
    <3>. QED
      BY <1>4, <3>1
  <2>5. x \in s..N /\ e \in s..N
    BY <2>1, <2>2
  <2>6. CASE x <= e
    <3>1. x \in s..e /\ e \in s..e
      BY <1>1, <2>5, <2>6
    <3>. QED
      BY <2>2, <2>4, <3>1
  <2>7. CASE e <= x
    <3>1. x \in s..x /\ e \in s..x
      BY <1>1, <2>5, <2>7
    <3>. QED
      BY <2>1, <2>2, <2>4, <3>1
  <2>. QED
    BY <1>1, <2>5, <2>6, <2>7
<1>. QED
  BY <1>6, <1>7, <1>8, <1>9 DEF Sound

\* A place stays safe when a message or an event that the view skips is recorded.
LEMMA SafeCutGrows ==
  ASSUME NEW h, WellMade(h), NEW v, Ordered(v, Len(h)), NEW p, SafeCut(h, v, p),
         NEW e \in ViewEvent, e.kind \notin {"action", "observation"},
         Fits(Append(h, e), Len(h) + 1), NEW w, w = v \/ w = Append(v, Len(h) + 1)
  PROVE  SafeCut(Append(h, e), w, p)
<1>. DEFINE g == Append(h, e)
            N == Len(h)
            L == Len(v)
<1>1. /\ N \in Nat /\ Len(g) = N + 1 /\ g[N + 1] = e
      /\ \A n \in 1..N : g[n] = h[n] /\ (Tied(g, n) <=> Tied(h, n))
  BY OldPart
<1>2. ~Tied(g, N + 1)
  BY NewTie
<1>3. v \in Seq(Int) /\ L \in Nat
  BY DEF Ordered
<1>4. /\ Len(w) \in {L, L + 1} /\ \A i \in 1..L : w[i] = v[i]
      /\ Len(w) = L + 1 => w[L + 1] = N + 1
  <2>1. CASE w = v
    BY <1>3, <2>1
  <2>2. CASE w = Append(v, N + 1)
    BY <1>1, <1>3, <2>2
  <2>. QED
    BY <2>1, <2>2
<1>5. /\ p \in 1..L
      /\ p < L => \A n \in 1..N : Tied(h, n) => v[p + 1] # n
      /\ \A o \in 1..N : h[o].kind = "observation" =>
           \A i \in 1..p, j \in (p + 1)..L : v[j] = o => v[i] # h[o].call
  BY DEF SafeCut
<1>. HIDE DEF g, N, L
<1>6. ASSUME p < Len(w), NEW n \in 1..(N + 1), Tied(g, n), w[p + 1] = n PROVE FALSE
  <2>1. n \in 1..N
    BY <1>1, <1>2, <1>6
  <2>2. Tied(h, n)
    BY <1>1, <1>6, <2>1
  <2>3. CASE p < L
    <3>1. p + 1 \in 1..L
      BY <1>3, <1>5, <2>3
    <3>. QED
      BY <1>4, <1>5, <1>6, <2>1, <2>2, <2>3, <3>1
  <2>4. CASE ~(p < L)
    <3>1. p = L /\ Len(w) = L + 1
      BY <1>3, <1>4, <1>5, <1>6, <2>4
    <3>. QED
      BY <1>1, <1>4, <1>6, <2>1, <3>1
  <2>. QED
    BY <2>3, <2>4
<1>7. ASSUME NEW o \in 1..(N + 1), g[o].kind = "observation",
             NEW i \in 1..p, NEW j \in (p + 1)..Len(w), w[j] = o
      PROVE  w[i] # g[o].call
  <2>1. o \in 1..N
    BY <1>1, <1>7
  <2>2. g[o] = h[o] /\ i \in 1..L /\ w[i] = v[i]
    <3>1. i \in 1..L
      BY <1>3, <1>5
    <3>. QED
      BY <1>1, <1>4, <2>1, <3>1
  <2>3. j \in (p + 1)..L
    <3>1. j # L + 1
      BY <1>1, <1>3, <1>4, <1>7, <2>1
    <3>. QED
      BY <1>3, <1>4, <1>5, <3>1
  <2>4. w[j] = v[j]
    <3>1. j \in 1..L
      BY <1>3, <1>5, <2>3
    <3>. QED
      BY <1>4, <3>1
  <2>. QED
    BY <1>5, <1>7, <2>1, <2>2, <2>3, <2>4
<1>8. p \in 1..Len(w)
  BY <1>3, <1>4, <1>5
<1>9. SafeCut(g, w, p)
  BY <1>1, <1>6, <1>7, <1>8 DEF SafeCut
<1>. QED
  BY <1>9 DEF g

\* So a condensation whose summary is being written still cuts at safe places.
LEMMA CuttingGrows ==
  ASSUME NEW h, WellMade(h), NEW v, Ordered(v, Len(h)), NEW c, Cutting(h, v, c),
         NEW e \in ViewEvent, e.kind \notin {"action", "observation"},
         Fits(Append(h, e), Len(h) + 1), NEW w, w = v \/ w = Append(v, Len(h) + 1)
  PROVE  Cutting(Append(h, e), w, c)
<1>. DEFINE g == Append(h, e)
<1>1. PICK s, f : /\ s \in 1..Len(v) /\ f \in (s + 1)..Len(v)
                  /\ SafeCut(h, v, s) /\ SafeCut(h, v, f)
                  /\ c.offset = s /\ c.forgotten = Between(v, s, f)
  BY DEF Cutting
<1>2. SafeCut(g, w, s) /\ SafeCut(g, w, f)
  BY <1>1, SafeCutGrows
<1>3. v \in Seq(Int) /\ Len(v) \in Nat /\ Len(h) \in Nat
  BY OldPart DEF Ordered
<1>4. Len(w) \in {Len(v), Len(v) + 1} /\ \A i \in 1..Len(v) : w[i] = v[i]
  BY SMTT(40), <1>3
<1>. HIDE DEF g
<1>5. s \in 1..Len(w) /\ f \in (s + 1)..Len(w)
  BY <1>1, <1>3, <1>4
<1>6. Between(w, s, f) = Between(v, s, f)
  <2>1. \A i \in (s + 1)..f : i \in 1..Len(v)
    BY <1>1, <1>3
  <2>2. \A i \in (s + 1)..f : w[i] = v[i]
    BY <1>4, <2>1
  <2>. QED
    BY <2>2 DEF Between
<1>7. Cutting(g, w, c)
  BY <1>1, <1>2, <1>5, <1>6 DEF Cutting
<1>. QED
  BY <1>7 DEF g

\* A call that has two results keeps them, and a late result is a second one.
LEMMA TwiceGrows ==
  ASSUME NEW h, WellMade(h), NEW e \in ViewEvent
  PROVE  /\ Clean(Append(h, e)) => Clean(h)
         /\ e.kind = "observation" /\ e.call \in 1..Len(h) /\ h[e.call].kind = "action"
              /\ e.call \notin Open(h) => Twice(Append(h, e))
         /\ e.kind \notin {"action", "observation"} => Open(Append(h, e)) = Open(h)
<1>. DEFINE g == Append(h, e)
            N == Len(h)
<1>1. N \in Nat /\ Len(g) = N + 1 /\ g[N + 1] = e /\ \A n \in 1..N : g[n] = h[n]
  BY OldPart
<1>. HIDE DEF g, N
<1>2. ASSUME Twice(h) PROVE Twice(g)
  <2>1. PICK j \in 1..N : \E k \in 1..(j - 1) :
              h[j].kind = "observation" /\ h[k].kind = "observation" /\ h[k].call = h[j].call
    BY <1>2 DEF Twice, N
  <2>2. PICK k \in 1..(j - 1) :
              h[j].kind = "observation" /\ h[k].kind = "observation" /\ h[k].call = h[j].call
    BY <2>1
  <2>3. k \in 1..N /\ j \in 1..Len(g)
    BY <1>1
  <2>4. g[j] = h[j] /\ g[k] = h[k]
    BY <1>1, <2>3
  <2>. QED
    BY <2>2, <2>3, <2>4 DEF Twice
<1>3. ASSUME e.kind = "observation", e.call \in 1..N, h[e.call].kind = "action",
             e.call \notin Open(h)
      PROVE  Twice(g)
  <2>1. PICK o \in 1..N : h[o].kind = "observation" /\ h[o].call = e.call
    BY <1>3 DEF Open, N
  <2>2. o \in 1..((N + 1) - 1) /\ N + 1 \in 1..Len(g)
    BY <1>1
  <2>3. g[o] = h[o] /\ g[N + 1] = e
    BY <1>1
  <2>. QED
    BY <1>3, <2>1, <2>2, <2>3 DEF Twice
<1>4. ASSUME e.kind \notin {"action", "observation"} PROVE Open(g) = Open(h)
  <2>1. ASSUME NEW c \in Open(g) PROVE c \in Open(h)
    <3>1. c \in 1..(N + 1) /\ g[c].kind = "action"
          /\ \A o \in 1..(N + 1) : ~(g[o].kind = "observation" /\ g[o].call = c)
      BY <1>1 DEF Open
    <3>2. c \in 1..N
      BY <1>1, <1>4, <3>1
    <3>3. h[c].kind = "action" /\ \A o \in 1..N : ~(h[o].kind = "observation" /\ h[o].call = c)
      BY <1>1, <3>1, <3>2
    <3>. QED
      BY <3>2, <3>3 DEF Open, N
  <2>2. ASSUME NEW c \in Open(h) PROVE c \in Open(g)
    <3>1. c \in 1..N /\ h[c].kind = "action"
          /\ \A o \in 1..N : ~(h[o].kind = "observation" /\ h[o].call = c)
      BY DEF Open, N
    <3>2. c \in 1..(N + 1) /\ g[c].kind = "action"
      BY <1>1, <3>1
    <3>3. ASSUME NEW o \in 1..(N + 1), g[o].kind = "observation", g[o].call = c PROVE FALSE
      <4>1. o \in 1..N
        BY <1>1, <1>4, <3>3
      <4>. QED
        BY <1>1, <3>1, <3>3, <4>1
    <3>. QED
      BY <1>1, <3>2, <3>3 DEF Open
  <2>. QED
    BY <2>1, <2>2
<1>5. ASSUME CutApart(h) PROVE CutApart(g)
  <2>1. PICK m, a, c \in 1..N :
           /\ h[m].kind = "condensation" /\ h[a].kind = "action" /\ h[c].kind = "action"
           /\ h[a].batch = h[c].batch /\ \E o \in a..c : h[o].kind = "observation"
           /\ ~(a \in h[m].forgotten <=> c \in h[m].forgotten)
    BY <1>5 DEF CutApart, N
  <2>2. PICK o \in a..c : h[o].kind = "observation"
    BY <2>1
  <2>3. o \in 1..N
    BY <1>1
  <2>4. g[m] = h[m] /\ g[a] = h[a] /\ g[c] = h[c] /\ g[o] = h[o]
    BY <1>1, <2>3
  <2>5. m \in 1..Len(g) /\ a \in 1..Len(g) /\ c \in 1..Len(g)
    BY <1>1
  <2>6. /\ g[m].kind = "condensation" /\ g[a].kind = "action" /\ g[c].kind = "action"
        /\ g[a].batch = g[c].batch /\ \E k \in a..c : g[k].kind = "observation"
        /\ ~(a \in g[m].forgotten <=> c \in g[m].forgotten)
    BY <2>1, <2>2, <2>4
  <2>. QED
    BY <2>5, <2>6 DEF CutApart
<1>. QED
  BY <1>2, <1>3, <1>4, <1>5 DEF g, N, Clean

\* The same for the variables of the specification.
LEMMA OpenAndTwice ==
  ASSUME WellMade(history)
  PROVE  Pending = Open(history) /\ (Twice(history) => Doubled) /\ (CutApart(history) => CutAtError)
<1>. DEFINE N == Len(history)
            ids == [i \in DOMAIN history |-> i]
<1>1. N \in Nat /\ DOMAIN history = 1..N
  BY LastOf DEF WellMade, ViewEvent
<1>2. \A n \in 1..N : At(n) = history[n]
  BY <1>1 DEF At
<1>3. Pending = Open(history)
  BY <1>1, <1>2 DEF Pending, Open, Is
<1>4. ASSUME Twice(history) PROVE Doubled
  <2>1. PICK j \in 1..N : \E k \in 1..(j - 1) :
          /\ history[j].kind = "observation" /\ history[k].kind = "observation"
          /\ history[k].call = history[j].call
    BY <1>4 DEF Twice
  <2>2. PICK k \in 1..(j - 1) :
          /\ history[j].kind = "observation" /\ history[k].kind = "observation"
          /\ history[k].call = history[j].call
    BY <2>1
  <2>3. k \in 1..N
    BY <1>1
  <2>4. ids[j] = j /\ ids[k] = k /\ DOMAIN ids = 1..N
    BY <1>1, <2>3
  <2>. HIDE DEF ids
  <2>5. /\ Is(ids[j], "observation") /\ Is(ids[k], "observation")
        /\ At(ids[k]).call = At(ids[j]).call
    BY <1>2, <2>2, <2>3, <2>4 DEF Is
  <2>6. ids[j] \in DuplicateObservations(ids)
    BY <2>4, <2>5 DEF DuplicateObservations
  <2>. QED
    BY <2>6 DEF Doubled, ids
<1>5. ASSUME CutApart(history) PROVE CutAtError
  <2>1. PICK m, a, c \in 1..N :
           /\ history[m].kind = "condensation"
           /\ history[a].kind = "action" /\ history[c].kind = "action"
           /\ history[a].batch = history[c].batch
           /\ \E o \in a..c : history[o].kind = "observation"
           /\ ~(a \in history[m].forgotten <=> c \in history[m].forgotten)
    BY <1>5 DEF CutApart
  <2>2. PICK o \in a..c : history[o].kind = "observation"
    BY <2>1
  <2>3. o \in 1..N
    BY <1>1
  <2>4. At(m) = history[m] /\ At(a) = history[a] /\ At(c) = history[c] /\ At(o) = history[o]
    BY <1>2, <2>3
  <2>5. /\ Is(m, "condensation") /\ Is(a, "action") /\ Is(c, "action")
        /\ At(a).batch = At(c).batch /\ \E k \in a..c : Is(k, "observation")
        /\ (a \in At(m).forgotten) # (c \in At(m).forgotten)
    BY <2>1, <2>2, <2>4 DEF Is
  <2>. QED
    BY <1>1, <2>5 DEF CutAtError
<1>. QED
  BY <1>3, <1>4, <1>5

\* Unless a call was answered twice or a batch was cut at an error, the cached view is
\* the built one and of whole parts, and a condensation whose summary is being written
\* cuts it at safe places.
WholeInv ==
  Clean(history) =>
    /\ view = Built /\ Whole(history, view)
    /\ summing # None => Open(history) = {} /\ Cutting(history, view, summing)

\* WholeInv holds of a new conversation.
LEMMA WholeInit == ViewInit => WholeInv
<1>. SUFFICES ASSUME ViewInit PROVE WholeInv
  OBVIOUS
<1>1. view = Built
  BY OrderInit
<1>2. Len(history) = 1 /\ history[1].kind = "system" /\ summing = None
  BY DEF ViewInit, Plain
<1>3. \A n \in 1..1 : n = 1
  OBVIOUS
<1>4. ~Tied(history, 1)
  BY DEF Tied
<1>5. Glued(history, view)
  BY <1>2, <1>3, <1>4 DEF Glued
<1>6. Matched(history, view)
  BY <1>2, <1>3 DEF Matched
<1>7. Open(history) = {}
  BY <1>2, <1>3 DEF Open
<1>8. ~Loops(history, Len(history))
  BY <1>2 DEF Loops
<1>9. Batched(history, view)
  BY <1>2, <1>3 DEF Batched, Split
<1>. QED
  BY <1>1, <1>2, <1>5, <1>6, <1>7, <1>8, <1>9 DEF WholeInv, Whole

\* What WholeInv says of the view, after some events have been recorded.
KeptAfter(es) ==
  Clean(HistoryAfter(es)) =>
    ViewAfter(es) = BuiltAfter(es) /\ Whole(HistoryAfter(es), ViewAfter(es))

\* It goes on with every action, and with every result of an open call.
LEMMA KeptGrows ==
  ASSUME history \in Seq(ViewEvent), view \in Seq(Int), NEW es, InOrderAfter(es), KeptAfter(es),
         NEW d \in ViewEvent, d.kind \in {"action", "observation"},
         Fits(Append(HistoryAfter(es), d), Len(HistoryAfter(es)) + 1),
         d.kind = "observation" => d.call \in Open(HistoryAfter(es))
  PROVE  KeptAfter(Append(es, d))
<1>. HIDE DEF ViewEvent
<1>. DEFINE h == HistoryAfter(es)
            v == ViewAfter(es)
            n == Len(h) + 1
<1>1. es \in Seq(ViewEvent) /\ WellMade(h) /\ Ordered(v, Len(h))
  BY DEF InOrderAfter, InOrderWith
<1>2. /\ HistoryAfter(Append(es, d)) = Append(h, d)
      /\ ViewAfter(Append(es, d)) = AppendTo(v, n, d)
      /\ BuiltAfter(Append(es, d)) = AppendTo(BuiltAfter(es), n, d)
  BY <1>1, RecordFacts
<1>3. AppendTo(v, n, d) = Append(v, n)
  BY AppendToCases
<1>4. Clean(h) => v = BuiltAfter(es) /\ Whole(h, v)
  BY DEF KeptAfter
<1>5. Fits(Append(h, d), Len(h) + 1) /\ (d.kind = "observation" => d.call \in Open(h))
  OBVIOUS
<1>. HIDE DEF h, v
<1>6. ASSUME Whole(h, v) PROVE Whole(Append(h, d), Append(v, n))
  BY <1>1, <1>5, <1>6, WholeAppend
<1>7. Clean(Append(h, d)) => Clean(h)
  BY <1>1, TwiceGrows
<1>. QED
  BY <1>2, <1>3, <1>4, <1>6, <1>7 DEF KeptAfter

\* So it goes on with every tool call, invalid or not.
LEMMA KeptCall ==
  ASSUME history \in Seq(ViewEvent), view \in Seq(Int), NEW es, InOrderAfter(es), KeptAfter(es),
         NEW b, NEW t, CallFits(es, b, t), NEW i \in BOOLEAN
  PROVE  KeptAfter(es \o ToolCall(Len(HistoryAfter(es)) + 1, b, t, i))
<1>. HIDE DEF ViewEvent
<1>. DEFINE n == Len(HistoryAfter(es)) + 1
            a == Append(es, Action(b, t))
            o == Observation(n)
<1>1. /\ InOrderAfter(a) /\ HistoryAfter(a) = Append(HistoryAfter(es), Action(b, t))
      /\ o \in ViewEvent /\ Fits(Append(HistoryAfter(a), o), Len(HistoryAfter(a)) + 1)
      /\ es \o ToolCall(n, b, t, FALSE) = a /\ es \o ToolCall(n, b, t, TRUE) = Append(a, o)
  <2>1. CallAdds(es, b, t)
    BY CallAfter
  <2>. QED
    BY <2>1 DEF CallAdds
<1>2. /\ Action(b, t) \in ViewEvent /\ Action(b, t).kind = "action"
      /\ Fits(Append(HistoryAfter(es), Action(b, t)), Len(HistoryAfter(es)) + 1)
      /\ o.kind = "observation" /\ o.call = n
  BY DEF CallFits, Action, Observation
<1>3. WellMade(HistoryAfter(es))
  BY DEF InOrderAfter, InOrderWith
<1>4. KeptAfter(a)
  BY <1>2, KeptGrows
<1>5. n \in Open(HistoryAfter(a))
  <2>1. /\ Len(HistoryAfter(a)) = n /\ HistoryAfter(a)[n].kind = "action" /\ n \in Nat /\ n > 0
        /\ \A m \in 1..(n - 1) : HistoryAfter(a)[m] = HistoryAfter(es)[m]
    BY <1>1, <1>2, <1>3, LastOf
  <2>2. ASSUME NEW m \in 1..n, HistoryAfter(a)[m].kind = "observation",
               HistoryAfter(a)[m].call = n
        PROVE  FALSE
    <3>1. m \in 1..(n - 1)
      BY <2>1, <2>2
    <3>2. HistoryAfter(es)[m].call \in 1..(m - 1)
      BY <1>3, <2>1, <2>2, <3>1 DEF WellMade, Fits
    <3>. QED
      BY <2>1, <2>2, <3>1, <3>2
  <2>. QED
    BY <2>1, <2>2 DEF Open
<1>. HIDE DEF a, o
<1>6. KeptAfter(Append(a, o))
  BY <1>1, <1>2, <1>4, <1>5, KeptGrows
<1>7. i = TRUE \/ i = FALSE
  OBVIOUS
<1>. QED
  BY <1>1, <1>4, <1>6, <1>7

\* Every step keeps WholeInv, when no conversation is loaded with a call pending.
LEMMA WholeStep ==
  ASSUME LoadMidCall = FALSE
  PROVE  OrderInv /\ WholeInv /\ [ViewNext]_viewVars => WholeInv'
<1>. SUFFICES ASSUME OrderInv, WholeInv, [ViewNext]_viewVars PROVE WholeInv'
  OBVIOUS
<1>. DEFINE N == Len(history)
<1>0. /\ WellMade(history) /\ Ordered(view, N) /\ Ordered(Built, N) /\ SummingOK
      /\ history \in Seq(ViewEvent) /\ view \in Seq(Int) /\ N \in Nat
  BY DEF OrderInv, WellMade, Ordered
<1>. HIDE DEF ViewEvent
<1>1. Pending = Open(history)
  BY <1>0, OpenAndTwice
<1>2. ASSUME NEW d \in ViewEvent, Record(<<d>>)
      PROVE  /\ history' = Append(history, d) /\ view' = AppendTo(view, N + 1, d)
             /\ Built' = AppendTo(Built, N + 1, d)
             /\ Clean(history') => Clean(history)
  <2>1. /\ history' = Append(history, d) /\ view' = AppendTo(view, N + 1, d)
        /\ Built' = AppendTo(Built, N + 1, d)
    BY <1>0, <1>2, RecordOne
  <2>2. Clean(Append(history, d)) => Clean(history)
    BY <1>0, TwiceGrows
  <2>. QED
    BY <2>1, <2>2
<1>3. ASSUME Clean(history') => /\ view' = Built' /\ Whole(history', view')
                                /\ summing' # None => /\ Open(history') = {}
                                                      /\ Cutting(history', view', summing')
      PROVE  WholeInv'
  BY <1>3 DEF WholeInv
<1>4. ASSUME NEW k \in {"message", "other", "request"}, Record(<<Plain(k)>>), summing' = summing
      PROVE  WholeInv'
  <2>. DEFINE d == Plain(k)
  <2>1. d \in ViewEvent /\ Fits(Append(history, d), N + 1)
    BY <1>0, EventsFit
  <2>2. d.kind = k
    BY DEF Plain
  <2>. HIDE DEF d
  <2>3. /\ history' = Append(history, d) /\ view' = AppendTo(view, N + 1, d)
        /\ Built' = AppendTo(Built, N + 1, d)
        /\ Clean(history') => Clean(history)
    BY <1>2, <1>4, <2>1 DEF d
  <2>. SUFFICES ASSUME Clean(history')
                PROVE  /\ view' = Built' /\ Whole(history', view')
                       /\ summing' # None => /\ Open(history') = {}
                                             /\ Cutting(history', view', summing')
    BY <1>3
  <2>4. /\ view = Built /\ Whole(history, view)
        /\ summing # None => Open(history) = {} /\ Cutting(history, view, summing)
    BY <2>3 DEF WholeInv
  <2>5. /\ k \in {"request", "other"} => view' = view
        /\ k = "message" => view' = Append(view, N + 1)
    BY <2>2, <2>3, AppendToCases
  <2>6. Whole(history', view')
    <3>1. CASE k = "message"
      BY <1>0, <2>1, <2>2, <2>3, <2>4, <2>5, <3>1, WholeAppend
    <3>2. CASE k \in {"request", "other"}
      BY <1>0, <2>1, <2>2, <2>3, <2>4, <2>5, <3>2, WholeSkip
    <3>. QED
      BY <3>1, <3>2
  <2>7. ASSUME summing # None PROVE Open(history') = {} /\ Cutting(history', view', summing)
    <3>1. d.kind \notin {"action", "observation"} /\ (view' = view \/ view' = Append(view, N + 1))
      BY <2>2, <2>5
    <3>2. Open(history') = Open(history)
      BY <1>0, <2>1, <2>3, <3>1, TwiceGrows
    <3>3. Cutting(history', view', summing)
      <4>1. Cutting(history, view, summing)
        BY <2>4, <2>7
      <4>. QED
        BY <1>0, <2>1, <2>3, <3>1, <4>1, CuttingGrows
    <3>. QED
      BY <2>4, <2>7, <3>2, <3>3
  <2>. QED
    BY <1>4, <2>3, <2>4, <2>6, <2>7
<1>5. ASSUME NEW t \in BOOLEAN, NEW i \in BOOLEAN, summing' = summing, summing = None,
             Record(FirstCall(t, i)) \/ \E also \in BOOLEAN : Record(BothCalls(t, i, also))
      PROVE  WholeInv'
  <2>. DEFINE none == <<>>
              first == FirstCall(t, i)
              n == N + 1
              m == Len(HistoryAfter(first)) + 1
  <2>1. /\ InOrderAfter(none) /\ CallFits(none, n, t) /\ n = Len(HistoryAfter(none)) + 1
        /\ none \o first = first
        /\ InOrderAfter(first) /\ CallFits(first, n, FALSE) /\ n + Len(first) = m
    BY ResponseFacts
  <2>2. KeptAfter(none)
    <3>1. HistoryAfter(none) = history /\ ViewAfter(none) = view /\ BuiltAfter(none) = Built
      BY <1>0, RecordFacts
    <3>. QED
      BY <3>1 DEF KeptAfter, WholeInv
  <2>3. first = none \o ToolCall(n, n, t, i)
    BY <2>1 DEF FirstCall
  <2>4. \A also \in BOOLEAN : BothCalls(t, i, also) = first \o ToolCall(m, n, FALSE, also)
    BY <2>1 DEF BothCalls
  <2>. HIDE DEF none, first, n
  <2>5. KeptAfter(first)
    <3>1. KeptAfter(none \o ToolCall(Len(HistoryAfter(none)) + 1, n, t, i))
      BY <1>0, <2>1, <2>2, KeptCall
    <3>. QED
      BY <2>1, <2>3, <3>1
  <2>6. \A also \in BOOLEAN : KeptAfter(BothCalls(t, i, also))
    <3>1. ASSUME NEW also \in BOOLEAN PROVE KeptAfter(first \o ToolCall(m, n, FALSE, also))
      BY <1>0, <2>1, <2>5, KeptCall
    <3>. QED
      BY <2>4, <3>1
  <2>7. ASSUME NEW es, KeptAfter(es), Record(es) PROVE WholeInv'
    <3>1. history' = HistoryAfter(es) /\ view' = ViewAfter(es) /\ Built' = BuiltAfter(es)
      BY <1>0, <2>7, RecordFacts
    <3>. QED
      BY <1>3, <1>5, <2>7, <3>1 DEF KeptAfter
  <2>. QED
    BY <1>5, <2>5, <2>6, <2>7 DEF first
<1>6. ASSUME NEW c \in 1..N, history[c].kind = "action", Record(<<Observation(c)>>),
             summing' = summing
      PROVE  WholeInv'
  <2>. DEFINE d == Observation(c)
  <2>1. d \in ViewEvent /\ Fits(Append(history, d), N + 1)
    BY <1>0, <1>6, EventsFit
  <2>2. d.kind = "observation" /\ d.call = c
    BY DEF Observation
  <2>. HIDE DEF d
  <2>3. /\ history' = Append(history, d) /\ view' = AppendTo(view, N + 1, d)
        /\ Built' = AppendTo(Built, N + 1, d)
        /\ Clean(history') => Clean(history)
    BY <1>2, <1>6, <2>1 DEF d
  <2>. SUFFICES ASSUME Clean(history')
                PROVE  /\ view' = Built' /\ Whole(history', view') /\ summing' = None
    BY <1>3
  <2>4. c \in Open(history)
    BY <1>0, <1>6, <2>1, <2>2, <2>3, TwiceGrows DEF Clean
  <2>5. /\ view = Built /\ Whole(history, view) /\ summing = None
    BY <2>3, <2>4 DEF WholeInv
  <2>6. view' = Append(view, N + 1)
    BY <2>2, <2>3, AppendToCases
  <2>7. Whole(history', view')
    BY <1>0, <2>1, <2>2, <2>3, <2>4, <2>5, <2>6, WholeAppend
  <2>. QED
    BY <1>6, <2>3, <2>5, <2>7
<1>7. ASSUME UNCHANGED <<history, view>>, Pending = {}, NEW s, NEW e, CutOf(summing', view, s, e)
      PROVE  WholeInv'
  <2>. SUFFICES ASSUME Clean(history)
                PROVE  /\ view = Built /\ Whole(history, view)
                       /\ Open(history) = {} /\ Cutting(history, view, summing')
    BY <1>3, <1>7 DEF Built
  <2>1. view = Built /\ Whole(history, view)
    BY DEF WholeInv
  <2>2. /\ summing'.offset = s /\ summing'.forgotten = Between(view, s, e)
    BY <1>0, <1>7, CutFacts DEF Between
  <2>3. /\ s \in 1..Len(view) /\ e \in (s + 1)..Len(view)
        /\ {s, e} \subseteq ManipulationIndices(view) \/ (s = 1 /\ e = Len(view))
    BY <1>7 DEF CutOf
  <2>4. SafeCut(history, view, s) /\ SafeCut(history, view, e)
    <3>1. CASE {s, e} \subseteq ManipulationIndices(view)
      <4>1. s > 0 /\ e > 0 /\ s \in ManipulationIndices(view) /\ e \in ManipulationIndices(view)
        <5>1. s > 0 /\ e > 0
          BY <2>3
        <5>. QED
          BY <3>1, <5>1
      <4>. QED
        BY <1>0, <2>1, <4>1, IndexIsSafe DEF Clean
    <3>2. CASE s = 1 /\ e = Len(view)
      BY <1>0, <2>1, <3>2, ResetIsSafe
    <3>. QED
      BY <2>3, <3>1, <3>2
  <2>5. Cutting(history, view, summing')
    BY <2>2, <2>3, <2>4 DEF Cutting
  <2>. QED
    BY <1>1, <1>7, <2>1, <2>5
<1>8. ASSUME summing # None, summing' = None, NEW t \in BOOLEAN,
             Record(<<[summing EXCEPT !.summary = t]>>)
      PROVE  WholeInv'
  <2>. DEFINE d == [summing EXCEPT !.summary = t]
  <2>1. summing \in ViewEvent /\ summing.kind = "condensation"
        /\ 1 \notin summing.forgotten /\ summing.offset > 0
    BY <1>0, <1>8 DEF SummingOK
  <2>2. d \in ViewEvent /\ d.kind = "condensation" /\ d.forgotten = summing.forgotten
        /\ d.offset = summing.offset
    BY <2>1 DEF ViewEvent
  <2>3. Record(<<d>>)
    BY <1>8
  <2>. HIDE DEF d
  <2>4. Fits(Append(history, d), N + 1)
    BY <1>0, <2>1, <2>2, EventsFit
  <2>5. /\ history' = Append(history, d) /\ view' = AppendTo(view, N + 1, d)
        /\ Built' = AppendTo(Built, N + 1, d)
        /\ Clean(history') => Clean(history)
    BY <1>2, <2>2, <2>3
  <2>. SUFFICES ASSUME Clean(history') PROVE view' = Built' /\ Whole(history', view')
    BY <1>3, <1>8
  <2>6. /\ view = Built /\ Whole(history, view)
        /\ Open(history) = {} /\ Cutting(history, view, summing)
    BY <1>8, <2>5 DEF WholeInv
  <2>7. Cutting(history, view, d)
    BY <2>2, <2>6 DEF Cutting
  <2>8. view' = Apply(view, N + 1, d)
    BY <2>2, <2>5, AppendToCases
  <2>9. Whole(history', view')
    <3>1. ~CutApart(Append(history, d))
      BY <2>5 DEF Clean
    <3>. QED
      BY <1>0, <2>2, <2>4, <2>5, <2>6, <2>7, <2>8, <3>1, WholeCut
  <2>. QED
    BY <2>5, <2>6, <2>9
<1>9. ASSUME history' = history, view' = Enforced(Built), summing' = None, Pending = {}
      PROVE  WholeInv'
  <2>. SUFFICES ASSUME Clean(history) PROVE view' = Built /\ Whole(history, view')
    BY <1>3, <1>9 DEF Built
  <2>1. view = Built /\ Whole(history, view)
    BY DEF WholeInv
  <2>2. Sound(view)
    BY <1>0, <1>1, <1>9, <2>1, WholeIsSound DEF Clean
  <2>3. ~InToolLoop(1)
    BY <1>0 DEF InToolLoop, At, WellMade
  <2>4. Enforced(view) = view
    BY <1>0, <2>2, <2>3, EnforcedFacts
  <2>. QED
    BY <1>9, <2>1, <2>4
<1>10. CASE ViewNext
  BY <1>4, <1>5, <1>6, <1>7, <1>8, <1>9, <1>10, StepCases
<1>11. CASE UNCHANGED viewVars
  BY <1>11 DEF viewVars, WholeInv, Built
<1>. QED
  BY <1>10, <1>11

\* Where a conversation is not loaded with a call pending, the cached view, kept up to
\* date event by event and never repaired, is what from_events would return whenever no
\* call is open, none was answered twice and no batch was cut at the error between its
\* actions: no other condensation, cut at manipulation indices and recorded after
\* whatever came while its summary was written, breaks one of the four properties.
THEOREM CachedIsRebuiltHolds ==
  ASSUME LoadMidCall = FALSE
  PROVE  ViewSpec => []CachedIsRebuilt
<1>1. ViewInit => OrderInv /\ WholeInv
  BY OrderInit, WholeInit
<1>2. OrderInv /\ WholeInv /\ [ViewNext]_viewVars => (OrderInv /\ WholeInv)'
  BY OrderStep, WholeStep
<1>3. OrderInv /\ WholeInv => CachedIsRebuilt
  <2>. SUFFICES ASSUME OrderInv, WholeInv, Pending = {}, ~Doubled, ~CutAtError
                PROVE  view = FromEvents
    BY DEF CachedIsRebuilt
  <2>1. WellMade(history) /\ Ordered(view, Len(history)) /\ Len(history) \in Nat
    BY DEF OrderInv, WellMade
  <2>2. Open(history) = {} /\ Clean(history)
    BY <2>1, OpenAndTwice DEF Clean
  <2>3. view = Built /\ Whole(history, view)
    BY <2>2 DEF WholeInv
  <2>4. Sound(view)
    BY <2>1, <2>2, <2>3, WholeIsSound DEF Clean
  <2>5. ~InToolLoop(1)
    BY <2>1 DEF InToolLoop, At, WellMade
  <2>6. Enforced(view) = view
    BY <2>1, <2>4, <2>5, EnforcedFacts
  <2>. QED
    BY <2>3, <2>6 DEF FromEvents, Built
<1>. QED
  BY <1>1, <1>2, <1>3, PTL DEF ViewSpec

=============================================================================
