------------------------- MODULE EventServiceProofs -------------------------
(***************************************************************************)
(* Run admission keeps its promises for any number of requests, run tasks  *)
(* and run slots: the permits are counted exactly, one task drives the     *)
(* conversation, a goal loop keeps its permit, a conversation at rest      *)
(* holds none, and a message that was accepted to be run is not left       *)
(* behind.                                                                 *)
(***************************************************************************)
EXTENDS EventService, FiniteSetTheorems, TLAPS

-----------------------------------------------------------------------------
(* The inductive invariant *)

Calling == {"enter", "lock", "status"}
Driving == {"new", "init", "top", "step"}
Active == Driving \cup {"tail"}
Closing == {"closeGoal", "closePause", "closeRun"}

ClientPoints ==
  {"off", "stopping", "append", "saved", "marked", "supersede", "pausing", "interrupting",
   "closeConv", "goal", "resume"} \cup Calling \cup Closing
TaskPoints == {"off", "pub", "decide", "sem"} \cup Active \cup Calling
GoalPoints == {"off", "new", "say", "wait", "judge", "ending"} \cup Calling

\* The points a process can await at.
Points ==
  /\ DOMAIN pc = Procs /\ pc \in [Procs -> ClientPoints \cup TaskPoints \cup GoalPoints]
  /\ \A c \in Clients : pc[c] \in ClientPoints
  /\ \A t \in Tasks : pc[t] \in TaskPoints
  /\ pc["goal"] \in GoalPoints

\* The variables have their types; those of the run slots are in PermitsOK.
Typed ==
  /\ agent \in Agents /\ status \in Statuses /\ unread \in Nat
  /\ {inflight, superseded, owed, rerun, acpRerun, closing, closed} \subseteq BOOLEAN
  /\ stale \subseteq Procs /\ cancels \subseteq Tasks \cup {"goal"}
  /\ waitFor \in [Procs -> Tasks \cup {"none"}]
  /\ mark \in [Procs -> {"run", "send", "superseded", "latest", "rearm"}]
  /\ {runTask, arunTask} \subseteq Tasks \cup {"none"} /\ lock \in Procs \cup {"none"}
  /\ pins \in Nat
  /\ goal \in [status : {"none", "running", "interrupted", "over"}, rounds : Nat]

\* The handles that refer to permit p, and the permits with a handle.
HandlesOf(at, p) == {h \in Handles : at[h] = p}
Held(refs) == {p \in PermitIds : refs[p] > 0}

\* The permits of P are counted exactly when other conversations have o tokens.
PermitState(P, o) ==
  /\ P \in [free : 0..Capacity, refs : [PermitIds -> Nat], at : [Handles -> 0..Capacity]]
  /\ o \in 0..Capacity
  /\ \A p \in PermitIds : P.refs[p] = Cardinality(HandlesOf(P.at, p))
  /\ P.free + o + Cardinality(Held(P.refs)) = Capacity

PermitsOK == PermitState(permits, others)

\* What a call of run() is for goes with where its caller is.
Marks ==
  /\ mark["goal"] = "run"
  /\ \A t \in Tasks : mark[t] \in {"run", "rearm"}
  /\ \A c \in Clients :
       /\ mark[c] # "rearm"
       /\ mark[c] = "send" => pc[c] \in {"stopping", "append", "saved"} \cup Calling
       /\ mark[c] = "superseded" => pc[c] \in {"marked", "supersede"} \cup Calling
       /\ mark[c] = "latest" => pc[c] \in Calling
       /\ pc[c] \in {"append", "saved"} => mark[c] = "send"
       /\ pc[c] \in {"marked", "supersede"} => mark[c] = "superseded"

\* A handle of a request lasts as long as its send, one of a task as its body; a task
\* waits for a token only where the session has none.
HandlePlaces ==
  /\ \A c \in Clients : permits.at[c] # 0 => mark[c] # "run"
  /\ \A t \in Tasks : /\ permits.at[t] # 0 => pc[t] \in Driving
                      /\ pc[t] = "sem" => permits.at["session"] = 0

\* _run_task is the task whose body or tail is under way, if there is one.
RunPlaces ==
  \A t \in Tasks : /\ pc[t] \in Active => runTask = t
                   /\ runTask = t => pc[t] \in Active \cup {"off"}

\* Whoever is past the check of _run_task holds the lock and no run is alive.
LockPlaces ==
  /\ \A p \in Procs :
       pc[p] \in {"status", "sem", "goal", "resume"} => lock = p /\ ~Live(runTask)
  /\ \A c \in Clients : pc[c] \in {"goal", "resume"} => pc["goal"] = "off"

\* close() waits for the run there is, and nothing replaces it.
ClosePlaces ==
  /\ closed => closing
  /\ \A c \in Clients : pc[c] \in Closing \cup {"closeConv"} => closing
  /\ \A c \in Clients : pc[c] \in {"closePause", "closeRun"} /\ waitFor[c] # "none" =>
       ~Waiting /\ runTask \in {waitFor[c], "none"}

\* The requests that pin the session permit, and the goal loop.
PinnedClients == {c \in Clients : mark[c] = "superseded" /\ pc[c] # "marked"}
Pinned == PinnedClients \cup {p \in {"goal"} : pc[p] # "off"}

\* A pin for each of them (a cancelled goal loop may leave one behind); close()
\* drops the pins, those that come later are returned.
PinPlaces ==
  /\ ~closing => pins >= Cardinality(Pinned)
  /\ closing => pins <= Cardinality(PinnedClients)

\* The session's permit is pinned, or a task or close() will return it.
SessionHeld ==
  permits.at["session"] # 0 =>
    \/ pins > 0
    \/ \E t \in Tasks : pc[t] # "off"
    \/ \E c \in Clients : pc[c] \in Closing

\* A loop that has not begun has not said so.
GoalBegun == goal.status = "running" /\ ~closing => pc["goal"] \notin {"off", "new"}

\* Only what is alive is cancelled, and only what has begun is interrupted.
TaskRefs ==
  /\ \A p \in cancels : pc[p] # "off"
  /\ \A t \in Tasks : arunTask = t => pc[t] # "new"

\* The status, the unread messages and the prompt in flight belong together.
StatusPlaces ==
  /\ status \in {"finished", "stuck"} => unread = 0
  /\ status = "running" => \E t \in Tasks : pc[t] \in {"top", "step"}
  /\ inflight => agent = "acp" /\ unread > 0
  /\ \A t \in Tasks : pc[t] = "step" /\ agent = "acp" => inflight
  /\ owed => unread > 0
  /\ owed /\ inflight => unread > 1

\* A request that saved a message and still has to call run() for it; close() overtakes
\* those whose call has begun.
Sender(c) ==
  /\ c \notin stale /\ mark[c] \in {"send", "superseded"}
  /\ closing => pc[c] \notin {"lock", "status"}
  /\ pc[c] \in {"saved", "marked", "supersede"} \cup Calling

\* A task that will find the parked request, one that carries it to a new run, and
\* one that will look for messages.
Parked(t) == rerun /\ pc[t] \in Active \cup {"pub"}
Rearming(t) == t \notin stale /\ pc[t] \in {"decide", "sem"} \cup Calling
Reads(t) ==
  \/ pc[t] = "new" /\ t \notin stale
  \/ pc[t] \in {"init", "top"}
  \/ pc[t] = "step" /\ agent = "acp"

Carries(t) == Parked(t) \/ Rearming(t) \/ Reads(t)
TaskCarries == \E t \in Tasks \ cancels : Carries(t)
Carried == (\E c \in Clients : Sender(c)) \/ (~closing /\ TaskCarries)

\* A message that is owed and that no status accounts for (or will account for, when
\* the step under way is the last) has somebody who carries it.
OwedCarried ==
  owed /\ (status = "idle" \/ (agent = "llm" /\ \E t \in Tasks : pc[t] = "step")) => Carried

\* While the run is being cancelled it is a request that waits for it.
CancelCarried ==
  owed /\ ~closing /\ Live(runTask) /\ runTask \in cancels =>
    \E c \in Clients :
      /\ c \notin stale
      /\ pc[c] = "saved" \/ (pc[c] = "supersede" /\ waitFor[c] = runTask)

PlacesOK == Points /\ Marks /\ HandlePlaces /\ RunPlaces /\ LockPlaces /\ ClosePlaces /\ TaskRefs
SlotsOK == PermitsOK /\ PinPlaces /\ SessionHeld /\ GoalKeepsPermit /\ GoalBegun
OwedOK == StatusPlaces /\ OwedCarried /\ CancelCarried

IInv == Typed /\ PlacesOK /\ SlotsOK /\ OwedOK

-----------------------------------------------------------------------------
(* Permits *)

\* There are finitely many handles, permits and processes.
LEMMA FiniteSets1 ==
  /\ IsFiniteSet(Handles) /\ IsFiniteSet(PermitIds) /\ IsFiniteSet(Procs)
<1>1. IsFiniteSet({"session"}) /\ IsFiniteSet({"goal"})
  BY FS_Singleton
<1>2. IsFiniteSet(Clients \cup Tasks)
  BY FiniteAssumption, FS_Union
<1>3. IsFiniteSet(PermitIds)
  BY BoundsAssumption, FS_Interval DEF PermitIds
<1>. QED
  BY <1>1, <1>2, <1>3, FS_Union DEF Handles, Procs

\* A handle is turned from one permit, or none (0), to another.
LEMMA HandleTurns ==
  ASSUME NEW at \in [Handles -> 0..Capacity], NEW h \in Handles,
         NEW v \in 0..Capacity, v # at[h], NEW p \in PermitIds,
         NEW b, b = [at EXCEPT ![h] = v]
  PROVE  /\ Cardinality(HandlesOf(at, p)) \in Nat
         /\ at[h] = p => /\ Cardinality(HandlesOf(at, p)) >= 1
                         /\ Cardinality(HandlesOf(b, p)) = Cardinality(HandlesOf(at, p)) - 1
         /\ v = p => Cardinality(HandlesOf(b, p)) = Cardinality(HandlesOf(at, p)) + 1
         /\ at[h] # p /\ v # p => HandlesOf(b, p) = HandlesOf(at, p)
<1>. DEFINE A == HandlesOf(at, p)
            B == HandlesOf(b, p)
<1>1. IsFiniteSet(A)
  BY FiniteSets1, FS_Subset DEF HandlesOf
<1>2. CASE at[h] = p
  <2>1. B = A \ {h} /\ h \in A
    BY <1>2 DEF HandlesOf
  <2>. HIDE DEF A, B
  <2>2. Cardinality(A) \in Nat /\ Cardinality(B) = Cardinality(A) - 1
    BY <1>1, <2>1, FS_RemoveElement, FS_CardinalityType
  <2>3. Cardinality(A) # 0
    BY <1>1, <2>1, FS_EmptySet
  <2>4. Cardinality(A) >= 1
    BY <2>2, <2>3
  <2>. QED
    BY <1>2, <2>2, <2>4 DEF A, B
<1>3. CASE at[h] # p /\ v = p
  <2>1. B = A \cup {h} /\ h \notin A
    BY <1>3 DEF HandlesOf
  <2>. HIDE DEF A, B
  <2>2. Cardinality(A) \in Nat /\ Cardinality(B) = Cardinality(A) + 1
    BY <1>1, <2>1, FS_AddElement, FS_CardinalityType
  <2>. QED
    BY <1>3, <2>2 DEF A, B
<1>4. CASE at[h] # p /\ v # p
  <2>1. B = A
    BY <1>4 DEF HandlesOf
  <2>2. Cardinality(A) \in Nat
    BY <1>1, FS_CardinalityType
  <2>. QED
    BY <1>4, <2>1, <2>2
<1>. QED
  BY <1>2, <1>3, <1>4

\* The number of permits with a handle follows the count of one of them.
LEMMA HeldFollows ==
  ASSUME NEW refs \in [PermitIds -> Nat], NEW p \in PermitIds, NEW n \in Nat,
         NEW r, r = [refs EXCEPT ![p] = n]
  PROVE  /\ Cardinality(Held(refs)) \in Nat /\ Cardinality(Held(r)) \in Nat
         /\ refs[p] > 0 /\ n = 0 => Cardinality(Held(r)) = Cardinality(Held(refs)) - 1
         /\ refs[p] = 0 /\ n > 0 => Cardinality(Held(r)) = Cardinality(Held(refs)) + 1
         /\ refs[p] > 0 /\ n > 0 => Held(r) = Held(refs)
<1>. DEFINE A == Held(refs)
            B == Held(r)
<1>1. IsFiniteSet(A) /\ IsFiniteSet(B)
  BY FiniteSets1, FS_Subset DEF Held
<1>2. Cardinality(A) \in Nat /\ Cardinality(B) \in Nat
  BY <1>1, FS_CardinalityType
<1>3. CASE refs[p] > 0 /\ n = 0
  <2>1. B = A \ {p} /\ p \in A
    BY <1>3 DEF Held
  <2>. HIDE DEF A, B
  <2>2. Cardinality(B) = Cardinality(A) - 1
    BY <1>1, <2>1, FS_RemoveElement
  <2>. QED
    BY <1>2, <1>3, <2>2 DEF A, B
<1>4. CASE refs[p] = 0 /\ n > 0
  <2>1. B = A \cup {p} /\ p \notin A
    BY <1>4 DEF Held
  <2>. HIDE DEF A, B
  <2>2. Cardinality(B) = Cardinality(A) + 1
    BY <1>1, <2>1, FS_AddElement
  <2>. QED
    BY <1>2, <1>4, <2>2 DEF A, B
<1>5. CASE refs[p] > 0 /\ n > 0
  <2>1. B = A
    BY <1>5 DEF Held
  <2>. QED
    BY <1>2, <1>5, <2>1
<1>. QED
  BY <1>2, <1>3, <1>4, <1>5

\* Turning handle h from permit p to nothing, or back, keeps the permits exact when
\* the count of p follows and its token moves with the first and the last handle.
LEMMA TurnExact ==
  ASSUME NEW P, NEW o, PermitState(P, o), NEW h \in Handles, NEW p \in PermitIds,
         NEW v \in 0..Capacity, NEW n, NEW f,
         \/ P.at[h] = p /\ v = 0 /\ n = P.refs[p] - 1
         \/ P.at[h] = 0 /\ v = p /\ n = P.refs[p] + 1,
         f = IF n = 0 THEN P.free + 1 ELSE IF P.refs[p] = 0 THEN P.free - 1 ELSE P.free,
         P.refs[p] = 0 => P.free > 0,
         NEW Q, Q = [free |-> f, refs |-> [P.refs EXCEPT ![p] = n],
                     at |-> [P.at EXCEPT ![h] = v]]
  PROVE  PermitState(Q, o)
<1>1. /\ P.free \in 0..Capacity /\ P.refs \in [PermitIds -> Nat]
      /\ P.at \in [Handles -> 0..Capacity] /\ o \in 0..Capacity /\ Capacity \in Nat
      /\ p # 0 /\ P.refs[p] \in Nat /\ v # P.at[h]
      /\ P.refs[p] = Cardinality(HandlesOf(P.at, p))
      /\ P.free + o + Cardinality(Held(P.refs)) = Capacity
  BY BoundsAssumption DEF PermitState, PermitIds
<1>2. Q.free = f /\ Q.refs = [P.refs EXCEPT ![p] = n] /\ Q.at = [P.at EXCEPT ![h] = v]
  OBVIOUS
<1>3. /\ P.at[h] = p => /\ Cardinality(HandlesOf(P.at, p)) >= 1
                        /\ Cardinality(HandlesOf(Q.at, p)) = Cardinality(HandlesOf(P.at, p)) - 1
      /\ v = p => Cardinality(HandlesOf(Q.at, p)) = Cardinality(HandlesOf(P.at, p)) + 1
  BY <1>1, <1>2, HandleTurns
<1>4. n \in Nat /\ n = Cardinality(HandlesOf(Q.at, p))
  BY <1>1, <1>3
<1>5. ASSUME NEW q \in PermitIds PROVE Q.refs[q] = Cardinality(HandlesOf(Q.at, q))
  <2>1. CASE q = p
    BY <1>1, <1>2, <1>4, <2>1
  <2>2. CASE q # p
    <3>1. P.at[h] # q /\ v # q
      BY <1>1, <2>2 DEF PermitIds
    <3>2. HandlesOf(Q.at, q) = HandlesOf(P.at, q)
      BY <1>1, <1>2, <3>1, HandleTurns
    <3>3. Q.refs[q] = P.refs[q] /\ P.refs[q] = Cardinality(HandlesOf(P.at, q))
      BY <1>1, <1>2, <2>2 DEF PermitState
    <3>. QED
      BY <3>2, <3>3
  <2>. QED
    BY <2>1, <2>2
<1>6. /\ Cardinality(Held(P.refs)) \in Nat /\ Cardinality(Held(Q.refs)) \in Nat
      /\ P.refs[p] > 0 /\ n = 0 => Cardinality(Held(Q.refs)) = Cardinality(Held(P.refs)) - 1
      /\ P.refs[p] = 0 /\ n > 0 => Cardinality(Held(Q.refs)) = Cardinality(Held(P.refs)) + 1
      /\ P.refs[p] > 0 /\ n > 0 => Held(Q.refs) = Held(P.refs)
  BY SMTT(30), <1>1, <1>2, <1>4, HeldFollows
<1>7. Q.free + o + Cardinality(Held(Q.refs)) = Capacity /\ Q.free \in 0..Capacity
  <2>1. CASE n = 0
    BY <1>1, <1>2, <1>3, <1>6, <2>1
  <2>2. CASE n > 0 /\ P.refs[p] = 0
    BY <1>1, <1>2, <1>6, <2>2
  <2>3. CASE n > 0 /\ P.refs[p] > 0
    BY <1>1, <1>2, <1>6, <2>3
  <2>. QED
    BY <1>1, <1>4, <2>1, <2>2, <2>3
<1>8. Q.refs \in [PermitIds -> Nat] /\ Q.at \in [Handles -> 0..Capacity]
  BY <1>1, <1>2, <1>4
<1>9. Q \in [free : 0..Capacity, refs : [PermitIds -> Nat], at : [Handles -> 0..Capacity]]
  BY <1>2, <1>7, <1>8
<1>. QED
  BY <1>1, <1>5, <1>7, <1>9 DEF PermitState

\* What the parts of a permit state are.
LEMMA PermitParts ==
  ASSUME NEW P, NEW o, PermitState(P, o)
  PROVE  /\ P = [free |-> P.free, refs |-> P.refs, at |-> P.at]
         /\ P.free \in 0..Capacity /\ P.refs \in [PermitIds -> Nat]
         /\ P.at \in [Handles -> 0..Capacity] /\ o \in 0..Capacity /\ Capacity \in Nat
  BY BoundsAssumption DEF PermitState

\* Release: the handle refers to nothing, and the permits stay exact.
LEMMA ReleaseExact ==
  ASSUME NEW P, NEW o, PermitState(P, o), NEW h \in Handles
  PROVE  PermitState(Release(P, h), o) /\ Release(P, h).at = [P.at EXCEPT ![h] = 0]
<1>1. CASE P.at[h] = 0
  <2>1. Release(P, h) = P /\ P.at = [P.at EXCEPT ![h] = 0]
    BY <1>1, PermitParts DEF Release
  <2>. QED
    BY <2>1
<1>2. CASE P.at[h] # 0
  <2>. DEFINE p == P.at[h]
              n == P.refs[p] - 1
              f == IF P.refs[p] = 1 THEN P.free + 1 ELSE P.free
  <2>1. p \in PermitIds
    BY <1>2, PermitParts DEF PermitIds
  <2>2. Release(P, h) = [free |-> f, refs |-> [P.refs EXCEPT ![p] = n],
                         at |-> [P.at EXCEPT ![h] = 0]]
    BY <1>2, <2>1, PermitParts DEF Release
  <2>3. P.refs[p] \in Nat /\ P.refs[p] >= 1
    <3>1. P.refs[p] = Cardinality(HandlesOf(P.at, p))
      BY <2>1 DEF PermitState
    <3>2. PICK b : b = [P.at EXCEPT ![h] = 0]
      OBVIOUS
    <3>3. 0 \in 0..Capacity /\ 0 # P.at[h]
      BY <1>2, PermitParts
    <3>4. Cardinality(HandlesOf(P.at, p)) >= 1
      BY <2>1, <3>2, <3>3, HandleTurns, PermitParts
    <3>. QED
      BY <2>1, <3>1, <3>4, PermitParts
  <2>4. PICK v \in 0..Capacity : v = 0
    BY PermitParts
  <2>5. f = IF n = 0 THEN P.free + 1 ELSE IF P.refs[p] = 0 THEN P.free - 1 ELSE P.free
    BY <2>3
  <2>6. /\ P.at[h] = p /\ v = 0 /\ n = P.refs[p] - 1 /\ (P.refs[p] = 0 => P.free > 0)
        /\ Release(P, h) = [free |-> f, refs |-> [P.refs EXCEPT ![p] = n],
                            at |-> [P.at EXCEPT ![h] = v]]
    BY <2>2, <2>3, <2>4
  <2>. HIDE DEF f, n, p
  <2>7. PermitState(Release(P, h), o)
    BY <2>1, <2>4, <2>5, <2>6, TurnExact
  <2>. QED
    BY <2>2, <2>7
<1>. QED
  BY <1>1, <1>2

\* Share: a second handle to the same permit.
LEMMA ShareExact ==
  ASSUME NEW P, NEW o, PermitState(P, o), NEW from \in Handles, NEW to \in Handles,
         P.at[from] # 0, P.at[to] = 0
  PROVE  /\ PermitState(Share(P, from, to), o)
         /\ Share(P, from, to).at = [P.at EXCEPT ![to] = P.at[from]]
<1>. DEFINE p == P.at[from]
            n == P.refs[p] + 1
<1>1. p \in PermitIds /\ p \in 0..Capacity
  BY PermitParts DEF PermitIds
<1>2. Share(P, from, to) = [free |-> P.free, refs |-> [P.refs EXCEPT ![p] = n],
                            at |-> [P.at EXCEPT ![to] = p]]
  <2>1. P \in [free : 0..Capacity, refs : [PermitIds -> Nat], at : [Handles -> 0..Capacity]]
    BY DEF PermitState
  <2>2. Share(P, from, to) = [P EXCEPT !.refs = [P.refs EXCEPT ![p] = n],
                                       !.at = [P.at EXCEPT ![to] = p]]
    BY <1>1, <2>1 DEF Share
  <2>. HIDE DEF n, p
  <2>. QED
    BY <2>1, <2>2
<1>3. P.refs[p] \in Nat /\ P.refs[p] >= 1
  <2>1. P.refs[p] = Cardinality(HandlesOf(P.at, p))
    BY <1>1 DEF PermitState
  <2>2. PICK b : b = [P.at EXCEPT ![from] = 0]
    OBVIOUS
  <2>3. 0 \in 0..Capacity /\ 0 # P.at[from]
    BY PermitParts
  <2>4. Cardinality(HandlesOf(P.at, p)) >= 1
    BY <1>1, <2>2, <2>3, HandleTurns, PermitParts
  <2>. QED
    BY <1>1, <2>1, <2>4, PermitParts
<1>4. P.free = IF n = 0 THEN P.free + 1 ELSE IF P.refs[p] = 0 THEN P.free - 1 ELSE P.free
  BY <1>3
<1>5. (P.at[to] = 0 /\ p = p /\ n = P.refs[p] + 1) /\ (P.refs[p] = 0 => P.free > 0)
  BY <1>3
<1>. HIDE DEF n, p
<1>6. PermitState(Share(P, from, to), o)
  BY <1>1, <1>2, <1>4, <1>5, TurnExact
<1>. QED
  BY <1>2, <1>6 DEF p

\* Acquire: while a token is free, there is a permit without a handle to take it.
LEMMA AcquireExact ==
  ASSUME NEW P, NEW o, PermitState(P, o), NEW h \in Handles, P.at[h] = 0, P.free > 0
  PROVE  /\ PermitState(Acquire(P, h), o)
         /\ \E p \in PermitIds : Acquire(P, h).at = [P.at EXCEPT ![h] = p]
<1>. DEFINE p == CHOOSE q \in PermitIds : P.refs[q] = 0
<1>1. \E q \in PermitIds : P.refs[q] = 0
  <2>1. SUFFICES ASSUME \A q \in PermitIds : P.refs[q] # 0 PROVE FALSE
    OBVIOUS
  <2>2. Held(P.refs) = PermitIds
    BY <2>1, PermitParts DEF Held
  <2>3. Cardinality(PermitIds) = Capacity
    <3>1. Cardinality(1..Capacity) = IF 1 > Capacity THEN 0 ELSE Capacity - 1 + 1
      BY BoundsAssumption, FS_Interval
    <3>. QED
      BY <3>1, PermitParts DEF PermitIds
  <2>4. P.free + o + Cardinality(Held(P.refs)) = Capacity
    BY DEF PermitState
  <2>. QED
    BY <2>2, <2>3, <2>4, PermitParts
<1>2. p \in PermitIds /\ P.refs[p] = 0
  BY <1>1
<1>. HIDE DEF p
<1>3. Acquire(P, h) = [free |-> P.free - 1, refs |-> [P.refs EXCEPT ![p] = 1],
                       at |-> [P.at EXCEPT ![h] = p]]
  BY DEF Acquire, p
<1>4. PICK n : n = 1
  OBVIOUS
<1>5. PICK f : f = P.free - 1
  OBVIOUS
<1>6. f = IF n = 0 THEN P.free + 1 ELSE IF P.refs[p] = 0 THEN P.free - 1 ELSE P.free
  BY <1>2, <1>4, <1>5
<1>7. p \in 0..Capacity /\ n = P.refs[p] + 1
  BY <1>2, <1>4, PermitParts DEF PermitIds
<1>8. PermitState(Acquire(P, h), o)
  BY <1>2, <1>3, <1>4, <1>5, <1>6, <1>7, TurnExact
<1>. QED
  BY <1>2, <1>3, <1>8

\* The session's handle is returned when neither a pin nor a run needs it, and only
\* then.
LEMMA EndSessionExact ==
  ASSUME NEW P, NEW o, PermitState(P, o), NEW n \in Nat, NEW busy \in BOOLEAN
  PROVE  /\ PermitState(EndSession(P, n, busy), o)
         /\ n > 0 \/ busy => EndSession(P, n, busy) = P
         /\ n = 0 /\ ~busy => EndSession(P, n, busy).at = [P.at EXCEPT !["session"] = 0]
<1>1. "session" \in Handles
  BY DEF Handles
<1>. QED
  BY <1>1, ReleaseExact DEF EndSession

-----------------------------------------------------------------------------
(* What a step leaves alone *)

\* Requests, run tasks and the goal loop are different processes.
LEMMA Names ==
  /\ \A c \in Clients : c \in Procs /\ c \in Handles /\ c \notin Tasks
                        /\ c \notin {"goal", "session", "none"}
  /\ \A t \in Tasks : t \in Procs /\ t \in Handles /\ t \notin Clients
                      /\ t \notin {"goal", "session", "none"}
  /\ "goal" \in Procs /\ "session" \in Handles /\ "none" \notin Procs
  /\ \A p \in Procs : p \in Clients \/ p \in Tasks \/ p = "goal"
  BY NamesAssumption DEF Procs, Handles

\* A process moves, the others stay where they are.
Goes(p, x) == pc'[p] = x /\ \A q \in Procs : q # p => pc'[q] = pc[q]

\* That is what an assignment to pc does.
LEMMA Moves ==
  ASSUME Points, NEW p \in Procs, NEW x, At(p, x),
         p \in Clients => x \in ClientPoints, p \in Tasks => x \in TaskPoints,
         p = "goal" => x \in GoalPoints
  PROVE  Points' /\ Goes(p, x)
<1>1. Goes(p, x)
  BY DEF At, Points, Goes
<1>2. x \in ClientPoints \cup TaskPoints \cup GoalPoints
  BY Names
<1>. QED
  BY <1>1, <1>2, Names DEF Points, At, Goes

\* A process moves to a point where it does not hold the run lock, and starts no run:
\* then _run_task, the lock, close() and the cancellations stay where they belong.
LEMMA PlaceFrame ==
  ASSUME PlacesOK, Typed, NEW p \in Procs, NEW x, At(p, x),
         p \in Clients => x \in ClientPoints, p \in Tasks => x \in TaskPoints,
         p = "goal" => x \in GoalPoints /\ pc["goal"] # "off",
         x \notin {"status", "sem", "goal", "resume"},
         lock' = lock \/ (lock = p /\ lock' = "none"),
         p \in Tasks => (x \in Active => pc[p] \in Active) /\ (x = "new" => pc[p] = "new"),
         \/ runTask' = runTask
         \/ runTask' = "none" /\ (~Live(runTask) \/ (runTask = p /\ x \notin Active)),
         runTask' = p => x \in Active \cup {"off"},
         closing => closing', closed' => closing', x \in Closing \cup {"closeConv"} => closing',
         \A q \in Procs : q # p => waitFor'[q] = waitFor[q],
         p \in Clients /\ x \in {"closePause", "closeRun"} /\ waitFor'[p] # "none" =>
           ~Waiting /\ runTask' \in {waitFor'[p], "none"},
         cancels' \subseteq Procs,
         \A q \in cancels' : (q \in cancels \/ pc[q] # "off") /\ (q = p => x # "off"),
         \A t \in Tasks : arunTask' = t => arunTask = t \/ (t = p /\ x # "new")
  PROVE  Points' /\ RunPlaces' /\ LockPlaces' /\ ClosePlaces' /\ TaskRefs' /\ Goes(p, x)
<1>0. Points' /\ Goes(p, x)
  BY Moves DEF PlacesOK
<1>1. pc'[p] = x /\ \A q \in Procs : q # p => pc'[q] = pc[q]
  BY <1>0 DEF Goes
<1>2. runTask \in Tasks \cup {"none"} /\ runTask' \in Tasks \cup {"none"}
  BY DEF Typed
<1>3. RunPlaces'
  BY <1>1, <1>2, Names DEF PlacesOK, RunPlaces, Live, Active, Driving
<1>4. ~Live(runTask) => ~Live(runTask)'
  BY <1>1, <1>2, Names DEF PlacesOK, RunPlaces, Live, Active, Driving, Points
<1>5. LockPlaces'
  BY <1>1, <1>4, Names DEF PlacesOK, LockPlaces
<1>6. Waiting' => Waiting
  BY <1>1, Names DEF Waiting
<1>7. ClosePlaces'
  BY <1>1, <1>2, <1>6, Names DEF PlacesOK, ClosePlaces
<1>8. TaskRefs'
  BY <1>1, Names DEF PlacesOK, TaskRefs
<1>. QED
  BY <1>0, <1>3, <1>5, <1>7, <1>8

\* A step that changes at most the mover's own handle, leaves the pins alone, ends no
\* task, no wait of close() and no goal loop, and changes nobody's pin, keeps the run
\* slots in order.
LEMMA SlotFrame ==
  ASSUME SlotsOK, HandlePlaces, NEW p \in Procs, NEW x, Goes(p, x),
         PermitsOK', \A h \in Handles : h # p => permits'.at[h] = permits.at[h],
         UNCHANGED <<pins, closing>>,
         goal'.status = "running" => goal.status = "running" \/ (p = "goal" /\ x # "off"),
         \A q \in Procs : q # p => mark'[q] = mark[q],
         p \in Clients => /\ permits'.at[p] # 0 => mark'[p] # "run"
                          /\ (mark'[p] = "superseded" /\ x # "marked")
                                <=> (mark[p] = "superseded" /\ pc[p] # "marked")
                          /\ pc[p] \in Closing => x \in Closing,
         p \in Tasks => /\ x # "off" /\ (permits'.at[p] # 0 => x \in Driving)
                        /\ x = "sem" => permits.at["session"] = 0,
         p = "goal" => pc[p] # "off" /\ x \notin {"off", "new"}
                       /\ (pc[p] = "ending" => x = "ending")
  PROVE  SlotsOK' /\ HandlePlaces'
<1>. USE DEF Goes
<1>0. permits'.at["session"] = permits.at["session"]
  BY Names
<1>1. HandlePlaces'
  BY <1>0, Names DEF HandlePlaces
<1>2. PinnedClients' = PinnedClients
  BY Names DEF PinnedClients
<1>3. Pinned' = Pinned
  BY <1>2, Names DEF Pinned
<1>4. PinPlaces'
  BY <1>2, <1>3 DEF SlotsOK, PinPlaces
<1>5. p # "session"
  BY NamesAssumption DEF Procs
<1>6. SessionHeld'
  BY <1>5, Names DEF SlotsOK, SessionHeld
<1>7. GoalKeepsPermit' /\ GoalBegun'
  BY <1>5, Names DEF SlotsOK, GoalKeepsPermit, GoalBegun
<1>. QED
  BY <1>1, <1>4, <1>6, <1>7 DEF SlotsOK

\* The same when the permits are left alone.
LEMMA SlotSame ==
  ASSUME SlotsOK, HandlePlaces, NEW p \in Procs, NEW x, Goes(p, x),
         UNCHANGED <<permits, others, pins, closing>>,
         goal'.status = "running" => goal.status = "running" \/ (p = "goal" /\ x # "off"),
         \A q \in Procs : q # p => mark'[q] = mark[q],
         p \in Clients => /\ mark'[p] = "run" => mark[p] = "run"
                          /\ (mark'[p] = "superseded" /\ x # "marked")
                                <=> (mark[p] = "superseded" /\ pc[p] # "marked")
                          /\ pc[p] \in Closing => x \in Closing,
         p \in Tasks => /\ x # "off" /\ (pc[p] \in Driving => x \in Driving)
                        /\ x = "sem" => permits.at["session"] = 0,
         p = "goal" => pc[p] # "off" /\ x \notin {"off", "new"}
                       /\ (pc[p] = "ending" => x = "ending")
  PROVE  SlotsOK' /\ HandlePlaces'
<1>1. PermitsOK'
  BY DEF SlotsOK, PermitsOK
<1>2. /\ p \in Clients => (permits'.at[p] # 0 => mark'[p] # "run")
      /\ p \in Tasks => (permits'.at[p] # 0 => x \in Driving)
  BY DEF HandlePlaces
<1>. QED
  BY <1>1, <1>2, SlotFrame

\* A step that parks or keeps what is parked, and takes nobody away who carries a
\* message, leaves every message carried.
LEMMA CarriedFrame ==
  ASSUME OwedOK, NEW p \in Procs, NEW x, Goes(p, x),
         UNCHANGED <<agent, closing>>,
         owed' => owed, status' = "idle" => status = "idle",
         p \in Tasks => /\ x # "step" /\ (pc[p] = "off" => x = "off")
                        /\ Carries(p) => Carries(p)',
         stale' \subseteq stale, rerun => rerun', closing \/ cancels' \cap Tasks \subseteq cancels,
         \A q \in Clients : q # p => mark'[q] = mark[q] /\ waitFor'[q] = waitFor[q],
         p \in Clients /\ Sender(p) => Sender(p)',
         p \in Clients => /\ pc[p] = "saved" => NoneScheduled
                          /\ pc[p] = "supersede" /\ Live(waitFor[p]) => NoneScheduled,
         runTask \in Tasks \cup {"none"}, runTask' = runTask \/ runTask' = "none"
  PROVE  OwedCarried' /\ CancelCarried'
<1>. USE DEF Goes
<1>1. (\E c \in Clients : Sender(c)) => (\E c \in Clients : Sender(c))'
  BY Names DEF Sender
<1>2. ASSUME NEW t \in Tasks, Carries(t) PROVE Carries(t)'
  <2>1. CASE t = p
    BY <1>2, <2>1
  <2>2. CASE t # p
    BY <1>2, <2>2, Names DEF Carries, Parked, Rearming, Reads
  <2>. QED
    BY <2>1, <2>2
<1>3. ~closing /\ TaskCarries => TaskCarries'
  BY <1>2 DEF TaskCarries
<1>4. Carried => Carried'
  BY <1>1, <1>3 DEF Carried
<1>5. (\E t \in Tasks : pc'[t] = "step") => \E t \in Tasks : pc[t] = "step"
  BY Names
<1>6. OwedCarried'
  BY <1>4, <1>5 DEF OwedOK, OwedCarried
<1>7. CancelCarried'
  <2>1. SUFFICES ASSUME owed', ~closing', Live(runTask)', runTask' \in cancels'
                 PROVE  \E c \in Clients :
                          /\ c \notin stale'
                          /\ pc'[c] = "saved" \/ (pc'[c] = "supersede" /\ waitFor'[c] = runTask')
    BY DEF CancelCarried
  <2>2. runTask' = runTask /\ runTask \in Tasks /\ runTask \in cancels /\ Live(runTask)
    BY <2>1, Names DEF Live
  <2>3. ~NoneScheduled
    BY <2>2 DEF NoneScheduled
  <2>4. PICK c \in Clients : /\ c \notin stale
                             /\ pc[c] = "saved" \/ (pc[c] = "supersede" /\ waitFor[c] = runTask)
    BY <2>1, <2>2 DEF OwedOK, CancelCarried
  <2>5. c # p
    BY <2>2, <2>3, <2>4
  <2>. QED
    BY <2>2, <2>4, <2>5, Names
<1>. QED
  BY <1>6, <1>7

\* The same for a step that reads no message either.
LEMMA OwedFrame ==
  ASSUME OwedOK, NEW p \in Procs, NEW x, Goes(p, x),
         UNCHANGED <<agent, unread, inflight, closing>>,
         owed' => owed, status' = status \/ status' \in {"paused", "error"},
         p \in Tasks => /\ {pc[p], x} \cap {"top", "step"} = {}
                        /\ pc[p] = "off" => x = "off"
                        /\ Carries(p) => Carries(p)',
         stale' \subseteq stale, rerun => rerun', closing \/ cancels' \cap Tasks \subseteq cancels,
         \A q \in Clients : q # p => mark'[q] = mark[q] /\ waitFor'[q] = waitFor[q],
         p \in Clients /\ Sender(p) => Sender(p)',
         p \in Clients => /\ pc[p] = "saved" => NoneScheduled
                          /\ pc[p] = "supersede" /\ Live(waitFor[p]) => NoneScheduled,
         runTask \in Tasks \cup {"none"}, runTask' = runTask \/ runTask' = "none"
  PROVE  OwedOK'
<1>1. StatusPlaces'
  BY Names DEF OwedOK, StatusPlaces, Goes
<1>2. /\ status' = "idle" => status = "idle"
      /\ p \in Tasks => x # "step"
  OBVIOUS
<1>3. OwedCarried' /\ CancelCarried'
  BY <1>2, CarriedFrame
<1>. QED
  BY <1>1, <1>3 DEF OwedOK

\* PlaceFrame for a request, which runs nothing itself.
LEMMA ClientFrame ==
  ASSUME PlacesOK, Typed, NEW c \in Clients, NEW x \in ClientPoints, At(c, x),
         x \notin {"status", "goal", "resume"},
         UNCHANGED arunTask, lock' = lock \/ (lock = c /\ lock' = "none"),
         runTask' = runTask \/ (runTask' = "none" /\ ~Live(runTask)),
         closing => closing', closed' => closing', x \in Closing \cup {"closeConv"} => closing',
         \A q \in Procs : q # c => waitFor'[q] = waitFor[q],
         x \in {"closePause", "closeRun"} /\ waitFor'[c] # "none" =>
           ~Waiting /\ runTask' \in {waitFor'[c], "none"},
         cancels' \subseteq Tasks \cup {"goal"},
         \A q \in cancels' : q \in cancels \/ pc[q] # "off"
  PROVE  Points' /\ RunPlaces' /\ LockPlaces' /\ ClosePlaces' /\ TaskRefs' /\ Goes(c, x)
<1>1. c \in Procs /\ c \notin Tasks /\ c # "goal" /\ c # "none"
  BY Names
<1>2. x # "sem"
  BY DEF ClientPoints, Calling, Closing
<1>3. cancels' \subseteq Procs /\ c \notin cancels'
  BY <1>1, Names
<1>4. runTask' # c
  BY <1>1 DEF Typed
<1>. QED
  BY <1>1, <1>2, <1>3, <1>4, PlaceFrame

\* The parts of the invariant.
LEMMA Parts ==
  ASSUME IInv
  PROVE  /\ Typed /\ PlacesOK /\ SlotsOK /\ OwedOK
         /\ Points /\ Marks /\ HandlePlaces /\ RunPlaces /\ LockPlaces /\ ClosePlaces /\ TaskRefs
         /\ PermitsOK /\ PinPlaces /\ SessionHeld /\ GoalKeepsPermit /\ GoalBegun
         /\ StatusPlaces /\ OwedCarried /\ CancelCarried
  BY DEF IInv, PlacesOK, SlotsOK, OwedOK

\* When nothing is owed, nobody has to carry it.
LEMMA NothingOwed ==
  ASSUME ~owed', StatusPlaces'
  PROVE  OwedOK'
  BY DEF OwedOK, OwedCarried, CancelCarried

\* Pins can be counted.
LEMMA PinsFinite ==
  /\ IsFiniteSet(PinnedClients) /\ IsFiniteSet(Pinned)
  /\ Cardinality(PinnedClients) \in Nat /\ Cardinality(Pinned) \in Nat
  /\ \A p \in Pinned : Cardinality(Pinned) > 0
<1>1. PinnedClients \subseteq Clients /\ Pinned \subseteq Procs
  BY DEF PinnedClients, Pinned, Procs
<1>2. IsFiniteSet(PinnedClients) /\ IsFiniteSet(Pinned)
  BY <1>1, FiniteAssumption, FiniteSets1, FS_Subset
<1>3. Cardinality(PinnedClients) \in Nat /\ Cardinality(Pinned) \in Nat
  BY <1>2, FS_CardinalityType
<1>4. Cardinality(Pinned) = 0 => Pinned = {}
  BY <1>2, FS_EmptySet
<1>. QED
  BY <1>2, <1>3, <1>4

\* A request gives its pin up.
LEMMA PinLeaves ==
  ASSUME PinPlaces, pins \in Nat, NEW c \in Clients, c \in PinnedClients,
         PinnedClients' = PinnedClients \ {c}, Pinned' = Pinned \ {c},
         closing' = closing, pins' = Unpinned
  PROVE  PinPlaces' /\ pins' \in Nat /\ (~closing /\ pc'["goal"] # "off" => pins' > 0)
<1>1. c \in Pinned
  BY DEF Pinned
<1>2. /\ Cardinality(PinnedClients') = Cardinality(PinnedClients) - 1
      /\ Cardinality(Pinned') = Cardinality(Pinned) - 1
  BY <1>1, PinsFinite, FS_RemoveElement
<1>3. /\ Cardinality(PinnedClients') \in Nat /\ Cardinality(Pinned') \in Nat
      /\ \A p \in Pinned' : Cardinality(Pinned') > 0
  <2>1. IsFiniteSet(PinnedClients') /\ IsFiniteSet(Pinned')
    BY PinsFinite, FS_RemoveElement
  <2>2. Cardinality(Pinned') = 0 => Pinned' = {}
    BY <2>1, FS_EmptySet
  <2>3. Cardinality(PinnedClients') \in Nat /\ Cardinality(Pinned') \in Nat
    BY <2>1, FS_CardinalityType
  <2>. QED
    BY <2>2, <2>3
<1>4. PinPlaces' /\ pins' \in Nat
  BY <1>2, <1>3, PinsFinite DEF PinPlaces, Unpinned
<1>5. pc'["goal"] # "off" => "goal" \in Pinned'
  BY DEF Pinned
<1>. QED
  BY <1>3, <1>4, <1>5 DEF PinPlaces

\* A request takes a pin.
LEMMA PinJoins ==
  ASSUME PinPlaces, pins \in Nat, NEW c \in Clients, c \notin PinnedClients,
         PinnedClients' = PinnedClients \cup {c}, Pinned' = Pinned \cup {c},
         closing' = closing, pins' = pins + 1
  PROVE  PinPlaces'
<1>1. c \notin Pinned
  BY Names DEF Pinned
<1>2. /\ Cardinality(PinnedClients') = Cardinality(PinnedClients) + 1
      /\ Cardinality(Pinned') = Cardinality(Pinned) + 1
  BY <1>1, PinsFinite, FS_AddElement
<1>. QED
  BY <1>2, PinsFinite DEF PinPlaces

\* _maybe_end_run_session: the permits stay exact, the session's is kept while
\* anybody needs it.
LEMMA SessionEnds ==
  ASSUME GoalKeepsPermit, NEW P, PermitState(P, others), P.at["session"] = permits.at["session"],
         pins' \in Nat, NEW busy \in BOOLEAN, permits' = EndSession(P, pins', busy),
         others' = others, busy => \E t \in Tasks : pc'[t] # "off",
         ~closing' /\ pc'["goal"] \notin {"off", "ending"} =>
           pins' > 0 /\ ~closing /\ pc["goal"] \notin {"off", "ending"}
  PROVE  /\ PermitsOK' /\ SessionHeld' /\ GoalKeepsPermit'
         /\ \A h \in Handles : h # "session" => permits'.at[h] = P.at[h]
         /\ permits.at["session"] = 0 => permits'.at["session"] = 0
<1>1. /\ PermitState(permits', others)
      /\ pins' > 0 \/ busy => permits' = P
      /\ pins' = 0 /\ ~busy => permits'.at = [P.at EXCEPT !["session"] = 0]
  BY EndSessionExact
<1>2. P.at \in [Handles -> 0..Capacity] /\ "session" \in Handles
  BY Names, PermitParts
<1>3. PermitsOK'
  BY <1>1 DEF PermitsOK
<1>4. SessionHeld'
  BY <1>1, <1>2 DEF SessionHeld
<1>5. GoalKeepsPermit'
  BY <1>1 DEF GoalKeepsPermit
<1>. QED
  BY <1>1, <1>2, <1>3, <1>4, <1>5

\* The same after handle h has been returned.
LEMMA ReleaseEnds ==
  ASSUME PermitsOK, GoalKeepsPermit, NEW h \in Handles, h # "session",
         pins' \in Nat, NEW busy \in BOOLEAN,
         permits' = EndSession(Release(permits, h), pins', busy),
         others' = others, busy => \E t \in Tasks : pc'[t] # "off",
         ~closing' /\ pc'["goal"] \notin {"off", "ending"} =>
           pins' > 0 /\ ~closing /\ pc["goal"] \notin {"off", "ending"}
  PROVE  /\ PermitsOK' /\ SessionHeld' /\ GoalKeepsPermit' /\ permits'.at[h] = 0
         /\ \A g \in Handles : g \notin {h, "session"} => permits'.at[g] = permits.at[g]
         /\ permits.at["session"] = 0 => permits'.at["session"] = 0
<1>1. PICK P : P = Release(permits, h)
  OBVIOUS
<1>2. PermitState(P, others) /\ P.at = [permits.at EXCEPT ![h] = 0]
  BY <1>1, ReleaseExact DEF PermitsOK
<1>3. permits.at \in [Handles -> 0..Capacity]
  BY PermitParts DEF PermitsOK
<1>4. /\ P.at[h] = 0 /\ P.at["session"] = permits.at["session"]
      /\ \A g \in Handles : g # h => P.at[g] = permits.at[g]
  BY <1>2, <1>3, Names
<1>5. permits' = EndSession(P, pins', busy)
  BY <1>1
<1>6. /\ PermitsOK' /\ SessionHeld' /\ GoalKeepsPermit'
      /\ \A g \in Handles : g # "session" => permits'.at[g] = P.at[g]
      /\ permits.at["session"] = 0 => permits'.at["session"] = 0
  BY <1>2, <1>4, <1>5, SessionEnds
<1>. QED
  BY <1>4, <1>6

-----------------------------------------------------------------------------
(* Requests *)

\* POST /run, pause() and stop_goal_loop() arrive.
LEMMA RunPauseStopKeep ==
  ASSUME IInv, NEW c \in Clients, Run(c) \/ Pause(c) \/ StopGoal(c)
  PROVE  IInv'
<1>1. PICK x \in {"enter", "pausing", "stopping"} : At(c, x)
  BY DEF Run, Pause, StopGoal
<1>2. /\ pc[c] = "off"
      /\ UNCHANGED <<agent, status, unread, inflight, superseded, mark, waitFor, runTask, arunTask,
                     lock, closing, closed, pins, permits, others, goal>>
      /\ cancels' = cancels \/ (cancels' = cancels \cup {"goal"} /\ pc["goal"] # "off")
      /\ \/ UNCHANGED <<stale, rerun, acpRerun, owed>>
         \/ ~owed' /\ Stop
  BY DEF Run, Pause, StopGoal, Stop, Arrives, convVars, flagVars
<1>3. Typed'
  BY <1>2, Names, Parts DEF Typed, Stop
<1>4. x \in ClientPoints /\ x \notin Closing /\ (closed' => closing')
  BY <1>2, Parts DEF ClientPoints, Calling, Closing, ClosePlaces
<1>5. Points' /\ RunPlaces' /\ LockPlaces' /\ ClosePlaces' /\ TaskRefs' /\ Goes(c, x)
  BY <1>1, <1>2, <1>3, <1>4, Names, Parts, ClientFrame DEF Typed
<1>6. mark[c] = "run" /\ Marks'
  BY <1>2, <1>5, Names, Parts DEF Typed, Marks, Goes, Calling
<1>7. SlotsOK' /\ HandlePlaces'
  BY <1>2, <1>4, <1>5, <1>6, Names, Parts, SlotSame DEF Closing
<1>8. OwedOK'
  <2>1. CASE UNCHANGED <<stale, rerun, acpRerun, owed>>
    BY <1>1, <1>2, <1>5, <2>1, Names, Parts, OwedFrame DEF Typed, Sender, Calling
  <2>2. CASE ~owed'
    BY <1>2, <1>5, <2>2, Names, Parts, NothingOwed DEF StatusPlaces, Goes
  <2>. QED
    BY <1>2, <2>1, <2>2
<1>. QED
  BY <1>3, <1>5, <1>6, <1>7, <1>8 DEF IInv, PlacesOK

\* pause() takes effect, interrupt() has waited, a cancelled goal loop has ended, the
\* conversation is closed.
LEMMA QuietKeeps ==
  ASSUME IInv, NEW c \in Clients,
         PauseConversation(c) \/ Interrupted(c) \/ GoalStopped(c) \/ CloseConversation(c)
  PROVE  IInv'
<1>1. PICK x \in {"off", "append"} : At(c, x)
  BY DEF PauseConversation, Interrupted, GoalStopped, CloseConversation
<1>2. /\ pc[c] \in {"pausing", "interrupting", "stopping", "closeConv"}
      /\ UNCHANGED <<agent, unread, inflight, superseded, owed, mark, cancels, arunTask, lock,
                     rerun, acpRerun, closing, pins, permits, others, goal>>
      /\ status' = status \/ status' = "paused"
      /\ stale' = stale \/ stale' = stale \ {c}
      /\ waitFor' = waitFor \/ waitFor' = [waitFor EXCEPT ![c] = "none"]
      /\ runTask' = runTask \/ (runTask' = "none" /\ ~Live(runTask))
      /\ closed' = closed \/ (closed' = TRUE /\ pc[c] = "closeConv")
  BY DEF PauseConversation, Interrupted, GoalStopped, CloseConversation, convVars, flagVars,
         PausedStatus, WaitedForRun
<1>3. mark[c] = IF x = "append" THEN "send" ELSE "run"
  <2>1. pc[c] # "stopping" => x = "off"
    BY <1>1, <1>2, Names, Parts DEF PauseConversation, Interrupted, GoalStopped,
       CloseConversation, At, Points
  <2>2. pc[c] = "stopping" => (x = "append" <=> mark[c] = "send")
    BY <1>1, <1>2, Names, Parts DEF PauseConversation, Interrupted, GoalStopped,
       CloseConversation, At, Points
  <2>. QED
    BY <1>2, <2>1, <2>2, Names, Parts DEF Typed, Marks, Calling
<1>4. Typed'
  <2>1. waitFor' \in [Procs -> Tasks \cup {"none"}]
    BY <1>2, Names, Parts DEF Typed
  <2>2. closed \in BOOLEAN
    BY Parts DEF Typed
  <2>3. closed' \in BOOLEAN
    BY <1>2, <2>2
  <2>4. status' \in Statuses /\ stale' \subseteq Procs /\ runTask' \in Tasks \cup {"none"}
    BY <1>2, Parts DEF Typed, Statuses
  <2>. QED
    BY <1>2, <2>1, <2>3, <2>4, Parts DEF Typed
<1>5. x \in ClientPoints /\ x \notin Closing /\ (closed' => closing')
  BY <1>2, Parts DEF ClientPoints, Calling, Closing, ClosePlaces
<1>6. \A q \in Procs : q # c => waitFor'[q] = waitFor[q]
  BY <1>2, Parts DEF Typed
<1>7. Points' /\ RunPlaces' /\ LockPlaces' /\ ClosePlaces' /\ TaskRefs' /\ Goes(c, x)
  BY <1>1, <1>2, <1>4, <1>5, <1>6, Names, Parts, ClientFrame DEF Typed
<1>8. Marks'
  BY <1>1, <1>2, <1>3, <1>7, Names, Parts DEF Typed, Marks, Goes, Calling
<1>9. SlotsOK' /\ HandlePlaces'
  BY <1>2, <1>3, <1>5, <1>7, Names, Parts, SlotSame DEF Closing
<1>10. OwedOK'
  BY <1>2, <1>6, <1>7, Names, Parts, OwedFrame DEF Typed, Sender, Calling
<1>. QED
  BY <1>4, <1>7, <1>8, <1>9, <1>10 DEF IInv, PlacesOK

\* interrupt() arrives.
LEMMA InterruptKeeps ==
  ASSUME IInv, NEW c \in Clients, Interrupt(c)
  PROVE  IInv'
<1>1. /\ pc[c] = "off" /\ At(c, "interrupting") /\ Stop /\ ~owed'
      /\ UNCHANGED <<agent, unread, inflight, superseded, mark, runTask, arunTask, lock, closing,
                     closed, pins, permits, others, goal>>
      /\ status' = status \/ status' = "paused"
      /\ cancels' = cancels \/ (cancels' = cancels \cup {arunTask} /\ Live(arunTask))
      /\ waitFor' = [waitFor EXCEPT ![c] = IF Live(runTask) THEN runTask ELSE "none"]
  BY DEF Interrupt, Arrives, Stop, InterruptConversation, PausedStatus
<1>2. Typed'
  BY <1>1, Names, Parts DEF Typed, Statuses, Stop, Live
<1>3. closed' => closing'
  BY <1>1, Parts DEF ClosePlaces
<1>4. \A q \in Procs : q # c => waitFor'[q] = waitFor[q]
  BY <1>1, Parts DEF Typed
<1>5. Points' /\ RunPlaces' /\ LockPlaces' /\ ClosePlaces' /\ TaskRefs' /\ Goes(c, "interrupting")
  <2>1. \A q \in cancels' : q \in cancels \/ pc[q] # "off"
    BY <1>1 DEF Live
  <2>2. "interrupting" \in ClientPoints /\ "interrupting" \notin Closing \cup {"closeConv"}
    BY DEF ClientPoints, Closing
  <2>. QED
    BY <1>1, <1>2, <1>3, <1>4, <2>1, <2>2, Names, Parts, ClientFrame DEF Typed
<1>6. mark[c] = "run" /\ Marks'
  BY <1>1, <1>5, Names, Parts DEF Typed, Marks, Goes, Calling
<1>7. SlotsOK' /\ HandlePlaces'
  BY <1>1, <1>5, <1>6, Names, Parts, SlotSame DEF Closing
<1>8. StatusPlaces'
  BY <1>1, <1>5, Names, Parts DEF StatusPlaces, Goes
<1>. QED
  BY <1>1, <1>2, <1>5, <1>6, <1>7, <1>8, NothingOwed DEF IInv, PlacesOK

\* close() learns that the goal loop has ended, pauses the conversation, cancels the
\* run it waits for.
LEMMA CloseWaitsKeep ==
  ASSUME IInv, NEW c \in Clients, CloseGoalEnded(c) \/ ClosePause(c) \/ CloseTimeout(c)
  PROVE  IInv'
<1>1. PICK x \in {"closePause", "closeRun"} : At(c, x)
  <2>1. CASE CloseTimeout(c)
    <3>1. pc = [pc EXCEPT ![c] = "closeRun"]
      BY <2>1, Names, Parts DEF CloseTimeout, Points
    <3>. QED
      BY <2>1, <3>1 DEF CloseTimeout, At
  <2>. QED
    BY <2>1 DEF CloseGoalEnded, ClosePause
<1>2. /\ pc[c] \in Closing /\ closing
      /\ UNCHANGED <<agent, unread, inflight, superseded, owed, mark, stale, runTask, arunTask,
                     lock, rerun, acpRerun, closing, closed, pins, permits, others, goal>>
      /\ status' = status \/ status' = "paused"
      /\ \/ waitFor' = waitFor /\ pc[c] \in {"closePause", "closeRun"}
         \/ waitFor' = [waitFor EXCEPT ![c] = IF Live(runTask) THEN runTask ELSE "none"]
      /\ cancels' = cancels \/ (cancels' = cancels \cup {waitFor[c]} /\ Live(waitFor[c]))
  BY Parts DEF CloseGoalEnded, ClosePause, CloseTimeout, convVars, flagVars, PausedStatus,
         ClosePlaces, Closing
<1>3. Typed'
  BY <1>2, Names, Parts DEF Typed, Statuses, Live
<1>4. \A q \in Procs : q # c => waitFor'[q] = waitFor[q]
  BY <1>2, Parts DEF Typed
<1>5. waitFor'[c] # "none" => ~Waiting /\ runTask' \in {waitFor'[c], "none"}
  <2>1. CASE waitFor' = waitFor /\ pc[c] \in {"closePause", "closeRun"}
    BY <1>2, <2>1, Parts DEF ClosePlaces
  <2>2. CASE waitFor' = [waitFor EXCEPT ![c] = IF Live(runTask) THEN runTask ELSE "none"]
    <3>1. waitFor'[c] = IF Live(runTask) THEN runTask ELSE "none"
      BY <2>2, Names, Parts DEF Typed
    <3>2. Live(runTask) => ~Waiting
      BY Names, Parts DEF LockPlaces, Waiting
    <3>. QED
      BY <1>2, <3>1, <3>2
  <2>. QED
    BY <1>2, <2>1, <2>2
<1>6. Points' /\ RunPlaces' /\ LockPlaces' /\ ClosePlaces' /\ TaskRefs' /\ Goes(c, x)
  <2>1. \A q \in cancels' : q \in cancels \/ pc[q] # "off"
    BY <1>2 DEF Live
  <2>2. x \in ClientPoints
    BY DEF ClientPoints, Closing
  <2>. QED
    BY <1>1, <1>2, <1>3, <1>4, <1>5, <2>1, <2>2, Names, Parts, ClientFrame DEF Typed, ClosePlaces
<1>7. mark[c] = "run" /\ Marks'
  BY <1>2, <1>6, Names, Parts DEF Typed, Marks, Goes, Calling, Closing
<1>8. SlotsOK' /\ HandlePlaces'
  BY <1>2, <1>6, <1>7, Names, Parts, SlotSame DEF Closing
<1>9. OwedOK'
  BY <1>2, <1>4, <1>6, Names, Parts, OwedFrame DEF Typed, Sender, Calling, Closing
<1>. QED
  BY <1>3, <1>6, <1>7, <1>8, <1>9 DEF IInv, PlacesOK

\* send_message arrives, perhaps with a reservation.
LEMMA SendKeeps ==
  ASSUME IInv, NEW c \in Clients, Send(c)
  PROVE  IInv'
<1>1. PICK x \in {"stopping", "append"} : At(c, x)
  BY DEF Send
<1>2. /\ pc[c] = "off" /\ mark' = [mark EXCEPT ![c] = "send"]
      /\ UNCHANGED <<agent, status, unread, inflight, superseded, owed, waitFor, runTask, arunTask,
                     lock, rerun, acpRerun, closing, closed, pins, others, goal>>
      /\ permits' = permits \/ (permits.free > 0 /\ permits' = Acquire(permits, c))
      /\ cancels' = cancels \/ (cancels' = cancels \cup {"goal"} /\ pc["goal"] # "off")
      /\ stale' = stale \/ stale' = stale \ {c}
  BY DEF Send, Arrives, convVars, flagVars, HasCapacity
<1>3. Typed'
  <2>1. mark' \in [Procs -> {"run", "send", "superseded", "latest", "rearm"}]
    BY <1>2, Names, Parts DEF Typed
  <2>. QED
    BY <1>2, <2>1, Parts DEF Typed
<1>4. x \in ClientPoints /\ x \notin Closing /\ (closed' => closing')
  BY <1>2, Parts DEF ClientPoints, Calling, Closing, ClosePlaces
<1>5. Points' /\ RunPlaces' /\ LockPlaces' /\ ClosePlaces' /\ TaskRefs' /\ Goes(c, x)
  BY <1>1, <1>2, <1>3, <1>4, Names, Parts, ClientFrame DEF Typed
<1>6. /\ mark[c] = "run" /\ mark'[c] = "send" /\ permits.at[c] = 0
      /\ \A q \in Procs : q # c => mark'[q] = mark[q]
  BY <1>2, Names, Parts DEF Typed, Marks, Calling, HandlePlaces
<1>7. Marks'
  BY <1>1, <1>2, <1>5, <1>6, Names, Parts DEF Typed, Marks, Goes, Calling
<1>8. PermitsOK' /\ \A h \in Handles : h # c => permits'.at[h] = permits.at[h]
  <2>1. CASE permits' = permits
    BY <1>2, <2>1, Parts DEF PermitsOK
  <2>2. CASE permits.free > 0 /\ permits' = Acquire(permits, c)
    <3>1. /\ PermitState(permits', others)
          /\ \E p \in PermitIds : permits'.at = [permits.at EXCEPT ![c] = p]
      BY <1>6, <2>2, Names, Parts, AcquireExact DEF PermitsOK
    <3>2. permits.at \in [Handles -> 0..Capacity]
      BY Parts, PermitParts DEF PermitsOK
    <3>. QED
      BY <1>2, <3>1, <3>2 DEF PermitsOK
  <2>. QED
    BY <1>2, <2>1, <2>2
<1>9. SlotsOK' /\ HandlePlaces'
  BY <1>2, <1>4, <1>5, <1>6, <1>8, Names, Parts, SlotFrame DEF Closing
<1>10. OwedOK'
  BY <1>2, <1>5, <1>6, Names, Parts, OwedFrame DEF Typed, Sender, Calling
<1>. QED
  BY <1>3, <1>5, <1>7, <1>9, <1>10 DEF IInv, PlacesOK

\* The message is saved, and owed unless a stop came meanwhile.
LEMMA SendAppendKeeps ==
  ASSUME IInv, NEW c \in Clients, SendAppend(c)
  PROVE  IInv'
<1>1. /\ pc[c] = "append" /\ At(c, "saved") /\ unread' = unread + 1
      /\ status' = IF status \in {"finished", "stuck"} THEN "idle" ELSE status
      /\ owed' = (owed \/ c \notin stale)
      /\ UNCHANGED <<agent, inflight, superseded, mark, stale, waitFor, cancels, runTask, arunTask,
                     lock, rerun, acpRerun, closing, closed, pins, permits, others, goal>>
  BY DEF SendAppend, Appended, flagVars
<1>2. Typed'
  <2>1. unread' \in Nat /\ status' \in Statuses /\ owed' \in BOOLEAN
    BY <1>1, Parts DEF Typed, Statuses
  <2>. QED
    BY <1>1, <2>1, Parts DEF Typed
<1>3. Points' /\ RunPlaces' /\ LockPlaces' /\ ClosePlaces' /\ TaskRefs' /\ Goes(c, "saved")
  <2>1. "saved" \in ClientPoints /\ "saved" \notin Closing /\ (closed' => closing')
    BY <1>1, Parts DEF ClientPoints, Closing, ClosePlaces
  <2>. QED
    BY <1>1, <1>2, <2>1, Names, Parts, ClientFrame DEF Typed
<1>4. mark[c] = "send" /\ Marks'
  BY <1>1, <1>3, Names, Parts DEF Typed, Marks, Goes, Calling
<1>5. SlotsOK' /\ HandlePlaces'
  BY <1>1, <1>3, <1>4, Names, Parts, SlotSame DEF Closing
<1>6. StatusPlaces'
  BY <1>1, <1>3, Names, Parts DEF Typed, StatusPlaces, Goes
<1>7. OwedCarried' /\ CancelCarried'
  <2>1. CASE c \notin stale
    <3>1. Sender(c)' /\ pc'[c] = "saved" /\ c \notin stale'
      BY <1>1, <1>3, <1>4, <2>1 DEF Sender, Goes
    <3>. QED
      BY <3>1 DEF OwedCarried, Carried, CancelCarried
  <2>2. CASE c \in stale /\ ~owed
    BY <1>1, <2>2 DEF OwedCarried, CancelCarried
  <2>3. CASE c \in stale /\ owed
    <3>1. status' = status
      BY <1>1, <2>3, Parts DEF Typed, StatusPlaces
    <3>. QED
      BY <1>1, <1>3, <2>3, <3>1, Names, Parts, CarriedFrame DEF Typed, Sender
  <2>. QED
    BY <2>1, <2>2, <2>3
<1>. QED
  BY <1>2, <1>3, <1>4, <1>5, <1>6, <1>7 DEF IInv, PlacesOK, OwedOK

\* The prompt in flight is marked, or it is the message's own, and then nothing is owed.
LEMMA SendMarkKeeps ==
  ASSUME IInv, NEW c \in Clients, SendMark(c)
  PROVE  IInv'
<1>1. PICK x \in {"off", "marked", "enter"}, m \in {"run", "superseded", "latest", "send"} :
        /\ At(c, x) /\ mark' = [mark EXCEPT ![c] = m]
        /\ x = "off" => m = "run" /\ c \in stale /\ permits' = Release(permits, c)
        /\ x # "off" => permits' = permits
        /\ x = "marked" <=> m = "superseded"
        /\ x = "enter" => m \in {"latest", "send"}
        /\ m = "latest" => inflight /\ ~(unread > 1)
  BY DEF SendMark
<1>2. /\ pc[c] = "saved" /\ NoneScheduled /\ superseded' \in {superseded, TRUE}
      /\ UNCHANGED <<agent, status, unread, inflight, owed, stale, waitFor, cancels, runTask,
                     arunTask, lock, rerun, acpRerun, closing, closed, pins, others, goal>>
  BY DEF SendMark, flagVars
<1>3. Typed'
  <2>1. mark' \in [Procs -> {"run", "send", "superseded", "latest", "rearm"}]
    BY <1>1, Names, Parts DEF Typed
  <2>2. superseded \in BOOLEAN
    BY Parts DEF Typed
  <2>3. superseded' \in BOOLEAN
    BY <1>2, <2>2
  <2>. QED
    BY <1>2, <2>1, <2>3, Parts DEF Typed
<1>4. x \in ClientPoints /\ x \notin Closing /\ (closed' => closing')
  BY <1>2, Parts DEF ClientPoints, Calling, Closing, ClosePlaces
<1>5. Points' /\ RunPlaces' /\ LockPlaces' /\ ClosePlaces' /\ TaskRefs' /\ Goes(c, x)
  BY <1>1, <1>2, <1>3, <1>4, Names, Parts, ClientFrame DEF Typed
<1>6. /\ mark[c] = "send" /\ mark'[c] = m /\ \A q \in Procs : q # c => mark'[q] = mark[q]
  BY <1>1, <1>2, Names, Parts DEF Typed, Marks
<1>7. Marks'
  BY <1>1, <1>2, <1>5, <1>6, Names, Parts DEF Marks, Goes, Calling
<1>8. /\ PermitsOK' /\ (permits'.at[c] # 0 => m # "run")
      /\ \A h \in Handles : h # c => permits'.at[h] = permits.at[h]
  <2>1. CASE x # "off"
    BY <1>1, <1>2, <2>1, Parts DEF PermitsOK
  <2>2. CASE x = "off"
    <3>1. PermitState(permits', others) /\ permits'.at = [permits.at EXCEPT ![c] = 0]
      BY <1>1, <2>2, Names, Parts, ReleaseExact DEF PermitsOK
    <3>2. permits.at \in [Handles -> 0..Capacity] /\ c \in Handles
      BY Names, Parts, PermitParts DEF PermitsOK
    <3>. QED
      BY <1>2, <3>1, <3>2 DEF PermitsOK
  <2>. QED
    BY <2>1, <2>2
<1>9. SlotsOK' /\ HandlePlaces'
  BY <1>1, <1>2, <1>4, <1>5, <1>6, <1>8, Names, Parts, SlotFrame DEF Closing
<1>10. OwedOK'
  <2>1. CASE m = "latest"
    BY <1>1, <1>2, <1>5, <2>1, Names, Parts, NothingOwed DEF Typed, StatusPlaces, Goes
  <2>2. CASE m # "latest"
    <3>1. Sender(c) => Sender(c)'
      BY <1>1, <1>2, <1>5, <1>6, <2>2 DEF Sender, Goes, Calling
    <3>. QED
      BY <1>2, <1>5, <1>6, <3>1, Names, Parts, OwedFrame DEF Typed
  <2>. QED
    BY <2>1, <2>2
<1>. QED
  BY <1>3, <1>5, <1>7, <1>9, <1>10 DEF IInv, PlacesOK

\* The prompt in flight is interrupted: the request carries its message on, unless a
\* stop has overtaken it.
LEMMA SendSupersedeKeeps ==
  ASSUME IInv, NEW c \in Clients, SendSupersede(c)
  PROVE  IInv'
<1>1. /\ pc[c] = "marked" /\ At(c, "supersede") /\ pins' = pins + 1 /\ acpRerun' = TRUE
      /\ owed' = (owed /\ ~(c \in stale /\ Live(arunTask)))
      /\ status' = status \/ status' = "paused"
      /\ \/ cancels' = cancels \cup {arunTask} /\ Live(arunTask)
         \/ cancels' = cancels
      /\ waitFor' = [waitFor EXCEPT ![c] = IF Live(runTask) THEN runTask ELSE "none"]
      /\ UNCHANGED <<agent, unread, inflight, superseded, mark, stale, runTask, arunTask, lock,
                     rerun, closing, closed, permits, others, goal>>
  BY DEF SendSupersede, InterruptConversation, PausedStatus
<1>2. Typed'
  <2>1. waitFor' \in [Procs -> Tasks \cup {"none"}] /\ cancels' \subseteq Tasks \cup {"goal"}
    BY <1>1, Names, Parts DEF Typed, Live
  <2>2. pins' \in Nat /\ status' \in Statuses
    BY <1>1, Parts DEF Typed, Statuses
  <2>3. owed' \in BOOLEAN /\ acpRerun' \in BOOLEAN
    BY <1>1, Parts DEF Typed
  <2>. QED
    BY <1>1, <2>1, <2>2, <2>3, Parts DEF Typed
<1>3. \A q \in Procs : q # c => waitFor'[q] = waitFor[q]
  BY <1>1, Parts DEF Typed
<1>4. Points' /\ RunPlaces' /\ LockPlaces' /\ ClosePlaces' /\ TaskRefs' /\ Goes(c, "supersede")
  <2>1. "supersede" \in ClientPoints /\ "supersede" \notin Closing /\ (closed' => closing')
    BY <1>1, Parts DEF ClientPoints, Closing, ClosePlaces
  <2>2. \A q \in cancels' : q \in cancels \/ pc[q] # "off"
    BY <1>1 DEF Live
  <2>. QED
    BY <1>1, <1>2, <1>3, <2>1, <2>2, Names, Parts, ClientFrame DEF Typed
<1>5. mark[c] = "superseded" /\ Marks'
  BY <1>1, <1>4, Names, Parts DEF Typed, Marks, Goes, Calling
<1>6. HandlePlaces' /\ PermitsOK' /\ GoalKeepsPermit' /\ GoalBegun' /\ SessionHeld'
  BY <1>1, <1>4, Names, Parts
     DEF Typed, HandlePlaces, PermitsOK, GoalKeepsPermit, GoalBegun, SessionHeld, Goes, Closing
<1>7. PinPlaces'
  <2>1. PinnedClients' = PinnedClients \cup {c} /\ c \notin PinnedClients
    BY <1>1, <1>4, <1>5, Names DEF PinnedClients, Goes
  <2>2. Pinned' = Pinned \cup {c}
    BY <1>4, <2>1, Names DEF Pinned, Goes
  <2>. QED
    BY <1>1, <2>1, <2>2, Parts, PinJoins DEF Typed
<1>8. StatusPlaces'
  BY <1>1, <1>4, Names, Parts DEF Typed, StatusPlaces, Goes
<1>9. OwedOK'
  <2>1. CASE c \notin stale
    <3>1. Sender(c)' /\ pc'[c] = "supersede" /\ c \notin stale'
      BY <1>1, <1>4, <1>5, <2>1 DEF Sender, Goes
    <3>2. Live(runTask)' => waitFor'[c] = runTask'
      BY <1>1, <1>4, Names, Parts DEF Typed, Live, Goes
    <3>. QED
      BY <1>8, <3>1, <3>2 DEF OwedOK, OwedCarried, Carried, CancelCarried
  <2>2. CASE c \in stale /\ Live(arunTask)
    BY <1>1, <1>8, <2>2, NothingOwed
  <2>3. CASE c \in stale /\ ~Live(arunTask)
    <3>1. ~Sender(c) /\ cancels' = cancels
      BY <1>1, <2>3 DEF Sender
    <3>. QED
      BY <1>1, <1>3, <1>4, <2>3, <3>1, Names, Parts, OwedFrame DEF Typed
  <2>. QED
    BY <2>1, <2>2, <2>3
<1>. QED
  BY <1>2, <1>4, <1>5, <1>6, <1>7, <1>9 DEF IInv, PlacesOK, SlotsOK

\* The interrupted run has ended: the request goes on, or a stop has overtaken it and
\* its pin is returned.
LEMMA SendSupersededKeeps ==
  ASSUME IInv, NEW c \in Clients, SendSuperseded(c)
  PROVE  IInv'
<1>1. /\ pc[c] = "supersede" /\ mark[c] = "superseded"
      /\ waitFor' = [waitFor EXCEPT ![c] = "none"] /\ (Live(waitFor[c]) => NoneScheduled)
      /\ runTask' = runTask \/ (runTask' = "none" /\ ~Live(runTask))
      /\ UNCHANGED <<agent, status, unread, inflight, superseded, owed, stale, cancels, arunTask,
                     lock, rerun, acpRerun, closing, closed, others, goal>>
  BY Parts DEF SendSuperseded, WaitedForRun, convVars, flagVars, Marks
<1>2. PICK x \in {"off", "enter"} :
        /\ At(c, x) /\ mark' = [mark EXCEPT ![c] = IF x = "off" THEN "run" ELSE @]
        /\ x = "enter" => UNCHANGED <<pins, permits>>
        /\ x = "off" => /\ c \in stale /\ pins' = Unpinned
                        /\ permits' = EndSession(Release(permits, c), pins', Live(runTask))
  <2>1. mark = [mark EXCEPT ![c] = @]
    BY Names, Parts DEF Typed
  <2>2. CASE c \in stale
    BY <2>2 DEF SendSuperseded
  <2>3. CASE c \notin stale
    BY <2>1, <2>3 DEF SendSuperseded
  <2>. QED
    BY <2>2, <2>3
<1>3. /\ mark'[c] = (IF x = "off" THEN "run" ELSE "superseded")
      /\ \A q \in Procs : q # c => mark'[q] = mark[q] /\ waitFor'[q] = waitFor[q]
  BY <1>1, <1>2, Names, Parts DEF Typed
<1>4. pins' \in Nat
  BY <1>2, Parts DEF Typed, Unpinned
<1>5. Typed'
  <2>1. /\ waitFor' \in [Procs -> Tasks \cup {"none"}] /\ runTask' \in Tasks \cup {"none"}
        /\ mark' \in [Procs -> {"run", "send", "superseded", "latest", "rearm"}]
    BY <1>1, <1>2, Names, Parts DEF Typed
  <2>. QED
    BY <1>1, <1>4, <2>1, Parts DEF Typed
<1>6. x \in ClientPoints /\ x \notin Closing /\ (closed' => closing')
  BY <1>1, Parts DEF ClientPoints, Calling, Closing, ClosePlaces
<1>7. Points' /\ RunPlaces' /\ LockPlaces' /\ ClosePlaces' /\ TaskRefs' /\ Goes(c, x)
  BY <1>1, <1>2, <1>3, <1>5, <1>6, Names, Parts, ClientFrame DEF Typed
<1>8. Marks'
  BY <1>1, <1>3, <1>7, Names, Parts DEF Typed, Marks, Goes, Calling
<1>9. SlotsOK' /\ HandlePlaces'
  <2>1. CASE x = "enter"
    BY <1>1, <1>2, <1>3, <1>7, <2>1, Names, Parts, SlotSame DEF Closing
  <2>2. CASE x = "off"
    <3>1. PinnedClients' = PinnedClients \ {c} /\ c \in PinnedClients
      BY <1>1, <1>3, <1>7, <2>2, Names DEF PinnedClients, Goes
    <3>2. Pinned' = Pinned \ {c}
      BY <1>7, <3>1, Names DEF Pinned, Goes
    <3>3. PinPlaces' /\ (~closing /\ pc'["goal"] # "off" => pins' > 0)
      BY <1>1, <1>2, <2>2, <3>1, <3>2, Parts, PinLeaves DEF Typed
    <3>4. PICK busy \in BOOLEAN : busy = Live(runTask)
      BY DEF Live
    <3>5. (busy => \E t \in Tasks : pc'[t] # "off") /\ pc'["goal"] = pc["goal"]
      <4>1. pc'["goal"] = pc["goal"] /\ \A t \in Tasks : pc'[t] = pc[t]
        BY <1>7, Names DEF Goes
      <4>2. runTask \in Tasks \cup {"none"}
        BY Parts DEF Typed
      <4>. QED
        BY <3>4, <4>1, <4>2 DEF Live
    <3>6. permits' = EndSession(Release(permits, c), pins', busy)
      BY <1>2, <2>2, <3>4
    <3>7. ~closing' /\ pc'["goal"] \notin {"off", "ending"} =>
            pins' > 0 /\ ~closing /\ pc["goal"] \notin {"off", "ending"}
      BY <1>1, <3>3, <3>5
    <3>8. /\ PermitsOK' /\ SessionHeld' /\ GoalKeepsPermit' /\ permits'.at[c] = 0
          /\ \A g \in Handles : g \notin {c, "session"} => permits'.at[g] = permits.at[g]
          /\ permits.at["session"] = 0 => permits'.at["session"] = 0
      BY <1>1, <1>4, <3>5, <3>6, <3>7, Names, Parts, ReleaseEnds
    <3>9. HandlePlaces' /\ GoalBegun'
      BY <1>1, <1>3, <1>7, <3>5, <3>8, Names, Parts DEF HandlePlaces, GoalBegun, Goes
    <3>. QED
      BY <3>3, <3>8, <3>9 DEF SlotsOK
  <2>. QED
    BY <2>1, <2>2
<1>10. OwedOK'
  <2>1. Sender(c) => Sender(c)'
    BY <1>1, <1>2, <1>3, <1>7 DEF Sender, Goes, Calling
  <2>. QED
    BY <1>1, <1>3, <1>7, <2>1, Names, Parts, OwedFrame DEF Typed
<1>. QED
  BY <1>5, <1>7, <1>8, <1>9, <1>10 DEF IInv, PlacesOK

\* close() arrives: the pins are dropped, the goal loop is cancelled.
LEMMA CloseKeeps ==
  ASSUME IInv, NEW c \in Clients, Close(c)
  PROVE  IInv'
<1>1. /\ pc[c] = "off" /\ At(c, "closeGoal") /\ Stop /\ ~owed' /\ closing' = TRUE /\ pins' = 0
      /\ cancels' = cancels \/ (cancels' = cancels \cup {"goal"} /\ pc["goal"] # "off")
      /\ UNCHANGED <<agent, status, unread, inflight, superseded, mark, waitFor, runTask, arunTask,
                     lock, closed, permits, others, goal>>
  BY DEF Close, Arrives, Stop
<1>2. Typed'
  <2>1. closing' \in BOOLEAN
    BY <1>1
  <2>2. stale' \subseteq Procs /\ cancels' \subseteq Tasks \cup {"goal"} /\ pins' \in Nat
        /\ owed' \in BOOLEAN /\ rerun' \in BOOLEAN /\ acpRerun' \in BOOLEAN
    BY <1>1, Parts DEF Typed, Stop
  <2>. QED
    BY <1>1, <2>1, <2>2, Parts DEF Typed
<1>3. Points' /\ RunPlaces' /\ LockPlaces' /\ ClosePlaces' /\ TaskRefs' /\ Goes(c, "closeGoal")
  <2>1. "closeGoal" \in ClientPoints /\ closing'
    BY <1>1 DEF ClientPoints, Closing
  <2>. QED
    BY <1>1, <1>2, <2>1, Names, Parts, ClientFrame DEF Typed
<1>4. mark[c] = "run" /\ Marks'
  BY <1>1, <1>3, Names, Parts DEF Typed, Marks, Goes, Calling
<1>5. HandlePlaces' /\ PermitsOK' /\ GoalKeepsPermit' /\ GoalBegun'
  BY <1>1, <1>3, Names, Parts DEF HandlePlaces, PermitsOK, GoalKeepsPermit, GoalBegun, Goes
<1>6. SessionHeld'
  BY <1>3 DEF SessionHeld, Goes, Closing
<1>7. PinPlaces'
  <2>1. PinnedClients' = PinnedClients
    BY <1>1, <1>3, <1>4, Names DEF PinnedClients, Goes
  <2>. QED
    BY <1>1, <2>1, PinsFinite DEF PinPlaces
<1>8. StatusPlaces'
  BY <1>1, <1>3, Names, Parts DEF StatusPlaces, Goes
<1>. QED
  BY <1>1, <1>2, <1>3, <1>4, <1>5, <1>6, <1>7, <1>8, NothingOwed DEF IInv, PlacesOK, SlotsOK

\* The run that close() has waited for has ended: the session ends.
LEMMA CloseRunEndedKeeps ==
  ASSUME IInv, NEW c \in Clients, CloseRunEnded(c)
  PROVE  IInv'
<1>1. /\ pc[c] = "closeRun" /\ At(c, "closeConv") /\ closing
      /\ waitFor' = [waitFor EXCEPT ![c] = "none"]
      /\ runTask' = IF waitFor[c] = "none" THEN runTask ELSE "none"
      /\ UNCHANGED <<agent, status, unread, inflight, superseded, owed, mark, stale, cancels,
                     arunTask, lock, rerun, acpRerun, closing, closed, pins, others, goal>>
  BY Parts DEF CloseRunEnded, convVars, flagVars, ClosePlaces, Closing
<1>2. runTask' = runTask \/ (runTask' = "none" /\ ~Live(runTask))
  BY <1>1, Parts DEF CloseRunEnded, ClosePlaces, Live
<1>3. Typed'
  <2>1. waitFor' \in [Procs -> Tasks \cup {"none"}] /\ runTask' \in Tasks \cup {"none"}
    BY <1>1, Names, Parts DEF Typed
  <2>. QED
    BY <1>1, <2>1, Parts DEF Typed
<1>4. \A q \in Procs : q # c => waitFor'[q] = waitFor[q]
  BY <1>1, Parts DEF Typed
<1>5. Points' /\ RunPlaces' /\ LockPlaces' /\ ClosePlaces' /\ TaskRefs' /\ Goes(c, "closeConv")
  <2>1. "closeConv" \in ClientPoints
    BY DEF ClientPoints
  <2>. QED
    BY <1>1, <1>2, <1>3, <1>4, <2>1, Names, Parts, ClientFrame DEF Typed
<1>6. mark[c] = "run" /\ Marks'
  BY <1>1, <1>5, Names, Parts DEF Typed, Marks, Goes, Calling
<1>7. /\ PermitsOK' /\ SessionHeld' /\ GoalKeepsPermit'
      /\ \A h \in Handles : h # "session" => permits'.at[h] = permits.at[h]
      /\ permits.at["session"] = 0 => permits'.at["session"] = 0
  <2>1. PICK busy \in BOOLEAN : busy = (runTask' # "none" /\ pc[runTask'] # "off")
    OBVIOUS
  <2>2. permits' = EndSession(permits, pins', busy)
    BY <1>1, <2>1 DEF CloseRunEnded, Live
  <2>3. busy => \E t \in Tasks : pc'[t] # "off"
    BY <1>3, <1>5, <2>1, Names DEF Typed, Goes
  <2>4. PermitState(permits, others) /\ pins' \in Nat
    BY <1>1, Parts DEF PermitsOK, Typed
  <2>. QED
    BY <1>1, <2>2, <2>3, <2>4, Parts, SessionEnds
<1>8. HandlePlaces' /\ GoalBegun'
  BY <1>1, <1>5, <1>7, Names, Parts DEF HandlePlaces, GoalBegun, Goes
<1>9. PinPlaces'
  <2>1. PinnedClients' = PinnedClients
    BY <1>1, <1>5, <1>6, Names DEF PinnedClients, Goes
  <2>. QED
    BY <1>1, <2>1, Parts DEF PinPlaces
<1>10. OwedOK'
  BY <1>1, <1>2, <1>4, <1>5, Names, Parts, OwedFrame DEF Typed, Sender, Calling
<1>. QED
  BY <1>3, <1>5, <1>6, <1>7, <1>8, <1>9, <1>10 DEF IInv, PlacesOK, SlotsOK

\* start_goal_loop and resume_goal_loop take the lock: no loop and no run is alive.
LEMMA GoalAskKeeps ==
  ASSUME IInv, NEW c \in Clients, GoalAsk(c)
  PROVE  IInv'
<1>1. PICK x \in {"goal", "resume"} : At(c, x)
  BY DEF GoalAsk
<1>2. /\ pc[c] = "off" /\ lock = "none" /\ pc["goal"] = "off" /\ ~Live(runTask) /\ lock' = c
      /\ UNCHANGED <<agent, status, unread, inflight, superseded, owed, mark, stale, waitFor,
                     cancels, runTask, arunTask, rerun, acpRerun, closing, closed, pins, permits,
                     others, goal>>
  BY DEF GoalAsk, Arrives, goalRest, flagVars
<1>3. Typed'
  BY <1>2, Names, Parts DEF Typed
<1>4. Points' /\ Goes(c, x)
  <2>1. x \in ClientPoints /\ c \in Procs /\ c \notin Tasks /\ c # "goal"
    BY Names DEF ClientPoints
  <2>. QED
    BY <1>1, <2>1, Parts, Moves
<1>5. RunPlaces' /\ ClosePlaces' /\ TaskRefs'
  <2>1. Waiting' => Waiting
    BY <1>4, Names DEF Waiting, Goes
  <2>. QED
    BY <1>2, <1>4, <2>1, Names, Parts DEF Typed, RunPlaces, ClosePlaces, TaskRefs, Goes, Closing
<1>6. LockPlaces'
  <2>1. ~Live(runTask)'
    BY <1>2, <1>4, Names, Parts DEF Typed, Live, Goes
  <2>. QED
    BY <1>2, <1>4, <2>1, Names, Parts DEF LockPlaces, Goes
<1>7. mark[c] = "run" /\ Marks'
  BY <1>2, <1>4, Names, Parts DEF Typed, Marks, Goes, Calling
<1>8. SlotsOK' /\ HandlePlaces'
  BY <1>2, <1>4, <1>7, Names, Parts, SlotSame DEF Closing
<1>9. OwedOK'
  BY <1>2, <1>4, Names, Parts, OwedFrame DEF Typed, Sender, Calling
<1>. QED
  BY <1>3, <1>4, <1>5, <1>6, <1>7, <1>8, <1>9 DEF IInv, PlacesOK

\* The loop is refused after all.
LEMMA GoalRefusedKeeps ==
  ASSUME IInv, NEW c \in Clients, pc[c] \in {"goal", "resume"}, At(c, "off"), lock' = "none",
         UNCHANGED <<agent, status, unread, inflight, superseded, owed, mark, stale, waitFor,
                     cancels, runTask, arunTask, rerun, acpRerun, closing, closed, pins, permits,
                     others, goal>>
  PROVE  IInv'
<1>1. Typed'
  BY Parts DEF Typed
<1>2. Points' /\ RunPlaces' /\ LockPlaces' /\ ClosePlaces' /\ TaskRefs' /\ Goes(c, "off")
  <2>1. "off" \in ClientPoints /\ "off" \notin Closing /\ (closed' => closing') /\ lock = c
    BY Names, Parts DEF ClientPoints, Closing, ClosePlaces, LockPlaces
  <2>. QED
    BY <1>1, <2>1, Names, Parts, ClientFrame DEF Typed
<1>3. mark[c] = "run" /\ Marks'
  BY <1>2, Names, Parts DEF Typed, Marks, Goes, Calling
<1>4. SlotsOK' /\ HandlePlaces'
  BY <1>2, <1>3, Names, Parts, SlotSame DEF Closing
<1>5. OwedOK'
  BY <1>2, Names, Parts, OwedFrame DEF Typed, Sender, Calling
<1>. QED
  BY <1>1, <1>2, <1>3, <1>4, <1>5 DEF IInv, PlacesOK

\* The goal loop claims the session's permit, pins it and is created.
LEMMA GoalScheduleKeeps ==
  ASSUME IInv, NEW c \in Clients, GoalSchedule(c)
  PROVE  IInv'
<1>1. /\ pc[c] \in {"goal", "resume"} /\ lock' = "none"
      /\ UNCHANGED <<agent, status, unread, inflight, superseded, owed, mark, stale, waitFor,
                     cancels, runTask, arunTask, rerun, acpRerun, closing, closed, others>>
  BY DEF GoalSchedule, goalRest, flagVars
<1>2. CASE At(c, "off") /\ UNCHANGED <<pins, permits, goal>>
  BY <1>1, <1>2, GoalRefusedKeeps
<1>3. CASE ~(status = "running" \/ closing \/ ~HasCapacity)
  <2>1. /\ ~closing /\ permits.free > 0 /\ pins' = pins + 1
        /\ pc' = [pc EXCEPT ![c] = "off", !["goal"] = "new"]
        /\ permits' = IF permits.at["session"] = 0
                      THEN Release(Share(Acquire(permits, c), c, "session"), c) ELSE permits
        /\ \E r \in {0, goal.rounds, MaxRounds - 1} : goal' = [goal EXCEPT !.rounds = r]
    BY <1>3 DEF GoalSchedule, HasCapacity
  <2>2. /\ lock = c /\ pc["goal"] = "off" /\ mark[c] = "run" /\ permits.at[c] = 0
        /\ \A q \in Procs : q # c => pc[q] \notin {"status", "sem", "goal", "resume"}
    BY <1>1, Names, Parts DEF Typed, LockPlaces, Marks, HandlePlaces, Calling
  <2>3. /\ pc'[c] = "off" /\ pc'["goal"] = "new"
        /\ \A q \in Procs : q \notin {c, "goal"} => pc'[q] = pc[q]
    BY <2>1, Names, Parts DEF Points
  <2>4. Points'
    <3>1. pc' \in [Procs -> ClientPoints \cup TaskPoints \cup GoalPoints]
      BY <2>1, Names, Parts DEF Points, ClientPoints, GoalPoints
    <3>. QED
      BY <2>3, <3>1, Names, Parts DEF Points, ClientPoints, GoalPoints
  <2>5. Typed' /\ goal'.status = goal.status
    <3>1. MaxRounds - 1 \in Nat /\ 0 \in Nat /\ goal.rounds \in Nat
      BY BoundsAssumption, Parts DEF Typed
    <3>2. goal' \in [status : {"none", "running", "interrupted", "over"}, rounds : Nat]
          /\ goal'.status = goal.status
      BY <2>1, <3>1, Parts DEF Typed
    <3>3. pins' \in Nat
      BY <2>1, Parts DEF Typed
    <3>. QED
      BY <1>1, <3>2, <3>3, Parts DEF Typed
  <2>6. RunPlaces' /\ TaskRefs'
    BY <1>1, <2>2, <2>3, Names, Parts DEF Typed, RunPlaces, TaskRefs
  <2>7. LockPlaces'
    BY <2>2, <2>3, Names DEF LockPlaces
  <2>8. ClosePlaces'
    BY <1>1, <2>1, <2>3, Names, Parts DEF ClosePlaces, Closing
  <2>9. Marks'
    BY <1>1, <2>2, <2>3, Names, Parts DEF Marks
  <2>10. /\ PermitsOK' /\ permits'.at["session"] # 0 /\ permits'.at[c] = 0
         /\ \A h \in Handles : h \notin {c, "session"} => permits'.at[h] = permits.at[h]
    <3>1. permits.at \in [Handles -> 0..Capacity] /\ PermitState(permits, others)
      BY Parts, PermitParts DEF PermitsOK
    <3>2. CASE permits.at["session"] # 0
      BY <1>1, <2>1, <2>2, <3>1, <3>2 DEF PermitsOK
    <3>3. CASE permits.at["session"] = 0
      <4>1. PICK P : P = Acquire(permits, c)
        OBVIOUS
      <4>2. PICK p \in PermitIds : P.at = [permits.at EXCEPT ![c] = p]
        BY <2>1, <2>2, <3>1, <4>1, Names, AcquireExact
      <4>3. PermitState(P, others) /\ p # 0
        BY <2>1, <2>2, <3>1, <4>1, Names, AcquireExact DEF PermitIds
      <4>4. P.at[c] = p /\ P.at["session"] = 0
        BY <3>1, <3>3, <4>2, Names
      <4>5. PICK Q : Q = Share(P, c, "session")
        OBVIOUS
      <4>6. PermitState(Q, others) /\ Q.at = [P.at EXCEPT !["session"] = p]
        BY <4>3, <4>4, <4>5, Names, ShareExact
      <4>7. permits' = Release(Q, c)
        BY <2>1, <3>3, <4>1, <4>5
      <4>8. PermitState(permits', others) /\ permits'.at = [Q.at EXCEPT ![c] = 0]
        BY <4>6, <4>7, Names, ReleaseExact
      <4>. QED
        BY <1>1, <3>1, <4>2, <4>3, <4>6, <4>8, Names DEF PermitsOK
    <3>. QED
      BY <3>2, <3>3
  <2>11. HandlePlaces' /\ GoalKeepsPermit' /\ GoalBegun'
    <3>1. HandlePlaces'
      BY <1>1, <2>2, <2>3, <2>10, Names, Parts DEF HandlePlaces
    <3>2. GoalKeepsPermit' /\ GoalBegun'
      BY <1>1, <2>2, <2>3, <2>5, <2>10, Parts DEF GoalKeepsPermit, GoalBegun
    <3>. QED
      BY <3>1, <3>2
  <2>12. PinPlaces' /\ SessionHeld'
    <3>1. PinnedClients' = PinnedClients
      BY <1>1, <2>2, <2>3, Names DEF PinnedClients
    <3>2. Pinned' = Pinned \cup {"goal"} /\ "goal" \notin Pinned
      BY <2>2, <2>3, <3>1, Names DEF Pinned, PinnedClients
    <3>3. Cardinality(Pinned') = Cardinality(Pinned) + 1
      BY <3>2, PinsFinite, FS_AddElement
    <3>. QED
      BY <1>1, <2>1, <3>3, Parts, PinsFinite DEF PinPlaces, SessionHeld, Typed
  <2>13. StatusPlaces'
    BY <1>1, <2>3, Names, Parts DEF StatusPlaces
  <2>14. OwedCarried' /\ CancelCarried'
    <3>1. (\E d \in Clients : Sender(d)) => (\E d \in Clients : Sender(d))'
      BY <1>1, <2>3, Names DEF Sender, Calling
    <3>2. \A t \in Tasks : Carries(t) => Carries(t)'
      BY <1>1, <2>3, Names DEF Carries, Parked, Rearming, Reads
    <3>3. Carried => Carried'
      BY <1>1, <3>1, <3>2 DEF Carried, TaskCarries
    <3>4. OwedCarried'
      BY <1>1, <2>3, <3>3, Names, Parts DEF OwedCarried
    <3>5. CancelCarried'
      BY <1>1, <2>3, Names, Parts DEF Typed, CancelCarried, Live
    <3>. QED
      BY <3>4, <3>5
  <2>. QED
    BY <2>4, <2>5, <2>6, <2>7, <2>8, <2>9, <2>10, <2>11, <2>12, <2>13, <2>14
       DEF IInv, PlacesOK, SlotsOK, OwedOK
<1>. QED
  BY <1>2, <1>3 DEF GoalSchedule

-----------------------------------------------------------------------------
(* The goal loop *)

\* PlaceFrame for the goal loop.
LEMMA GoalFrame ==
  ASSUME PlacesOK, Typed, NEW x \in GoalPoints \ {"status"}, At("goal", x), pc["goal"] # "off",
         UNCHANGED <<runTask, arunTask, closing, closed>>,
         lock' = lock \/ (lock = "goal" /\ lock' = "none"),
         \A q \in Procs : q # "goal" => waitFor'[q] = waitFor[q],
         cancels' \subseteq cancels, x = "off" => "goal" \notin cancels'
  PROVE  Points' /\ RunPlaces' /\ LockPlaces' /\ ClosePlaces' /\ TaskRefs' /\ Goes("goal", x)
<1>1. "goal" \in Procs /\ "goal" \notin Clients /\ "goal" \notin Tasks
  BY Names
<1>2. x \notin {"status", "sem", "goal", "resume"} /\ x \notin Closing \cup {"closeConv"}
  BY DEF GoalPoints, Calling, Closing
<1>3. cancels' \subseteq Procs /\ (closed' => closing') /\ runTask' # "goal"
  BY <1>1, Names DEF Typed, PlacesOK, ClosePlaces
<1>. QED
  BY <1>1, <1>2, <1>3, PlaceFrame

\* The goal loop takes a step and goes on.
LEMMA GoalGoesOnKeeps ==
  ASSUME IInv, (GoalBegin /\ "goal" \notin cancels)
               \/ GoalSay \/ GoalWaited \/ GoalJudge \/ GoalCancelled
  PROVE  IInv'
<1>1. PICK x \in {"say", "enter", "judge", "ending"} : At("goal", x)
  BY DEF GoalBegin, GoalSay, GoalWaited, GoalJudge, GoalCancelled
<1>2. /\ pc["goal"] \notin {"off", "ending"}
      /\ UNCHANGED <<agent, inflight, superseded, owed, mark, stale, runTask, arunTask, rerun,
                     acpRerun, closing, closed, pins, permits, others>>
      /\ \/ UNCHANGED <<unread, status>>
         \/ unread' = unread + 1
            /\ status' = IF status \in {"finished", "stuck"} THEN "idle" ELSE status
      /\ waitFor' = waitFor \/ waitFor' = [waitFor EXCEPT !["goal"] = "none"]
      /\ cancels' = cancels \/ cancels' = cancels \ {"goal"}
      /\ lock' = lock \/ (lock = "goal" /\ lock' = "none")
  BY DEF GoalBegin, GoalSay, GoalWaited, GoalJudge, GoalCancelled, goalRest, flagVars, Appended
<1>3. goal' \in [status : {"none", "running", "interrupted", "over"}, rounds : Nat]
  BY Parts DEF GoalBegin, GoalSay, GoalWaited, GoalJudge, GoalCancelled, Typed
<1>4. Typed'
  <2>1. waitFor' \in [Procs -> Tasks \cup {"none"}] /\ lock' \in Procs \cup {"none"}
    BY <1>2, Names, Parts DEF Typed
  <2>2. unread' \in Nat /\ status' \in Statuses /\ cancels' \subseteq Tasks \cup {"goal"}
    BY <1>2, Parts DEF Typed, Statuses
  <2>. QED
    BY <1>2, <1>3, <2>1, <2>2, Parts DEF Typed
<1>5. \A q \in Procs : q # "goal" => waitFor'[q] = waitFor[q]
  BY <1>2, Parts DEF Typed
<1>6. Points' /\ RunPlaces' /\ LockPlaces' /\ ClosePlaces' /\ TaskRefs' /\ Goes("goal", x)
  <2>1. x \in GoalPoints \ {"status"}
    BY DEF GoalPoints, Calling
  <2>. QED
    BY <1>1, <1>2, <1>5, <2>1, Parts, GoalFrame
<1>7. Marks'
  BY <1>2, <1>6, Names, Parts DEF Marks, Goes
<1>8. SlotsOK' /\ HandlePlaces'
  BY <1>2, <1>6, Names, Parts, SlotSame
<1>9. StatusPlaces'
  BY <1>2, <1>6, Names, Parts DEF Typed, StatusPlaces, Goes
<1>10. OwedOK'
  <2>1. CASE ~owed
    BY <1>2, <1>9, <2>1, NothingOwed
  <2>2. CASE owed
    <3>1. status' = status
      BY <1>2, <2>2, Parts DEF Typed, StatusPlaces
    <3>. QED
      BY <1>2, <1>5, <1>6, <1>9, <3>1, Names, Parts, CarriedFrame DEF Typed, OwedOK
  <2>. QED
    BY <2>1, <2>2
<1>. QED
  BY <1>4, <1>6, <1>7, <1>8, <1>10 DEF IInv, PlacesOK

\* The goal loop ends and returns its pin, or it is cancelled before its first step
\* and leaves the pin behind.
LEMMA GoalEndsKeeps ==
  ASSUME IInv, GoalEnd \/ (GoalBegin /\ "goal" \in cancels)
  PROVE  IInv'
<1>1. /\ pc["goal"] \in {"new", "ending"} /\ At("goal", "off") /\ cancels' = cancels \ {"goal"}
      /\ UNCHANGED <<agent, status, unread, inflight, superseded, owed, mark, stale, waitFor, lock,
                     runTask, arunTask, rerun, acpRerun, closing, closed, others>>
      /\ pins' = pins \/ pins' = Unpinned
      /\ \/ permits' = permits /\ pins' = pins
         \/ permits' = EndSession(permits, pins', Live(runTask))
  BY DEF GoalBegin, GoalEnd, goalRest, flagVars
<1>2. goal' \in [status : {"none", "running", "interrupted", "over"}, rounds : Nat]
  BY Parts DEF GoalBegin, GoalEnd, Typed
<1>3. GoalBegun'
  BY <1>1, Parts DEF GoalBegin, GoalEnd, GoalBegun, Typed
<1>4. Typed'
  <2>1. pins' \in Nat
    BY <1>1, Parts DEF Typed, Unpinned
  <2>. QED
    BY <1>1, <1>2, <2>1, Parts DEF Typed
<1>5. Points' /\ RunPlaces' /\ LockPlaces' /\ ClosePlaces' /\ TaskRefs' /\ Goes("goal", "off")
  <2>1. "off" \in GoalPoints \ {"status"}
    BY DEF GoalPoints
  <2>. QED
    BY <1>1, <2>1, Parts, GoalFrame
<1>6. Marks'
  BY <1>1, <1>5, Names, Parts DEF Marks, Goes
<1>7. PinPlaces'
  <2>1. PinnedClients' = PinnedClients
    BY <1>1, <1>5, Names DEF PinnedClients, Goes
  <2>2. Pinned' = Pinned \ {"goal"} /\ "goal" \in Pinned
    BY <1>1, <1>5, <2>1, Names DEF Pinned, PinnedClients, Goes
  <2>3. Cardinality(Pinned') = Cardinality(Pinned) - 1 /\ Cardinality(Pinned) > 0
    BY <2>2, PinsFinite, FS_RemoveElement
  <2>. QED
    BY <1>1, <2>1, <2>3, Parts, PinsFinite DEF PinPlaces, Unpinned, Typed
<1>8. /\ PermitsOK' /\ SessionHeld' /\ GoalKeepsPermit'
      /\ \A h \in Handles : h # "session" => permits'.at[h] = permits.at[h]
      /\ permits.at["session"] = 0 => permits'.at["session"] = 0
  <2>1. CASE permits' = permits /\ pins' = pins
    BY <1>1, <1>5, <2>1, Names, Parts DEF PermitsOK, SessionHeld, GoalKeepsPermit, Goes
  <2>2. CASE permits' = EndSession(permits, pins', Live(runTask))
    <3>1. PICK busy \in BOOLEAN : busy = Live(runTask)
      BY DEF Live
    <3>2. permits' = EndSession(permits, pins', busy)
      BY <2>2, <3>1
    <3>3. busy => \E t \in Tasks : pc'[t] # "off"
      BY <1>5, <3>1, Names, Parts DEF Typed, Live, Goes
    <3>4. PermitState(permits, others) /\ pins' \in Nat /\ pc'["goal"] = "off"
      BY <1>4, <1>5, Parts DEF PermitsOK, Typed, Goes
    <3>. QED
      BY <1>1, <3>2, <3>3, <3>4, Parts, SessionEnds
  <2>. QED
    BY <1>1, <2>1, <2>2
<1>9. HandlePlaces'
  BY <1>1, <1>5, <1>8, Names, Parts DEF HandlePlaces, Goes
<1>10. OwedOK'
  BY <1>1, <1>5, Names, Parts, OwedFrame DEF Typed
<1>. QED
  BY <1>3, <1>4, <1>5, <1>6, <1>7, <1>8, <1>9, <1>10 DEF IInv, PlacesOK, SlotsOK

-----------------------------------------------------------------------------
(* Run tasks *)

\* At most one task has its body or its tail under way.
LEMMA OnlyRun ==
  ASSUME RunPlaces, NEW t \in Tasks, pc[t] \in Active, NEW u \in Tasks, u # t
  PROVE  pc[u] \notin Active
  BY DEF RunPlaces

\* PlaceFrame for a run task.
LEMMA TaskFrame ==
  ASSUME PlacesOK, Typed, NEW t \in Tasks, NEW x \in TaskPoints \ {"new", "status", "sem"},
         At(t, x), UNCHANGED <<waitFor, closing, closed>>, x \in Active => pc[t] \in Active,
         lock' = lock \/ (lock = t /\ lock' = "none"),
         runTask' = runTask \/ (runTask' = "none" /\ runTask = t /\ x \notin Active),
         runTask' = t => x \in Active \cup {"off"},
         cancels' \subseteq cancels, x = "off" => t \notin cancels',
         arunTask' \in {arunTask, "none", t}
  PROVE  Points' /\ RunPlaces' /\ LockPlaces' /\ ClosePlaces' /\ TaskRefs' /\ Goes(t, x)
<1>1. t \in Procs /\ t \notin Clients /\ t # "goal"
  BY Names
<1>2. x \notin {"status", "sem", "goal", "resume"} /\ x \notin Closing \cup {"closeConv"}
  BY DEF TaskPoints, Active, Driving, Calling, Closing
<1>3. cancels' \subseteq Procs /\ (closed' => closing')
  BY Names DEF Typed, PlacesOK, ClosePlaces
<1>4. \A q \in cancels' : (q \in cancels \/ pc[q] # "off") /\ (q = t => x # "off")
  OBVIOUS
<1>5. \A u \in Tasks : arunTask' = u => arunTask = u \/ (u = t /\ x # "new")
  BY Names
<1>. QED
  BY <1>1, <1>2, <1>3, <1>4, <1>5, PlaceFrame

\* A living goal loop has a pin.
LEMMA GoalPins ==
  ASSUME PinPlaces, pins \in Nat, ~closing, pc["goal"] # "off"
  PROVE  pins > 0
<1>1. "goal" \in Pinned
  BY DEF Pinned
<1>. QED
  BY <1>1, PinsFinite DEF PinPlaces

\* settle(): the body of a task ends, or the task itself; its handle is returned and
\* the session ends unless somebody needs it.
LEMMA SettleSlots ==
  ASSUME IInv, NEW t \in Tasks, NEW x \in {"tail", "off"}, Goes(t, x), NEW busy \in BOOLEAN,
         permits' = EndSession(Release(permits, t), pins, busy),
         x = "off" /\ busy => \E u \in Tasks : u # t /\ pc[u] # "off",
         UNCHANGED <<pins, closing, others, goal>>, \A c \in Clients : mark'[c] = mark[c]
  PROVE  SlotsOK' /\ HandlePlaces'
<1>1. \A q \in Procs : q # t => pc'[q] = pc[q]
  BY DEF Goes
<1>2. pins' \in Nat /\ permits' = EndSession(Release(permits, t), pins', busy)
  BY Parts DEF Typed
<1>3. busy => \E u \in Tasks : pc'[u] # "off"
  BY <1>1, Names DEF Goes
<1>4. ~closing' /\ pc'["goal"] \notin {"off", "ending"} =>
        pins' > 0 /\ ~closing /\ pc["goal"] \notin {"off", "ending"}
  BY <1>1, Names, Parts, GoalPins DEF Typed
<1>5. /\ PermitsOK' /\ SessionHeld' /\ GoalKeepsPermit' /\ permits'.at[t] = 0
      /\ \A g \in Handles : g \notin {t, "session"} => permits'.at[g] = permits.at[g]
      /\ permits.at["session"] = 0 => permits'.at["session"] = 0
  BY <1>2, <1>3, <1>4, Names, Parts, ReleaseEnds
<1>6. HandlePlaces' /\ GoalBegun'
  BY <1>1, <1>5, Names, Parts DEF HandlePlaces, GoalBegun, Goes
<1>7. PinPlaces'
  <2>1. PinnedClients' = PinnedClients
    BY <1>1, Names DEF PinnedClients
  <2>2. Pinned' = Pinned
    BY <1>1, <2>1, Names DEF Pinned
  <2>. QED
    BY <2>1, <2>2, Parts DEF PinPlaces
<1>. QED
  BY <1>5, <1>6, <1>7 DEF SlotsOK

\* The same in the words of the steps.
LEMMA TailSlots ==
  ASSUME IInv, NEW t \in Tasks, Goes(t, "tail"), permits' = Settled(t),
         UNCHANGED <<pins, closing, others, goal, mark>>
  PROVE  SlotsOK' /\ HandlePlaces'
<1>1. PICK busy \in BOOLEAN : busy = IF runTask = t THEN rerun \/ acpRerun ELSE Live(runTask)
  BY DEF Live
<1>2. permits' = EndSession(Release(permits, t), pins, busy)
  BY <1>1 DEF Settled
<1>. QED
  BY <1>2, SettleSlots

\* And for the done callback of a task.
LEMMA OffSlots ==
  ASSUME IInv, NEW t \in Tasks, Goes(t, "off"), permits' = SettledDone(permits, t, "none"),
         UNCHANGED <<pins, closing, others, goal>>, \A c \in Clients : mark'[c] = mark[c]
  PROVE  SlotsOK' /\ HandlePlaces'
<1>1. PICK busy \in BOOLEAN : busy = (Live(runTask) /\ runTask # t)
  BY DEF Live
<1>2. permits' = EndSession(Release(permits, t), pins, busy)
  BY <1>1 DEF SettledDone
<1>3. busy => \E u \in Tasks : u # t /\ pc[u] # "off"
  BY <1>1, Parts DEF Typed, Live
<1>. QED
  BY <1>2, <1>3, SettleSlots

\* A task takes a step: whoever carried a message still does, unless it was this task.
LEMMA TaskOwed ==
  ASSUME OwedOK, StatusPlaces', NEW t \in Tasks, NEW x, Goes(t, x), pc[t] # "off",
         UNCHANGED <<agent, closing, waitFor, stale>>, \A c \in Clients : mark'[c] = mark[c],
         owed' => owed, rerun => rerun', cancels' \subseteq cancels,
         runTask \in Tasks \cup {"none"}, runTask' \in {runTask, "none"},
         owed' /\ (status' = "idle" \/ (agent = "llm" /\ \E u \in Tasks : pc'[u] = "step")) =>
           Carried /\ (~closing /\ t \notin cancels /\ Carries(t) => Carries(t)')
  PROVE  OwedOK'
<1>. USE DEF Goes
<1>1. (\E c \in Clients : Sender(c)) => (\E c \in Clients : Sender(c))'
  BY Names DEF Sender
<1>2. ASSUME NEW u \in Tasks, Carries(u), u # t PROVE Carries(u)'
  BY <1>2, Names DEF Carries, Parked, Rearming, Reads
<1>3. OwedCarried'
  BY <1>1, <1>2 DEF OwedCarried, Carried, TaskCarries
<1>4. CancelCarried'
  <2>1. Live(runTask)' => Live(runTask) /\ runTask' = runTask
    BY Names DEF Live
  <2>. QED
    BY <2>1, Names DEF OwedOK, CancelCarried
<1>. QED
  BY <1>3, <1>4 DEF OwedOK

\* A run task begins, or finds that a stop has overtaken it.
LEMMA TaskBeginKeeps ==
  ASSUME IInv, NEW t \in Tasks, TaskBegin(t)
  PROVE  IInv'
<1>1. /\ pc[t] = "new"
      /\ UNCHANGED <<agent, status, unread, inflight, superseded, owed, mark, stale, waitFor,
                     cancels, runTask, lock, rerun, acpRerun, closing, closed, pins, others, goal>>
  BY DEF TaskBegin, taskRest
<1>2. PICK x \in {"tail", "init"} :
        /\ At(t, x) /\ arunTask' = IF x = "init" THEN t ELSE arunTask
        /\ x = "tail" => t \in stale /\ permits' = Settled(t)
        /\ x = "init" => permits' = permits
  BY DEF TaskBegin, ToTail, At
<1>3. Typed'
  BY <1>1, <1>2, Parts DEF Typed
<1>4. Points' /\ RunPlaces' /\ LockPlaces' /\ ClosePlaces' /\ TaskRefs' /\ Goes(t, x)
  <2>1. x \in TaskPoints \ {"new", "status", "sem"} /\ x \in Active /\ pc[t] \in Active
    BY <1>1 DEF TaskPoints, Active, Driving
  <2>. QED
    BY <1>1, <1>2, <2>1, Parts, TaskFrame
<1>5. Marks'
  BY <1>1, <1>4, Names, Parts DEF Marks, Goes
<1>6. SlotsOK' /\ HandlePlaces'
  <2>1. CASE x = "tail"
    BY <1>1, <1>2, <1>4, <2>1, TailSlots
  <2>2. CASE x = "init"
    BY <1>1, <1>2, <1>4, <2>2, Names, Parts, SlotSame DEF Driving
  <2>. QED
    BY <2>1, <2>2
<1>7. OwedOK'
  <2>1. Carries(t) => Carries(t)'
    BY <1>1, <1>2, <1>4 DEF Carries, Parked, Rearming, Reads, Goes, Active, Driving, Calling
  <2>. QED
    BY <1>1, <1>4, <2>1, Names, Parts, OwedFrame DEF Typed
<1>. QED
  BY <1>3, <1>4, <1>5, <1>6, <1>7 DEF IInv, PlacesOK

\* The body of the run ends with status status': no step is under way any more, and a
\* message that an idle conversation owes is parked or with somebody else.
LEMMA BodyEnds ==
  ASSUME IInv, NEW t \in Tasks, pc[t] \in Driving, ToTail(t), arunTask' \in {arunTask, "none"},
         Typed', UNCHANGED <<agent, mark, stale, waitFor, runTask, rerun, closing, closed, pins,
                             others, goal>>,
         lock' = lock \/ (lock = t /\ lock' = "none"), cancels' \subseteq cancels, owed' => owed,
         status' # "running", status' \in {"finished", "stuck"} => unread' = 0,
         inflight' => agent = "acp" /\ unread' > 0,
         owed' => unread' > 0, owed' /\ inflight' => unread' > 1,
         owed' /\ status' = "idle" => Carried /\ (t \notin cancels /\ Carries(t) => rerun)
  PROVE  IInv'
<1>1. pc[t] \in Active /\ At(t, "tail") /\ permits' = Settled(t)
  BY DEF ToTail, At, Active
<1>2. Points' /\ RunPlaces' /\ LockPlaces' /\ ClosePlaces' /\ TaskRefs' /\ Goes(t, "tail")
  <2>1. "tail" \in TaskPoints \ {"new", "status", "sem"} /\ "tail" \in Active
    BY DEF TaskPoints, Active
  <2>. QED
    BY <1>1, <2>1, Parts, TaskFrame
<1>3. Marks'
  BY <1>2, Names, Parts DEF Marks, Goes
<1>4. SlotsOK' /\ HandlePlaces'
  BY <1>1, <1>2, TailSlots
<1>5. \A u \in Tasks : pc'[u] # "step"
  BY <1>1, <1>2, Names, Parts, OnlyRun DEF Goes, Active, Driving
<1>6. StatusPlaces'
  BY <1>5 DEF StatusPlaces
<1>7. owed' /\ (status' = "idle" \/ (agent = "llm" /\ \E u \in Tasks : pc'[u] = "step")) =>
        Carried /\ (t \notin cancels /\ Carries(t) => Carries(t)')
  BY <1>2, <1>5 DEF Carries, Parked, Goes, Active
<1>8. OwedOK'
  BY <1>1, <1>2, <1>6, <1>7, Parts, TaskOwed DEF Typed, Active, Driving
<1>. QED
  BY <1>2, <1>3, <1>4, <1>8 DEF IInv, PlacesOK

\* The agent is ready and the conversation RUNNING, or it fails.
LEMMA TaskReadyKeeps ==
  ASSUME IInv, NEW t \in Tasks, TaskReady(t)
  PROVE  IInv'
<1>1. /\ pc[t] = "init"
      /\ UNCHANGED <<agent, unread, inflight, superseded, owed, mark, stale, waitFor, cancels,
                     runTask, arunTask, lock, rerun, acpRerun, closing, closed, pins, others, goal>>
  BY DEF TaskReady, taskRest
<1>2. Typed'
  <2>1. status' \in Statuses
    BY Parts DEF TaskReady, Typed, Statuses
  <2>. QED
    BY <1>1, <2>1, Parts DEF Typed
<1>3. CASE status' = "error" /\ ToTail(t)
  BY <1>1, <1>2, <1>3, Parts, BodyEnds DEF Driving, StatusPlaces
<1>4. CASE /\ pc' = [pc EXCEPT ![t] = "top"] /\ permits' = permits
           /\ status' = IF status \in {"idle", "paused", "error", "stuck"}
                        THEN "running" ELSE status
  <2>1. Points' /\ RunPlaces' /\ LockPlaces' /\ ClosePlaces' /\ TaskRefs' /\ Goes(t, "top")
    <3>1. /\ "top" \in TaskPoints \ {"new", "status", "sem"} /\ "top" \in Active
          /\ pc[t] \in Active /\ At(t, "top")
      BY <1>1, <1>4 DEF TaskPoints, Active, Driving, At
    <3>. QED
      BY <1>1, <3>1, Parts, TaskFrame
  <2>2. Marks'
    BY <1>1, <2>1, Names, Parts DEF Marks, Goes
  <2>3. SlotsOK' /\ HandlePlaces'
    BY <1>1, <1>4, <2>1, Names, Parts, SlotSame DEF Driving
  <2>4. StatusPlaces'
    BY <1>1, <1>4, <2>1, Names, Parts DEF StatusPlaces, Goes
  <2>5. OwedOK'
    <3>1. Carries(t) => Carries(t)'
      BY <1>1, <2>1 DEF Carries, Parked, Rearming, Reads, Goes, Active, Driving, Calling
    <3>2. status' = "idle" => status = "idle"
      BY <1>4
    <3>. QED
      BY <1>1, <2>1, <2>4, <3>1, <3>2, Names, Parts, CarriedFrame DEF Typed, OwedOK
  <2>. QED
    BY <1>2, <2>1, <2>2, <2>3, <2>5 DEF IInv, PlacesOK
<1>. QED
  BY <1>3, <1>4 DEF TaskReady

\* The head of the loop: the run ends, or the next step takes the messages.
LEMMA TaskTopKeeps ==
  ASSUME IInv, NEW t \in Tasks, TaskTop(t)
  PROVE  IInv'
<1>1. /\ pc[t] = "top"
      /\ UNCHANGED <<agent, superseded, pins, stale, waitFor, mark, lock, closing, closed, others,
                     goal, cancels, runTask, rerun, acpRerun>>
  BY DEF TaskTop
<1>2. CASE /\ status \in {"paused", "stuck", "finished"} \/ (agent = "acp" /\ unread = 0)
           /\ \E st \in {status, "finished"} :
                st \in {"paused", "stuck", "finished"} /\ LeaveArun(t, st)
                /\ (st # status => agent = "acp" /\ unread = 0)
           /\ UNCHANGED <<unread, inflight, owed>>
  <2>1. status' \in {"paused", "stuck", "finished"} /\ arunTask' = "none" /\ ToTail(t)
    BY <1>2 DEF LeaveArun
  <2>2. status' \in {"finished", "stuck"} => unread' = 0
    BY <1>2, Parts DEF LeaveArun, StatusPlaces
  <2>3. Typed'
    BY <1>1, <1>2, <2>1, Parts DEF Typed, Statuses
  <2>. QED
    BY <1>1, <1>2, <2>1, <2>2, <2>3, Parts, BodyEnds DEF Driving, StatusPlaces
<1>3. CASE /\ status \notin {"paused", "stuck", "finished"}
           /\ agent = "acp" => unread > 0
           /\ pc' = [pc EXCEPT ![t] = "step"]
           /\ status' = IF status = "waiting" THEN "running" ELSE status
           /\ IF agent = "acp"
              THEN inflight' = TRUE /\ owed' = (owed /\ unread > 1) /\ UNCHANGED unread
              ELSE unread' = 0 /\ owed' = FALSE /\ UNCHANGED inflight
           /\ UNCHANGED <<arunTask, permits>>
  <2>1. Points' /\ RunPlaces' /\ LockPlaces' /\ ClosePlaces' /\ TaskRefs' /\ Goes(t, "step")
    <3>1. /\ "step" \in TaskPoints \ {"new", "status", "sem"} /\ "step" \in Active
          /\ pc[t] \in Active /\ At(t, "step")
      BY <1>1, <1>3 DEF TaskPoints, Active, Driving, At
    <3>. QED
      BY <1>1, <1>3, <3>1, Parts, TaskFrame
  <2>2. Typed'
    <3>1. inflight \in BOOLEAN /\ owed \in BOOLEAN
      BY Parts DEF Typed
    <3>2. inflight' \in BOOLEAN
      BY <1>3, <3>1
    <3>3. owed' \in BOOLEAN
      BY <1>3, <3>1
    <3>4. unread' \in Nat /\ status' \in Statuses
      BY <1>3, Parts DEF Typed, Statuses
    <3>. QED
      BY <1>1, <1>3, <3>2, <3>3, <3>4, Parts DEF Typed
  <2>3. Marks'
    BY <1>1, <2>1, Names, Parts DEF Marks, Goes
  <2>4. SlotsOK' /\ HandlePlaces'
    BY <1>1, <1>3, <2>1, Names, Parts, SlotSame DEF Driving
  <2>5. CASE agent = "acp"
    <3>1. (inflight' <=> TRUE) /\ unread' = unread /\ (owed' <=> owed /\ unread > 1)
      BY <1>3, <2>5
    <3>2. StatusPlaces'
      BY <1>1, <1>3, <2>1, <2>5, <3>1, Names, Parts DEF StatusPlaces, Goes
    <3>3. Carries(t) => Carries(t)'
      BY <1>1, <2>1, <2>5 DEF Carries, Parked, Rearming, Reads, Goes, Active, Driving, Calling
    <3>4. owed' /\ (status' = "idle" \/ (agent = "llm" /\ \E u \in Tasks : pc'[u] = "step")) =>
            Carried /\ (t \notin cancels /\ Carries(t) => Carries(t)')
      BY <1>3, <2>5, <3>1, <3>3, Parts DEF OwedCarried
    <3>5. OwedOK'
      BY <1>1, <2>1, <3>1, <3>2, <3>4, Parts, TaskOwed DEF Typed
    <3>. QED
      BY <2>1, <2>2, <2>3, <2>4, <3>5 DEF IInv, PlacesOK
  <2>6. CASE agent # "acp"
    <3>1. ~owed' /\ unread' = 0 /\ inflight' = inflight /\ ~inflight
      BY <1>3, <2>6, Parts DEF StatusPlaces
    <3>2. StatusPlaces'
      BY <1>1, <1>3, <2>1, <2>6, <3>1, Names, Parts DEF StatusPlaces, Goes
    <3>. QED
      BY <2>1, <2>2, <2>3, <2>4, <3>1, <3>2, NothingOwed DEF IInv, PlacesOK
  <2>. QED
    BY <2>5, <2>6
<1>. QED
  BY <1>2, <1>3 DEF TaskTop

\* A step ends and the loop goes round: what it was prompted with has been read.
LEMMA TaskStepKeeps ==
  ASSUME IInv, NEW t \in Tasks, TaskStep(t)
  PROVE  IInv'
<1>1. /\ pc[t] = "step" /\ At(t, "top")
      /\ UNCHANGED <<agent, owed, pins, stale, waitFor, mark, lock, closing, closed, others, goal,
                     permits, arunTask, cancels, runTask, rerun, acpRerun>>
  BY DEF TaskStep, At
<1>2. Points' /\ RunPlaces' /\ LockPlaces' /\ ClosePlaces' /\ TaskRefs' /\ Goes(t, "top")
  <2>1. /\ "top" \in TaskPoints \ {"new", "status", "sem"} /\ "top" \in Active
        /\ pc[t] \in Active
    BY <1>1 DEF TaskPoints, Active, Driving
  <2>. QED
    BY <1>1, <2>1, Parts, TaskFrame
<1>3. \A u \in Tasks : pc'[u] # "step"
  BY <1>1, <1>2, Names, Parts, OnlyRun DEF Goes, Active, Driving
<1>4. Marks'
  BY <1>1, <1>2, Names, Parts DEF Marks, Goes
<1>5. SlotsOK' /\ HandlePlaces'
  BY <1>1, <1>2, Names, Parts, SlotSame DEF Driving
<1>6. CASE agent = "acp"
  <2>1. /\ unread' = unread - 1 /\ inflight' = FALSE /\ superseded' = FALSE
        /\ status' = IF status = "paused" THEN "paused"
                     ELSE IF unread > 1 THEN "running" ELSE "finished"
    BY <1>6 DEF TaskStep
  <2>2. unread \in Nat /\ unread > 0 /\ (owed => unread > 1)
    BY <1>1, <1>6, Parts DEF Typed, StatusPlaces
  <2>3. Typed'
    <3>1. inflight' \in BOOLEAN /\ superseded' \in BOOLEAN
      BY <2>1
    <3>2. unread' \in Nat /\ status' \in Statuses
      BY <2>1, <2>2 DEF Statuses
    <3>. QED
      BY <1>1, <3>1, <3>2, Parts DEF Typed
  <2>4. StatusPlaces'
    BY <1>1, <1>2, <1>3, <2>1, <2>2 DEF StatusPlaces, Goes
  <2>5. ~(owed' /\ (status' = "idle" \/ (agent = "llm" /\ \E u \in Tasks : pc'[u] = "step")))
    BY <1>3, <2>1
  <2>6. OwedOK'
    BY <1>1, <1>2, <2>4, <2>5, Parts, TaskOwed DEF Typed
  <2>. QED
    BY <1>2, <1>4, <1>5, <2>3, <2>6 DEF IInv, PlacesOK
<1>7. CASE agent # "acp"
  <2>1. /\ UNCHANGED <<unread, inflight, superseded>>
        /\ status' \in {status, "running", "finished"}
        /\ status' = "finished" => unread = 0 \/ status = "finished"
        /\ status' = "stuck" => status = "stuck"
    BY <1>7, Parts DEF TaskStep, Typed
  <2>2. Typed'
    BY <1>1, <2>1, Parts DEF Typed, Statuses
  <2>3. StatusPlaces'
    BY <1>1, <1>2, <1>3, <2>1, Parts DEF StatusPlaces, Goes
  <2>4. agent = "llm"
    BY <1>7, AgentsAssumption, Parts DEF Typed
  <2>5. owed' /\ (status' = "idle" \/ (agent = "llm" /\ \E u \in Tasks : pc'[u] = "step")) =>
          Carried /\ (t \notin cancels /\ Carries(t) => Carries(t)')
    <3>1. owed' => Carried
      BY <1>1, <2>4, Parts DEF OwedCarried
    <3>2. Carries(t) => Carries(t)'
      BY <1>1, <1>2, <2>4 DEF Carries, Parked, Rearming, Reads, Goes, Active, Driving, Calling
    <3>. QED
      BY <3>1, <3>2
  <2>6. OwedOK'
    BY <1>1, <1>2, <2>3, <2>5, Parts, TaskOwed DEF Typed
  <2>. QED
    BY <1>2, <1>4, <1>5, <2>2, <2>6 DEF IInv, PlacesOK
<1>. QED
  BY <1>6, <1>7

\* A step ends the run.  When that leaves the conversation IDLE with a message unread,
\* somebody carried the message while the step was under way.
LEMMA TaskBreakKeeps ==
  ASSUME IInv, NEW t \in Tasks, TaskBreak(t)
  PROVE  IInv'
<1>1. /\ pc[t] = "step" /\ inflight' = FALSE /\ superseded' = FALSE
      /\ UNCHANGED <<agent, unread, owed, pins, stale, waitFor, mark, lock, closing, closed, others,
                     goal, cancels, runTask, rerun, acpRerun>>
  BY DEF TaskBreak
<1>2. PICK st \in {"error", "waiting", "stuck", "idle"} :
        /\ st \in {"waiting", "stuck"} => unread = 0
        /\ agent = "acp" => st = "error"
        /\ LeaveArun(t, st)
  BY DEF TaskBreak
<1>3. status' = st /\ arunTask' = "none" /\ ToTail(t)
  BY <1>2 DEF LeaveArun
<1>4. Typed'
  <2>1. inflight' \in BOOLEAN /\ superseded' \in BOOLEAN
    BY <1>1
  <2>2. status' \in Statuses
    BY <1>3 DEF Statuses
  <2>. QED
    BY <1>1, <1>3, <2>1, <2>2, Parts DEF Typed
<1>5. owed' /\ status' = "idle" => Carried /\ (t \notin cancels /\ Carries(t) => rerun)
  <2>1. status' = "idle" => agent = "llm"
    BY <1>2, <1>3, AgentsAssumption, Parts DEF Typed
  <2>2. owed' /\ status' = "idle" => Carried
    BY <1>1, <2>1, Parts DEF OwedCarried
  <2>3. status' = "idle" /\ Carries(t) => rerun
    BY <1>1, <2>1 DEF Carries, Parked, Rearming, Reads, Calling
  <2>. QED
    BY <2>2, <2>3
<1>6. owed' => unread' > 0
  BY <1>1, Parts DEF StatusPlaces
<1>. QED
  BY <1>1, <1>2, <1>3, <1>4, <1>5, <1>6, BodyEnds DEF Driving

\* The cancellation of a task is delivered.
LEMMA TaskCancelledKeeps ==
  ASSUME IInv, NEW t \in Tasks, TaskCancelled(t)
  PROVE  IInv'
<1>1. /\ t \in cancels /\ pc[t] # "off" /\ cancels' = cancels \ {t}
      /\ lock' = lock \/ (lock = t /\ lock' = "none")
      /\ UNCHANGED <<agent, owed, pins, stale, waitFor, mark, closing, closed, others, goal,
                     runTask, rerun, acpRerun>>
  BY DEF TaskCancelled
<1>2. CASE pc[t] = "init"
  <2>1. ToTail(t) /\ UNCHANGED <<status, arunTask, unread, inflight, superseded>>
    BY <1>2 DEF TaskCancelled
  <2>2. Typed'
    BY <1>1, <2>1, Names, Parts DEF Typed
  <2>3. status # "running"
    BY <1>2, Names, Parts, OnlyRun DEF StatusPlaces, Active, Driving
  <2>4. owed' /\ status' = "idle" => Carried
    BY <1>1, <2>1, Parts DEF OwedCarried
  <2>. QED
    BY <1>1, <1>2, <2>1, <2>2, <2>3, <2>4, Parts, BodyEnds DEF Driving, StatusPlaces
<1>3. CASE pc[t] \in {"top", "step"}
  <2>1. /\ status' = "paused" /\ arunTask' = "none" /\ ToTail(t)
        /\ unread' = IF superseded /\ inflight THEN unread - 1 ELSE unread
        /\ inflight' = FALSE /\ superseded' = FALSE
    BY <1>3 DEF TaskCancelled, LeaveArun
  <2>2. unread' \in Nat /\ (owed => unread' > 0)
    BY <2>1, Parts DEF Typed, StatusPlaces
  <2>3. Typed'
    <3>1. inflight' \in BOOLEAN /\ superseded' \in BOOLEAN
      BY <2>1
    <3>2. status' \in Statuses /\ lock' \in Procs \cup {"none"}
      BY <1>1, <2>1, Parts DEF Statuses, Typed
    <3>. QED
      BY <1>1, <2>1, <2>2, <3>1, <3>2, Parts DEF Typed
  <2>. QED
    BY <1>1, <1>3, <2>1, <2>2, <2>3, BodyEnds DEF Driving
<1>4. CASE pc[t] \notin {"init", "top", "step"}
  <2>1. At(t, "off") /\ permits' = SettledDone(permits, t, "none")
        /\ UNCHANGED <<status, arunTask, unread, inflight, superseded>>
    BY <1>4 DEF TaskCancelled, TaskOff, At
  <2>2. Typed'
    BY <1>1, <2>1, Names, Parts DEF Typed
  <2>3. Points' /\ RunPlaces' /\ LockPlaces' /\ ClosePlaces' /\ TaskRefs' /\ Goes(t, "off")
    <3>1. "off" \in TaskPoints \ {"new", "status", "sem"} /\ "off" \notin Active
      BY DEF TaskPoints, Active, Driving
    <3>. QED
      BY <1>1, <2>1, <3>1, Parts, TaskFrame
  <2>4. Marks'
    BY <1>1, <2>3, Names, Parts DEF Marks, Goes
  <2>5. SlotsOK' /\ HandlePlaces'
    BY <1>1, <2>1, <2>3, OffSlots
  <2>6. StatusPlaces'
    BY <1>1, <1>4, <2>1, <2>3, Names, Parts DEF StatusPlaces, Goes
  <2>7. owed' /\ (status' = "idle" \/ (agent = "llm" /\ \E u \in Tasks : pc'[u] = "step")) =>
          Carried /\ (t \notin cancels /\ Carries(t) => Carries(t)')
    BY <1>1, <2>1, <2>3, Names, Parts DEF OwedCarried, Goes
  <2>8. OwedOK'
    BY <1>1, <2>3, <2>6, <2>7, Parts, TaskOwed DEF Typed
  <2>. QED
    BY <2>2, <2>3, <2>4, <2>5, <2>8 DEF IInv, PlacesOK
<1>. QED
  BY <1>2, <1>3, <1>4

\* The pending events are published and _run_task is cleared.
LEMMA TaskDrainedKeeps ==
  ASSUME IInv, NEW t \in Tasks, TaskDrained(t)
  PROVE  IInv'
<1>1. /\ pc[t] = "tail" /\ At(t, "pub") /\ runTask' = "none" /\ runTask = t
      /\ UNCHANGED <<agent, status, unread, inflight, superseded, owed, mark, stale, waitFor,
                     cancels, arunTask, lock, rerun, acpRerun, closing, closed, pins, permits,
                     others, goal>>
  BY Parts DEF TaskDrained, taskRest, At, RunPlaces, Active
<1>2. Typed'
  BY <1>1, Parts DEF Typed
<1>3. Points' /\ RunPlaces' /\ LockPlaces' /\ ClosePlaces' /\ TaskRefs' /\ Goes(t, "pub")
  <2>1. "pub" \in TaskPoints \ {"new", "status", "sem"} /\ "pub" \notin Active
    BY DEF TaskPoints, Active, Driving
  <2>. QED
    BY <1>1, <2>1, Names, Parts, TaskFrame
<1>4. Marks'
  BY <1>1, <1>3, Names, Parts DEF Marks, Goes
<1>5. SlotsOK' /\ HandlePlaces'
  BY <1>1, <1>3, Names, Parts, SlotSame DEF Driving
<1>6. OwedOK'
  <2>1. Carries(t) => Carries(t)'
    BY <1>1, <1>3 DEF Carries, Parked, Rearming, Reads, Goes, Calling
  <2>. QED
    BY <1>1, <1>3, <2>1, Names, Parts, OwedFrame DEF Typed
<1>. QED
  BY <1>2, <1>3, <1>4, <1>5, <1>6 DEF IInv, PlacesOK

\* A parked request is taken by the task that has published, which carries it from
\* now on; otherwise the task ends.
LEMMA TaskPublishedKeeps ==
  ASSUME IInv, NEW t \in Tasks, TaskPublished(t)
  PROVE  IInv'
<1>1. /\ pc[t] = "pub" /\ t \notin cancels /\ rerun' = FALSE /\ acpRerun' = FALSE
      /\ UNCHANGED <<agent, unread, owed, pins, waitFor, lock, closing, closed, others, goal,
                     status, inflight, superseded, cancels, arunTask, runTask>>
  BY DEF TaskPublished
<1>2. PICK x \in {"decide", "off"}, m \in {"run", "rearm"} :
        /\ At(t, x) /\ (x = "decide" <=> rerun)
        /\ x = "decide" => /\ mark' = [mark EXCEPT ![t] = m] /\ stale' = stale \ {t}
                           /\ permits' = permits
        /\ x = "off" => /\ mark' = mark /\ stale' = stale
                        /\ permits' = SettledDone(permits, t, "none")
  BY DEF TaskPublished, TaskOff, At
<1>3. mark' \in [Procs -> {"run", "send", "superseded", "latest", "rearm"}]
      /\ mark'[t] \in {"run", "rearm"} /\ \A q \in Procs : q # t => mark'[q] = mark[q]
  BY <1>2, Names, Parts DEF Typed, Marks
<1>4. Typed'
  <2>1. rerun' \in BOOLEAN /\ acpRerun' \in BOOLEAN
    BY <1>1
  <2>2. stale' \subseteq Procs
    BY <1>2, Parts DEF Typed
  <2>. QED
    BY <1>1, <1>3, <2>1, <2>2, Parts DEF Typed
<1>5. Points' /\ RunPlaces' /\ LockPlaces' /\ ClosePlaces' /\ TaskRefs' /\ Goes(t, x)
  <2>1. x \in TaskPoints \ {"new", "status", "sem"} /\ x \notin Active
    BY DEF TaskPoints, Active, Driving
  <2>2. runTask # t
    BY <1>1, Parts DEF RunPlaces, Active, Driving
  <2>. QED
    BY <1>1, <1>2, <2>1, <2>2, Parts, TaskFrame
<1>6. Marks'
  BY <1>1, <1>3, <1>5, Names, Parts DEF Marks, Goes
<1>7. StatusPlaces'
  BY <1>1, <1>2, <1>5, Names, Parts DEF StatusPlaces, Goes
<1>8. CASE x = "decide"
  <2>1. SlotsOK' /\ HandlePlaces'
    BY <1>1, <1>2, <1>3, <1>5, <1>8, Names, Parts, SlotSame DEF Driving
  <2>2. OwedCarried'
    <3>1. (\E c \in Clients : Sender(c)) => (\E c \in Clients : Sender(c))'
      BY <1>1, <1>2, <1>3, <1>5, <1>8, Names DEF Sender, Goes
    <3>2. TaskCarries'
      BY <1>1, <1>2, <1>5, <1>8 DEF TaskCarries, Carries, Rearming, Goes
    <3>3. Carried => Carried'
      BY <1>1, <3>1, <3>2 DEF Carried
    <3>. QED
      BY <1>1, <1>5, <1>8, <3>3, Names, Parts DEF OwedCarried, Goes
  <2>3. CancelCarried'
    <3>1. Live(runTask)' => Live(runTask)
      BY <1>1, <1>5, Names, Parts DEF Live, Goes, Typed
    <3>. QED
      BY <1>1, <1>2, <1>5, <1>8, <3>1, Names, Parts DEF CancelCarried, Goes
  <2>. QED
    BY <1>4, <1>5, <1>6, <1>7, <2>1, <2>2, <2>3 DEF IInv, PlacesOK, OwedOK
<1>9. CASE x = "off"
  <2>1. SlotsOK' /\ HandlePlaces'
    BY <1>1, <1>2, <1>3, <1>5, <1>9, Names, OffSlots
  <2>2. ~Carries(t)
    BY <1>1, <1>2, <1>9 DEF Carries, Parked, Rearming, Reads, Calling
  <2>3. owed' /\ (status' = "idle" \/ (agent = "llm" /\ \E u \in Tasks : pc'[u] = "step")) =>
          Carried /\ (t \notin cancels /\ Carries(t) => Carries(t)')
    BY <1>1, <1>5, <1>9, <2>2, Names, Parts DEF OwedCarried, Goes
  <2>4. OwedOK'
    BY <1>1, <1>2, <1>3, <1>5, <1>7, <1>9, <2>3, Names, Parts, TaskOwed DEF Typed
  <2>. QED
    BY <1>4, <1>5, <1>6, <2>1, <2>4 DEF IInv, PlacesOK
<1>. QED
  BY <1>8, <1>9

\* should_restart: the task calls run() for the request it has taken, or drops it;
\* a message that is still owed then is not with an idle conversation.
LEMMA TaskRearmsKeeps ==
  ASSUME IInv, NEW t \in Tasks, TaskRearms(t)
  PROVE  IInv'
<1>1. /\ pc[t] = "decide" /\ t \notin cancels
      /\ owed' = (owed /\ (Restarts(t) \/ ~Live(runTask)))
      /\ UNCHANGED <<agent, unread, pins, stale, waitFor, lock, closing, closed, others, goal,
                     status, inflight, superseded, cancels, arunTask, runTask, rerun, acpRerun>>
  BY DEF TaskRearms
<1>2. PICK x \in {"enter", "off"} :
        /\ At(t, x) /\ (x = "enter" <=> Restarts(t))
        /\ x = "enter" => mark' = mark /\ permits' = permits
        /\ x = "off" => /\ mark' = [mark EXCEPT ![t] = "run"]
                        /\ permits' = SettledDone(permits, t, "none")
  BY DEF TaskRearms, TaskOff, At
<1>3. mark' \in [Procs -> {"run", "send", "superseded", "latest", "rearm"}]
      /\ mark'[t] \in {"run", "rearm"} /\ \A q \in Procs : q # t => mark'[q] = mark[q]
  BY <1>2, Names, Parts DEF Typed, Marks
<1>4. Typed'
  <2>1. owed' \in BOOLEAN
    BY <1>1, Parts DEF Typed, Live
  <2>. QED
    BY <1>1, <1>3, <2>1, Parts DEF Typed
<1>5. Points' /\ RunPlaces' /\ LockPlaces' /\ ClosePlaces' /\ TaskRefs' /\ Goes(t, x)
  <2>1. x \in TaskPoints \ {"new", "status", "sem"} /\ x \notin Active
    BY DEF TaskPoints, Active, Driving, Calling
  <2>2. runTask # t
    BY <1>1, Parts DEF RunPlaces, Active, Driving
  <2>. QED
    BY <1>1, <1>2, <2>1, <2>2, Parts, TaskFrame
<1>6. Marks'
  BY <1>1, <1>3, <1>5, Names, Parts DEF Marks, Goes
<1>7. SlotsOK' /\ HandlePlaces'
  <2>1. CASE x = "enter"
    BY <1>1, <1>2, <1>5, <2>1, Names, Parts, SlotSame DEF Driving
  <2>2. CASE x = "off"
    BY <1>1, <1>2, <1>3, <1>5, <2>2, Names, OffSlots
  <2>. QED
    BY <2>1, <2>2
<1>8. owed' => owed
  BY <1>1
<1>9. StatusPlaces'
  BY <1>1, <1>2, <1>5, <1>8, Names, Parts DEF StatusPlaces, Goes
<1>10. owed' /\ (status' = "idle" \/ (agent = "llm" /\ \E u \in Tasks : pc'[u] = "step")) =>
        Carried /\ (t \notin cancels /\ Carries(t) => Carries(t)')
  <2>1. SUFFICES ASSUME owed',
                        status' = "idle" \/ (agent = "llm" /\ \E u \in Tasks : pc'[u] = "step")
                 PROVE  Carried /\ (Carries(t) => Carries(t)')
    OBVIOUS
  <2>2. Carried
    BY <1>1, <1>2, <1>5, <1>8, <2>1, Names, Parts DEF OwedCarried, Goes
  <2>3. CASE x = "enter"
    BY <1>1, <1>2, <1>5, <2>2, <2>3
       DEF Carries, Parked, Rearming, Reads, Goes, Active, Driving, Calling
  <2>4. CASE x = "off"
    <3>1. ~Live(runTask)
      BY <1>1, <1>2, <2>1, <2>4
    <3>2. \A u \in Tasks : pc'[u] # "step"
      BY <1>2, <1>5, <3>1, Names, Parts DEF RunPlaces, Live, Goes, Active, Driving
    <3>3. t \in stale
      BY <1>1, <1>2, <2>1, <2>4, <3>2 DEF Restarts
    <3>4. ~Carries(t)
      BY <1>1, <3>3 DEF Carries, Parked, Rearming, Reads, Active, Driving
    <3>. QED
      BY <2>2, <3>4
  <2>. QED
    BY <2>3, <2>4
<1>11. OwedOK'
  BY <1>1, <1>3, <1>5, <1>8, <1>9, <1>10, Names, Parts, TaskOwed DEF Typed
<1>. QED
  BY <1>4, <1>5, <1>6, <1>7, <1>11 DEF IInv, PlacesOK

-----------------------------------------------------------------------------
(* The calls of run() *)

\* A call goes on: past the first check, to the lock, to the semaphore.
LEMMA CallGoesOnKeeps ==
  ASSUME IInv, NEW p \in Procs, NEW x \in {"lock", "status", "sem"}, At(p, x), pc[p] \in Calling,
         x = "lock" => lock' = lock /\ pc[p] = "enter" /\ ~closing,
         x # "lock" => lock' = p /\ lock \in {p, "none"} /\ ~Live(runTask),
         x = "status" => pc[p] = "lock",
         x = "sem" => p \in Tasks /\ ~closing /\ permits.at["session"] = 0,
         UNCHANGED <<agent, status, unread, inflight, superseded, owed, mark, stale, waitFor,
                     cancels, runTask, arunTask, rerun, acpRerun, closing, closed, pins, permits,
                     others, goal>>
  PROVE  IInv'
<1>1. Typed'
  BY Parts DEF Typed
<1>2. Points' /\ Goes(p, x)
  <2>1. /\ p \in Clients => x \in ClientPoints
        /\ p \in Tasks => x \in TaskPoints
        /\ p = "goal" => x \in GoalPoints
    BY Names DEF ClientPoints, TaskPoints, GoalPoints, Calling
  <2>. QED
    BY <2>1, Parts, Moves
<1>3. /\ pc'[p] = x /\ \A q \in Procs : q # p => pc'[q] = pc[q]
  BY <1>2 DEF Goes
<1>4. RunPlaces' /\ TaskRefs'
  BY <1>3, Names, Parts DEF RunPlaces, TaskRefs, Active, Driving, Calling, Typed
<1>5. LockPlaces'
  <2>1. CASE x = "lock"
    <3>1. Live(runTask)' => Live(runTask)
      BY <1>3, Names, Parts DEF Live, Calling, Typed
    <3>. QED
      BY <1>3, <2>1, <3>1, Names, Parts DEF LockPlaces
  <2>2. CASE x # "lock"
    <3>1. \A q \in Procs : q # p => pc[q] \notin {"status", "sem", "goal", "resume"}
      BY <2>2, Names, Parts DEF LockPlaces
    <3>2. ~Live(runTask)'
      BY <1>3, <2>2, Names, Parts DEF RunPlaces, Live, Active, Driving, Calling, Typed
    <3>. QED
      BY <1>3, <2>2, <3>1, <3>2, Names DEF LockPlaces
  <2>. QED
    BY <2>1, <2>2
<1>6. ClosePlaces'
  <2>1. closing => (Waiting' => Waiting)
    BY <1>3, Names DEF Waiting
  <2>. QED
    BY <1>3, <2>1, Names, Parts DEF ClosePlaces, Closing
<1>7. Marks'
  BY <1>3, Names, Parts DEF Marks, Calling
<1>8. SlotsOK' /\ HandlePlaces'
  BY <1>2, Names, Parts, SlotSame DEF Closing, Driving, Calling
<1>9. OwedOK'
  <2>1. p \in Tasks => (Carries(p) => Carries(p)')
    BY <1>3 DEF Carries, Parked, Rearming, Reads, Calling, Active, Driving
  <2>2. p \in Clients => (Sender(p) => Sender(p)')
    BY <1>3, Names DEF Sender, Calling
  <2>. QED
    BY <1>2, <2>1, <2>2, Names, Parts, OwedFrame DEF Typed, Calling
<1>. QED
  BY <1>1, <1>2, <1>4, <1>5, <1>6, <1>7, <1>8, <1>9 DEF IInv, PlacesOK

\* A refused call parks its request with the run that is alive; when that one is being
\* cancelled, the request that cancels it has a message of its own to run.
LEMMA RefusedCarried ==
  ASSUME IInv, owed, ~closing, Live(runTask), rerun', NEW p \in Procs, Goes(p, "off"),
         pc[p] \in Calling, UNCHANGED <<stale, cancels, closing, agent>>,
         \A q \in Procs : q # p => mark'[q] = mark[q]
  PROVE  Carried'
<1>1. runTask \in Tasks /\ pc[runTask] \in Active /\ runTask # p /\ pc'[runTask] = pc[runTask]
  BY Names, Parts DEF Typed, Live, RunPlaces, Goes, Active, Driving, Calling
<1>2. CASE runTask \notin cancels
  <2>1. TaskCarries'
    BY <1>1, <1>2 DEF TaskCarries, Carries, Parked
  <2>. QED
    BY <2>1 DEF Carried
<1>3. CASE runTask \in cancels
  <2>1. PICK c \in Clients : c \notin stale /\ pc[c] \in {"saved", "supersede"}
    BY <1>3, Parts DEF CancelCarried
  <2>2. c # p /\ mark[c] \in {"send", "superseded"}
    BY <2>1, Parts DEF Marks, Calling
  <2>3. Sender(c)'
    BY <2>1, <2>2, Names DEF Sender, Goes
  <2>. QED
    BY <2>3 DEF Carried
<1>. QED
  BY <1>2, <1>3

\* What Return assigns when no task is started.
LEMMA ReturnNothing ==
  ASSUME IInv, NEW p \in Procs, NEW out, Return(p, out, permits, "none")
  PROVE  /\ pins' = IF mark[p] = "superseded" THEN Unpinned ELSE pins
         /\ p = "goal" => permits' = permits
         /\ p \in Clients /\ mark[p] # "superseded" => permits' = Release(permits, p)
         /\ p \in Tasks \/ (p \in Clients /\ mark[p] = "superseded") =>
              permits' = EndSession(Release(permits, p), pins', Live(runTask) /\ runTask # p)
         /\ rerun' = (rerun \/ (out = "refused" /\
                                (p \in Tasks \/ mark[p] \in {"send", "superseded"})))
         /\ acpRerun' \in {acpRerun, TRUE, FALSE}
         /\ owed' = (owed /\ ~(mark[p] \in {"send", "superseded", "latest"}
                               /\ out \in {"full", "inactive"}))
         /\ At(p, IF p # "goal" THEN "off"
                  ELSE IF out \in {"inactive", "full"} THEN "ending" ELSE "wait")
         /\ waitFor' = IF p = "goal" /\ out \notin {"inactive", "full"}
                       THEN [waitFor EXCEPT ![p] = runTask] ELSE waitFor
         /\ mark' = [mark EXCEPT ![p] = "run"]
<1>1. p # "none" /\ \A q \in Procs : q # "none"
  BY Names
<1>2. At(p, IF p # "goal" THEN "off"
            ELSE IF out \in {"inactive", "full"} THEN "ending" ELSE "wait")
  BY <1>1, Parts DEF Return, At, Points
<1>3. acpRerun' \in {acpRerun, TRUE, FALSE}
  BY DEF Return
<1>4. /\ pins' = IF mark[p] = "superseded" THEN Unpinned ELSE pins
      /\ waitFor' = IF p = "goal" /\ out \notin {"inactive", "full"}
                    THEN [waitFor EXCEPT ![p] = runTask] ELSE waitFor
      /\ mark' = [mark EXCEPT ![p] = "run"]
      /\ rerun' = (rerun \/ (out = "refused" /\
                             (p \in Tasks \/ mark[p] \in {"send", "superseded"})))
      /\ owed' = (owed /\ ~(mark[p] \in {"send", "superseded", "latest"}
                            /\ out \in {"full", "inactive"}))
  BY DEF Return
<1>5. /\ p = "goal" => permits' = permits
      /\ p \in Clients /\ mark[p] # "superseded" => permits' = Release(permits, p)
      /\ p \in Tasks \/ (p \in Clients /\ mark[p] = "superseded") =>
           permits' = EndSession(Release(permits, p), pins', Live(runTask) /\ runTask # p)
  BY Names DEF Return
<1>. QED
  BY <1>2, <1>3, <1>4, <1>5

\* When p's call of run() ends without a run, for reason out, this is the case.
GivesUp(p, out) ==
  /\ pc[p] \in Calling /\ p \notin cancels
  /\ Return(p, out, permits, "none")
  /\ lock' = lock \/ (lock = p /\ lock' = "none")
  /\ \/ out = "refused" /\ pc[p] # "enter" /\ Live(runTask)
     \/ out = "stale" /\ Outdated(p)
     \/ out = "inactive" /\ closing
     \/ out = "full" /\ p \notin Tasks
  /\ UNCHANGED <<agent, status, unread, inflight, superseded, stale, cancels, runTask, arunTask,
                 closing, closed, others, goal>>

\* The goal loop's call ends without a run.
LEMMA GoalGivesUp ==
  ASSUME IInv, NEW out, GivesUp("goal", out)
  PROVE  IInv'
<1>1. /\ pc["goal"] \in Calling /\ (lock' = lock \/ (lock = "goal" /\ lock' = "none"))
      /\ UNCHANGED <<agent, status, unread, inflight, superseded, stale, cancels, runTask, arunTask,
                     closing, closed, others, goal>>
  BY DEF GivesUp
<1>2. "goal" \in Procs /\ "goal" \notin Clients /\ "goal" \notin Tasks /\ mark["goal"] = "run"
      /\ Return("goal", out, permits, "none")
  BY Names, Parts DEF Marks, GivesUp
<1>3. UNCHANGED <<pins, permits>> /\ acpRerun' \in {acpRerun, TRUE, FALSE}
  BY <1>2, ReturnNothing
<1>4. rerun \in BOOLEAN /\ owed \in BOOLEAN /\ acpRerun \in BOOLEAN
  BY Parts DEF Typed
<1>5. rerun' = rerun /\ owed' = owed /\ acpRerun' \in BOOLEAN
  BY <1>2, <1>3, <1>4, ReturnNothing
<1>6. PICK x \in {"wait", "ending"} : At("goal", x)
  BY <1>2, ReturnNothing
<1>7. waitFor' = waitFor \/ waitFor' = [waitFor EXCEPT !["goal"] = runTask]
  BY <1>2, ReturnNothing
<1>8. mark' = mark
  <2>1. mark' = [mark EXCEPT !["goal"] = "run"]
    BY <1>2, ReturnNothing
  <2>. QED
    BY <1>2, <2>1, Parts DEF Typed
<1>9. Typed'
  <2>1. waitFor' \in [Procs -> Tasks \cup {"none"}] /\ lock' \in Procs \cup {"none"}
    BY <1>1, <1>7, Names, Parts DEF Typed
  <2>. QED
    BY <1>1, <1>3, <1>5, <1>8, <2>1, Parts DEF Typed
<1>10. \A q \in Procs : q # "goal" => waitFor'[q] = waitFor[q]
  BY <1>7, Parts DEF Typed
<1>11. Points' /\ RunPlaces' /\ LockPlaces' /\ ClosePlaces' /\ TaskRefs' /\ Goes("goal", x)
  <2>1. x \in GoalPoints \ {"status"} /\ pc["goal"] # "off"
    BY <1>1 DEF GoalPoints, Calling
  <2>. QED
    BY <1>1, <1>6, <1>10, <2>1, Parts, GoalFrame
<1>12. Marks'
  BY <1>8, <1>11, Names, Parts DEF Marks, Goes
<1>13. SlotsOK' /\ HandlePlaces'
  BY <1>1, <1>2, <1>3, <1>8, <1>11, Parts, SlotSame DEF Calling
<1>14. OwedOK'
  BY <1>1, <1>2, <1>5, <1>8, <1>10, <1>11, Names, Parts, OwedFrame DEF Typed
<1>. QED
  BY <1>9, <1>11, <1>12, <1>13, <1>14 DEF IInv, PlacesOK

\* A re-armed run is given up: it has been overtaken, the service closes, or its request
\* is parked with the run there is.
LEMMA TaskGivesUp ==
  ASSUME IInv, NEW t \in Tasks, NEW out, GivesUp(t, out)
  PROVE  IInv'
<1>1. /\ pc[t] \in Calling /\ t \notin cancels /\ (lock' = lock \/ (lock = t /\ lock' = "none"))
      /\ UNCHANGED <<agent, status, unread, inflight, superseded, stale, cancels, runTask, arunTask,
                     closing, closed, others, goal>>
      /\ out = "refused" => Live(runTask)
      /\ out # "refused" => t \in stale \/ closing
  BY DEF GivesUp, Outdated
<1>2. t \in Procs /\ t # "goal" /\ t \notin Clients /\ Return(t, out, permits, "none")
      /\ mark[t] \in {"run", "rearm"}
  BY Names, Parts DEF GivesUp, Marks
<1>3. /\ pins' = pins /\ acpRerun' \in {acpRerun, TRUE, FALSE} /\ At(t, "off")
      /\ waitFor' = waitFor /\ mark' = [mark EXCEPT ![t] = "run"]
      /\ permits' = EndSession(Release(permits, t), pins', Live(runTask) /\ runTask # t)
  BY <1>2, ReturnNothing
<1>4. rerun \in BOOLEAN /\ owed \in BOOLEAN /\ acpRerun \in BOOLEAN
  BY Parts DEF Typed
<1>5. /\ rerun' = (rerun \/ out = "refused") /\ owed' = owed /\ acpRerun' \in BOOLEAN
      /\ rerun' \in BOOLEAN
  BY <1>2, <1>3, <1>4, ReturnNothing
<1>6. /\ mark' \in [Procs -> {"run", "send", "superseded", "latest", "rearm"}]
      /\ mark'[t] = "run" /\ \A q \in Procs : q # t => mark'[q] = mark[q]
  BY <1>2, <1>3, Parts DEF Typed
<1>7. Typed'
  <2>1. lock' \in Procs \cup {"none"}
    BY <1>1, Parts DEF Typed
  <2>. QED
    BY <1>1, <1>3, <1>5, <1>6, <2>1, Parts DEF Typed
<1>8. runTask # t
  BY <1>1, Parts DEF RunPlaces, Calling, Active, Driving
<1>9. Points' /\ RunPlaces' /\ LockPlaces' /\ ClosePlaces' /\ TaskRefs' /\ Goes(t, "off")
  <2>1. "off" \in TaskPoints \ {"new", "status", "sem"} /\ "off" \notin Active
    BY DEF TaskPoints, Active, Driving
  <2>. QED
    BY <1>1, <1>3, <1>8, <2>1, Parts, TaskFrame
<1>10. Marks'
  BY <1>6, <1>9, Names, Parts DEF Marks, Goes
<1>11. SlotsOK' /\ HandlePlaces'
  <2>1. PICK busy \in BOOLEAN : busy = (Live(runTask) /\ runTask # t)
    BY DEF Live
  <2>2. permits' = EndSession(Release(permits, t), pins, busy)
    BY <1>3, <2>1
  <2>3. busy => \E u \in Tasks : u # t /\ pc[u] # "off"
    BY <2>1, Parts DEF Typed, Live
  <2>. QED
    BY <1>1, <1>3, <1>6, <1>9, <2>2, <2>3, Names, SettleSlots
<1>12. StatusPlaces'
  BY <1>1, <1>5, <1>9, Names, Parts DEF StatusPlaces, Goes, Calling
<1>13. CASE out # "refused" \/ closing \/ ~owed
  <2>1. owed' /\ (status' = "idle" \/ (agent = "llm" /\ \E u \in Tasks : pc'[u] = "step")) =>
          Carried /\ (~closing /\ t \notin cancels /\ Carries(t) => Carries(t)')
    <3>1. owed' /\ (status' = "idle" \/ (agent = "llm" /\ \E u \in Tasks : pc'[u] = "step")) =>
            Carried
      BY <1>1, <1>5, <1>9, Names, Parts DEF OwedCarried, Goes
    <3>2. out # "refused" /\ ~closing => ~Carries(t)
      BY <1>1 DEF Carries, Parked, Rearming, Reads, Calling, Active, Driving
    <3>. QED
      BY <1>5, <1>13, <3>1, <3>2
  <2>2. (owed' => owed) /\ (rerun => rerun') /\ pc[t] # "off"
    BY <1>1, <1>5 DEF Calling
  <2>3. OwedOK'
    BY <1>1, <1>3, <1>6, <1>9, <1>12, <2>1, <2>2, Names, Parts, TaskOwed DEF Typed
  <2>. QED
    BY <1>7, <1>9, <1>10, <1>11, <2>3 DEF IInv, PlacesOK
<1>14. CASE out = "refused" /\ ~closing /\ owed
  <2>1. rerun'
    BY <1>5, <1>14
  <2>2. Carried'
    BY <1>1, <1>2, <1>6, <1>9, <1>14, <2>1, RefusedCarried
  <2>3. CancelCarried'
    <3>1. Live(runTask)' => Live(runTask)
      BY <1>1, <1>8, <1>9, Names, Parts DEF Live, Goes, Typed
    <3>. QED
      BY <1>1, <1>3, <1>5, <1>9, <3>1, Names, Parts DEF CancelCarried, Goes
  <2>4. OwedOK'
    BY <1>12, <2>2, <2>3 DEF OwedOK, OwedCarried
  <2>. QED
    BY <1>7, <1>9, <1>10, <1>11, <2>4 DEF IInv, PlacesOK
<1>. QED
  BY <1>13, <1>14

\* A request's call ends without a run: its handle and its pin are returned; its message
\* is no longer owed, overtaken by a stop, or parked with the run there is.
LEMMA ClientGivesUp ==
  ASSUME IInv, NEW c \in Clients, NEW out, GivesUp(c, out)
  PROVE  IInv'
<1>1. /\ pc[c] \in Calling /\ (lock' = lock \/ (lock = c /\ lock' = "none"))
      /\ UNCHANGED <<agent, status, unread, inflight, superseded, stale, cancels, runTask, arunTask,
                     closing, closed, others, goal>>
      /\ out = "refused" => Live(runTask) /\ pc[c] # "enter"
      /\ out \notin {"refused", "full", "inactive"} => c \in stale
  BY DEF GivesUp, Outdated
<1>2. c \in Procs /\ c # "goal" /\ c \notin Tasks /\ c \in Handles /\ c # "session"
      /\ Return(c, out, permits, "none")
  BY Names DEF GivesUp
<1>3. /\ pins' = (IF mark[c] = "superseded" THEN Unpinned ELSE pins)
      /\ acpRerun' \in {acpRerun, TRUE, FALSE} /\ At(c, "off")
      /\ waitFor' = waitFor /\ mark' = [mark EXCEPT ![c] = "run"]
      /\ mark[c] # "superseded" => permits' = Release(permits, c)
      /\ mark[c] = "superseded" =>
           permits' = EndSession(Release(permits, c), pins', Live(runTask) /\ runTask # c)
  BY <1>2, ReturnNothing
<1>4. rerun \in BOOLEAN /\ owed \in BOOLEAN /\ acpRerun \in BOOLEAN /\ pins' \in Nat
  BY <1>3, Parts DEF Typed, Unpinned
<1>5. /\ rerun' = (rerun \/ (out = "refused" /\ mark[c] \in {"send", "superseded"}))
      /\ owed' = (owed /\ ~(mark[c] \in {"send", "superseded", "latest"}
                            /\ out \in {"full", "inactive"}))
      /\ acpRerun' \in BOOLEAN /\ rerun' \in BOOLEAN /\ owed' \in BOOLEAN
  BY <1>2, <1>3, <1>4, ReturnNothing
<1>6. /\ mark' \in [Procs -> {"run", "send", "superseded", "latest", "rearm"}]
      /\ mark'[c] = "run" /\ \A q \in Procs : q # c => mark'[q] = mark[q]
  BY <1>2, <1>3, Parts DEF Typed
<1>7. Typed'
  <2>1. lock' \in Procs \cup {"none"}
    BY <1>1, Parts DEF Typed
  <2>. QED
    BY <1>1, <1>3, <1>4, <1>5, <1>6, <2>1, Parts DEF Typed
<1>8. Points' /\ RunPlaces' /\ LockPlaces' /\ ClosePlaces' /\ TaskRefs' /\ Goes(c, "off")
  <2>1. "off" \in ClientPoints /\ "off" \notin Closing \cup {"closeConv"} /\ (closed' => closing')
    BY <1>1, Parts DEF ClientPoints, Closing, ClosePlaces
  <2>. QED
    BY <1>1, <1>3, <1>7, <2>1, Parts, ClientFrame DEF Typed
<1>9. Marks'
  BY <1>6, <1>8, Names, Parts DEF Marks, Goes
<1>10. SlotsOK' /\ HandlePlaces'
  <2>1. CASE mark[c] # "superseded"
    <3>1. PermitState(permits', others) /\ permits'.at = [permits.at EXCEPT ![c] = 0]
      BY <1>2, <1>3, <2>1, Parts, ReleaseExact DEF PermitsOK
    <3>2. permits.at \in [Handles -> 0..Capacity]
      BY Parts, PermitParts DEF PermitsOK
    <3>3. /\ PermitsOK' /\ permits'.at[c] = 0 /\ pins' = pins
          /\ \A h \in Handles : h # c => permits'.at[h] = permits.at[h]
      BY <1>1, <1>2, <1>3, <2>1, <3>1, <3>2 DEF PermitsOK
    <3>. QED
      BY <1>1, <1>2, <1>6, <1>8, <2>1, <3>3, Parts, SlotFrame DEF Closing, Calling
  <2>2. CASE mark[c] = "superseded"
    <3>1. PinnedClients' = PinnedClients \ {c} /\ c \in PinnedClients
      BY <1>1, <1>6, <1>8, <2>2, Names DEF PinnedClients, Goes, Calling
    <3>2. Pinned' = Pinned \ {c}
      BY <1>2, <1>8, <3>1, Names DEF Pinned, Goes
    <3>3. PinPlaces' /\ (~closing /\ pc'["goal"] # "off" => pins' > 0)
      BY <1>1, <1>3, <2>2, <3>1, <3>2, Parts, PinLeaves DEF Typed
    <3>4. PICK busy \in BOOLEAN : busy = (Live(runTask) /\ runTask # c)
      BY DEF Live
    <3>5. (busy => \E t \in Tasks : pc'[t] # "off") /\ pc'["goal"] = pc["goal"]
      BY <1>2, <1>8, <3>4, Names, Parts DEF Typed, Live, Goes
    <3>6. permits' = EndSession(Release(permits, c), pins', busy)
      BY <1>3, <2>2, <3>4
    <3>7. ~closing' /\ pc'["goal"] \notin {"off", "ending"} =>
            pins' > 0 /\ ~closing /\ pc["goal"] \notin {"off", "ending"}
      BY <1>1, <3>3, <3>5
    <3>8. /\ PermitsOK' /\ SessionHeld' /\ GoalKeepsPermit' /\ permits'.at[c] = 0
          /\ \A g \in Handles : g \notin {c, "session"} => permits'.at[g] = permits.at[g]
          /\ permits.at["session"] = 0 => permits'.at["session"] = 0
      BY <1>1, <1>2, <1>4, <3>5, <3>6, <3>7, Parts, ReleaseEnds
    <3>9. HandlePlaces' /\ GoalBegun'
      BY <1>1, <1>6, <1>8, <3>5, <3>8, Names, Parts DEF HandlePlaces, GoalBegun, Goes
    <3>. QED
      BY <3>3, <3>8, <3>9 DEF SlotsOK
  <2>. QED
    BY <2>1, <2>2
<1>11. StatusPlaces'
  BY <1>1, <1>5, <1>8, Names, Parts DEF StatusPlaces, Goes
<1>12. CASE ~owed'
  BY <1>7, <1>8, <1>9, <1>10, <1>11, <1>12, NothingOwed DEF IInv, PlacesOK
<1>13. CASE owed' /\ ~Sender(c)
  <2>1. (owed' => owed) /\ (rerun => rerun')
    BY <1>5
  <2>2. OwedOK'
    BY <1>1, <1>2, <1>3, <1>6, <1>8, <1>13, <2>1, Names, Parts, OwedFrame DEF Typed, Calling
  <2>. QED
    BY <1>7, <1>8, <1>9, <1>10, <2>2 DEF IInv, PlacesOK
<1>14. CASE owed' /\ Sender(c)
  <2>1. mark[c] \in {"send", "superseded"} /\ c \notin stale
    BY <1>14 DEF Sender
  <2>2. out = "refused" /\ owed /\ rerun'
    BY <1>1, <1>5, <1>14, <2>1
  <2>3. ~closing
    BY <1>1, <1>14, <2>2 DEF Sender, Calling
  <2>4. Carried'
    BY <1>1, <1>2, <1>6, <1>8, <2>2, <2>3, RefusedCarried
  <2>5. CancelCarried'
    <3>1. Live(runTask)' => Live(runTask)
      BY <1>1, <1>2, <1>8, Names, Parts DEF Live, Goes, Typed
    <3>. QED
      BY <1>1, <1>3, <1>5, <1>8, <3>1, Names, Parts DEF CancelCarried, Goes, Calling
  <2>6. OwedOK'
    BY <1>11, <2>4, <2>5 DEF OwedOK, OwedCarried
  <2>. QED
    BY <1>7, <1>8, <1>9, <1>10, <2>6 DEF IInv, PlacesOK
<1>. QED
  BY <1>12, <1>13, <1>14

\* A new run task is made: the session's permit is shared with it.
LEMMA StartsKeeps ==
  ASSUME IInv, NEW p \in Procs, pc[p] \in {"status", "sem"}, p \notin cancels,
         pc[p] = "status" => ~closing,
         NEW t \in FreeTasks, runTask' = t, stale' = stale \ {t}, lock' = "none",
         NEW P, PermitState(P, others), P.at["session"] # 0,
         \A h \in Handles : h \notin {p, "session"} => P.at[h] = permits.at[h],
         p \in Tasks => P.at[p] = permits.at[p],
         Return(p, "started", Share(P, "session", t), t),
         UNCHANGED <<agent, status, unread, inflight, superseded, cancels, arunTask, closing,
                     closed, others, goal>>
  PROVE  IInv'
<1>1. /\ t \in Tasks /\ pc[t] = "off" /\ arunTask # t /\ t # p /\ t \in Procs /\ t # "none"
      /\ t \in Handles /\ t # "session" /\ t # "goal" /\ t \notin cancels
  BY Names, Parts DEF FreeTasks, TaskRefs
<1>2. /\ lock = p /\ ~Live(runTask)
      /\ \A q \in Procs : q # p => pc[q] \notin {"status", "sem", "goal", "resume"}
  BY Names, Parts DEF LockPlaces
<1>3. /\ pins' = (IF mark[p] = "superseded" THEN Unpinned ELSE pins)
      /\ acpRerun' \in {acpRerun, FALSE}
      /\ waitFor' = (IF p = "goal" THEN [waitFor EXCEPT ![p] = t] ELSE waitFor)
      /\ mark' = [mark EXCEPT ![p] = "run"]
  BY <1>1 DEF Return
<1>4. /\ pc'[t] = "new" /\ pc'[p] = (IF p = "goal" THEN "wait" ELSE "off")
      /\ \A q \in Procs : q \notin {p, t} => pc'[q] = pc[q]
      /\ DOMAIN pc' = Procs
  BY <1>1 DEF Return
<1>5. rerun \in BOOLEAN /\ owed \in BOOLEAN /\ acpRerun \in BOOLEAN /\ pins' \in Nat
  BY <1>3, Parts DEF Typed, Unpinned
<1>6. rerun' = rerun /\ owed' = owed /\ acpRerun' \in BOOLEAN
  BY <1>3, <1>5 DEF Return
<1>7. /\ mark' \in [Procs -> {"run", "send", "superseded", "latest", "rearm"}]
      /\ mark'[p] = "run" /\ \A q \in Procs : q # p => mark'[q] = mark[q]
  BY <1>3, Parts DEF Typed
<1>8. /\ waitFor' \in [Procs -> Tasks \cup {"none"}]
      /\ \A c \in Clients : waitFor'[c] = waitFor[c]
  BY <1>1, <1>3, Names, Parts DEF Typed
<1>9. Typed'
  <2>1. runTask' \in Tasks \cup {"none"} /\ stale' \subseteq Procs /\ lock' \in Procs \cup {"none"}
    BY <1>1, Parts DEF Typed
  <2>. QED
    BY <1>5, <1>6, <1>7, <1>8, <2>1, Parts DEF Typed
<1>10. Points'
  <2>1. \A c \in Clients : pc'[c] \in ClientPoints
    BY <1>1, <1>4, Names, Parts DEF Points, ClientPoints
  <2>2. \A u \in Tasks : pc'[u] \in TaskPoints
    BY <1>1, <1>4, Names, Parts DEF Points, TaskPoints, Active, Driving
  <2>3. pc'["goal"] \in GoalPoints
    BY <1>1, <1>4, Names, Parts DEF Points, GoalPoints
  <2>4. pc' = [q \in Procs |-> pc'[q]]
    BY <1>1 DEF Return
  <2>5. \A q \in Procs : pc'[q] \in ClientPoints \cup TaskPoints \cup GoalPoints
    BY <2>1, <2>2, <2>3, Names
  <2>. QED
    BY <1>4, <2>1, <2>2, <2>3, <2>4, <2>5 DEF Points
<1>11. \A u \in Tasks : pc[u] \notin Active
  BY <1>2, Names, Parts DEF RunPlaces, Live, Active, Driving
<1>12. RunPlaces'
  BY <1>1, <1>4, <1>11, Names DEF RunPlaces, Active, Driving
<1>13. LockPlaces' /\ ~Waiting'
  BY <1>1, <1>2, <1>4, Names DEF LockPlaces, Waiting
<1>14. ClosePlaces'
  <2>1. \A c \in Clients : pc[c] \in {"closePause", "closeRun"} => waitFor[c] = "none"
    <3>1. closing => Waiting
      BY Names, Parts DEF Points, ClientPoints, GoalPoints, Calling, Closing, Waiting
    <3>. QED
      BY <3>1, Parts DEF ClosePlaces, Closing
  <2>. QED
    BY <1>1, <1>4, <1>8, <2>1, Names, Parts DEF ClosePlaces, Closing
<1>15. TaskRefs'
  BY <1>1, <1>4, <1>11, Names, Parts DEF TaskRefs, Active, Driving, Typed
<1>16. Marks'
  BY <1>1, <1>4, <1>7, Names, Parts DEF Marks
<1>17. /\ PermitsOK' /\ permits'.at["session"] # 0
       /\ p \in Handles => permits'.at[p] = 0
       /\ \A h \in Handles : h \notin {p, t, "session"} => permits'.at[h] = permits.at[h]
  <2>1. P.at[t] = 0
    BY <1>1, Parts DEF HandlePlaces, Driving
  <2>2. PICK S : S = Share(P, "session", t)
    OBVIOUS
  <2>3. PermitState(S, others) /\ S.at = [P.at EXCEPT ![t] = P.at["session"]]
    BY <1>1, <2>1, <2>2, Names, ShareExact
  <2>4. P.at \in [Handles -> 0..Capacity]
    BY PermitParts
  <2>5. CASE p = "goal"
    <3>1. permits' = S
      BY <2>2, <2>5 DEF Return
    <3>2. p \notin Handles
      BY <2>5, NamesAssumption DEF Handles
    <3>. QED
      BY <1>1, <2>3, <2>4, <3>1, <3>2, Names DEF PermitsOK
  <2>6. CASE p # "goal"
    <3>1. p \in Handles /\ p # "session"
      BY <2>6, Names
    <3>2. permits' = Release(S, p)
      BY <1>1, <2>2, <2>6 DEF Return, EndSession
    <3>3. PermitState(permits', others) /\ permits'.at = [S.at EXCEPT ![p] = 0]
      BY <2>3, <3>1, <3>2, ReleaseExact
    <3>. QED
      BY <1>1, <2>3, <2>4, <3>1, <3>3, Names DEF PermitsOK
  <2>. QED
    BY <2>5, <2>6
<1>18. HandlePlaces'
  BY <1>1, <1>2, <1>4, <1>7, <1>13, <1>17, Names, Parts DEF HandlePlaces, Driving, Waiting
<1>19. SessionHeld' /\ GoalKeepsPermit' /\ GoalBegun'
  <2>1. GoalBegun'
    BY <1>1, <1>4, Names, Parts DEF GoalBegun
  <2>. QED
    BY <1>1, <1>4, <1>17, <2>1 DEF SessionHeld, GoalKeepsPermit
<1>20. PinPlaces'
  <2>1. CASE p \in Clients /\ mark[p] = "superseded"
    <3>1. PinnedClients' = PinnedClients \ {p} /\ p \in PinnedClients
      BY <1>1, <1>4, <1>7, <2>1, Names DEF PinnedClients
    <3>2. Pinned' = Pinned \ {p}
      BY <1>1, <1>4, <2>1, <3>1, Names DEF Pinned
    <3>. QED
      BY <1>3, <2>1, <3>1, <3>2, Parts, PinLeaves DEF Typed
  <2>2. CASE ~(p \in Clients /\ mark[p] = "superseded")
    <3>1. pins' = pins
      BY <1>3, <2>2, Names, Parts DEF Marks
    <3>2. PinnedClients' = PinnedClients
      BY <1>1, <1>4, <1>7, <2>2, Names DEF PinnedClients
    <3>3. Pinned' = Pinned
      BY <1>1, <1>4, <3>2, Names DEF Pinned
    <3>. QED
      BY <3>1, <3>2, <3>3, Parts DEF PinPlaces
  <2>. QED
    BY <2>1, <2>2
<1>21. StatusPlaces'
  BY <1>1, <1>4, <1>6, <1>11, Names, Parts DEF StatusPlaces, Active, Driving
<1>22. OwedCarried'
  <2>1. CASE ~closing
    <3>1. Reads(t)' /\ t \in Tasks \ cancels'
      BY <1>1, <1>4 DEF Reads
    <3>. QED
      BY <2>1, <3>1 DEF OwedCarried, Carried, TaskCarries, Carries
  <2>2. CASE closing
    <3>1. p \in Tasks
      BY <2>2, Names, Parts DEF Points, ClientPoints, GoalPoints, Calling, Closing
    <3>2. (\E c \in Clients : Sender(c)) => (\E c \in Clients : Sender(c))'
      BY <1>1, <1>4, <1>7, <3>1, Names DEF Sender
    <3>3. Carried => Carried'
      BY <2>2, <3>2 DEF Carried
    <3>. QED
      BY <1>1, <1>4, <1>6, <3>3, Names, Parts DEF OwedCarried
  <2>. QED
    BY <2>1, <2>2
<1>23. CancelCarried'
  BY <1>1 DEF CancelCarried
<1>. QED
  BY <1>9, <1>10, <1>12, <1>13, <1>14, <1>15, <1>16, <1>17, <1>18, <1>19, <1>20, <1>21, <1>22, <1>23
     DEF IInv, PlacesOK, SlotsOK, OwedOK

\* Every step of a call of run().
LEMMA RunCallKeeps ==
  ASSUME IInv, NEW p \in Procs, RunCall(p)
  PROVE  IInv'
<1>1. /\ p \notin cancels
      /\ UNCHANGED <<agent, status, unread, inflight, superseded, cancels, arunTask, closing,
                     closed, others, goal>>
  BY DEF RunCall, RunEnter, RunLock, RunStart, RunGranted, runRest
<1>2. ASSUME NEW out, GivesUp(p, out) PROVE IInv'
  BY <1>2, Names, GoalGivesUp, TaskGivesUp, ClientGivesUp
<1>3. PermitState(permits, others) /\ permits.at \in [Handles -> 0..Capacity]
      /\ "session" \in Handles
  BY Names, Parts, PermitParts DEF PermitsOK
<1>4. ASSUME NEW P, Start(p, P), PermitState(P, others), P.at["session"] # 0,
             \A h \in Handles : h \notin {p, "session"} => P.at[h] = permits.at[h],
             p \in Tasks => P.at[p] = permits.at[p],
             pc[p] \in {"status", "sem"}, pc[p] = "status" => ~closing
      PROVE  IInv'
  <2>1. PICK t \in FreeTasks : /\ runTask' = t /\ stale' = stale \ {t} /\ lock' = "none"
                               /\ Return(p, "started", Share(P, "session", t), t)
    BY <1>4 DEF Start
  <2>. QED
    BY <1>1, <1>4, <2>1, StartsKeeps
<1>5. ASSUME Start(p, Acquire(permits, "session")), permits.free > 0, permits.at["session"] = 0,
             pc[p] \in {"status", "sem"}, pc[p] = "status" => ~closing
      PROVE  IInv'
  <2>1. PICK P : P = Acquire(permits, "session")
    OBVIOUS
  <2>2. PermitState(P, others) /\ \E q \in PermitIds : P.at = [permits.at EXCEPT !["session"] = q]
    BY <1>3, <1>5, <2>1, AcquireExact
  <2>3. P.at["session"] # 0 /\ \A h \in Handles : h # "session" => P.at[h] = permits.at[h]
    BY <1>3, <2>2 DEF PermitIds
  <2>4. p \in Tasks => p \in Handles /\ p # "session"
    BY Names
  <2>. QED
    BY <1>4, <1>5, <2>1, <2>2, <2>3, <2>4
<1>6. CASE RunEnter(p)
  <2>1. pc[p] = "enter" /\ pc[p] \in Calling /\ UNCHANGED <<stale, runTask, lock>>
    BY <1>6 DEF RunEnter, Calling
  <2>2. CASE closing
    <3>1. Return(p, "inactive", permits, "none")
      BY <1>6, <2>2 DEF RunEnter
    <3>2. GivesUp(p, "inactive")
      BY <1>1, <2>1, <2>2, <3>1 DEF GivesUp
    <3>. QED
      BY <1>2, <3>2
  <2>3. CASE ~closing
    <3>1. At(p, "lock") /\ UNCHANGED <<mark, waitFor, rerun, acpRerun, pins, permits, owed>>
      BY <1>6, <2>3 DEF RunEnter, At
    <3>. QED
      BY <1>1, <2>1, <2>3, <3>1, CallGoesOnKeeps
  <2>. QED
    BY <2>2, <2>3
<1>7. CASE RunLock(p)
  <2>1. pc[p] = "lock" /\ pc[p] \in Calling /\ lock = "none" /\ UNCHANGED <<stale, runTask>>
    BY <1>7 DEF RunLock, Calling
  <2>2. CASE Outdated(p)
    <3>1. Return(p, "stale", permits, "none") /\ lock' = lock
      BY <1>7, <2>2 DEF RunLock
    <3>2. GivesUp(p, "stale")
      BY <1>1, <2>1, <2>2, <3>1 DEF GivesUp
    <3>. QED
      BY <1>2, <3>2
  <2>3. CASE ~Outdated(p) /\ Live(runTask)
    <3>1. Return(p, "refused", permits, "none") /\ lock' = lock
      BY <1>7, <2>3 DEF RunLock
    <3>2. GivesUp(p, "refused")
      BY <1>1, <2>1, <2>3, <3>1 DEF GivesUp
    <3>. QED
      BY <1>2, <3>2
  <2>4. CASE ~Outdated(p) /\ ~Live(runTask)
    <3>1. /\ At(p, "status") /\ lock' = p
          /\ UNCHANGED <<mark, waitFor, rerun, acpRerun, pins, permits, owed>>
      BY <1>7, <2>4 DEF RunLock, At
    <3>. QED
      BY <1>1, <2>1, <2>4, <3>1, CallGoesOnKeeps
  <2>. QED
    BY <2>2, <2>3, <2>4
<1>8. CASE RunStart(p)
  <2>1. pc[p] = "status" /\ pc[p] \in Calling /\ lock = p /\ ~Live(runTask)
    BY <1>8, Parts DEF RunStart, Calling, LockPlaces
  <2>2. status # "running"
    BY <2>1, Names, Parts DEF StatusPlaces, RunPlaces, Live, Active, Driving
  <2>3. CASE closing
    <3>1. Return(p, "inactive", permits, "none") /\ lock' = "none" /\ UNCHANGED <<runTask, stale>>
      BY <1>8, <2>2, <2>3 DEF RunStart
    <3>2. GivesUp(p, "inactive")
      BY <1>1, <2>1, <2>3, <3>1 DEF GivesUp
    <3>. QED
      BY <1>2, <3>2
  <2>4. CASE ~closing /\ Outdated(p)
    <3>1. Return(p, "stale", permits, "none") /\ lock' = "none" /\ UNCHANGED <<runTask, stale>>
      BY <1>8, <2>2, <2>4 DEF RunStart
    <3>2. GivesUp(p, "stale")
      BY <1>1, <2>1, <2>4, <3>1 DEF GivesUp
    <3>. QED
      BY <1>2, <3>2
  <2>5. CASE ~closing /\ ~Outdated(p) /\ permits.at["session"] # 0
    <3>1. CASE p \in Clients /\ permits.at[p] # 0
      <4>1. PICK P : P = Release(permits, p)
        OBVIOUS
      <4>2. Start(p, P)
        BY <1>8, <2>2, <2>5, <3>1, <4>1 DEF RunStart
      <4>3. p \in Handles /\ p # "session" /\ p \notin Tasks
        BY <3>1, Names
      <4>4. PermitState(P, others) /\ P.at = [permits.at EXCEPT ![p] = 0]
        BY <1>3, <4>1, <4>3, ReleaseExact
      <4>5. P.at["session"] # 0 /\ \A h \in Handles : h # p => P.at[h] = permits.at[h]
        BY <1>3, <2>5, <4>3, <4>4
      <4>. QED
        BY <1>4, <2>1, <2>5, <4>2, <4>3, <4>4, <4>5
    <3>2. CASE ~(p \in Clients /\ permits.at[p] # 0)
      <4>1. Start(p, permits)
        BY <1>8, <2>2, <2>5, <3>2 DEF RunStart
      <4>. QED
        BY <1>3, <1>4, <2>1, <2>5, <4>1
    <3>. QED
      BY <3>1, <3>2
  <2>6. CASE ~closing /\ ~Outdated(p) /\ permits.at["session"] = 0
    <3>1. CASE p \in Clients /\ permits.at[p] # 0
      <4>1. PICK P : P = Share(permits, p, "session")
        OBVIOUS
      <4>2. Start(p, P)
        BY <1>8, <2>2, <2>6, <3>1, <4>1 DEF RunStart
      <4>3. p \in Handles /\ p # "session" /\ p \notin Tasks
        BY <3>1, Names
      <4>4. PermitState(P, others) /\ P.at = [permits.at EXCEPT !["session"] = permits.at[p]]
        BY <1>3, <2>6, <3>1, <4>1, <4>3, ShareExact
      <4>5. P.at["session"] # 0 /\ \A h \in Handles : h # "session" => P.at[h] = permits.at[h]
        BY <1>3, <3>1, <4>3, <4>4
      <4>. QED
        BY <1>4, <2>1, <2>6, <4>2, <4>3, <4>4, <4>5
    <3>2. CASE ~(p \in Clients /\ permits.at[p] # 0) /\ HasCapacity
      <4>1. Start(p, Acquire(permits, "session")) /\ permits.free > 0
        BY <1>8, <2>2, <2>6, <3>2 DEF RunStart, HasCapacity
      <4>. QED
        BY <1>5, <2>1, <2>6, <4>1
    <3>3. CASE ~(p \in Clients /\ permits.at[p] # 0) /\ ~HasCapacity /\ p \in Tasks
      <4>1. At(p, "sem") /\ UNCHANGED <<mark, waitFor, rerun, acpRerun, pins, permits, owed, lock,
                                        runTask, stale>>
        BY <1>8, <2>2, <2>6, <3>3 DEF RunStart, At
      <4>. QED
        BY <1>1, <2>1, <2>6, <3>3, <4>1, CallGoesOnKeeps
    <3>4. CASE ~(p \in Clients /\ permits.at[p] # 0) /\ ~HasCapacity /\ p \notin Tasks
      <4>1. Return(p, "full", permits, "none") /\ lock' = "none" /\ UNCHANGED <<runTask, stale>>
        BY <1>8, <2>2, <2>6, <3>4 DEF RunStart
      <4>2. GivesUp(p, "full")
        BY <1>1, <2>1, <3>4, <4>1 DEF GivesUp
      <4>. QED
        BY <1>2, <4>2
    <3>. QED
      BY <3>1, <3>2, <3>3, <3>4
  <2>. QED
    BY <2>3, <2>4, <2>5, <2>6
<1>9. CASE RunGranted(p)
  <2>1. pc[p] = "sem" /\ permits.free > 0 /\ Start(p, Acquire(permits, "session"))
    BY <1>9 DEF RunGranted
  <2>2. permits.at["session"] = 0
    <3>1. p \in Tasks
      BY <2>1, Names, Parts DEF Points, ClientPoints, GoalPoints, Calling, Closing
    <3>. QED
      BY <2>1, <3>1, Parts DEF HandlePlaces
  <2>. QED
    BY <1>5, <2>1, <2>2
<1>. QED
  BY <1>6, <1>7, <1>8, <1>9 DEF RunCall

-----------------------------------------------------------------------------
(* The theorems *)

\* A step that changes nothing of this conversation but the free tokens.
LEMMA ElsewhereKeeps ==
  ASSUME IInv, UNCHANGED otherRest, PermitState(permits', others'), permits'.at = permits.at
  PROVE  IInv'
<1>1. UNCHANGED <<agent, status, unread, inflight, superseded, owed, pc, mark, stale, waitFor,
                  cancels, runTask, arunTask, lock, rerun, acpRerun, closing, closed, pins, goal>>
  BY DEF otherRest, convVars, flagVars
<1>2. Typed'
  BY <1>1, Parts DEF Typed
<1>3. Points' /\ Marks' /\ RunPlaces' /\ TaskRefs'
  BY <1>1, Parts DEF Points, Marks, RunPlaces, TaskRefs
<1>4. LockPlaces' /\ ClosePlaces' /\ HandlePlaces'
  BY <1>1, Parts DEF LockPlaces, ClosePlaces, HandlePlaces, Live, Waiting
<1>5. PermitsOK' /\ SessionHeld' /\ GoalKeepsPermit' /\ GoalBegun'
  BY <1>1, Parts DEF PermitsOK, SessionHeld, GoalKeepsPermit, GoalBegun
<1>6. PinPlaces'
  <2>1. PinnedClients' = PinnedClients /\ Pinned' = Pinned
    BY <1>1 DEF PinnedClients, Pinned
  <2>. QED
    BY <1>1, <2>1, Parts DEF PinPlaces
<1>7. StatusPlaces' /\ CancelCarried'
  BY <1>1, Parts DEF StatusPlaces, CancelCarried, Live
<1>8. OwedCarried'
  <2>1. Carried => Carried'
    BY <1>1 DEF Carried, TaskCarries, Carries, Parked, Rearming, Reads, Sender
  <2>. QED
    BY <1>1, <2>1, Parts DEF OwedCarried
<1>. QED
  BY <1>2, <1>3, <1>4, <1>5, <1>6, <1>7, <1>8 DEF IInv, PlacesOK, SlotsOK, OwedOK

\* Other conversations take and return tokens.
LEMMA OthersKeep ==
  ASSUME IInv, OtherTakes \/ OtherReturns
  PROVE  IInv'
<1>1. PICK d \in {-1, 1} : /\ permits' = [permits EXCEPT !.free = @ + d] /\ others' = others - d
                           /\ (d = -1 => permits.free > 0) /\ (d = 1 => others > 0)
                           /\ UNCHANGED otherRest
  <2>1. PermitState(permits, others)
    BY Parts DEF PermitsOK
  <2>2. permits.free \in Int /\ others \in Int
    BY <2>1, PermitParts
  <2>3. permits.free - 1 = permits.free + (-1) /\ others + 1 = others - (-1)
    BY <2>2
  <2>. QED
    BY <2>2, <2>3 DEF OtherTakes, OtherReturns, HasCapacity
<1>2. PermitState(permits, others)
  BY Parts DEF PermitsOK
<1>3. permits'.free = permits.free + d /\ permits'.refs = permits.refs /\ permits'.at = permits.at
      /\ permits' = [free |-> permits'.free, refs |-> permits.refs, at |-> permits.at]
  BY <1>1, <1>2 DEF PermitState
<1>4. Cardinality(Held(permits.refs)) \in Nat
  <2>1. IsFiniteSet(Held(permits.refs))
    BY FiniteSets1, FS_Subset DEF Held
  <2>. QED
    BY <2>1, FS_CardinalityType
<1>5. permits'.free \in 0..Capacity /\ others' \in 0..Capacity
      /\ permits'.free + others' + Cardinality(Held(permits'.refs)) = Capacity
  BY <1>1, <1>2, <1>3, <1>4, BoundsAssumption DEF PermitState
<1>6. PermitState(permits', others')
  BY <1>2, <1>3, <1>5 DEF PermitState
<1>. QED
  BY <1>1, <1>3, <1>6, ElsewhereKeeps

\* Every step keeps the invariant.
LEMMA StepKeeps ==
  ASSUME IInv, [Next]_vars
  PROVE  IInv'
<1>1. CASE UNCHANGED vars
  <2>1. UNCHANGED otherRest /\ permits' = permits /\ others' = others
    BY <1>1 DEF vars, otherRest
  <2>. QED
    BY <2>1, Parts, ElsewhereKeeps DEF PermitsOK
<1>2. ASSUME NEW p \in Procs, RunCall(p) PROVE IInv'
  BY <1>2, RunCallKeeps
<1>3. ASSUME NEW t \in Tasks, TaskSteps(t) PROVE IInv'
  BY <1>3, TaskBeginKeeps, TaskReadyKeeps, TaskTopKeeps, TaskStepKeeps, TaskBreakKeeps,
     TaskCancelledKeeps, TaskDrainedKeeps, TaskPublishedKeeps, TaskRearmsKeeps DEF TaskSteps
<1>4. ASSUME NEW c \in Clients, NewRequest(c) PROVE IInv'
  BY <1>4, SendKeeps, RunPauseStopKeep, InterruptKeeps, CloseKeeps, GoalAskKeeps DEF NewRequest
<1>5. ASSUME NEW c \in Clients, ClientSteps(c) PROVE IInv'
  BY <1>5, QuietKeeps, SendAppendKeeps, SendMarkKeeps, SendSupersedeKeeps, SendSupersededKeeps,
     CloseWaitsKeep, CloseRunEndedKeeps, GoalScheduleKeeps DEF ClientSteps
<1>6. ASSUME GoalSteps PROVE IInv'
  BY <1>6, GoalGoesOnKeeps, GoalEndsKeeps DEF GoalSteps
<1>7. ASSUME OtherTakes \/ OtherReturns PROVE IInv'
  BY <1>7, OthersKeep
<1>. QED
  BY <1>1, <1>2, <1>3, <1>4, <1>5, <1>6, <1>7 DEF Next

\* The invariant holds at the start.
LEMMA StartsSound ==
  ASSUME Init
  PROVE  IInv
<1>. USE DEF Init
<1>1. Typed
  <2>1. /\ waitFor \in [Procs -> Tasks \cup {"none"}]
        /\ mark \in [Procs -> {"run", "send", "superseded", "latest", "rearm"}]
        /\ goal \in [status : {"none", "running", "interrupted", "over"}, rounds : Nat]
    OBVIOUS
  <2>2. {inflight, superseded, owed, rerun, acpRerun, closing, closed} \subseteq BOOLEAN
    OBVIOUS
  <2>3. status \in Statuses /\ unread \in Nat /\ stale \subseteq Procs
        /\ cancels \subseteq Tasks \cup {"goal"}
        /\ {runTask, arunTask} \subseteq Tasks \cup {"none"}
        /\ lock \in Procs \cup {"none"} /\ pins \in Nat /\ agent \in Agents
    BY DEF Statuses
  <2>. QED
    BY <2>1, <2>2, <2>3 DEF Typed
<1>2. \A p \in Procs : pc[p] = "off" /\ mark[p] = "run" /\ waitFor[p] = "none"
  OBVIOUS
<1>3. Points
  <2>1. "off" \in ClientPoints /\ "off" \in TaskPoints /\ "off" \in GoalPoints
    BY DEF ClientPoints, TaskPoints, GoalPoints
  <2>2. pc \in [Procs -> ClientPoints \cup TaskPoints \cup GoalPoints] /\ DOMAIN pc = Procs
    BY <2>1
  <2>. QED
    BY <1>2, <2>1, <2>2, Names DEF Points
<1>4. Marks /\ RunPlaces /\ LockPlaces /\ ClosePlaces /\ TaskRefs
  BY <1>2, Names DEF Marks, RunPlaces, LockPlaces, ClosePlaces, TaskRefs, Active, Driving, Closing
<1>5. PermitsOK
  <2>1. Capacity \in Nat /\ permits.free = Capacity
        /\ permits.refs = [p \in PermitIds |-> 0] /\ permits.at = [h \in Handles |-> 0]
    BY BoundsAssumption
  <2>2. Held(permits.refs) = {} /\ \A p \in PermitIds : HandlesOf(permits.at, p) = {}
    BY <2>1 DEF Held, HandlesOf, PermitIds
  <2>3. Cardinality({}) = 0
    BY FS_EmptySet
  <2>4. permits \in [free : 0..Capacity, refs : [PermitIds -> Nat], at : [Handles -> 0..Capacity]]
    BY <2>1
  <2>5. \A p \in PermitIds : permits.refs[p] = Cardinality(HandlesOf(permits.at, p))
    BY <2>1, <2>2, <2>3
  <2>6. others \in 0..Capacity /\ permits.free + others + Cardinality(Held(permits.refs)) = Capacity
    BY <2>1, <2>2, <2>3
  <2>. HIDE DEF Init
  <2>. QED
    BY <2>4, <2>5, <2>6 DEF PermitsOK, PermitState
<1>6. HandlePlaces
  BY <1>2, Names DEF HandlePlaces
<1>7. PinPlaces
  <2>1. PinnedClients = {} /\ Pinned = {}
    BY <1>2, Names DEF PinnedClients, Pinned
  <2>2. Cardinality({}) = 0
    BY FS_EmptySet
  <2>. QED
    BY <2>1, <2>2 DEF PinPlaces
<1>8. SessionHeld /\ GoalKeepsPermit /\ GoalBegun
  BY <1>2, Names DEF SessionHeld, GoalKeepsPermit, GoalBegun
<1>9. OwedOK
  BY <1>2, Names DEF OwedOK, StatusPlaces, OwedCarried, CancelCarried
<1>. QED
  BY <1>1, <1>3, <1>4, <1>5, <1>6, <1>7, <1>8, <1>9 DEF IInv, PlacesOK, SlotsOK

\* The inductive invariant: processes, handles, pins and messages are where the code
\* means them to be, in every reachable state.
THEOREM EventServiceInv == Spec => []IInv
<1>1. Init => IInv
  BY StartsSound
<1>2. IInv /\ [Next]_vars => IInv'
  BY StepKeeps
<1>. QED
  BY <1>1, <1>2, PTL DEF Spec

\* RunSlot: the permits are counted exactly.
THEOREM SlotsSoundHolds == Spec => []SlotsSound
<1>1. ASSUME IInv PROVE SlotsSound
  <2>1. PermitState(permits, others)
    BY <1>1, Parts DEF PermitsOK
  <2>2. /\ permits.free \in 0..Capacity /\ permits.at \in [Handles -> 0..Capacity]
        /\ others \in 0..Capacity
    BY <2>1, PermitParts
  <2>3. TypeOK
    BY <1>1, <2>2, Parts DEF Typed, TypeOK
  <2>4. PermitsExact
    BY <2>1 DEF PermitState, PermitsExact, HandlesOf, Held
  <2>. QED
    BY <2>3, <2>4 DEF SlotsSound
<1>. QED
  BY <1>1, EventServiceInv, PTL

\* Never do two tasks drive the same conversation.
THEOREM OneRunHolds == Spec => []OneRun
<1>1. ASSUME IInv PROVE OneRun
  <2>. DEFINE R == {t \in Tasks : pc[t] \in {"new", "init", "top", "step"}}
  <2>1. R \subseteq {runTask}
    BY <1>1, Parts DEF RunPlaces, Active, Driving
  <2>2. IsFiniteSet({runTask}) /\ Cardinality({runTask}) = 1
    BY FS_Singleton
  <2>3. Cardinality(R) <= Cardinality({runTask})
    BY <2>1, <2>2, FS_Subset
  <2>. QED
    BY <2>2, <2>3 DEF OneRun
<1>. QED
  BY <1>1, EventServiceInv, PTL

\* The session permit is held for the goal loop's whole lifetime.
THEOREM GoalKeepsPermitHolds == Spec => []GoalKeepsPermit
<1>1. ASSUME IInv PROVE GoalKeepsPermit
  BY <1>1, Parts
<1>. QED
  BY <1>1, EventServiceInv, PTL

\* A message that was accepted to be run is not left behind: at rest nobody carries
\* one, so the status accounts for it.
THEOREM InputPickedUpHolds == Spec => []InputPickedUp
<1>1. ASSUME IInv, AtRest, owed PROVE status \in {"paused", "error", "waiting"}
  <2>1. \A p \in Procs : pc[p] = "off"
    BY <1>1 DEF AtRest
  <2>2. ~Carried
    BY <2>1, Names DEF Carried, Sender, TaskCarries, Carries, Parked, Rearming, Reads, Active,
       Driving, Calling
  <2>3. status \notin {"idle", "running", "finished", "stuck"}
    BY <1>1, <2>1, <2>2, Names, Parts DEF OwedCarried, StatusPlaces, Typed
  <2>. QED
    BY <1>1, <2>3, Parts DEF Typed, Statuses
<1>2. IInv => InputPickedUp
  BY <1>1 DEF InputPickedUp
<1>. QED
  BY <1>2, EventServiceInv, PTL

\* A conversation at rest holds no run slot, unless a cancelled goal loop left its pin
\* behind; a closed one holds none at all.
THEOREM RestHoldsNothingHolds == Spec => []RestHoldsNothing
<1>1. ASSUME IInv, AtRest, pins = 0 \/ closed, NEW h \in Handles PROVE permits.at[h] = 0
  <2>1. \A p \in Procs : pc[p] = "off"
    BY <1>1 DEF AtRest
  <2>2. pins = 0
    <3>1. PinnedClients = {}
      BY <1>1, <2>1, Names, Parts DEF PinnedClients, Marks, Calling
    <3>2. Cardinality(PinnedClients) = 0
      BY <3>1, FS_EmptySet
    <3>. QED
      BY <1>1, <3>2, Parts DEF ClosePlaces, PinPlaces, Typed
  <2>3. permits.at["session"] = 0
    BY <1>1, <2>1, <2>2, Names, Parts DEF SessionHeld, Closing
  <2>4. \A c \in Clients : permits.at[c] = 0
    BY <1>1, <2>1, Names, Parts DEF HandlePlaces, Marks, Typed, Calling
  <2>5. \A t \in Tasks : permits.at[t] = 0
    BY <1>1, <2>1, Names, Parts DEF HandlePlaces, Driving
  <2>. QED
    BY <2>3, <2>4, <2>5 DEF Handles
<1>2. IInv => RestHoldsNothing
  BY <1>1 DEF RestHoldsNothing
<1>. QED
  BY <1>2, EventServiceInv, PTL

\* The last persisted goal status says running only while a loop is alive.
THEOREM GoalStatusTrueHolds == Spec => []GoalStatusTrue
<1>1. ASSUME IInv PROVE GoalStatusTrue
  BY <1>1, Parts DEF GoalBegun, GoalStatusTrue
<1>. QED
  BY <1>1, EventServiceInv, PTL
=============================================================================
