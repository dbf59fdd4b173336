---------------------- MODULE ConversationLeaseProofs ----------------------
(***************************************************************************)
(* Proofs about ConversationLease for any servers, hosts and TTL: an       *)
(* unexpired lease is never taken from its server, no guarded write lands  *)
(* after another server's claim, and, where no start outlasts its lease    *)
(* and no run() thread outlives close(), no other write does either.       *)
(***************************************************************************)
EXTENDS ConversationLease, TLAPS

\* Instance ids are handed out once: no two processes share one, and the lease
\* and the history name only ids that were handed out.
IdsUnique ==
  /\ \A s \in Servers : inst[s] < nextInst /\ (pc[s] # "down" => inst[s] # 0)
  /\ \A s, t \in Servers : s # t /\ inst[s] = inst[t] => inst[s] = 0
  /\ lease.owner < nextInst /\ claimant < nextInst

\* A lease that names a running process names its host and its pid too.
OwnerRecorded ==
  \A s \in Servers :
    pc[s] # "down" /\ lease.gen # 0 /\ lease.owner = inst[s] =>
      lease.host = Host[s] /\ lease.pid = Pid(s)

IInv == TypeOK /\ IdsUnique /\ OwnerRecorded

\* The lease in the file is the latest claimant's, and whoever is inside
\* guarded_write holds it.
WriterOwns ==
  /\ "guarded" \notin stray
  /\ lease.gen # 0 => lease.owner = claimant
  /\ \A s \in Servers : pc[s] = "writing" => Owns(s)

\* With prompt starts and no lingering threads, a server that is starting holds
\* an unexpired lease.
StarterOwns ==
  /\ lingers = {} /\ stray = {}
  /\ \A s \in Servers : pc[s] = "starting" => Owns(s) /\ lease.left > 0

-----------------------------------------------------------------------------
\* The payload that a claim or a renewal writes is a lease.
LEMMA PayloadType ==
  ASSUME TypeOK, NEW s \in Servers, NEW g \in 0..MaxTakeovers
  PROVE  Payload(s, g) \in Leases
<1>1. TTL \in 0..TTL /\ 0 \in 0..MaxInstances
  BY BoundsAssumption
<1>2. inst[s] \in 0..MaxInstances /\ Host[s] \in Hosts
  BY HostsAssumption DEF TypeOK
<1>3. Pid(s) \in (Servers \cup {NoServer}) \X (0..MaxInstances)
  BY <1>1, <1>2 DEF Pid
<1>. QED
  BY <1>1, <1>2, <1>3 DEF Payload, Leases

LEMMA NoLeaseType == NoLease \in Leases
<1>1. 0 \in 0..TTL /\ 0 \in 0..MaxInstances /\ 0 \in 0..MaxTakeovers
  BY BoundsAssumption
<1>. QED
  BY <1>1 DEF NoLease, Leases

LEMMA InitIInv == Init => IInv
<1>. SUFFICES ASSUME Init PROVE IInv
  OBVIOUS
<1>1. lease \in Leases /\ lease.owner = 0
  <2>1. 1 \in 0..MaxTakeovers /\ TTL \in 0..TTL
    BY BoundsAssumption
  <2>2. OlderLease \in Leases
    BY <2>1, BoundsAssumption DEF Leases, OlderLease
  <2>3. NoLease.owner = 0 /\ OlderLease.owner = 0
    BY DEF NoLease, OlderLease
  <2>4. lease = NoLease \/ lease = OlderLease
    BY DEF Init
  <2>. QED
    BY <2>2, <2>3, <2>4, NoLeaseType
<1>2. TypeOK
  <2>1. 0 \in 0..MaxInstances /\ 1 \in 1..(MaxInstances + 1) /\ 0 \in 0..MaxTakeovers
    BY BoundsAssumption
  <2>. QED
    BY <1>1, <2>1, ServersAssumption DEF Init, TypeOK, Points
<1>3. IdsUnique /\ OwnerRecorded
  BY <1>1 DEF Init, IdsUnique, OwnerRecorded
<1>. QED
  BY <1>2, <1>3 DEF IInv

\* A claim keeps IInv: the claimant's payload names its own host and pid.
LEMMA ClaimIInv ==
  ASSUME IInv, NEW s \in Servers, Claim(s)
  PROVE  IInv'
<1>. USE DEF IInv
<1>1. PICK g \in 0..MaxTakeovers :
        lease' = Payload(s, g) /\ gen' = [gen EXCEPT ![s] = g]
  <2>. DEFINE g == IF lease.gen # 0 /\ lease.owner = inst[s] THEN lease.gen ELSE lease.gen + 1
  <2>1. lease.gen \in Nat
    BY DEF TypeOK, Leases
  <2>2. g <= MaxTakeovers /\ lease' = Payload(s, g) /\ gen' = [gen EXCEPT ![s] = g]
    BY DEF Claim
  <2>3. g \in 0..MaxTakeovers
    BY <2>1, <2>2, BoundsAssumption
  <2>. HIDE DEF g
  <2>. QED
    BY <2>2, <2>3
<1>2. /\ pc[s] = "up" /\ pc' = [pc EXCEPT ![s] = "starting"] /\ claimant' = inst[s]
      /\ UNCHANGED <<lock, inst, nextInst, lingers, stray>>
  BY DEF Claim
<1>3. TypeOK'
  <2>1. lease' \in Leases
    BY <1>1, PayloadType
  <2>. QED
    BY <1>1, <1>2, <2>1 DEF TypeOK, Points
<1>4. lease'.owner = inst[s] /\ lease'.host = Host[s] /\ lease'.pid = Pid(s)
  BY <1>1 DEF Payload
<1>5. IdsUnique'
  BY <1>2, <1>4 DEF IdsUnique, TypeOK
<1>6. OwnerRecorded'
  <2>1. inst[s] # 0 /\ \A t \in Servers \ {s} : inst[t] # inst[s]
    BY <1>2 DEF IdsUnique
  <2>2. \A t \in Servers : (Pid(t))' = Pid(t)
    BY <1>2 DEF Pid
  <2>. QED
    BY <1>2, <1>4, <2>1, <2>2 DEF OwnerRecorded
<1>. QED
  BY <1>3, <1>5, <1>6

\* IInv is inductive.
LEMMA NextIInv == IInv /\ [Next]_vars => IInv'
<1>. SUFFICES ASSUME IInv, [Next]_vars PROVE IInv'
  OBVIOUS
<1>. USE DEF IInv
<1>1. ASSUME NEW s \in Servers, Boot(s) PROVE IInv'
  <2>1. nextInst \in 1..MaxInstances /\ nextInst' = nextInst + 1
    BY <1>1, BoundsAssumption DEF Boot, TypeOK
  <2>2. TypeOK'
    <3>1. nextInst' \in 1..(MaxInstances + 1) /\ nextInst \in 0..MaxInstances
      BY <2>1, BoundsAssumption
    <3>. QED
      BY <1>1, <3>1 DEF Boot, TypeOK, Points
  <2>3. IdsUnique'
    BY <1>1, <2>1, BoundsAssumption DEF Boot, TypeOK, IdsUnique, Leases
  <2>4. OwnerRecorded'
    <3>1. lease' = lease /\ lease.owner # inst'[s]
      BY <1>1 DEF Boot, IdsUnique, TypeOK, Leases
    <3>2. \A t \in Servers \ {s} : inst'[t] = inst[t] /\ pc'[t] = pc[t]
      BY <1>1 DEF Boot, TypeOK
    <3>. QED
      BY <3>1, <3>2 DEF OwnerRecorded, Pid
  <2>. QED
    BY <2>2, <2>3, <2>4
<1>2. ASSUME NEW s \in Servers, Crash(s) PROVE IInv'
  <2>1. TypeOK'
    BY <1>2, ServersAssumption, BoundsAssumption DEF Crash, TypeOK, Points
  <2>2. IdsUnique' /\ OwnerRecorded'
    BY <1>2 DEF Crash, TypeOK, IdsUnique, OwnerRecorded, Pid
  <2>. QED
    BY <2>1, <2>2
<1>3. ASSUME NEW s \in Servers, Claim(s) PROVE IInv'
  BY <1>3, ClaimIInv
<1>4. ASSUME NEW s \in Servers, StartSaves(s) PROVE IInv'
  <2>1. TypeOK'
    BY <1>4 DEF StartSaves, Lands, TypeOK
  <2>2. IdsUnique' /\ OwnerRecorded'
    BY <1>4 DEF StartSaves, IdsUnique, OwnerRecorded, Pid
  <2>. QED
    BY <2>1, <2>2
<1>5. ASSUME NEW s \in Servers, Started(s) PROVE IInv'
  <2>1. TypeOK'
    BY <1>5 DEF Started, TypeOK, Points
  <2>2. IdsUnique' /\ OwnerRecorded'
    BY <1>5 DEF Started, TypeOK, IdsUnique, OwnerRecorded, Pid
  <2>. QED
    BY <2>1, <2>2
<1>6. ASSUME NEW s \in Servers, Renew(s) PROVE IInv'
  <2>1. lease' = Payload(s, gen[s]) /\ gen[s] \in 0..MaxTakeovers
    BY <1>6 DEF Renew, TypeOK
  <2>2. TypeOK'
    BY <1>6, <2>1, PayloadType DEF Renew, TypeOK
  <2>3. lease'.owner = inst[s] /\ lease'.host = Host[s] /\ lease'.pid = Pid(s)
    BY <2>1 DEF Payload
  <2>4. IdsUnique'
    BY <1>6, <2>3 DEF Renew, IdsUnique
  <2>5. OwnerRecorded'
    BY <1>6, <2>3 DEF Renew, OwnerRecorded, IdsUnique, Pid
  <2>. QED
    BY <2>2, <2>4, <2>5
<1>7. ASSUME NEW s \in Servers, BeginWrite(s) PROVE IInv'
  <2>1. TypeOK'
    BY <1>7, ServersAssumption DEF BeginWrite, TypeOK, Points
  <2>2. IdsUnique' /\ OwnerRecorded'
    BY <1>7 DEF BeginWrite, TypeOK, IdsUnique, OwnerRecorded, Pid
  <2>. QED
    BY <2>1, <2>2
<1>8. ASSUME NEW s \in Servers, EndWrite(s) PROVE IInv'
  <2>1. TypeOK'
    BY <1>8, ServersAssumption DEF EndWrite, Lands, TypeOK, Points
  <2>2. IdsUnique' /\ OwnerRecorded'
    BY <1>8 DEF EndWrite, TypeOK, IdsUnique, OwnerRecorded, Pid
  <2>. QED
    BY <2>1, <2>2
<1>9. ASSUME NEW s \in Servers, Close(s) PROVE IInv'
  <2>1. TypeOK'
    BY <1>9, NoLeaseType, ServersAssumption, BoundsAssumption DEF Close, TypeOK, Points
  <2>2. lease'.owner < nextInst
    BY <1>9 DEF Close, NoLease, IdsUnique, TypeOK
  <2>3. IdsUnique'
    BY <1>9, <2>2 DEF Close, TypeOK, IdsUnique
  <2>4. OwnerRecorded'
    BY <1>9 DEF Close, NoLease, TypeOK, OwnerRecorded, Pid
  <2>. QED
    BY <2>1, <2>3, <2>4
<1>10. ASSUME NEW s \in Servers, LingeringWrite(s) PROVE IInv'
  <2>1. TypeOK'
    BY <1>10 DEF LingeringWrite, Lands, TypeOK
  <2>2. IdsUnique' /\ OwnerRecorded'
    BY <1>10 DEF LingeringWrite, IdsUnique, OwnerRecorded, Pid
  <2>. QED
    BY <2>1, <2>2
<1>11. ASSUME Tick PROVE IInv'
  <2>1. /\ lease' \in Leases /\ lease'.owner = lease.owner /\ lease'.gen = lease.gen
        /\ lease'.host = lease.host /\ lease'.pid = lease.pid
    BY <1>11, BoundsAssumption DEF Tick, TypeOK, Leases
  <2>2. TypeOK'
    BY <1>11, <2>1 DEF Tick, TypeOK
  <2>3. IdsUnique' /\ OwnerRecorded'
    BY <1>11, <2>1 DEF Tick, IdsUnique, OwnerRecorded, Pid
  <2>. QED
    BY <2>2, <2>3
<1>12. CASE UNCHANGED vars
  BY <1>12 DEF vars, TypeOK, IdsUnique, OwnerRecorded, Pid
<1>. QED
  BY <1>1, <1>2, <1>3, <1>4, <1>5, <1>6, <1>7, <1>8, <1>9, <1>10, <1>11, <1>12 DEF Next

LEMMA SpecIInv == Spec => []IInv
  BY InitIInv, NextIInv, PTL DEF Spec

\* Every value keeps its type, and .owner_lease.lock is held across a
\* guarded_write and by nobody else.
THEOREM TypeCorrect == Spec => []TypeOK
<1>1. IInv => TypeOK
  BY DEF IInv
<1>. QED
  BY <1>1, SpecIInv, PTL

-----------------------------------------------------------------------------
\* While a running server's lease is unexpired no other server can claim: the
\* owner is not the claimant, and its pid is alive on the host it names.
LEMMA LiveNotClaimable ==
  ASSUME IInv, NEW s \in Servers, NEW t \in Servers, s # t,
         pc[s] # "down", lease.gen # 0, lease.owner = inst[s], lease.left > 0
  PROVE  ~Claimable(t)
<1>1. lease.host = Host[s] /\ lease.pid = Pid(s)
  BY DEF IInv, OwnerRecorded
<1>2. lease.owner # inst[t]
  BY DEF IInv, IdsUnique
<1>3. ~OwnerIsDead(t)
  BY <1>1 DEF OwnerIsDead
<1>. QED
  BY <1>2, <1>3 DEF Claimable, IInv, TypeOK, Leases

\* A step leaves an unexpired lease with the server that holds it, unless that
\* step is the server's own close or crash.
LEMMA LiveLeaseKept ==
  ASSUME IInv, [Next]_vars, NEW s \in Servers,
         pc[s] \in Serving, Owns(s), lease.left > 0, pc'[s] \in Serving
  PROVE  Owns(s)'
<1>. USE DEF IInv
<1>1. pc[s] # "down" /\ pc[s] # "up" /\ pc'[s] # "down" /\ pc'[s] # "up"
  BY DEF Serving
<1>2. lease.gen # 0 /\ lease.owner = inst[s] /\ lease.gen = gen[s]
  BY DEF Owns
<1>3. ASSUME NEW t \in Servers, Boot(t) PROVE Owns(s)'
  BY <1>1, <1>2, <1>3 DEF Boot, Owns, TypeOK
<1>4. ASSUME NEW t \in Servers, Crash(t) PROVE Owns(s)'
  BY <1>1, <1>2, <1>4 DEF Crash, Owns, TypeOK
<1>5. ASSUME NEW t \in Servers, Claim(t) PROVE Owns(s)'
  <2>1. s # t /\ Claimable(t)
    BY <1>1, <1>5 DEF Claim
  <2>. QED
    BY <1>1, <1>2, <2>1, LiveNotClaimable
<1>6. ASSUME NEW t \in Servers, StartSaves(t) \/ Started(t) \/ BeginWrite(t) \/ EndWrite(t)
                                \/ LingeringWrite(t)
      PROVE  Owns(s)'
  BY <1>2, <1>6 DEF StartSaves, Started, BeginWrite, EndWrite, LingeringWrite, Owns
<1>7. ASSUME NEW t \in Servers, Renew(t) PROVE Owns(s)'
  <2>1. s = t
    BY <1>1, <1>2, <1>7 DEF Renew, Owns, IdsUnique
  <2>2. lease' = Payload(s, gen[s]) /\ gen' = gen /\ inst' = inst
    BY <1>7, <2>1 DEF Renew
  <2>. QED
    BY <1>2, <2>2 DEF Owns, Payload
<1>8. ASSUME NEW t \in Servers, Close(t) PROVE Owns(s)'
  <2>1. s # t
    BY <1>1, <1>8 DEF Close, TypeOK
  <2>2. ~Owns(t)
    BY <1>1, <1>2, <2>1 DEF Owns, IdsUnique
  <2>. QED
    BY <1>2, <1>8, <2>1, <2>2 DEF Close, Owns, TypeOK
<1>9. ASSUME Tick PROVE Owns(s)'
  <2>1. lease'.gen = lease.gen /\ lease'.owner = lease.owner
    BY <1>9 DEF Tick, TypeOK, Leases
  <2>. QED
    BY <1>2, <1>9, <2>1 DEF Tick, Owns
<1>10. CASE UNCHANGED vars
  BY <1>2, <1>10 DEF vars, Owns
<1>. QED
  BY <1>3, <1>4, <1>5, <1>6, <1>7, <1>8, <1>9, <1>10 DEF Next

\* A server that holds an unexpired lease keeps it until it closes the
\* conversation or crashes: claim() refuses every other server, on whatever host.
THEOREM LiveLeaseNeverTaken == Spec => OwnerKeepsLease
<1>1. IInv /\ [Next]_vars =>
        [\A s \in Servers :
           pc[s] \in Serving /\ Owns(s) /\ lease.left > 0 =>
             pc'[s] \notin Serving \/ (Owns(s))']_vars
  BY LiveLeaseKept
<1>. QED
  BY <1>1, SpecIInv, PTL DEF Spec, OwnerKeepsLease

-----------------------------------------------------------------------------
\* A claim writes the claimant's lease, with a generation that is not zero, and
\* no time is left out of it.
LEMMA ClaimPayload ==
  ASSUME IInv, NEW s \in Servers, Claim(s)
  PROVE  /\ lease'.gen # 0 /\ lease'.owner = inst[s] /\ claimant' = inst[s]
         /\ Owns(s)' /\ lease'.left > 0
<1>. DEFINE g == IF lease.gen # 0 /\ lease.owner = inst[s] THEN lease.gen ELSE lease.gen + 1
<1>1. lease.gen \in Nat
  BY DEF IInv, TypeOK, Leases
<1>2. /\ lease' = Payload(s, g) /\ gen' = [gen EXCEPT ![s] = g]
      /\ claimant' = inst[s] /\ inst' = inst
  BY DEF Claim
<1>3. g # 0
  BY <1>1
<1>. HIDE DEF g
<1>4. lease'.gen = g /\ lease'.owner = inst[s] /\ lease'.left = TTL
  BY <1>2 DEF Payload
<1>. QED
  BY <1>2, <1>3, <1>4, BoundsAssumption DEF Owns, IInv, TypeOK

\* WriterOwns is inductive: a claim, a renewal and a release wait for the lock
\* of a write in progress, so its lease is still in the file when it lands.
LEMMA NextWriterOwns ==
  ASSUME IInv, WriterOwns, [Next]_vars
  PROVE  WriterOwns'
<1>. USE DEF IInv
<1>1. /\ "guarded" \notin stray
      /\ lease.gen # 0 => lease.owner = claimant
      /\ \A s \in Servers : pc[s] = "writing" => Owns(s)
  BY DEF WriterOwns
<1>2. ASSUME NEW s \in Servers, Boot(s) PROVE WriterOwns'
  <2>1. \A t \in Servers \ {s} : pc'[t] = pc[t] /\ inst'[t] = inst[t]
    BY <1>2 DEF Boot, TypeOK
  <2>2. pc'[s] = "up"
    BY <1>2 DEF Boot, TypeOK
  <2>. QED
    BY <1>1, <1>2, <2>1, <2>2 DEF Boot, WriterOwns, Owns
<1>3. ASSUME NEW s \in Servers, Crash(s) PROVE WriterOwns'
  <2>1. \A t \in Servers \ {s} : pc'[t] = pc[t] /\ gen'[t] = gen[t]
    BY <1>3 DEF Crash, TypeOK
  <2>2. pc'[s] = "down"
    BY <1>3 DEF Crash, TypeOK
  <2>. QED
    BY <1>1, <1>3, <2>1, <2>2 DEF Crash, WriterOwns, Owns
<1>4. ASSUME NEW s \in Servers, Claim(s) PROVE WriterOwns'
  <2>1. lock = NoServer /\ pc' = [pc EXCEPT ![s] = "starting"] /\ stray' = stray
    BY <1>4 DEF Claim
  <2>2. \A t \in Servers : pc[t] # "writing"
    BY <2>1, ServersAssumption DEF TypeOK
  <2>3. \A t \in Servers : pc'[t] # "writing"
    BY <2>1, <2>2 DEF TypeOK
  <2>. QED
    BY <1>1, <1>4, <2>1, <2>3, ClaimPayload DEF WriterOwns
<1>5. ASSUME NEW s \in Servers, StartSaves(s) PROVE WriterOwns'
  BY <1>1, <1>5 DEF StartSaves, Lands, WriterOwns, Owns
<1>6. ASSUME NEW s \in Servers, Started(s) PROVE WriterOwns'
  <2>1. pc'[s] = "open" /\ \A t \in Servers \ {s} : pc'[t] = pc[t]
    BY <1>6 DEF Started, TypeOK
  <2>. QED
    BY <1>1, <1>6, <2>1 DEF Started, WriterOwns, Owns
<1>7. ASSUME NEW s \in Servers, Renew(s) PROVE WriterOwns'
  <2>1. lease.gen # 0 /\ lease.owner = inst[s] /\ lease.gen = gen[s]
    BY <1>7 DEF Renew, Owns
  <2>2. lease'.gen = lease.gen /\ lease'.owner = lease.owner
    BY <1>7, <2>1 DEF Renew, Payload
  <2>. QED
    BY <1>1, <1>7, <2>2 DEF Renew, WriterOwns, Owns
<1>8. ASSUME NEW s \in Servers, BeginWrite(s) PROVE WriterOwns'
  <2>1. Owns(s) /\ \A t \in Servers \ {s} : pc'[t] = pc[t]
    BY <1>8 DEF BeginWrite, TypeOK
  <2>. QED
    BY <1>1, <1>8, <2>1 DEF BeginWrite, WriterOwns, Owns
<1>9. ASSUME NEW s \in Servers, EndWrite(s) PROVE WriterOwns'
  <2>1. claimant = inst[s]
    BY <1>1, <1>9 DEF EndWrite, Owns
  <2>2. stray' = stray
    BY <1>9, <2>1 DEF EndWrite, Lands
  <2>3. pc'[s] = "open" /\ \A t \in Servers \ {s} : pc'[t] = pc[t]
    BY <1>9 DEF EndWrite, TypeOK
  <2>. QED
    BY <1>1, <1>9, <2>2, <2>3 DEF EndWrite, WriterOwns, Owns
<1>10. ASSUME NEW s \in Servers, Close(s) PROVE WriterOwns'
  <2>1. lock = NoServer /\ pc' = [pc EXCEPT ![s] = "up"]
        /\ stray' = stray /\ claimant' = claimant
    BY <1>10 DEF Close
  <2>2. \A t \in Servers : pc[t] # "writing"
    BY <2>1, ServersAssumption DEF TypeOK
  <2>3. \A t \in Servers : pc'[t] # "writing"
    BY <2>1, <2>2 DEF TypeOK
  <2>4. lease'.gen = 0 \/ lease' = lease
    BY <1>10 DEF Close, NoLease
  <2>. QED
    BY <1>1, <2>1, <2>3, <2>4 DEF WriterOwns
<1>11. ASSUME NEW s \in Servers, LingeringWrite(s) PROVE WriterOwns'
  BY <1>1, <1>11 DEF LingeringWrite, Lands, WriterOwns, Owns
<1>12. ASSUME Tick PROVE WriterOwns'
  <2>1. lease'.gen = lease.gen /\ lease'.owner = lease.owner
    BY <1>12 DEF Tick, TypeOK, Leases
  <2>. QED
    BY <1>1, <1>12, <2>1 DEF Tick, WriterOwns, Owns
<1>13. CASE UNCHANGED vars
  BY <1>1, <1>13 DEF vars, WriterOwns, Owns
<1>. QED
  BY <1>2, <1>3, <1>4, <1>5, <1>6, <1>7, <1>8, <1>9, <1>10, <1>11, <1>12, <1>13 DEF Next

LEMMA SpecWriterOwns == Spec => []WriterOwns
<1>1. Init => WriterOwns
  BY DEF Init, NoLease, OlderLease, WriterOwns
<1>2. IInv /\ WriterOwns /\ [Next]_vars => WriterOwns'
  BY NextWriterOwns
<1>. QED
  BY <1>1, <1>2, SpecIInv, PTL DEF Spec

\* No guarded write lands in a conversation that another server has claimed
\* since, however long its server stalled between the check and the write.
THEOREM GuardedWritesFenced == Spec => []WritesFenced
<1>1. WriterOwns => WritesFenced
  BY DEF WriterOwns, WritesFenced
<1>. QED
  BY <1>1, SpecWriterOwns, PTL

-----------------------------------------------------------------------------
\* StarterOwns is inductive where no time passes between a claim and the end of
\* the start: nobody else can claim an unexpired lease.
LEMMA NextStarterOwns ==
  ASSUME ~SlowStart, ~Lingering, IInv, WriterOwns, StarterOwns, [Next]_vars
  PROVE  StarterOwns'
<1>. USE DEF IInv
<1>1. /\ lingers = {} /\ stray = {}
      /\ \A s \in Servers : pc[s] = "starting" => Owns(s) /\ lease.left > 0
      /\ lease.gen # 0 => lease.owner = claimant
      /\ \A s \in Servers : pc[s] = "writing" => Owns(s)
  BY DEF StarterOwns, WriterOwns
<1>2. ASSUME NEW s \in Servers, pc[s] \in {"starting", "writing"} PROVE claimant = inst[s]
  BY <1>1, <1>2 DEF Owns
\* A server that was starting and still is keeps its lease.
<1>3. ASSUME NEW s \in Servers, pc[s] = "starting", pc'[s] = "starting" PROVE Owns(s)'
  <2>1. pc[s] \in Serving /\ pc'[s] \in Serving
    BY <1>3 DEF Serving
  <2>. QED
    BY <1>1, <1>3, <2>1, LiveLeaseKept
<1>4. ASSUME NEW s \in Servers, Claim(s) PROVE StarterOwns'
  <2>1. /\ Claimable(s) /\ stray' = stray /\ lingers' = lingers
        /\ \A t \in Servers \ {s} : pc'[t] = pc[t]
    BY <1>4 DEF Claim, TypeOK
  <2>2. \A t \in Servers \ {s} : pc[t] # "starting"
    BY <1>1, <2>1, LiveNotClaimable DEF Owns
  <2>. QED
    BY <1>1, <1>4, <2>1, <2>2, ClaimPayload DEF StarterOwns
<1>5. ASSUME NEW s \in Servers, Close(s) PROVE StarterOwns'
  <2>1. /\ lingers' = {} /\ stray' = {} /\ pc'[s] = "up"
        /\ \A t \in Servers \ {s} : pc'[t] = pc[t]
    BY <1>1, <1>5 DEF Close, TypeOK
  <2>2. ASSUME NEW t \in Servers, pc'[t] = "starting" PROVE Owns(t)' /\ lease'.left > 0
    <3>1. t # s /\ pc[t] = "starting"
      BY <2>1, <2>2
    <3>2. ~Owns(s)
      BY <1>1, <3>1 DEF Owns, IdsUnique
    <3>3. lease' = lease
      BY <1>5, <3>2 DEF Close
    <3>. QED
      BY <1>1, <1>3, <2>2, <3>1, <3>3
  <2>. QED
    BY <2>1, <2>2 DEF StarterOwns
<1>6. ASSUME NEW s \in Servers, Boot(s) \/ Crash(s) \/ Started(s) \/ BeginWrite(s)
      PROVE  StarterOwns'
  <2>1. /\ lingers' = {} /\ stray' = {} /\ lease' = lease
        /\ pc'[s] # "starting" /\ \A t \in Servers \ {s} : pc'[t] = pc[t]
    BY <1>1, <1>6 DEF Boot, Crash, Started, BeginWrite, TypeOK
  <2>. QED
    BY <1>1, <1>3, <2>1 DEF StarterOwns
<1>7. ASSUME NEW s \in Servers, StartSaves(s) \/ EndWrite(s) PROVE StarterOwns'
  <2>1. pc[s] \in {"starting", "writing"} /\ lease' = lease /\ lingers' = lingers
    BY <1>7 DEF StartSaves, EndWrite
  <2>2. stray' = {}
    BY <1>1, <1>2, <1>7, <2>1 DEF StartSaves, EndWrite, Lands
  <2>3. \A t \in Servers : pc'[t] = "starting" => pc[t] = "starting"
    BY <1>7 DEF StartSaves, EndWrite, TypeOK
  <2>. QED
    BY <1>1, <1>3, <2>1, <2>2, <2>3 DEF StarterOwns
<1>8. ASSUME NEW s \in Servers, Renew(s) PROVE StarterOwns'
  <2>1. lease'.left > 0 /\ lingers' = {} /\ stray' = {} /\ pc' = pc
    BY <1>1, <1>8, BoundsAssumption DEF Renew, Payload
  <2>. QED
    BY <1>3, <2>1 DEF StarterOwns
<1>9. ASSUME NEW s \in Servers, LingeringWrite(s) PROVE StarterOwns'
  BY <1>1, <1>9 DEF LingeringWrite
<1>10. ASSUME Tick PROVE StarterOwns'
  BY <1>1, <1>10 DEF Tick, StarterOwns
<1>11. CASE UNCHANGED vars
  BY <1>1, <1>11 DEF vars, StarterOwns, Owns
<1>. QED
  BY <1>4, <1>5, <1>6, <1>7, <1>8, <1>9, <1>10, <1>11 DEF Next

\* The unguarded writes are fenced too where a start is shorter than the lease
\* and no run() thread outlives close(): these two are the only ways past the
\* fence.
THEOREM PromptStartsFenced ==
  ASSUME ~SlowStart, ~Lingering
  PROVE  Spec => []AllWritesFenced
<1>1. Init => StarterOwns
  BY DEF Init, StarterOwns
<1>2. IInv /\ WriterOwns /\ StarterOwns /\ [Next]_vars => StarterOwns'
  BY NextStarterOwns
<1>3. StarterOwns => AllWritesFenced
  BY DEF StarterOwns, AllWritesFenced
<1>. QED
  BY <1>1, <1>2, <1>3, SpecIInv, SpecWriterOwns, PTL DEF Spec
=============================================================================
