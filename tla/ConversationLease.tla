------------------------- MODULE ConversationLease -------------------------
(***************************************************************************)
(* The lease that decides which server process owns a conversation         *)
(* directory on shared storage (openhands-agent-server/openhands/          *)
(* agent_server/conversation_lease.py), as EventService uses it            *)
(* (event_service.py: start, _write_guard, renew_lease, close).            *)
(*                                                                         *)
(* Every operation on the lease file holds .owner_lease.lock and is one    *)
(* action; only a guarded write holds it across two.  Time is what is left *)
(* of the lease: expires_at > now is left > 0.  The clocks of the hosts    *)
(* agree.  A claim or a write that raises changes nothing and is not an    *)
(* action.  Instance ids are uuid4: they are numbered here.                *)
(***************************************************************************)
EXTENDS Naturals

CONSTANTS
  Servers,       \* where a server process runs; each is restarted in place
  NoServer,      \* the file lock is free
  Hosts,         \* host names
  NoHost,        \* a lease file of an older version names no host
  Host,          \* the host of each server
  TTL,           \* lease_ttl_seconds, in ticks
  ReusedPids,    \* servers whose restart has the same pid (in a container)
  SlowStart,     \* a start may take longer than a tick
  Lingering,     \* a run() thread may outlive close()
  MaxInstances,  \* bound: processes started
  MaxTakeovers   \* bound: generations

ASSUME ServersAssumption == NoServer \notin Servers
ASSUME HostsAssumption == Host \in [Servers -> Hosts] /\ NoHost \notin Hosts
ASSUME PidsAssumption == ReusedPids \subseteq Servers
ASSUME SwitchesAssumption == SlowStart \in BOOLEAN /\ Lingering \in BOOLEAN
ASSUME BoundsAssumption == TTL \in Nat \ {0} /\ MaxInstances \in Nat /\ MaxTakeovers \in Nat \ {0}

VARIABLES
  lease,      \* owner_lease.json; gen = 0: there is none
  lock,       \* who holds .owner_lease.lock across a write
  inst,       \* the instance id of each server's process
  nextInst,   \* the next instance id
  pc,         \* where each server is with the conversation
  gen,        \* _lease_generation of its EventService, 0 for None
  lingers,    \* servers with a run() thread of a closed EventService
  claimant,   \* history: the instance of the latest claim
  stray       \* history: the kinds of writes that landed after the claim of another
              \* server: "guarded", "start" and "lingering"

vars == <<lease, lock, inst, nextInst, pc, gen, lingers, claimant, stray>>

\* "down"     no process
\* "up"       the process runs and has not opened the conversation
\* "starting" start() has claimed the lease; no write guard is set yet
\* "open"     the EventService serves the conversation
\* "writing"  inside guarded_write, with the lock
Points == {"down", "up", "starting", "open", "writing"}
Serving == {"starting", "open", "writing"}

NoLease == [owner |-> 0, gen |-> 0, left |-> 0, host |-> NoHost, pid |-> <<NoServer, 0>>]

\* The file of an older version: it names neither the host nor the pid.
OlderLease == [owner |-> 0, gen |-> 1, left |-> TTL, host |-> NoHost, pid |-> <<NoServer, 0>>]

\* The process id of s.
Pid(s) == <<s, IF s \in ReusedPids THEN 0 ELSE inst[s]>>

Init ==
  /\ lease \in {NoLease, OlderLease}
  /\ lock = NoServer
  /\ inst = [s \in Servers |-> 0] /\ nextInst = 1
  /\ pc = [s \in Servers |-> "down"]
  /\ gen = [s \in Servers |-> 0]
  /\ lingers = {} /\ claimant = 0 /\ stray = {}

Boot(s) ==
  /\ pc[s] = "down" /\ nextInst <= MaxInstances
  /\ pc' = [pc EXCEPT ![s] = "up"]
  /\ inst' = [inst EXCEPT ![s] = nextInst]
  /\ nextInst' = nextInst + 1
  /\ UNCHANGED <<lease, lock, gen, lingers, claimant, stray>>

\* Seeded fault: pids of other hosts are looked up too.
OwnerIsDeadAnyHost(s) ==
  /\ lease.host # NoHost
  /\ lease.pid # Pid(s)
  /\ ~\E t \in Servers : pc[t] # "down" /\ Host[t] = Host[s] /\ Pid(t) = lease.pid

\* _owner_is_dead: the owner ran on this host and its pid is gone.
OwnerIsDead(s) ==
  /\ lease.host = Host[s]
  /\ lease.pid # Pid(s)
  /\ ~\E t \in Servers : pc[t] # "down" /\ Host[t] = Host[s] /\ Pid(t) = lease.pid

\* Seeded fault: an expired lease of another host is not up for grabs.
ClaimableDeadOnly(s) == lease.gen = 0 \/ lease.owner = inst[s] \/ OwnerIsDead(s)

\* claim() does not raise ConversationLeaseHeldError.
Claimable(s) ==
  lease.gen = 0 \/ lease.owner = inst[s] \/ lease.left = 0 \/ OwnerIsDead(s)

\* _write_payload.
Payload(s, g) == [owner |-> inst[s], gen |-> g, left |-> TTL, host |-> Host[s], pid |-> Pid(s)]

\* start() claims; a takeover raises the generation.
Claim(s) ==
  /\ pc[s] = "up" /\ lock = NoServer
  /\ Claimable(s)
  /\ LET g == IF lease.gen # 0 /\ lease.owner = inst[s] THEN lease.gen ELSE lease.gen + 1
     IN  /\ g <= MaxTakeovers
         /\ lease' = Payload(s, g)
         /\ gen' = [gen EXCEPT ![s] = g]
  /\ pc' = [pc EXCEPT ![s] = "starting"]
  /\ claimant' = inst[s]
  /\ UNCHANGED <<lock, inst, nextInst, lingers, stray>>

\* A write by the process of s reaches the conversation's files.
Lands(s, kind) == stray' = IF claimant = inst[s] THEN stray ELSE stray \cup {kind}

\* Opening the conversation saves base_state.json, before set_write_guard.
StartSaves(s) ==
  /\ pc[s] = "starting"
  /\ Lands(s, "start")
  /\ UNCHANGED <<lease, lock, inst, nextInst, pc, gen, lingers, claimant>>

Started(s) ==
  /\ pc[s] = "starting"
  /\ pc' = [pc EXCEPT ![s] = "open"]
  /\ UNCHANGED <<lease, lock, inst, nextInst, gen, lingers, claimant, stray>>

\* _assert_owner_locked.
Owns(s) == lease.gen # 0 /\ lease.owner = inst[s] /\ lease.gen = gen[s]

\* renew_lease; a lost lease is only logged.
Renew(s) ==
  /\ pc[s] = "open" /\ lock = NoServer
  /\ Owns(s)
  /\ lease' = Payload(s, gen[s])
  /\ UNCHANGED <<lock, inst, nextInst, pc, gen, lingers, claimant, stray>>

\* Seeded fault: ownership is checked, but the lock is not kept for the write.
BeginWriteUnlocked(s) ==
  /\ pc[s] = "open" /\ lock = NoServer
  /\ Owns(s)
  /\ pc' = [pc EXCEPT ![s] = "writing"]
  /\ UNCHANGED <<lease, lock, inst, nextInst, gen, lingers, claimant, stray>>

\* guarded_write: the lock is taken, ownership checked ...
BeginWrite(s) ==
  /\ pc[s] = "open" /\ lock = NoServer
  /\ Owns(s)
  /\ lock' = s
  /\ pc' = [pc EXCEPT ![s] = "writing"]
  /\ UNCHANGED <<lease, inst, nextInst, gen, lingers, claimant, stray>>

\* ... and the file written under it.
EndWrite(s) ==
  /\ pc[s] = "writing"
  /\ Lands(s, "guarded")
  /\ lock' = NoServer
  /\ pc' = [pc EXCEPT ![s] = "open"]
  /\ UNCHANGED <<lease, inst, nextInst, gen, lingers, claimant>>

\* close(), also after a start that failed: the lease is released if it is
\* still this one, and the guard has no lease from then on.
Close(s) ==
  /\ pc[s] \in {"starting", "open"} /\ lock = NoServer
  /\ lease' = IF Owns(s) THEN NoLease ELSE lease
  /\ pc' = [pc EXCEPT ![s] = "up"]
  /\ gen' = [gen EXCEPT ![s] = 0]
  /\ lingers' = IF Lingering /\ pc[s] = "open" THEN lingers \cup {s} ELSE lingers
  /\ UNCHANGED <<lock, inst, nextInst, claimant, stray>>

\* _write_guard without a lease is a nullcontext: the thread of a run() that
\* close() gave up waiting for writes unguarded.
LingeringWrite(s) ==
  /\ s \in lingers
  /\ Lands(s, "lingering")
  /\ \/ lingers' = lingers
     \/ lingers' = lingers \ {s}
  /\ UNCHANGED <<lease, lock, inst, nextInst, pc, gen, claimant>>

\* The operating system drops the file lock of a process that ends.
Crash(s) ==
  /\ pc[s] # "down"
  /\ pc' = [pc EXCEPT ![s] = "down"]
  /\ gen' = [gen EXCEPT ![s] = 0]
  /\ lock' = IF lock = s THEN NoServer ELSE lock
  /\ lingers' = lingers \ {s}
  /\ UNCHANGED <<lease, inst, nextInst, claimant, stray>>

Tick ==
  /\ lease.left > 0
  /\ SlowStart \/ \A s \in Servers : pc[s] # "starting"
  /\ lease' = [lease EXCEPT !.left = @ - 1]
  /\ UNCHANGED <<lock, inst, nextInst, pc, gen, lingers, claimant, stray>>

Next ==
  \/ \E s \in Servers :
       \/ Boot(s) \/ Crash(s)
       \/ Claim(s) \/ StartSaves(s) \/ Started(s)
       \/ Renew(s) \/ BeginWrite(s) \/ EndWrite(s)
       \/ Close(s) \/ LingeringWrite(s)
  \/ Tick

Spec == Init /\ [][Next]_vars

\* Time passes, a process goes on with what it has begun, and a client asks a
\* running server for the conversation.
FairSpec ==
  /\ Spec
  /\ WF_vars(Tick)
  /\ \A s \in Servers : WF_vars(Claim(s)) /\ WF_vars(Started(s)) /\ WF_vars(EndWrite(s))

-----------------------------------------------------------------------------
(* Properties *)

Leases ==
  [owner : 0..MaxInstances, gen : 0..MaxTakeovers, left : 0..TTL,
   host : Hosts \cup {NoHost}, pid : (Servers \cup {NoServer}) \X (0..MaxInstances)]

\* Types; the lock is held across a write and by nobody else.
TypeOK ==
  /\ lease \in Leases
  /\ lock \in Servers \cup {NoServer}
  /\ inst \in [Servers -> 0..MaxInstances]
  /\ nextInst \in 1..(MaxInstances + 1)
  /\ pc \in [Servers -> Points]
  /\ gen \in [Servers -> 0..MaxTakeovers]
  /\ lingers \in SUBSET Servers
  /\ claimant \in 0..MaxInstances
  /\ stray \subseteq {"guarded", "start", "lingering"}
  /\ \A s \in Servers : lock = s <=> pc[s] = "writing"

\* "so stale owners can be fenced off after a takeover" (ConversationLease): no
\* guarded write lands in a conversation that another server has claimed since.
WritesFenced == "guarded" \notin stray

\* The same of the saves during start() and of the writes of a run() thread
\* that outlives close(), which are not guarded.
AllWritesFenced == stray = {}

\* A server that holds an unexpired lease keeps it until it closes the
\* conversation or crashes, whatever other servers, restarts and releases do.
OwnerKeepsLease ==
  [][\A s \in Servers :
       pc[s] \in Serving /\ Owns(s) /\ lease.left > 0 =>
         pc'[s] \notin Serving \/ (Owns(s))']_vars

\* A conversation whose server crashed or hangs is taken over as long as some
\* server runs: no lease blocks it for ever.
TakenOver ==
  (\E s \in Servers : pc[s] = "up") ~>
    \/ \E s \in Servers : pc[s] \in Serving /\ Owns(s)
    \/ \A s \in Servers : pc[s] # "up"
    \/ lease.gen = MaxTakeovers
=============================================================================
