---------------------- MODULE RemoteConversationProofs ----------------------
(***************************************************************************)
(* Proofs about RemoteConversation, for any number of events, runs, faults *)
(* and frames in the socket.                                               *)
(***************************************************************************)
EXTENDS RemoteConversation, FiniteSetTheorems, TLAPS

Events == 1..Len(log)

\* What the client keeps is a record of the fields Blank names.
Clients ==
  [cache : SUBSET Events, delivered : SUBSET Events, replayed : SUBSET Events,
   called : SUBSET Events, again : SUBSET Events,
   cached : Statuses, signals : Seq(Statuses)]

\* Event e is in the socket, or in the hands of the reconnect handling.
Sent(e) == \E i \in 1..Len(channel) : channel[i].event = e
Held(e) == held # <<>> /\ held[1].event = e

\* A frame of one of n published events, or of a snapshot with its status.
Proper(f, n) ==
  /\ f.event \in Nat /\ f.event <= n
  /\ f.event = 0 => f.status \in Statuses

\* The socket carries published events in order, each once.
WireSound ==
  /\ \A i \in 1..Len(channel) : Proper(channel[i], published)
  /\ \A i, j \in 1..Len(channel) :
       i < j /\ channel[i].event # 0 /\ channel[j].event # 0
         => channel[i].event < channel[j].event
  /\ held # <<>> =>
       /\ ready /\ hasConnected
       /\ Proper(held[1], published)
       /\ held[1].event # 0 => ~Sent(held[1].event)
  /\ conn = "off" => channel = <<>> /\ held = <<>>

\* No callback has run twice, and of the events the callbacks have seen only
\* those the last replay passed on can still come.
OnceOnly ==
  /\ client.again = {}
  /\ \A e \in client.called : Coming(e) => e \in client.replayed

\* delivered_ids and replayed_ids say what the callbacks have seen, and as long
\* as no replay came early replayed_ids names all that must not come again.
OnceSound ==
  /\ client.replayed \subseteq client.called
  /\ client.called \subseteq client.delivered
  /\ ~early => OnceOnly

\* An event counts as delivered for one of two reasons: the constructor had it, or
\* the callbacks have seen it.
MissedSound ==
  /\ \A e \in client.delivered : e <= since \/ e \in client.called
  /\ pc \notin {"sync", "connecting"} => hasConnected

IInv ==
  /\ TypeOK /\ client \in Clients
  /\ WireSound /\ OnceSound /\ MissedSound /\ NothingMissed

-----------------------------------------------------------------------------
(* What the callbacks do to the client's record *)

\* The status after some events is a status.
LEMMA UpdatedIsStatus ==
  ASSUME log \in Seq({"message"} \cup Statuses), NEW S \in SUBSET Events,
         NEW old \in Statuses
  PROVE  Updated(old, S) \in Statuses
<1>. DEFINE U == {e \in S : log[e] # "message"}
            Over(x) == {y \in U : y > x}
            T == {Over(x) : x \in U}
<1>1. CASE U = {}
  BY <1>1 DEF Updated
<1>2. CASE U # {}
  <2>1. U \in SUBSET Nat /\ IsFiniteSet(U) /\ \A e \in U : log[e] \in Statuses
    <3>1. Len(log) \in Nat
      OBVIOUS
    <3>2. IsFiniteSet(Events) /\ Events \subseteq Nat
      BY <3>1, FS_Interval DEF Events
    <3>3. IsFiniteSet(U)
      BY <3>2, FS_Subset
    <3>4. \A e \in Events : log[e] \in {"message"} \cup Statuses
      BY DEF Events
    <3>. QED
      BY <3>2, <3>3, <3>4
  <2>. HIDE DEF U
  <2>2. IsWellFoundedOn(StrictSubsetOrdering(U), FiniteSubsetsOf(U))
    BY FS_StrictSubsetOrderingWellFounded
  <2>3. T \subseteq FiniteSubsetsOf(U) /\ T # {}
    <3>1. T # {} /\ \A v \in T : v \in SUBSET U
      BY <1>2
    <3>. QED
      BY <2>1, <3>1, FS_Subset DEF FiniteSubsetsOf
  <2>4. PICK u \in T : \A v \in T : ~(<<v, u>> \in StrictSubsetOrdering(U))
    BY <2>2, <2>3, WFMin
  <2>5. PICK x \in U : u = Over(x)
    OBVIOUS
  <2>6. ASSUME NEW y \in U, ~(y <= x) PROVE FALSE
    <3>1. /\ \A z \in U : z > y => z > x
          /\ y > x /\ ~(y > y)
      BY <2>1, <2>6
    <3>2. Over(y) \in T /\ Over(y) # u /\ Over(y) \subseteq u /\ u \subseteq U
      BY <2>5, <3>1, Zenon
    <3>3. <<Over(y), u>> \in StrictSubsetOrdering(U)
      BY <3>2 DEF StrictSubsetOrdering
    <3>. QED
      BY <2>4, <3>2, <3>3
  <2>7. (CHOOSE e \in U : \A d \in U : d <= e) \in U
    BY <2>6
  <2>. QED
    BY <1>2, <2>1, <2>7 DEF Updated, U
<1>. QED
  BY <1>1, <1>2

\* What socket_callback does with a frame.
LEMMA SocketCallbackDoes ==
  ASSUME log \in Seq({"message"} \cup Statuses), published \in 0..Len(log),
         NEW c \in Clients, NEW f \in Frames, Proper(f, published)
  PROVE  /\ SocketCallback(c, f) \in Clients
         /\ f.event \in c.replayed =>
              SocketCallback(c, f) = [c EXCEPT !.replayed = @ \ {f.event}]
         /\ f.event \notin c.replayed =>
              /\ SocketCallback(c, f).called = c.called \cup ({f.event} \ {0})
              /\ SocketCallback(c, f).again = c.again \cup ({f.event} \cap c.called)
              /\ SocketCallback(c, f).delivered = c.delivered \cup ({f.event} \ {0})
              /\ SocketCallback(c, f).replayed = c.replayed
<1>1. Len(log) \in Nat /\ f.event \in 0..Len(log)
  BY DEF Frames
<1>2. {f.event} \ {0} \subseteq Events
  BY <1>1 DEF Events
<1>3. CASE f.event \in c.replayed
  BY <1>3 DEF SocketCallback, Clients
<1>4. CASE f.event \notin c.replayed
  <2>. DEFINE d == [c EXCEPT !.delivered = @ \cup ({f.event} \ {0})]
              st == IF f.event = 0 THEN f.status
                    ELSE IF log[f.event] = "message" THEN c.cached ELSE log[f.event]
  <2>1. SocketCallback(c, f) = Callbacks(d, f)
    BY <1>4 DEF SocketCallback
  <2>2. d \in Clients /\ d.called = c.called /\ d.again = c.again /\ d.cache = c.cache
        /\ d.replayed = c.replayed /\ d.cached = c.cached /\ d.signals = c.signals
        /\ d.delivered = c.delivered \cup ({f.event} \ {0})
    BY <1>2 DEF Clients
  <2>. HIDE DEF d
  <2>3. st \in Statuses
    BY <1>1 DEF Proper, Clients
  <2>4. Signal(f) \in Seq(Statuses)
    <3>1. <<>> \in Seq(Statuses) /\ <<"error">> \in Seq(Statuses)
      BY DEF Statuses
    <3>2. f.event = 0 => <<f.status>> \in Seq(Statuses)
      BY DEF Proper
    <3>. QED
      BY <3>1, <3>2 DEF Signal
  <2>5. d.signals \o Signal(f) \in Seq(Statuses)
    BY <2>2, <2>4 DEF Clients
  <2>6. {f.event} \cap c.called \subseteq Events
    BY DEF Clients
  <2>7. Callbacks(d, f) =
          [d EXCEPT !.called = d.called \cup ({f.event} \ {0}),
                    !.again = d.again \cup ({f.event} \cap d.called),
                    !.cache = d.cache \cup ({f.event} \ {0}),
                    !.cached = st,
                    !.signals = d.signals \o Signal(f)]
    BY <2>2 DEF Callbacks
  <2>. HIDE DEF st
  <2>8. Callbacks(d, f) \in Clients
    BY ZenonT(60), <1>2, <2>2, <2>3, <2>5, <2>6, <2>7 DEF Clients
  <2>9. /\ Callbacks(d, f).called = d.called \cup ({f.event} \ {0})
        /\ Callbacks(d, f).again = d.again \cup ({f.event} \cap d.called)
        /\ Callbacks(d, f).delivered = d.delivered
        /\ Callbacks(d, f).replayed = d.replayed
    BY <2>2, <2>7 DEF Clients
  <2>. QED
    BY <1>4, <2>1, <2>2, <2>8, <2>9
<1>. QED
  BY <1>3, <1>4

\* What replay_missed_events does with the cache.
LEMMA MissedPassedOnDoes ==
  ASSUME log \in Seq({"message"} \cup Statuses), NEW c \in Clients
  PROVE  LET m == c.cache \ c.delivered
             r == MissedPassedOn(c)
         IN  /\ r \in Clients
             /\ r.called = c.called \cup m /\ r.again = c.again \cup (m \cap c.called)
             /\ r.delivered = c.delivered \cup m /\ r.replayed = m
<1>. DEFINE m == c.cache \ c.delivered
            sg == IF \E e \in m : log[e] = "error" THEN Append(c.signals, "error")
                  ELSE c.signals
<1>1. m \in SUBSET Events /\ m \cap c.called \in SUBSET Events
  BY DEF Clients
<1>2. Updated(c.cached, m) \in Statuses
  BY <1>1, UpdatedIsStatus DEF Clients
<1>3. sg \in Seq(Statuses)
  BY DEF Clients, Statuses
<1>4. MissedPassedOn(c) =
        [c EXCEPT !.called = c.called \cup m, !.again = c.again \cup (m \cap c.called),
                  !.delivered = c.delivered \cup m, !.replayed = m,
                  !.cached = Updated(c.cached, m), !.signals = sg]
  BY DEF MissedPassedOn, Clients
<1>. HIDE DEF m, sg
<1>5. /\ MissedPassedOn(c) \in Clients
      /\ MissedPassedOn(c).called = c.called \cup m
      /\ MissedPassedOn(c).again = c.again \cup (m \cap c.called)
      /\ MissedPassedOn(c).delivered = c.delivered \cup m
      /\ MissedPassedOn(c).replayed = m
  BY ZenonT(60), <1>1, <1>2, <1>3, <1>4 DEF Clients
<1>. QED
  BY <1>5 DEF m

\* What a fetch does with the cache.
LEMMA ReconciledDoes ==
  ASSUME log \in Seq({"message"} \cup Statuses), NEW c \in Clients,
         NEW k \in {0, Len(log)}
  PROVE  /\ Reconciled(c, k) \in Clients
         /\ Reconciled(c, k).cache = c.cache \cup 1..k
         /\ Reconciled(c, k).called = c.called /\ Reconciled(c, k).again = c.again
         /\ Reconciled(c, k).delivered = c.delivered
         /\ Reconciled(c, k).replayed = c.replayed
<1>1. 1..k \subseteq Events
  BY DEF Events
<1>. QED
  BY <1>1 DEF Reconciled, Clients

-----------------------------------------------------------------------------
(* The steps keep the invariant *)

\* A sequence over a set is one over a larger set.
LEMMA SeqMonotone ==
  ASSUME NEW S, NEW T, S \subseteq T, NEW s \in Seq(S)
  PROVE  s \in Seq(T)
  OBVIOUS

\* What may still come: what is not published, in the socket, or in hand.
LEMMA ComingIs ==
  ASSUME NEW S, channel \in Seq(S), held \in Seq(S), Len(held) <= 1, NEW e
  PROVE  Coming(e) <=> e > published \/ Sent(e) \/ Held(e)
<1>1. DOMAIN channel = 1..Len(channel)
  OBVIOUS
<1>2. CASE held = <<>>
  <2>1. DOMAIN held = {}
    BY <1>2
  <2>. QED
    BY <1>1, <1>2, <2>1 DEF Coming, Sent, Held
<1>3. CASE held # <<>>
  <2>1. DOMAIN held = {1}
    <3>1. Len(held) \in Nat /\ Len(held) # 0 /\ DOMAIN held = 1..Len(held)
      BY <1>3
    <3>. QED
      BY <3>1
  <2>. QED
    BY <1>1, <1>3, <2>1 DEF Coming, Sent, Held
<1>. QED
  BY <1>2, <1>3

\* The initial states satisfy the invariant.
LEMMA InitInv == Init => IInv
<1>. SUFFICES ASSUME Init PROVE IInv
  OBVIOUS
<1>. USE DEF Init
<1>1. client \in Clients
  BY DEF Blank, Clients, Statuses
<1>2. /\ client.cache = {} /\ client.delivered = {} /\ client.replayed = {}
      /\ client.called = {} /\ client.again = {} /\ client.cached = "idle"
      /\ client.signals = <<>>
  BY DEF Blank
<1>3. log \in Seq({"message"} \cup Statuses) /\ Len(log) = 1
  OBVIOUS
<1>4. TypeOK
  <2>1. /\ published \in 0..Len(log) /\ since \in 0..Len(log)
        /\ polls \in 0..Fallback /\ runs \in 0..MaxRuns /\ faults \in 0..MaxFaults
    BY <1>3, BoundsAssumption
  <2>2. channel \in Seq(Frames) /\ held \in Seq(Frames) /\ Len(held) <= 1
    OBVIOUS
  <2>3. /\ status \in Statuses /\ client.cached \in Statuses
        /\ client.signals \in Seq(Statuses) /\ post \in Statuses \cup {None, "due"}
    BY <1>2 DEF Statuses
  <2>4. \A S \in {client.cache, client.delivered, client.replayed, client.called,
                  client.again} : S \subseteq 1..Len(log)
    BY <1>2
  <2>. QED
    BY <1>3, <2>1, <2>2, <2>3, <2>4 DEF TypeOK
<1>. QED
  BY <1>1, <1>2, <1>4
     DEF IInv, WireSound, OnceSound, OnceOnly, MissedSound, NothingMissed, Sent

\* Steps of the server that add to the log and send nothing.
LEMMA LogGrowsKeeps ==
  ASSUME IInv,
         log' \in Seq({"message"} \cup Statuses), Len(log) <= Len(log'),
         status' \in Statuses, task' \in {"none", "accepted", "running", "ending"},
         post' \in Statuses \cup {None, "due"}, faults' \in 0..MaxFaults,
         UNCHANGED <<published, socketVars, threadVars, client, mainVars, failed>>
  PROVE  IInv'
<1>. USE DEF socketVars, threadVars, mainVars
<1>1. Len(log) \in Nat /\ Len(log') \in Nat
  BY DEF IInv, TypeOK
<1>2. Events \subseteq Events' /\ Frames \subseteq Frames'
  BY <1>1 DEF Events, Frames
<1>3. client' \in Clients'
  BY <1>2 DEF IInv, Clients
<1>4. channel' \in Seq(Frames)' /\ held' \in Seq(Frames)'
  BY <1>2, SeqMonotone DEF IInv, TypeOK
<1>5. TypeOK'
  <2>1. /\ published' \in 0..Len(log') /\ since' \in 0..Len(log')
    BY <1>1 DEF IInv, TypeOK
  <2>2. \A S \in {client.cache, client.delivered, client.replayed, client.called,
                  client.again} : S \subseteq 1..Len(log')
    BY <1>2 DEF IInv, TypeOK, Events
  <2>. QED
    BY <1>4, <2>1, <2>2 DEF IInv, TypeOK
<1>6. WireSound' /\ MissedSound' /\ NothingMissed'
  BY DEF IInv, WireSound, MissedSound, NothingMissed, Sent, Proper
<1>7. OnceSound'
  BY Zenon DEF IInv, OnceSound, OnceOnly, Coming
<1>. QED
  BY <1>3, <1>5, <1>6, <1>7 DEF IInv

\* Recording an event keeps the log a log.
LEMMA RecordGrows ==
  ASSUME IInv, NEW entry \in {"message"} \cup Statuses, Record(entry)
  PROVE  /\ log' \in Seq({"message"} \cup Statuses) /\ Len(log) <= Len(log')
         /\ status' \in Statuses
<1>1. log \in Seq({"message"} \cup Statuses) /\ status \in Statuses
  BY DEF IInv, TypeOK
<1>2. log' \in Seq({"message"} \cup Statuses) /\ Len(log') = Len(log) + 1
  BY <1>1 DEF Record
<1>. QED
  BY <1>1, <1>2 DEF Record

\* A message of another user keeps the invariant.
LEMMA OtherMessageKeeps == ASSUME IInv, OtherMessage PROVE IInv'
<1>1. Record("message")
  BY DEF OtherMessage
<1>. QED
  BY <1>1, RecordGrows, LogGrowsKeeps DEF OtherMessage, IInv, TypeOK, faultVars

\* A veto of a stop hook keeps the invariant.
LEMMA VetoKeeps == ASSUME IInv, Veto PROVE IInv'
<1>1. Record("running") /\ "running" \in Statuses
  BY DEF Veto, Statuses
<1>2. faults' \in 0..MaxFaults
  BY SMTT(40), BoundsAssumption DEF Veto, IInv, TypeOK
<1>. QED
  BY <1>1, <1>2, RecordGrows, LogGrowsKeeps DEF Veto, IInv, TypeOK

\* A step of the run task keeps the invariant.
LEMMA TaskStepKeeps == ASSUME IInv, TaskStep PROVE IInv'
<1>1. /\ log' \in Seq({"message"} \cup Statuses) /\ Len(log) <= Len(log')
      /\ status' \in Statuses
  <2>1. CASE UNCHANGED <<log, status>>
    BY <2>1 DEF IInv, TypeOK
  <2>2. CASE \E s \in {"running"} \cup Outcomes : Record(s)
    <3>1. {"running"} \cup Outcomes \subseteq Statuses
      BY OutcomesAssumption DEF Statuses
    <3>. QED
      BY <2>2, <3>1, RecordGrows
  <2>. QED
    BY <2>1, <2>2 DEF TaskStep
<1>2. /\ task' \in {"none", "accepted", "running", "ending"}
      /\ post' \in Statuses \cup {None, "due"} /\ UNCHANGED channel
  BY DEF TaskStep, IInv, TypeOK
<1>. QED
  BY <1>1, <1>2, LogGrowsKeeps DEF TaskStep, socketVars, IInv, TypeOK, faultVars

\* A message of this client keeps the invariant.
LEMMA SendMessageKeeps == ASSUME IInv, SendMessage PROVE IInv'
<1>1. /\ log' \in Seq({"message"} \cup Statuses) /\ Len(log) <= Len(log')
      /\ status' \in Statuses
  <2>0. log \in Seq({"message"} \cup Statuses)
    BY DEF IInv, TypeOK
  <2>1. CASE log' = log \o <<"idle", "message">> /\ status' = "idle"
    <3>1. <<"idle", "message">> \in Seq({"message"} \cup Statuses)
      BY DEF Statuses
    <3>2. Len(log') = Len(log) + 2
      BY <2>0, <2>1
    <3>. QED
      BY <2>0, <2>1, <3>1, <3>2 DEF Statuses
  <2>2. CASE Record("message")
    BY <2>2, RecordGrows
  <2>. QED
    BY <2>1, <2>2 DEF SendMessage
<1>. QED
  BY <1>1, LogGrowsKeeps DEF SendMessage, IInv, TypeOK, faultVars

\* Steps of the server that send a frame: the next event, or a snapshot.
LEMMA SendKeeps ==
  ASSUME IInv, NEW f, f.event \in Nat, f \in Frames,
         \/ f.event = 0 /\ f.status \in Statuses /\ published' = published
         \/ f.event = published + 1 /\ published' = published + 1,
         published' <= Len(log),
         ToSocket(f), conn' \in {"off", "subscribed", "open"}, conn' = "off" <=> conn = "off",
         post' \in Statuses \cup {None, "due"},
         UNCHANGED <<log, status, task, threadVars, client, mainVars, faultVars>>
  PROVE  IInv'
<1>. USE DEF threadVars, mainVars, faultVars
<1>1. /\ Len(log) \in Nat /\ published \in Nat /\ published' \in 0..Len(log)
      /\ published <= published'
  BY DEF IInv, TypeOK
<1>2. CASE conn = "off"
  <2>1. channel' = channel /\ channel = <<>> /\ held = <<>>
    BY <1>2 DEF ToSocket, IInv, WireSound
  <2>2. TypeOK' /\ client' \in Clients'
    BY SMTT(40), <1>1, <2>1 DEF IInv, TypeOK, Frames, Clients, Events
  <2>3. WireSound' /\ MissedSound' /\ NothingMissed'
    BY <1>2, <2>1 DEF IInv, WireSound, MissedSound, NothingMissed, Sent
  <2>4. ASSUME NEW e \in client.called, Coming(e)' PROVE Coming(e)
    <3>1. e \in Nat
      BY <1>1 DEF IInv, Clients, Events
    <3>2. e > published' => e > published
      BY <1>1, <3>1
    <3>. QED
      BY <2>1, <2>4, <3>2 DEF Coming
  <2>5. OnceSound'
    BY <2>4, Zenon DEF IInv, OnceSound, OnceOnly
  <2>. QED
    BY <2>2, <2>3, <2>5 DEF IInv
<1>3. CASE conn # "off"
  <2>1. /\ channel \in Seq(Frames) /\ channel' = Append(channel, f)
        /\ Len(channel) \in Nat /\ Len(channel') = Len(channel) + 1
        /\ channel'[Len(channel) + 1] = f
        /\ \A i \in 1..Len(channel) : channel'[i] = channel[i]
    <3>1. channel \in Seq(Frames) /\ channel' = Append(channel, f)
      BY <1>3 DEF ToSocket, IInv, TypeOK
    <3>. QED
      BY <3>1
  <2>2. channel' \in Seq(Frames) /\ Frames' = Frames
    BY <2>1 DEF Frames
  <2>3. TypeOK' /\ client' \in Clients'
    BY ZenonT(60), <1>1, <2>2 DEF IInv, TypeOK, Clients, Events
  <2>4. \A e : Sent(e)' <=> Sent(e) \/ e = f.event
    BY <2>1 DEF Sent
  <2>5. \A g : Proper(g, published) => Proper(g, published')
    BY <1>1 DEF Proper
  <2>6. Proper(f, published')
    BY <1>1 DEF Proper
  <2>7. WireSound'
    <3>1. \A i \in 1..Len(channel') : Proper(channel'[i], published')
      <4>1. \A i \in 1..Len(channel) : Proper(channel[i], published)
        BY DEF IInv, WireSound
      <4>2. \A i \in 1..Len(channel') : i \in 1..Len(channel) \/ i = Len(channel) + 1
        BY <2>1
      <4>. QED
        BY <2>1, <2>5, <2>6, <4>1, <4>2
    <3>2. ASSUME NEW i \in 1..Len(channel'), NEW j \in 1..Len(channel'),
                 i < j, channel'[i].event # 0, channel'[j].event # 0
          PROVE  channel'[i].event < channel'[j].event
      <4>1. CASE j \in 1..Len(channel)
        BY <2>1, <3>2, <4>1 DEF IInv, WireSound
      <4>2. CASE j = Len(channel) + 1
        <5>1. i \in 1..Len(channel) /\ channel'[i] = channel[i] /\ channel'[j] = f
          BY <2>1, <3>2, <4>2
        <5>2. channel[i].event \in Nat /\ channel[i].event <= published
          BY <5>1 DEF IInv, WireSound, Proper
        <5>. QED
          BY <1>1, <3>2, <5>1, <5>2
      <4>. QED
        BY <2>1, <4>1, <4>2
    <3>3. held' # <<>> => /\ ready' /\ hasConnected'
                          /\ Proper(held'[1], published')
                          /\ held'[1].event # 0 => ~Sent(held[1].event)'
      <4>. SUFFICES ASSUME held # <<>>
                    PROVE  /\ ready /\ hasConnected /\ Proper(held[1], published')
                           /\ held[1].event # 0 => ~Sent(held[1].event)'
        OBVIOUS
      <4>1. /\ ready /\ hasConnected /\ Proper(held[1], published)
            /\ held[1].event # 0 => ~Sent(held[1].event)
        BY DEF IInv, WireSound
      <4>2. held[1].event # 0 => held[1].event # f.event
        BY <1>1, <4>1 DEF Proper
      <4>. QED
        BY <2>4, <2>5, <4>1, <4>2 DEF Sent
    <3>. QED
      BY <1>3, <3>1, <3>2, <3>3 DEF WireSound, Sent
  <2>8. ASSUME NEW e \in client.called, Coming(e)' PROVE Coming(e)
    <3>1. e \in Nat /\ e # 0
      BY <1>1 DEF IInv, Clients, Events
    <3>2. e > published' \/ e = f.event => e > published
      BY <1>1, <3>1
    <3>3. DOMAIN channel = 1..Len(channel) /\ DOMAIN channel' = 1..Len(channel')
      BY <2>1, <2>2
    <3>4. CASE \E i \in DOMAIN held' : held'[i].event = e
      BY <3>4, Zenon DEF Coming
    <3>5. CASE e > published' \/ Sent(e)'
      BY <2>4, <3>2, <3>3, <3>5, Zenon DEF Coming, Sent
    <3>. QED
      BY <2>8, <3>3, <3>4, <3>5, Zenon DEF Coming, Sent
  <2>9. OnceSound'
    BY <2>8, Zenon DEF IInv, OnceSound, OnceOnly
  <2>10. MissedSound'
    BY DEF IInv, MissedSound
  <2>11. NothingMissed'
    <3>. SUFFICES ASSUME pc \in {"ready", "posting", "posted", "waiting"}, ready, held = <<>>,
                         ~failed, NEW e \in (since + 1)..published'
                  PROVE  e \in client.called \/ Sent(e)'
      BY <2>1, <2>2 DEF NothingMissed, Sent
    <3>1. CASE e \in (since + 1)..published
      <4>1. e \in client.called \/ Sent(e)
        BY <1>3, <3>1 DEF IInv, NothingMissed, Sent, TypeOK
      <4>. QED
        BY <2>4, <4>1
    <3>2. CASE e = published + 1 /\ published' = published + 1
      BY <1>1, <2>4, <3>2
    <3>. QED
      BY <1>1, <3>1, <3>2 DEF IInv, TypeOK
  <2>. QED
    BY <2>3, <2>7, <2>9, <2>10, <2>11 DEF IInv
<1>. QED
  BY <1>2, <1>3

\* Publishing an event keeps the invariant.
LEMMA PublishKeeps == ASSUME IInv, Publish PROVE IInv'
<1>1. Len(log) \in Nat /\ published \in Nat
  BY DEF IInv, TypeOK
<1>2. Ev(published + 1) \in Frames /\ Ev(published + 1).event = published + 1
  BY <1>1 DEF Publish, Ev, Frames, None
<1>. QED
  <2>1. post' \in Statuses \cup {None, "due"} /\ conn' \in {"off", "subscribed", "open"}
    BY DEF Publish, IInv, TypeOK
  <2>2. published + 1 <= Len(log)
    BY <1>1 DEF Publish
  <2>. QED
    BY <1>1, <1>2, <2>1, <2>2, SendKeeps DEF Publish

\* Snapshots are frames without an event.
LEMMA SnapshotFrame ==
  ASSUME IInv, NEW s \in Statuses
  PROVE  /\ Snapshot(s) \in Frames
         /\ Snapshot(s).event = 0 /\ Snapshot(s).status = s
<1>1. Len(log) \in Nat
  BY DEF IInv, TypeOK
<1>. QED
  BY <1>1 DEF Snapshot, Frames

\* The snapshot after a run keeps the invariant.
LEMMA PostRunSnapshotKeeps == ASSUME IInv, PostRunSnapshot PROVE IInv'
<1>1. CASE post = "due" /\ post' = status /\ UNCHANGED channel
  BY SMTT(40), <1>1, LogGrowsKeeps DEF PostRunSnapshot, IInv, TypeOK, socketVars, threadVars, mainVars,
                             faultVars
<1>2. CASE post \in Statuses /\ post' = None /\ ToSocket(Snapshot(post))
  <2>1. /\ conn' \in {"off", "subscribed", "open"} /\ published <= Len(log)
        /\ post' \in Statuses \cup {None, "due"} /\ conn' = conn
    BY <1>2 DEF PostRunSnapshot, IInv, TypeOK
  <2>2. /\ Snapshot(post) \in Frames
        /\ Snapshot(post).event = 0 /\ Snapshot(post).status = post
    BY <1>2, SnapshotFrame
  <2>. QED
    BY <1>2, <2>1, <2>2, SendKeeps DEF PostRunSnapshot
<1>. QED
  BY <1>1, <1>2 DEF PostRunSnapshot

\* The snapshot for a new subscriber keeps the invariant.
LEMMA PushSnapshotKeeps == ASSUME IInv, PushSnapshot PROVE IInv'
<1>1. /\ conn' = "open" /\ conn = "subscribed" /\ published <= Len(log)
      /\ post' \in Statuses \cup {None, "due"} /\ status \in Statuses
  BY DEF PushSnapshot, IInv, TypeOK, serverVars
<1>2. /\ Snapshot(status) \in Frames
      /\ Snapshot(status).event = 0 /\ Snapshot(status).status = status
  BY <1>1, SnapshotFrame
<1>. QED
  BY <1>1, <1>2, SendKeeps DEF PushSnapshot, serverVars

\* A new connection, at whatever moment, changes nothing of what may still come.
LEMMA ConnectKeeps == ASSUME IInv, Connect PROVE IInv'
<1>. USE DEF Connect, serverVars, mainVars, faultVars
<1>1. channel = <<>> /\ held = <<>>
  BY DEF IInv, WireSound
<1>2. TypeOK' /\ client' \in Clients'
  <2>1. Len(log) \in Nat
    BY DEF IInv, TypeOK
  <2>2. Frames' = Frames /\ Clients' = Clients
    BY DEF Frames, Clients, Events
  <2>3. channel' \in Seq(Frames) /\ held' \in Seq(Frames)
    BY <2>1 DEF IInv, TypeOK
  <2>4. ready' \in BOOLEAN /\ conn' \in {"off", "subscribed", "open"}
    OBVIOUS
  <2>. QED
    BY <2>2, <2>3, <2>4 DEF IInv, TypeOK
<1>3. WireSound' /\ MissedSound' /\ NothingMissed'
  BY <1>1 DEF IInv, WireSound, MissedSound, NothingMissed
<1>4. OnceSound'
  BY Zenon DEF IInv, OnceSound, OnceOnly, Coming
<1>. QED
  BY <1>2, <1>3, <1>4 DEF IInv

\* Losing the connection keeps the invariant.
LEMMA DropKeeps == ASSUME IInv, Drop PROVE IInv'
<1>. USE DEF Drop, serverVars, threadVars, mainVars
<1>1. Len(log) \in Nat
  BY DEF IInv, TypeOK
<1>2. TypeOK' /\ client' \in Clients'
  <2>1. faults' \in 0..MaxFaults /\ channel' \in Seq(Frames)
    BY SMTT(40), <1>1, BoundsAssumption DEF IInv, TypeOK
  <2>2. Frames' = Frames /\ Clients' = Clients
    BY DEF Frames, Clients, Events
  <2>. QED
    BY ZenonT(60), <2>1, <2>2 DEF IInv, TypeOK
<1>3. WireSound' /\ MissedSound' /\ NothingMissed'
  BY DEF IInv, WireSound, MissedSound, NothingMissed
<1>4. \A e : Coming(e)' => Coming(e)
  <2>1. DOMAIN channel' = {} /\ held' = held /\ published' = published
    OBVIOUS
  <2>. QED
    BY <2>1, Zenon DEF Coming
<1>5. OnceSound'
  BY <1>4, Zenon DEF IInv, OnceSound, OnceOnly
<1>. QED
  BY <1>2, <1>3, <1>5 DEF IInv

\* Receiving a frame keeps the invariant.
LEMMA ReceiveKeeps == ASSUME IInv, Receive PROVE IInv'
<1>0. PICK f : f = Head(channel)
  OBVIOUS
<1>. DEFINE first == IsStateUpdate(f) /\ ~ready
<1>. USE DEF serverVars, mainVars, faultVars
<1>1. /\ conn # "off" /\ held = <<>> /\ channel # <<>> /\ channel' = Tail(channel)
      /\ ready' = (ready \/ first) /\ hasConnected' = (hasConnected \/ first)
      /\ UNCHANGED <<log, status, published, task, post, conn, early, pc, since, armed, polls,
                     runs, faults, failed>>
  BY <1>0 DEF Receive
<1>2. /\ channel \in Seq(Frames) /\ Len(channel) \in Nat /\ Len(channel) >= 1
      /\ Len(channel') = Len(channel) - 1 /\ f = channel[1] /\ f \in Frames
      /\ \A i \in 1..Len(channel') : i + 1 \in 1..Len(channel) /\ channel'[i] = channel[i + 1]
      /\ channel' \in Seq(Frames)
  BY <1>0, <1>1 DEF IInv, TypeOK
<1>3. Proper(f, published) /\ 1 \in 1..Len(channel)
  BY <1>2 DEF IInv, WireSound
<1>4. \A e : Sent(e)' => Sent(e)
  BY <1>2 DEF Sent
<1>5. \A e : Sent(e) => Sent(e)' \/ e = f.event
  <2>1. ASSUME NEW e, NEW i \in 1..Len(channel), channel[i].event = e, i # 1 PROVE Sent(e)'
    <3>1. i - 1 \in 1..Len(channel') /\ channel'[i - 1] = channel[(i - 1) + 1] /\ (i - 1) + 1 = i
      BY <1>2, <2>1
    <3>. QED
      BY <2>1, <3>1 DEF Sent
  <2>. QED
    BY <1>2, <2>1 DEF Sent
<1>6. f.event # 0 => ~Sent(f.event)'
  <2>. SUFFICES ASSUME f.event # 0, NEW i \in 1..Len(channel'), channel'[i].event = f.event
                PROVE  FALSE
    BY DEF Sent
  <2>1. /\ i + 1 \in 1..Len(channel) /\ 1 < i + 1
        /\ channel[i + 1].event = f.event /\ channel[1].event = f.event
    BY <1>2
  <2>2. channel[1].event < channel[i + 1].event
    BY <1>3, <2>1 DEF IInv, WireSound
  <2>. QED
    BY <1>3, <2>1, <2>2 DEF Proper
<1>7. \A e : Coming(e) <=> e > published \/ Sent(e)
  <2>1. held \in Seq(Frames) /\ Len(held) <= 1
    BY DEF IInv, TypeOK
  <2>. QED
    BY <1>1, <1>2, <2>1, ComingIs DEF Held
<1>8. Coming(f.event) /\ published \in Nat /\ ~(f.event > published)
  <2>1. Sent(f.event)
    BY <1>2, <1>3 DEF Sent
  <2>2. published \in Nat
    BY DEF IInv, TypeOK
  <2>. QED
    BY <1>3, <1>7, <2>1, <2>2 DEF Proper
<1>9. client.called \subseteq Events /\ 0 \notin Events /\ client \in Clients
  BY DEF IInv, Clients, Events
<1>10. /\ \A i \in 1..Len(channel') : Proper(channel'[i], published)
       /\ \A i, j \in 1..Len(channel') :
            i < j /\ channel'[i].event # 0 /\ channel'[j].event # 0
              => channel'[i].event < channel'[j].event
  <2>1. \A i \in 1..Len(channel') : Proper(channel'[i], published)
    BY <1>2 DEF IInv, WireSound
  <2>2. ASSUME NEW i \in 1..Len(channel'), NEW j \in 1..Len(channel'), i < j,
               channel'[i].event # 0, channel'[j].event # 0
        PROVE  channel'[i].event < channel'[j].event
    <3>1. i + 1 < j + 1
      BY <2>2
    <3>. QED
      BY <1>2, <2>2, <3>1 DEF IInv, WireSound
  <2>. QED
    BY <2>1, <2>2
<1>. HIDE DEF first
<1>11. CASE first /\ hasConnected /\ held' = <<f>> /\ UNCHANGED client
  <2>0. \A g \in Frames : <<g>> \in Seq(Frames) /\ <<g>> # <<>> /\ Len(<<g>>) = 1
    OBVIOUS
  <2>1. held'[1] = f /\ ready' /\ hasConnected' /\ held' # <<>> /\ Len(held') = 1
        /\ held' \in Seq(Frames)
    BY <1>1, <1>2, <1>11, <2>0
  <2>2. TypeOK' /\ client' \in Clients'
    BY SMTT(30), <1>1, <1>2, <1>11, <2>1 DEF IInv, TypeOK, Clients, Events, Frames
  <2>3. ASSUME NEW e \in client.called, Coming(e)' PROVE Coming(e)
    <3>1. DOMAIN channel' = 1..Len(channel') /\ DOMAIN held' = {1}
      BY <1>2, <2>1
    <3>2. e > published \/ Sent(e)' \/ e = f.event
      BY <1>1, <2>1, <2>3, <3>1 DEF Coming, Sent
    <3>. QED
      BY <1>4, <1>7, <1>8, <3>2
  <2>5. WireSound'
    <3>1. held'[1].event # 0 => ~Sent(f.event)'
      BY <1>6, <2>1
    <3>. QED
      BY <1>1, <1>3, <1>10, <2>1, <3>1 DEF WireSound, Sent
  <2>6. OnceSound'
    BY <1>1, <1>11, <2>3, Zenon DEF IInv, OnceSound, OnceOnly
  <2>7. MissedSound' /\ NothingMissed'
    BY <1>1, <1>11, <2>1 DEF IInv, MissedSound, NothingMissed
  <2>. QED
    BY <2>2, <2>5, <2>6, <2>7 DEF IInv
<1>12. CASE ~(first /\ hasConnected) /\ client' = SocketCallback(client, f) /\ UNCHANGED held
  <2>. DEFINE c == client'
  <2>1. /\ c \in Clients
        /\ c.called = client.called \cup ({f.event} \ {0})
        /\ c.replayed = client.replayed \ {f.event}
        /\ c.again \subseteq
             client.again \cup {e \in {f.event} \cap client.called : e \notin client.replayed}
        /\ c.delivered \subseteq client.delivered \cup ({f.event} \ {0})
        /\ client.delivered \subseteq c.delivered
        /\ c.called \subseteq c.delivered
    <3>0. log \in Seq({"message"} \cup Statuses) /\ published \in 0..Len(log)
      BY DEF IInv, TypeOK
    <3>1. CASE f.event \in client.replayed
      <4>1. /\ c \in Clients /\ c = [client EXCEPT !.replayed = @ \ {f.event}]
        BY ZenonT(60), <1>2, <1>3, <1>9, <1>12, <3>0, <3>1, SocketCallbackDoes
      <4>2. /\ c.replayed = client.replayed \ {f.event} /\ c.called = client.called
            /\ c.again = client.again /\ c.delivered = client.delivered
        BY <1>9, <4>1 DEF Clients
      <4>. QED
        BY <3>1, <4>1, <4>2 DEF IInv, OnceSound
    <3>2. CASE f.event \notin client.replayed
      <4>1. /\ c \in Clients
            /\ c.called = client.called \cup ({f.event} \ {0})
            /\ c.again = client.again \cup ({f.event} \cap client.called)
            /\ c.delivered = client.delivered \cup ({f.event} \ {0})
            /\ c.replayed = client.replayed
        BY <1>2, <1>3, <1>9, <1>12, <3>0, <3>2, SocketCallbackDoes
      <4>. QED
        BY <3>2, <4>1 DEF IInv, OnceSound
    <3>. QED
      BY <3>1, <3>2
  <2>2. TypeOK' /\ client' \in Clients'
    <3>1. Events' = Events /\ Frames' = Frames /\ Clients' = Clients
      BY <1>1 DEF Events, Frames, Clients
    <3>2. ready' \in BOOLEAN /\ hasConnected' \in BOOLEAN
      BY <1>1
    <3>3. \A S \in {c.cache, c.delivered, c.replayed, c.called, c.again} : S \subseteq 1..Len(log)
      BY <2>1 DEF Clients, Events
    <3>4. c.cached \in Statuses /\ c.signals \in Seq(Statuses)
      BY <2>1 DEF Clients
    <3>. QED
      BY <1>1, <1>2, <1>12, <2>1, <3>1, <3>2, <3>3, <3>4 DEF IInv, TypeOK
  <2>3. WireSound'
    BY <1>1, <1>10, <1>12 DEF WireSound
  <2>4. OnceSound'
    <3>1. c.replayed \subseteq c.called /\ c.called \subseteq c.delivered
      BY <2>1 DEF IInv, OnceSound
    <3>2. ASSUME NEW e \in c.called, Coming(e)'
          PROVE  Coming(e) /\ e # f.event /\ e \in client.called
      <4>1. DOMAIN channel' = 1..Len(channel') /\ DOMAIN held' = {}
        BY <1>1, <1>2, <1>12
      <4>2. e > published \/ Sent(e)'
        BY <1>1, <3>2, <4>1 DEF Coming, Sent
      <4>3. e # 0
        BY <2>1, <3>2 DEF Clients, Events
      <4>4. e # f.event
        BY <1>6, <1>8, <4>2, <4>3
      <4>. QED
        BY <1>4, <1>7, <2>1, <3>2, <4>2, <4>4
    <3>3. ASSUME OnceOnly PROVE OnceOnly'
      <4>1. c.again = {}
        BY <1>8, <2>1, <3>3 DEF OnceOnly
      <4>2. \A e \in c.called : Coming(e)' => e \in c.replayed
        BY <2>1, <3>2, <3>3 DEF OnceOnly
      <4>. QED
        BY <4>1, <4>2 DEF OnceOnly
    <3>4. (~early => OnceOnly) /\ early' = early
      BY <1>1 DEF IInv, OnceSound
    <3>. QED
      BY <3>1, <3>3, <3>4, Zenon DEF OnceSound
  <2>5. MissedSound'
    BY <1>1, <2>1 DEF IInv, MissedSound
  <2>6. NothingMissed'
    <3>. SUFFICES ASSUME pc \in {"ready", "posting", "posted", "waiting"}, ready', ~failed,
                         NEW e \in (since + 1)..published
                  PROVE  e \in c.called \/ Sent(e)'
      <4>1. DOMAIN channel' = 1..Len(channel')
        BY <1>2
      <4>. QED
        BY <1>1, <1>12, <4>1 DEF NothingMissed, Sent
    <3>1. hasConnected
      BY DEF IInv, MissedSound
    <3>2. ready
      BY <1>1, <1>12, <3>1
    <3>3. e \in client.called \/ Sent(e)
      BY <1>1, <1>2, <3>2 DEF IInv, NothingMissed, Sent
    <3>4. e # 0
      BY DEF IInv, TypeOK
    <3>. QED
      BY <1>5, <2>1, <3>3, <3>4
  <2>. QED
    BY <2>2, <2>3, <2>4, <2>5, <2>6 DEF IInv
<1>. QED
  BY <1>0, <1>11, <1>12 DEF Receive, first

\* A fetch that fails is counted and noted.
LEMMA FetchesCounted ==
  ASSUME IInv, NEW k, Fetches(k)
  PROVE  faults' \in 0..MaxFaults /\ failed' \in BOOLEAN /\ (failed => failed')
<1>1. faults \in 0..MaxFaults /\ failed \in BOOLEAN
  BY DEF IInv, TypeOK
<1>2. CASE UNCHANGED <<faults, failed>>
  BY <1>1, <1>2
<1>3. CASE faults < MaxFaults /\ faults' = faults + 1 /\ failed' = TRUE
  BY <1>1, <1>3, BoundsAssumption
<1>. QED
  BY <1>2, <1>3 DEF Fetches, faultVars

\* The replay of a reconnect keeps the invariant; a fetch that works leaves no
\* event of the log undelivered.
LEMMA ReplayKeeps == ASSUME IInv, Replay PROVE IInv'
<1>. USE DEF serverVars, socketVars, mainVars
<1>0. PICK f : f = held[1]
  OBVIOUS
<1>1. PICK k \in {0, Len(log)} :
        Fetches(k) /\ client' = SocketCallback(MissedPassedOn(Reconciled(client, k)), f)
  BY <1>0 DEF Replay
<1>2. /\ held # <<>> /\ held' = <<>>
      /\ UNCHANGED <<log, status, published, task, post, conn, channel, ready,
                     hasConnected, pc, since, armed, polls, runs>>
  BY DEF Replay
<1>3. /\ log \in Seq({"message"} \cup Statuses) /\ published \in 0..Len(log)
      /\ client \in Clients /\ Len(log) \in Nat
  BY DEF IInv, TypeOK
<1>4. /\ f \in Frames /\ Proper(f, published) /\ ready /\ hasConnected
      /\ f.event # 0 => ~Sent(f.event)
      /\ conn # "off" /\ 1 \in DOMAIN held
  <2>1. held \in Seq(Frames) /\ 1 \in 1..Len(held)
    BY <1>2 DEF IInv, TypeOK
  <2>. QED
    BY <1>0, <1>2, <2>1 DEF IInv, WireSound
<1>5. ~early' => /\ client.again = {} /\ f.event \notin client.called
                 /\ \A e \in client.called : ~Coming(e)
  <2>. SUFFICES ASSUME ~early' PROVE /\ client.again = {} /\ f.event \notin client.called
                                     /\ \A e \in client.called : ~Coming(e)
    OBVIOUS
  <2>1. ~early /\ \A e \in client.replayed : ~Coming(e)
    BY Zenon DEF Replay
  <2>2. OnceOnly
    BY <2>1, Zenon DEF IInv, OnceSound
  <2>3. Coming(f.event)
    BY <1>0, <1>4, Zenon DEF Coming
  <2>. QED
    BY <2>1, <2>2, <2>3, Zenon DEF OnceOnly
<1>. DEFINE a == Reconciled(client, k)
            b == MissedPassedOn(a)
            m == a.cache \ client.delivered
            c == client'
<1>6. /\ a \in Clients /\ a.cache = client.cache \cup 1..k
      /\ a.called = client.called /\ a.again = client.again
      /\ a.delivered = client.delivered
  BY <1>3, ReconciledDoes
<1>. HIDE DEF a
<1>7. /\ b \in Clients
      /\ b.called = client.called \cup m /\ b.again = client.again \cup (m \cap client.called)
      /\ b.delivered = client.delivered \cup m /\ b.replayed = m
  BY <1>3, <1>6, MissedPassedOnDoes
<1>8. m \cap client.called = {} /\ client.called \subseteq client.delivered
  BY DEF IInv, OnceSound
<1>9. c = SocketCallback(b, f)
  BY <1>1 DEF a
<1>. HIDE DEF b, m
<1>10. /\ c \in Clients
       /\ c.called = client.called \cup m \cup ({f.event} \ {0})
       /\ c.again \subseteq client.again \cup ({f.event} \cap client.called)
       /\ c.replayed = m \ {f.event}
       /\ c.delivered \subseteq client.delivered \cup m \cup ({f.event} \ {0})
       /\ client.delivered \cup m \subseteq c.delivered
       /\ c.called \subseteq c.delivered
  <2>1. CASE f.event \in m
    <3>1. c \in Clients /\ c = [b EXCEPT !.replayed = @ \ {f.event}]
      BY <1>3, <1>4, <1>7, <1>9, <2>1, SocketCallbackDoes
    <3>2. /\ c.replayed = b.replayed \ {f.event} /\ c.called = b.called
          /\ c.again = b.again /\ c.delivered = b.delivered
      BY <1>7, <3>1 DEF Clients
    <3>. QED
      BY <1>7, <1>8, <2>1, <3>1, <3>2
  <2>2. CASE f.event \notin m
    <3>1. /\ c \in Clients
          /\ c.called = b.called \cup ({f.event} \ {0})
          /\ c.again = b.again \cup ({f.event} \cap b.called)
          /\ c.delivered = b.delivered \cup ({f.event} \ {0})
          /\ c.replayed = b.replayed
      BY <1>3, <1>4, <1>7, <1>9, <2>2, SocketCallbackDoes
    <3>. QED
      BY <1>7, <1>8, <2>2, <3>1
  <2>. QED
    BY <2>1, <2>2
<1>11. TypeOK' /\ client' \in Clients'
  <2>1. Events' = Events /\ Frames' = Frames /\ Clients' = Clients
    BY <1>2 DEF Events, Frames, Clients
  <2>2. \A S \in {c.cache, c.delivered, c.replayed, c.called, c.again} : S \subseteq 1..Len(log)
    BY <1>10 DEF Clients, Events
  <2>3. c.cached \in Statuses /\ c.signals \in Seq(Statuses)
    BY <1>10 DEF Clients
  <2>4. held' \in Seq(Frames) /\ Len(held') <= 1
    BY <1>2
  <2>5. faults' \in 0..MaxFaults /\ failed' \in BOOLEAN
    BY <1>1, FetchesCounted
  <2>6. early' \in BOOLEAN
    BY Zenon DEF Replay
  <2>. QED
    BY <1>2, <1>10, <2>1, <2>2, <2>3, <2>4, <2>5, <2>6 DEF IInv, TypeOK
<1>12. WireSound'
  BY <1>2, <1>4 DEF IInv, WireSound
<1>13. OnceSound'
  <2>1. ASSUME ~early', NEW e \in c.called, Coming(e)'
        PROVE  e \in c.replayed
    <3>1. DOMAIN channel' = 1..Len(channel) /\ DOMAIN held' = {}
      BY <1>2 DEF IInv, TypeOK
    <3>2. e > published \/ Sent(e)
      BY <1>2, <2>1, <3>1 DEF Coming, Sent
    <3>3. Coming(e)
      BY <1>2, <3>1, <3>2 DEF Coming, Sent
    <3>4. e \notin client.called
      BY <1>5, <2>1, <3>3
    <3>5. e # 0
      BY <1>10, <2>1 DEF Clients, Events
    <3>6. e # f.event
      BY <1>3, <1>4, <3>2, <3>5 DEF Proper
    <3>. QED
      BY <1>10, <2>1, <3>4, <3>6
  <2>2. c.replayed \subseteq c.called
    BY <1>10
  <2>3. ~early' => c.again = {}
    BY <1>5, <1>10
  <2>. QED
    BY <1>10, <2>1, <2>2, <2>3, Zenon DEF OnceSound, OnceOnly
<1>14. MissedSound'
  BY <1>2, <1>10 DEF IInv, MissedSound
<1>15. NothingMissed'
  <2>. SUFFICES ASSUME ~failed', NEW e \in (since + 1)..published
                PROVE  e \in c.called
    BY <1>2 DEF NothingMissed
  <2>1. k = Len(log)
    BY <1>1 DEF Fetches
  <2>2. e \in 1..Len(log) /\ ~(e <= since)
    BY <1>3 DEF IInv, TypeOK
  <2>3. e \in c.delivered
    BY <1>6, <1>10, <2>1, <2>2 DEF m
  <2>. QED
    BY <1>2, <1>14, <2>2, <2>3 DEF MissedSound
<1>. QED
  BY <1>11, <1>12, <1>13, <1>14, <1>15 DEF IInv

\* The conversation has been constructed.
Late == {"ready", "posting", "posted", "waiting"}

\* Steps of the thread that uses the conversation: they may add to the cache.
LEMMA MainKeeps ==
  ASSUME IInv,
         client' \in Clients, client'.called = client.called, client'.again = client.again,
         client'.delivered = client.delivered, client'.replayed = client.replayed,
         UNCHANGED <<log, status, published, post, socketVars, threadVars, since>>,
         task' \in {"none", "accepted", "running", "ending"},
         pc' \in {"sync", "connecting", "mark"} \cup Late, pc' \in Late => pc \in Late,
         pc' \notin {"sync", "connecting"} => hasConnected,
         armed' \in BOOLEAN, polls' \in 0..Fallback, runs' \in 0..MaxRuns,
         faults' \in 0..MaxFaults, failed' \in BOOLEAN, failed => failed'
  PROVE  IInv'
<1>. USE DEF socketVars, threadVars
<1>1. Events' = Events /\ Frames' = Frames /\ Clients' = Clients
  BY DEF Events, Frames, Clients
<1>2. TypeOK'
  <2>1. \A S \in {client'.cache, client'.delivered, client'.replayed, client'.called,
                  client'.again} : S \subseteq 1..Len(log)
    BY DEF Clients, Events
  <2>2. client'.cached \in Statuses /\ client'.signals \in Seq(Statuses)
    BY DEF Clients
  <2>. QED
    BY <1>1, <2>1, <2>2 DEF IInv, TypeOK, Late
<1>3. WireSound'
  BY DEF IInv, WireSound, Sent
<1>4. OnceSound'
  BY Zenon DEF IInv, OnceSound, OnceOnly, Coming
<1>5. MissedSound'
  BY DEF IInv, MissedSound
<1>6. NothingMissed'
  BY DEF IInv, NothingMissed, Late
<1>. QED
  BY <1>1, <1>2, <1>3, <1>4, <1>5, <1>6 DEF IInv

\* The constructor keeps the invariant.
LEMMA ConstructKeeps == ASSUME IInv, Construct PROVE IInv'
<1>. USE DEF serverVars, faultVars
<1>1. /\ log \in Seq({"message"} \cup Statuses) /\ client \in Clients /\ Len(log) \in Nat
      /\ UNCHANGED <<log, status, published, task, post, socketVars, threadVars, armed, polls,
                     runs>>
  BY DEF IInv, TypeOK, Construct
<1>2. /\ task' \in {"none", "accepted", "running", "ending"} /\ armed' \in BOOLEAN
      /\ polls' \in 0..Fallback /\ runs' \in 0..MaxRuns
  BY <1>1 DEF IInv, TypeOK
<1>3. CASE pc = "sync" /\ pc' = "connecting" /\ client' = Reconciled(client, Len(log))
           /\ UNCHANGED <<since, faultVars>>
  <2>1. faults' \in 0..MaxFaults /\ failed' \in BOOLEAN /\ (failed => failed')
    BY <1>3 DEF IInv, TypeOK
  <2>. QED
    BY <1>1, <1>2, <1>3, <2>1, ReconciledDoes, MainKeeps DEF Late
<1>4. CASE pc = "connecting" /\ hasConnected /\ pc' = "mark" /\ UNCHANGED since
           /\ \E k \in {0, Len(log)} : Fetches(k) /\ client' = Reconciled(client, k)
  <2>1. PICK k \in {0, Len(log)} : Fetches(k) /\ client' = Reconciled(client, k)
    BY <1>4
  <2>. QED
    BY <1>1, <1>2, <1>4, <2>1, FetchesCounted, ReconciledDoes, MainKeeps DEF Late
<1>5. CASE pc = "mark" /\ pc' = "ready" /\ since' = Len(log) /\ UNCHANGED faultVars
           /\ client' = [client EXCEPT !.delivered = @ \cup client.cache]
  <2>. USE DEF socketVars, threadVars
  <2>1. /\ client' \in Clients /\ client'.called = client.called /\ client'.again = client.again
        /\ client'.delivered = client.delivered \cup client.cache
        /\ client'.replayed = client.replayed
    BY <1>1, <1>5 DEF Clients
  <2>2. Events' = Events /\ Frames' = Frames /\ Clients' = Clients
    BY <1>1 DEF Events, Frames, Clients
  <2>3. TypeOK'
    <3>1. \A S \in {client'.cache, client'.delivered, client'.replayed, client'.called,
                    client'.again} : S \subseteq 1..Len(log)
      BY <2>1 DEF Clients, Events
    <3>2. client'.cached \in Statuses /\ client'.signals \in Seq(Statuses)
      BY <2>1 DEF Clients
    <3>3. since' \in 0..Len(log)
      BY <1>1, <1>5
    <3>. QED
      BY <1>1, <1>2, <1>5, <2>2, <3>1, <3>2, <3>3 DEF IInv, TypeOK
  <2>4. WireSound' /\ OnceSound'
    <3>1. WireSound'
      BY <1>1 DEF IInv, WireSound, Sent
    <3>2. client'.called \subseteq client'.delivered
      BY <2>1 DEF IInv, OnceSound
    <3>3. OnceSound'
      BY <1>1, <2>1, <3>2, Zenon DEF IInv, OnceSound, OnceOnly, Coming
    <3>. QED
      BY <3>1, <3>3
  <2>5. MissedSound'
    <3>1. \A e \in client'.delivered : e <= since'
      BY <1>1, <1>5, <2>1 DEF Clients, Events
    <3>. QED
      BY <1>1, <1>5, <3>1 DEF IInv, MissedSound
  <2>6. NothingMissed'
    <3>1. (since' + 1)..published' = {}
      BY <1>1, <1>5 DEF IInv, TypeOK
    <3>. QED
      BY <3>1 DEF NothingMissed
  <2>. QED
    BY <2>1, <2>2, <2>3, <2>4, <2>5, <2>6 DEF IInv
<1>. QED
  BY <1>3, <1>4, <1>5 DEF Construct

\* The steps of run() keep the invariant.
LEMMA RunKeeps ==
  ASSUME IInv, Run \/ Post \/ Arm \/ PollFails
  PROVE  IInv'
<1>. USE DEF serverVars, faultVars
<1>1. /\ client \in Clients /\ hasConnected
      /\ UNCHANGED <<log, status, published, post, socketVars, threadVars, since>>
      /\ pc \in Late /\ pc' \in Late
  BY DEF IInv, TypeOK, MissedSound, Run, Post, Arm, PollFails, Late
<1>2. /\ client' \in Clients /\ client'.called = client.called /\ client'.again = client.again
      /\ client'.delivered = client.delivered /\ client'.replayed = client.replayed
  <2>1. CASE client' = client
    BY <1>1, <2>1
  <2>2. CASE client' = [client EXCEPT !.signals = <<>>]
    <3>1. <<>> \in Seq(Statuses)
      OBVIOUS
    <3>. QED
      BY <1>1, <2>2, <3>1 DEF Clients
  <2>. QED
    BY <2>1, <2>2 DEF Run, Post, Arm, PollFails
<1>3. /\ task' \in {"none", "accepted", "running", "ending"} /\ armed' \in BOOLEAN
      /\ failed' \in BOOLEAN /\ (failed => failed')
  BY DEF IInv, TypeOK, Run, Post, Arm, PollFails
<1>4. polls' \in 0..Fallback /\ runs' \in 0..MaxRuns /\ faults' \in 0..MaxFaults
  BY SMTT(30), BoundsAssumption DEF IInv, TypeOK, Run, Post, Arm, PollFails
<1>. QED
  BY <1>1, <1>2, <1>3, <1>4, MainKeeps DEF Late

\* A status from the queue, or a poll, keeps the invariant.
LEMMA WaitKeeps ==
  ASSUME IInv, Signalled \/ Poll
  PROVE  IInv'
<1>. USE DEF serverVars
<1>1. /\ log \in Seq({"message"} \cup Statuses) /\ status \in Statuses
      /\ client \in Clients /\ hasConnected
      /\ UNCHANGED <<log, status, published, task, post, socketVars, threadVars, since, runs>>
      /\ pc \in Late /\ pc' \in Late
  BY DEF IInv, TypeOK, MissedSound, Signalled, Poll, EndRun, Late
<1>2. \/ client' = client /\ UNCHANGED faultVars
      \/ \E k \in {0, Len(log)}, c \in Clients :
           /\ Fetches(k) /\ client' = Reconciled(c, k)
           /\ c.called = client.called /\ c.again = client.again
           /\ c.delivered = client.delivered /\ c.replayed = client.replayed
  <2>1. CASE Signalled
    <3>. DEFINE c == [client EXCEPT !.signals = Tail(@)]
    <3>1. PICK k \in {0, Len(log)} : Fetches(k) /\ client' = Reconciled(c, k)
      BY <2>1 DEF Signalled
    <3>2. Tail(client.signals) \in Seq(Statuses)
      BY <1>1, <2>1 DEF Signalled, Clients
    <3>3. /\ c \in Clients /\ c.called = client.called /\ c.again = client.again
          /\ c.delivered = client.delivered /\ c.replayed = client.replayed
      BY <1>1, <3>2 DEF Clients
    <3>. HIDE DEF c
    <3>. QED
      BY <3>1, <3>3
  <2>2. CASE Poll
    <3>. DEFINE c == [client EXCEPT !.cached = IF status = "finished" THEN status ELSE @]
    <3>1. \/ client' = client /\ UNCHANGED faultVars
          \/ \E k \in {0, Len(log)} : Fetches(k) /\ client' = Reconciled(c, k)
      BY <2>2 DEF Poll
    <3>2. /\ c \in Clients /\ c.called = client.called /\ c.again = client.again
          /\ c.delivered = client.delivered /\ c.replayed = client.replayed
      BY <1>1 DEF Clients
    <3>. HIDE DEF c
    <3>. QED
      BY <3>1, <3>2
  <2>. QED
    BY <2>1, <2>2
<1>3. /\ client' \in Clients /\ client'.called = client.called /\ client'.again = client.again
      /\ client'.delivered = client.delivered /\ client'.replayed = client.replayed
  BY <1>1, <1>2, ReconciledDoes
<1>4. faults' \in 0..MaxFaults /\ failed' \in BOOLEAN /\ (failed => failed')
  <2>1. CASE UNCHANGED faultVars
    BY <2>1 DEF faultVars, IInv, TypeOK
  <2>2. CASE \E k : Fetches(k)
    BY <2>2, FetchesCounted
  <2>. QED
    BY <1>2, <2>1, <2>2
<1>5. armed' \in BOOLEAN /\ polls' \in 0..Fallback
  <2>1. armed \in BOOLEAN /\ polls \in 0..Fallback /\ Fallback \in Nat
    BY BoundsAssumption DEF IInv, TypeOK
  <2>2. CASE EndRun
    <3>1. polls' = 0 /\ armed' = FALSE
      BY <2>2 DEF EndRun
    <3>2. polls' \in 0..Fallback
      BY <2>1, <3>1
    <3>. QED
      BY <3>1, <3>2
  <2>3. CASE polls + 1 < Fallback /\ polls' = polls + 1 /\ UNCHANGED armed
    BY <2>1, <2>3
  <2>4. CASE polls' = 0 /\ UNCHANGED armed
    BY <2>1, <2>4
  <2>. QED
    BY <2>2, <2>3, <2>4 DEF Signalled, Poll
<1>6. task' \in {"none", "accepted", "running", "ending"} /\ runs' \in 0..MaxRuns
  BY <1>1 DEF IInv, TypeOK
<1>. QED
  BY <1>1, <1>3, <1>4, <1>5, <1>6, MainKeeps DEF Late

-----------------------------------------------------------------------------
(* The theorems *)

\* The invariant is kept by every step.
LEMMA NextInv ==
  ASSUME IInv, [Next]_vars
  PROVE  IInv'
<1>1. CASE UNCHANGED vars
  <2>1. UNCHANGED <<log, status, published, task, post, socketVars, threadVars, client,
                    mainVars, faults, failed>>
    BY <1>1 DEF vars, serverVars, faultVars
  <2>2. /\ log \in Seq({"message"} \cup Statuses) /\ Len(log) <= Len(log)
        /\ status \in Statuses /\ task \in {"none", "accepted", "running", "ending"}
        /\ post \in Statuses \cup {None, "due"} /\ faults \in 0..MaxFaults
    BY DEF IInv, TypeOK
  <2>. QED
    BY <2>1, <2>2, LogGrowsKeeps
<1>2. CASE Next
  BY <1>2, OtherMessageKeeps, PublishKeeps, TaskStepKeeps, VetoKeeps, PostRunSnapshotKeeps,
     ConnectKeeps, PushSnapshotKeeps, DropKeeps, ReceiveKeeps, ReplayKeeps, ConstructKeeps,
     SendMessageKeeps, RunKeeps, WaitKeeps DEF Next
<1>. QED
  BY <1>1, <1>2

\* The inductive invariant of the client holds in every reachable state.
THEOREM RemoteInv == Spec => []IInv
<1>1. IInv /\ [Next]_vars => IInv'
  BY NextInv
<1>. QED
  BY <1>1, InitInv, PTL DEF Spec

\* The callbacks see an event once (CallbacksSound), whichever of the live socket,
\* the replays of reconnects and the fetches of run() bring it, with connections
\* made and lost at any moment, as long as no replay comes before everything an
\* earlier one passed on has been published and received: until then replayed_ids
\* names all that is still to come over the socket.
THEOREM CallbacksSoundHolds == Spec => []CallbacksSound
<1>1. IInv => CallbacksSound
  BY Zenon DEF IInv, OnceSound, OnceOnly, CallbacksSound, CalledOnce
<1>. QED
  BY <1>1, RemoteInv, PTL

\* Lost connections lose no event (NothingMissed): what the constructor did not have
\* is passed to the callbacks, in the socket, or unpublished, unless a fetch failed.
THEOREM NothingMissedHolds == Spec => []NothingMissed
<1>1. IInv => NothingMissed
  BY DEF IInv
<1>. QED
  BY <1>1, RemoteInv, PTL

=============================================================================
