---------------------------- MODULE SessionSocket ----------------------------
(***************************************************************************)
(* How the events of a conversation reach a client of the session socket:  *)
(* the publication of persisted events (LocalConversation's callbacks,     *)
(* AsyncCallbackWrapper and PubSub) and one connection at a time of        *)
(* session_socket, its buffering subscriber and its bounded writer         *)
(* (openhands-agent-server/openhands/agent_server/session_socket.py).      *)
(*                                                                         *)
(* Events are numbered by their seq, 1, 2, ... in the order in which they  *)
(* are appended; each is persisted first and published later, in the same  *)
(* order (one event loop, first in first out).  Snapshots without a seq    *)
(* and progress frames are left out, and so are unreadable event files.    *)
(* The client is external: it remembers the highest seq it has received    *)
(* and reconnects with it as after_seq.                                    *)
(***************************************************************************)
EXTENDS Naturals, Sequences, FiniteSets

CONSTANTS
  MaxEvents,    \* bound: events appended
  MaxPending,   \* max_pending_bytes, in frames
  MaxDrops,     \* bound: connections lost to the network
  LiveOnly      \* whether a client may connect first without a cursor

ASSUME BoundsAssumption ==
  MaxEvents \in Nat /\ MaxPending \in Nat \ {0} /\ MaxDrops \in Nat
ASSUME LiveOnlyAssumption == LiveOnly \in BOOLEAN

VARIABLES
  appended,    \* the number of events on disk
  published,   \* how many of them the fan-out has handed to the subscribers
  conn,        \* the connection: "off", "subscribed", "replay", "live"
  after,       \* its after_seq, or NoCursor
  through,     \* through_seq, the mark
  next,        \* the next event to replay
  buffer,      \* _SessionSubscriber._buffer
  queue,       \* frames admitted by the writer and not yet received
  high,        \* the highest seq the client has received, or NoCursor
  drops        \* connections lost so far

serverVars == <<appended, published>>
connVars == <<conn, after, through, next, buffer, queue>>
clientVars == <<high, drops>>
vars == <<serverVars, connVars, clientVars>>

\* after_seq was omitted.
NoCursor == MaxEvents + 1

Init ==
  /\ appended = 0 /\ published = 0
  /\ conn = "off" /\ after = NoCursor /\ through = 0 /\ next = 1
  /\ buffer = <<>> /\ queue = <<>>
  /\ high \in {0} \cup (IF LiveOnly THEN {NoCursor} ELSE {})
  /\ drops = 0

-----------------------------------------------------------------------------
(* The conversation *)

\* An event is persisted by the first callback; publishing it is left to the
\* event loop.
AppendEvent ==
  /\ appended < MaxEvents
  /\ appended' = appended + 1
  /\ UNCHANGED <<published, connVars, clientVars>>

\* Seeded fault: the inbound loop does not watch the writer, so a connection
\* whose writer has given up stays open.
DisconnectedHangs ==
  /\ conn' = "hung"
  /\ buffer' = <<>> /\ queue' = <<>>
  /\ after' = NoCursor /\ through' = 0 /\ next' = 1

\* The connection is done, for whatever reason: unsubscribed, its frames gone.
Disconnected ==
  /\ conn' = "off"
  /\ buffer' = <<>> /\ queue' = <<>>
  /\ after' = NoCursor /\ through' = 0 /\ next' = 1

\* The frames are within the pending budget.
Fits(frames) == Len(queue) + Len(frames) <= MaxPending

\* Seeded fault: a frame over the budget is dropped instead of the connection.
SendDropsFrame(frames, Kept) ==
  queue' = (IF Fits(frames) THEN queue \o frames ELSE queue) /\ Kept

\* _ConnectionWriter.send of one frame or of several in one step: admitted
\* without waiting, or the connection, never a frame, is dropped.  What becomes
\* of the connection when all fit is (Kept), the rest of the caller's step.
Send(frames, Kept) ==
  IF Fits(frames) THEN queue' = queue \o frames /\ Kept ELSE Disconnected

\* PubSub calls the subscriber: it buffers, or hands the frame to the writer.
Publish ==
  /\ published < appended
  /\ published' = published + 1
  /\ LET e == published + 1
     IN  CASE conn \in {"subscribed", "replay"} ->
                /\ buffer' = Append(buffer, e)
                /\ UNCHANGED <<conn, after, through, next, queue>>
           [] conn = "live" ->
                Send(<<e>>, UNCHANGED <<conn, after, through, next, buffer>>)
           [] OTHER -> UNCHANGED connVars
  /\ UNCHANGED <<appended, clientVars>>

-----------------------------------------------------------------------------
(* One connection *)

\* session_socket up to subscribe_to_events: the subscriber is registered and
\* buffers before anything is read from the log.
Connect ==
  /\ conn = "off"
  /\ conn' = "subscribed"
  /\ after' = high
  /\ UNCHANGED <<serverVars, through, next, buffer, queue, clientVars>>

\* The mark is the seq of the last event on disk; a client with a cursor is
\* replayed (after, through], one without is not.
Mark ==
  /\ conn = "subscribed"
  /\ conn' = "replay"
  /\ through' = appended
  /\ next' = (IF after = NoCursor THEN appended + 1 ELSE after + 1)
  /\ UNCHANGED <<serverVars, after, buffer, queue, clientVars>>

\* _replay sends one event from disk and yields to the loop.
ReplayOne ==
  /\ conn = "replay" /\ next <= through
  /\ Send(<<next>>, /\ next' = next + 1
                    /\ UNCHANGED <<conn, after, through, buffer>>)
  /\ UNCHANGED <<serverVars, clientVars>>

\* The elements of s above t, in the order of s.
Above(s, t) ==
  LET I == {i \in 1..Len(s) : s[i] > t}
  IN  [j \in 1..Cardinality(I) |-> s[CHOOSE i \in I : Cardinality({k \in I : k <= i}) = j]]

\* go_live: the buffered events that replay did not send.
Flushed == IF after = NoCursor THEN buffer ELSE Above(buffer, through)

\* Replay is over: the buffer is flushed in one go and the subscriber passes
\* events through.
GoLive ==
  /\ conn = "replay" /\ next > through
  /\ Send(Flushed, /\ conn' = "live" /\ buffer' = <<>>
                   /\ UNCHANGED <<after, through, next>>)
  /\ UNCHANGED <<serverVars, clientVars>>

\* The writer task sends the oldest admitted frame and the client receives it.
Receive ==
  /\ queue # <<>>
  /\ queue' = Tail(queue)
  /\ high' = (IF high = NoCursor \/ Head(queue) > high THEN Head(queue) ELSE high)
  /\ UNCHANGED <<serverVars, conn, after, through, next, buffer, drops>>

\* The peer goes away: frames admitted and not received are lost.
Drop ==
  /\ conn # "off" /\ drops < MaxDrops
  /\ drops' = drops + 1
  /\ Disconnected
  /\ UNCHANGED <<serverVars, high>>

Next ==
  \/ AppendEvent \/ Publish
  \/ Connect \/ Mark \/ ReplayOne \/ GoLive \/ Receive \/ Drop

\* The event loop runs what is ready; the client reconnects, and in spite of
\* dropped connections it goes on reading.
Fairness ==
  /\ WF_vars(Publish) /\ WF_vars(Connect) /\ WF_vars(Mark)
  /\ WF_vars(ReplayOne) /\ WF_vars(GoLive) /\ SF_vars(Receive)

Spec == Init /\ [][Next]_vars /\ Fairness

-----------------------------------------------------------------------------
\* The variables have their types.
TypeOK ==
  /\ appended \in 0..MaxEvents /\ published \in 0..appended
  /\ conn \in {"off", "subscribed", "replay", "live"}
  /\ after \in 0..NoCursor /\ through \in 0..MaxEvents
  /\ next \in 1..(MaxEvents + 1)
  /\ buffer \in Seq(1..MaxEvents) /\ queue \in Seq(1..MaxEvents)
  /\ Len(queue) <= MaxPending
  /\ high \in 0..NoCursor /\ drops \in 0..MaxDrops

\* A client that reconnects with the highest seq it received never skips an
\* event, whatever is appended or published between subscription, mark, replay
\* and go_live, and wherever a connection is dropped ("a reconnect with after_seq
\* loses nothing"); only the first event of a live-only client may be any.
ResumeLosesNothing ==
  [][high # NoCursor /\ high' # high => high' = high + 1]_vars

\* An event appended while a client with a cursor is around reaches it in the
\* end, although the server drops it whenever it falls behind.
CaughtUp ==
  \A e \in 1..MaxEvents :
    (appended >= e /\ high # NoCursor) ~> (high # NoCursor /\ high >= e)

\* What the comment on the mark promises ("anything after lands in the buffer
\* and is deduped by seq") and test_session_socket.py asserts of replay and live
\* traffic ("no gaps, no duplicates"): no event is received twice.
NoDuplicates ==
  [][Receive /\ high # NoCursor => Head(queue) > high]_vars

=============================================================================
