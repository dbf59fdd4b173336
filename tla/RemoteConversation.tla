------------------------- MODULE RemoteConversation -------------------------
(***************************************************************************)
(* A RemoteConversation and the conversation it follows on a server: the   *)
(* handshake of its constructor, its WebSocket thread with reconnection    *)
(* and replay of missed events, and a blocking run() with its REST polling *)
(* (openhands-sdk/.../conversation/impl/remote_conversation.py), against   *)
(* the event socket and the tail of a run of the agent server              *)
(* (sockets.py, event_service.py).                                         *)
(*                                                                         *)
(* An event is its place in the server's log; the log says whether it is a *)
(* message or an update of execution_status.  Every event is persisted     *)
(* first and published later, in order.  Snapshots of the full state are   *)
(* published and never persisted.  The only client that runs the           *)
(* conversation is this one.  Left out: deltas, the merging of ACP events, *)
(* fatal close codes, the deadline of run(), stop() and close().           *)
(***************************************************************************)
EXTENDS Naturals, Sequences

CONSTANTS
  Outcomes,    \* statuses in which a run may end
  MaxLog,      \* bound: no message beyond this many events
  MaxRuns,     \* bound: calls of run()
  MaxFaults,   \* bound: connections lost, requests failed and vetoes of stop hooks
  MaxLag,      \* bound: events persisted and not yet published
  MaxChannel,  \* bound: frames in the socket, beyond which the server waits
  Fallback     \* terminal polls in a row that make TERMINAL_HARD_FALLBACK_SECS

ASSUME OutcomesAssumption ==
  Outcomes \subseteq {"finished", "error", "paused"} /\ Outcomes # {}
ASSUME BoundsAssumption ==
  /\ MaxLog \in Nat /\ MaxRuns \in Nat /\ MaxFaults \in Nat
  /\ {Fallback, MaxLag, MaxChannel} \subseteq Nat \ {0}

VARIABLES
  log,        \* the events on the server: "message" or a status
  status,     \* execution_status on the server
  published,  \* how many of them the fan-out has passed on
  task,       \* the run task: none, accepted, running, ending
  post,       \* the tail of the last run: None, "due", or the snapshot's status
  conn,       \* the socket: off, subscribed (registered), open
  channel,    \* frames sent and not yet received
  ready,      \* connection_ready of the current connection
  hasConnected,
  held,       \* the frame whose reconnect handling is under way, or None
  client,     \* what the client knows of the events: a record, see Blank
  pc,         \* the thread that uses the conversation
  since,      \* events recorded when the constructor ended
  armed,      \* _run_armed
  polls,      \* REST polls in a row that said terminal
  runs,       \* calls of run() so far
  faults,     \* faults so far
  failed,     \* whether a fetch of the event list has failed
  early       \* history: a replay came while what an earlier one had passed on
              \* could still come over the socket

serverVars == <<log, status, published, task, post>>
socketVars == <<conn, channel>>
threadVars == <<ready, hasConnected, held, early>>
faultVars == <<faults, failed>>
mainVars == <<pc, since, armed, polls, runs>>
vars == <<serverVars, socketVars, threadVars, client, mainVars, faultVars>>

None == "none"
Statuses == {"idle", "running", "finished", "error", "paused"}

\* A frame: an event of the log, or (event 0) a snapshot with its status.
Ev(e) == [event |-> e, status |-> None]
Snapshot(s) == [event |-> 0, status |-> s]
Frames == [event : 0..Len(log), status : Statuses \cup {None}]

IsStateUpdate(f) == f.event = 0 \/ log[f.event] # "message"

Blank ==
  [ cache     |-> {},     \* RemoteEventsList: the events it holds
    delivered |-> {},     \* delivered_ids
    replayed  |-> {},     \* replayed_ids
    called    |-> {},     \* the events the callbacks have been called with
    again     |-> {},     \* those they have been called with more than once
    cached    |-> "idle", \* execution_status in the cached state
    signals   |-> <<>> ]  \* _terminal_status_queue

Init ==
  /\ log = <<"message">> /\ status = "idle" /\ published = 1 /\ task = "none" /\ post = None
  /\ conn = "off" /\ channel = <<>>
  /\ ready = FALSE /\ hasConnected = FALSE /\ held = <<>>
  /\ client = Blank
  /\ pc = "sync" /\ since = 0 /\ armed = FALSE /\ polls = 0 /\ runs = 0
  /\ faults = 0 /\ failed = FALSE /\ early = FALSE

-----------------------------------------------------------------------------
(* The server *)

\* A message or a change of status is persisted; the fan-out hears of it later.
Record(entry) ==
  /\ Len(log) < published + MaxLag
  /\ log' = Append(log, entry)
  /\ status' = (IF entry = "message" THEN status ELSE entry)

\* Another part of the program, or another user, adds a message.
OtherMessage ==
  /\ Len(log) < MaxLog
  /\ Record("message")
  /\ UNCHANGED <<published, task, post, socketVars, threadVars, client,
                 mainVars, faultVars>>

\* What a registered socket is sent.
ToSocket(f) ==
  IF conn = "off" THEN UNCHANGED channel
  ELSE Len(channel) < MaxChannel /\ channel' = Append(channel, f)

\* PubSub passes an event on.
Publish ==
  /\ published < Len(log)
  /\ published' = published + 1
  /\ ToSocket(Ev(published + 1))
  /\ UNCHANGED <<log, status, task, post, conn, threadVars, client,
                 mainVars, faultVars>>

\* A stop hook turns FINISHED back into RUNNING before the run ends.
Veto ==
  /\ task = "running" /\ status = "finished" /\ faults < MaxFaults
  /\ faults' = faults + 1
  /\ Record("running")
  /\ UNCHANGED <<published, task, post, socketVars, threadVars, client, mainVars,
                 failed>>

\* One step of the run task.  Once it has ended, what it recorded is published
\* before the task is forgotten; the snapshot is made and published after that.
\* (The tails of two runs do not overlap here.)
TaskStep ==
  /\ \/ /\ task = "accepted"
        /\ IF status = "finished" THEN task' = "ending" /\ UNCHANGED <<log, status>>
           ELSE task' = "running" /\ Record("running")
        /\ UNCHANGED <<post, channel>>
     \/ /\ task = "running" /\ status = "running"
        /\ \E s \in Outcomes : Record(s)
        /\ UNCHANGED <<task, post, channel>>
     \/ /\ task = "running" /\ status # "running"
        /\ task' = "ending"
        /\ UNCHANGED <<log, status, post, channel>>
     \/ /\ task = "ending" /\ published = Len(log) /\ post = None
        /\ task' = "none" /\ post' = "due"
        /\ UNCHANGED <<log, status, channel>>
  /\ UNCHANGED <<published, conn, threadVars, client,
                 mainVars, faultVars>>

\* _publish_state_update after the task has been forgotten, in two steps.
PostRunSnapshot ==
  /\ \/ post = "due" /\ post' = status /\ UNCHANGED channel
     \/ post \in Statuses /\ post' = None /\ ToSocket(Snapshot(post))
  /\ UNCHANGED <<log, status, published, task, conn, threadVars, client,
                 mainVars, faultVars>>

-----------------------------------------------------------------------------
(* The socket *)

\* websockets.connect and subscribe_to_events: the subscriber is registered.  The
\* loop comes round at once when the connection was closed in order (1000, 1001),
\* and after a second or more when it broke.
Connect ==
  /\ pc # "sync" /\ conn = "off"
  /\ conn' = "subscribed" /\ ready' = FALSE
  /\ UNCHANGED <<serverVars, channel, hasConnected, held, early,
                 client, mainVars, faultVars>>

\* subscribe_to_events pushes a snapshot of the state to the new subscriber,
\* which may have been sent events meanwhile.
PushSnapshot ==
  /\ conn = "subscribed" /\ conn' = "open"
  /\ ToSocket(Snapshot(status))
  /\ UNCHANGED <<serverVars, threadVars, client, mainVars, faultVars>>

\* The connection breaks or is closed; what was sent and not received is lost.
Drop ==
  /\ conn # "off" /\ held = <<>> /\ faults < MaxFaults
  /\ conn' = "off" /\ channel' = <<>>
  /\ faults' = faults + 1
  /\ UNCHANGED <<serverVars, threadVars, client, mainVars, failed>>

-----------------------------------------------------------------------------
(* The WebSocket thread *)

\* What run_complete_callback puts on the queue for a frame.
Signal(f) ==
  CASE f.event # 0 /\ log[f.event] = "error" -> <<"error">>
    [] f.event = 0 /\ armed /\ f.status # "running" -> <<f.status>>
    [] OTHER -> <<>>

\* The callbacks: the user's, the cache, the cached state and run completion.
Callbacks(c, f) ==
  [c EXCEPT !.called = @ \cup ({f.event} \ {0}),
            !.again = @ \cup ({f.event} \cap c.called),
            !.cache = @ \cup ({f.event} \ {0}),
            !.cached = IF f.event = 0 THEN f.status
                       ELSE IF log[f.event] = "message" THEN @ ELSE log[f.event],
            !.signals = @ \o Signal(f)]

\* socket_callback: an event that has been replayed is skipped, once.
SocketCallback(c, f) ==
  IF f.event \in c.replayed
  THEN [c EXCEPT !.replayed = @ \ {f.event}]
  ELSE Callbacks([c EXCEPT !.delivered = @ \cup ({f.event} \ {0})], f)

\* A frame arrives.  The first state update of a connection makes the client
\* ready or, on a later connection, starts the replay and waits for it.
Receive ==
  /\ conn # "off" /\ held = <<>> /\ channel # <<>>
  /\ LET f == Head(channel)
         first == IsStateUpdate(f) /\ ~ready
     IN  /\ ready' = (ready \/ first)
         /\ hasConnected' = (hasConnected \/ first)
         /\ IF first /\ hasConnected
            THEN held' = <<f>> /\ UNCHANGED client
            ELSE client' = SocketCallback(client, f) /\ UNCHANGED held
  /\ channel' = Tail(channel)
  /\ UNCHANGED <<serverVars, conn, early, mainVars, faultVars>>

\* A fetch of the event list returns the first k events: all of them, or none
\* when the request for the page fails (reconcile goes on with what it has).
Fetches(k) ==
  \/ k = Len(log) /\ UNCHANGED faultVars
  \/ k = 0 /\ faults < MaxFaults /\ faults' = faults + 1 /\ failed' = TRUE

\* Seeded fault: what was fetched is not merged into the cache.
ReconciledNot(c, k) == [c EXCEPT !.cache = @ \cup (1..k \cap @)]

\* reconcile: what was fetched is merged into the cache.
Reconciled(c, k) == [c EXCEPT !.cache = @ \cup 1..k]

\* The status the last update among some events leaves, if there is one.
Updated(old, events) ==
  LET updates == {e \in events : log[e] # "message"}
  IN  IF updates = {} THEN old
      ELSE log[CHOOSE e \in updates : \A d \in updates : d <= e]

\* Seeded fault: the events replayed are not remembered for the socket.
MissedPassedOnForgets(c) ==
  LET missed == c.cache \ c.delivered
  IN  [c EXCEPT !.called = @ \cup missed, !.again = @ \cup (missed \cap c.called),
                !.delivered = @ \cup missed, !.replayed = {},
                !.cached = Updated(@, missed)]

\* replay_missed_events after reconcile: the events of the cache that the
\* callbacks have not seen are passed to them in order, and remembered so that
\* the socket does not deliver them a second time.
MissedPassedOn(c) ==
  LET missed == c.cache \ c.delivered
  IN  [c EXCEPT !.called = @ \cup missed, !.again = @ \cup (missed \cap c.called),
                !.delivered = @ \cup missed, !.replayed = missed,
                !.cached = Updated(@, missed),
                !.signals = IF \E e \in missed : log[e] = "error"
                            THEN Append(@, "error") ELSE @]

\* Event e may still come over the socket.
Coming(e) ==
  \/ e > published
  \/ \E i \in DOMAIN channel : channel[i].event = e
  \/ \E i \in DOMAIN held : held[i].event = e

\* The replay of a reconnect, and then the frame that set it off.
Replay ==
  /\ held # <<>>
  /\ early' = (early \/ \E e \in client.replayed : Coming(e))
  /\ \E k \in {0, Len(log)} :
       /\ Fetches(k)
       /\ client' = SocketCallback(MissedPassedOn(Reconciled(client, k)), held[1])
  /\ held' = <<>>
  /\ UNCHANGED <<serverVars, socketVars, ready, hasConnected, mainVars>>

-----------------------------------------------------------------------------
(* The thread that uses the conversation *)

\* The constructor: a full sync; then, once the socket is ready, a
\* reconciliation; then what the cache holds counts as delivered.
Construct ==
  /\ \/ pc = "sync" /\ pc' = "connecting"
        /\ client' = Reconciled(client, Len(log))
        /\ UNCHANGED <<since, faultVars>>
     \/ pc = "connecting" /\ hasConnected /\ pc' = "mark"
        /\ \E k \in {0, Len(log)} : Fetches(k) /\ client' = Reconciled(client, k)
        /\ UNCHANGED since
     \/ pc = "mark" /\ pc' = "ready"
        /\ client' = [client EXCEPT !.delivered = @ \cup client.cache]
        /\ since' = Len(log)
        /\ UNCHANGED faultVars
  /\ UNCHANGED <<serverVars, socketVars, threadVars, armed, polls, runs>>

\* send_message: the server records it; a finished conversation is idle again.
SendMessage ==
  /\ pc = "ready" /\ runs < MaxRuns /\ Len(log) < MaxLog
  /\ IF status = "finished"
     THEN /\ Len(log) < published + MaxLag
          /\ log' = log \o <<"idle", "message">> /\ status' = "idle"
     ELSE Record("message")
  /\ UNCHANGED <<published, task, post, socketVars, threadVars, client, mainVars,
                 faultVars>>

\* run(): disarm, drain, and send the request.
Run ==
  /\ pc = "ready" /\ runs < MaxRuns
  /\ pc' = "posting" /\ runs' = runs + 1 /\ armed' = FALSE
  /\ client' = [client EXCEPT !.signals = <<>>]
  /\ UNCHANGED <<serverVars, socketVars, threadVars, since, polls, faultVars>>

\* The server takes the request: a run task, unless there is one (409).
Post ==
  /\ pc = "posting"
  /\ pc' = "posted"
  /\ task' = (IF task = "none" THEN "accepted" ELSE task)
  /\ UNCHANGED <<log, status, published, post, socketVars, threadVars, client, since,
                 armed, polls, runs, faultVars>>

\* The answer arrives: run(blocking=False) returns, run() arms and waits.
Arm ==
  /\ pc = "posted"
  /\ \/ pc' = "ready" /\ UNCHANGED <<armed, polls>>
     \/ pc' = "waiting" /\ armed' = TRUE /\ polls' = 0
  /\ UNCHANGED <<serverVars, socketVars, threadVars, client, since, runs, faultVars>>

\* run() is over, normally or with ConversationRunError.
EndRun == pc' = "ready" /\ armed' = FALSE /\ polls' = 0

\* A status from the queue ends the wait; after ERROR, with an error.
Signalled ==
  /\ pc = "waiting" /\ client.signals # <<>>
  /\ EndRun
  /\ \E k \in {0, Len(log)} :
       /\ Fetches(k)
       /\ client' = Reconciled([client EXCEPT !.signals = Tail(@)], k)
  /\ UNCHANGED <<serverVars, socketVars, threadVars, since, runs>>

\* Seeded fault: without the snapshot of the socket only an error ends the wait.
PollEndsOnError == status = "error"

\* What the status a poll sees means for the wait: ERROR ends it; FINISHED does
\* when it has been seen for half a minute, by when the stop hooks are through
\* ("Stop hooks are fast").
PollEnds ==
  \/ status = "error"
  \/ status = "finished" /\ polls + 1 = Fallback /\ task # "running"

\* A poll.  When FINISHED ends the wait, the cached state is fetched anew.
Poll ==
  /\ pc = "waiting" /\ client.signals = <<>>
  /\ \/ PollEnds /\ EndRun
     \/ /\ status = "finished" /\ polls + 1 < Fallback /\ polls' = polls + 1
        /\ UNCHANGED <<pc, armed>>
     \/ /\ status \notin {"finished", "error"} /\ polls # 0 /\ polls' = 0
        /\ UNCHANGED <<pc, armed>>
  /\ \E k \in {0, Len(log)} :
       IF pc' = "ready"
       THEN /\ Fetches(k)
            /\ client' = Reconciled([client EXCEPT
                   !.cached = IF status = "finished" THEN status ELSE @], k)
       ELSE k = 0 /\ UNCHANGED <<client, faultVars>>
  /\ UNCHANGED <<serverVars, socketVars, threadVars, since, runs>>

\* A poll fails and will be retried.
PollFails ==
  /\ pc = "waiting" /\ client.signals = <<>> /\ faults < MaxFaults
  /\ faults' = faults + 1 /\ polls' = 0
  /\ UNCHANGED <<serverVars, socketVars, threadVars, client, pc, since, armed,
                 runs, failed>>

Next ==
  \/ OtherMessage \/ Publish \/ TaskStep \/ Veto \/ PostRunSnapshot
  \/ Connect \/ PushSnapshot \/ Drop \/ Receive \/ Replay
  \/ Construct \/ SendMessage \/ Run \/ Post \/ Arm
  \/ Signalled \/ Poll \/ PollFails

\* Threads and the server's loop go on, and the client reconnects.
Fairness ==
  /\ WF_vars(Publish) /\ WF_vars(TaskStep) /\ WF_vars(PostRunSnapshot)
  /\ WF_vars(Connect) /\ WF_vars(PushSnapshot) /\ WF_vars(Receive) /\ WF_vars(Replay)
  /\ WF_vars(Construct) /\ WF_vars(Post) /\ WF_vars(Arm)
  /\ WF_vars(Signalled) /\ WF_vars(Poll)

Spec == Init /\ [][Next]_vars /\ Fairness

-----------------------------------------------------------------------------
\* The variables have their types.
TypeOK ==
  /\ log \in Seq({"message"} \cup Statuses) /\ status \in Statuses
  /\ published \in 0..Len(log)
  /\ task \in {"none", "accepted", "running", "ending"}
  /\ post \in Statuses \cup {None, "due"}
  /\ conn \in {"off", "subscribed", "open"}
  /\ channel \in Seq(Frames)
  /\ ready \in BOOLEAN /\ hasConnected \in BOOLEAN
  /\ held \in Seq(Frames) /\ Len(held) <= 1 /\ early \in BOOLEAN
  /\ \A S \in {client.cache, client.delivered, client.replayed, client.called,
               client.again} : S \subseteq 1..Len(log)
  /\ client.cached \in Statuses /\ client.signals \in Seq(Statuses)
  /\ pc \in {"sync", "connecting", "mark", "ready", "posting", "posted", "waiting"}
  /\ since \in 0..Len(log) /\ armed \in BOOLEAN /\ polls \in 0..Fallback
  /\ runs \in 0..MaxRuns /\ faults \in 0..MaxFaults /\ failed \in BOOLEAN

\* The callbacks see an event once, whether it reaches them over the socket, by
\* the replay of a reconnect, or by both: events missed "can be replayed to them
\* once, without the live socket delivering them a second time" (the comment in
\* RemoteConversation.__init__).  The code does not keep this when a second
\* reconnect comes before the events that the first one replayed are published:
\* its replay forgets them (replayed_ids.clear()).
CalledOnce == client.again = {}

\* The record of the client has its types, and no callback runs twice for an event
\* over any number of lost connections, unless a replay came while what an earlier
\* one had passed on could still come over the socket.
CallbacksSound == TypeOK /\ (~early => CalledOnce)

\* While a connection is up and its replay is behind it, every event recorded
\* since the constructor ended has been passed to the callbacks, is on its way
\* in the socket, or is yet to be published; losing connections at any point
\* loses none, as long as every fetch worked.
NothingMissed ==
  pc \in {"ready", "posting", "posted", "waiting"} /\ ready /\ held = <<>>
    /\ conn # "off" /\ ~failed
  => \A e \in (since + 1)..published :
        e \in client.called \/ \E i \in DOMAIN channel : channel[i].event = e

\* A blocking run() comes back once the server is done and its status stays
\* terminal, whatever happens to the connection: by the snapshot, by an ERROR
\* over either way, or by the fallback.
RunReturns ==
  LET over == task = "none" /\ status \in {"finished", "error"}
  IN  (pc = "waiting" /\ over) ~> (pc # "waiting" \/ ~over)

\* What run() promises ("wait for the run to complete"; a snapshot is guarded
\* against "causing blocking=True to return before the server has actually
\* finished"): it does not return normally while the run it started or joined
\* goes on.
ReturnsAfterRun ==
  [][\/ Signalled /\ client.signals[1] # "error"
     \/ Poll /\ pc' # "waiting" /\ status # "error"
     => task \notin {"accepted", "running"}]_vars

\* What RemoteState.execution_status promises ("The current conversation execution
\* status."): once everything the server has said has been received, the status
\* in the client's cache is the server's.
StatusCurrent ==
  pc = "ready" /\ conn = "open" /\ ready /\ held = <<>> /\ channel = <<>>
    /\ published = Len(log) /\ post = None /\ ~failed
  => client.cached = status

=============================================================================
