# A formal model of the OpenHands software-agent SDK

TLA+ modules of the parts of the SDK and of the agent server whose correctness
depends on order: which thread gets a lock, what a crash leaves on disk, which
server may write, who starts a run, what a client that was cut off has missed,
what the LLM is shown after a condensation. The runs (TLC) check small instances; the theorems (TLAPS)
hold for every value of the constants. Everything is translated from the Python
source; `PROJECT.json` maps every definition to the lines it stands for.

Abbreviations below: `sdk/` is `openhands-sdk/openhands/sdk/`, `server/` is
`openhands-agent-server/openhands/agent_server/`.

## 1. The system

A *conversation* is a tree of events with a HEAD. An *agent* takes steps: it
sends the active branch to an LLM, records the tool calls of the answer as
actions, executes them in parallel and records their results. A *run loop*
repeats steps until the agent finishes, waits, or is paused. Clients send
messages, pause, interrupt and reject from other threads. The *agent server*
hosts conversations for remote clients, keeps them on shared storage, and
recovers them after a crash.

| Component | State it keeps | Operations | Interacts through |
|---|---|---|---|
| FIFO lock (`sdk/conversation/fifo_lock.py`) | owner, count, deque of conditions | acquire, timed acquire, release, release_all, reacquire | the state lock of every conversation, the locks of resources |
| Resource lock manager (`resource_lock_manager.py`) | a lock object and a reference count per key | lock(keys) | called by tool threads |
| Parallel tool executor (`sdk/agent/parallel_executor.py`) | a thread pool per batch, a cancellation token | execute_batch, aexecute_batch | the lock manager; interrupts |
| Run loop (`sdk/conversation/impl/local_conversation.py`) | execution status, iteration count, the arun task | run, arun, send_message, pause, interrupt, reject_pending_actions | the state lock; the agent's step; hooks |
| Agent step (`sdk/agent/agent.py`, `response_dispatch.py`) | none of its own | step, astep | events appended under the state lock; gives the lock up while it awaits |
| Conversation state (`sdk/conversation/state.py`) | HEAD, status, nesting of the deferred save | append_event, save on exit, create/resume | base_state.json |
| Event log (`sdk/conversation/event_store.py`) | index in memory, event files, length marker, file lock | append, scan, path_to_root, index_after_seq | other processes, through the directory |
| Lease (`server/conversation_lease.py`) | owner_lease.json under a file lock | claim, renew, guarded_write, release | EventService; other servers |
| Event service (`server/event_service.py`) | conversation, lease, run task, run lock, parked requests, stop generation, goal loop | start, run, send_message, pause, interrupt, respond_to_confirmation, start/stop_goal_loop, close | HTTP handlers on one event loop; arun |
| Run slots (`RunSlot` in the same file) | the server's semaphore, permits with counted handles | acquire, share, release, reserve | all conversations of the server; the OpenAI gateway |
| Conversation service (`server/conversation_service.py`) | the open services | start, resume, evict, delete | the renewal loop, the reclaimer |
| Publication and session socket (`server/pub_sub.py`, `session_socket.py`) | subscribers, a buffer and a bounded queue per connection | subscribe, mark, replay, go live, send, drop | callbacks of the conversation; websockets |
| Remote conversation (`sdk/conversation/impl/remote_conversation.py`) | cached events, delivered and replayed ids, cached state, queue of terminal statuses | constructor, send_message, run, the WebSocket thread, reconcile | `server/sockets.py`, HTTP |
| View (`sdk/context/view/`, `sdk/conversation/state.py`) | the cached view of the active branch | append_event, from_events, enforce, manipulation_indices | the agent's prompt |
| Condenser (`sdk/context/condenser/`) | none | condense, hard_context_reset | the view; its own LLM |

Everything else (LLM layer, tools, MCP, ACP, skills, workspaces, the TypeScript
client...) is listed in `PROJECT.json` with the reason why it is not modelled.

What is hard here, and what correctness means:

* **Threads meeting on a lock.** The run loop, senders and pausers share one
  lock that must be fair, and that astep lends away in the middle of a step. No
  wakeup may be lost, and no message: a turn that ends has read everything.
* **State read before an unlock and used after.** Pending actions, the last
  message id and the cancellation token are all read before a wait.
* **Objects with an identity.** Lock objects are created and deleted on demand:
  mutual exclusion needs two callers to meet on the same object.
* **Crashes between two files.** An event file, its length marker and
  base_state.json are written one after the other.
* **Several processes on one directory.** Appends and leases across servers,
  with stalls, restarts and expiry.
* **Histories that must stay well formed.** Every action has one result, on the
  active branch; what was interrupted is not executed again; what a condensation
  leaves is a history an LLM provider accepts.
* **Check, await, act on one event loop.** run() checks the run task and then
  awaits; stops, messages, goal rounds and other conversations come in between,
  and every way out has to give its run slot back exactly once.
* **Persisted first, published later.** A client that subscribes, replays or
  reconnects in between must neither miss an event nor act on it twice.

## 2. Modules

| Module | What it models | Checked by |
|---|---|---|
| `FairMutex` | abstract: at most one holder, and a queue whose head is next | (refined by the next one) |
| `FIFOLock` | the lock, one action per block under its mutex | `fifo_lock`, `ConversationStateProofs` |
| `ResourceLockManager` | lock objects with identity, reference counts, timeouts | `tool_batches`, `ParallelToolExecutorProofs` |
| `ParallelToolExecutor` | batches of tool calls over `ResourceLockManager` (EXTENDS it: a step of the lock manager is a step of a call) | `tool_batches`, `ParallelToolExecutorProofs` |
| `ConversationRun` | run loop, agent step and the calls that race with them, over a fair mutex | `conversation_run`, `ConversationRunProofs` |
| `ConversationTree` | tree, HEAD, deferred save, crash, recovery, navigation, fork | `conversation_tree`, `ConversationStateProofs` |
| `EventLog` | several processes appending to one directory | `event_log`, `EventLogProofs` |
| `ConversationLease` | claim, renewal, fencing and release across servers | `conversation_lease`, `ConversationLeaseProofs` |
| `EventService` | admission of runs, parked requests, run slots, goal loop, close | `event_service`, `rearm_waits_for_slot`, `EventServiceProofs` |
| `SessionSocket` | persist, publish, buffer, replay and send to one resuming client | `session_socket`, `SessionSocketProofs` |
| `RemoteConversation` | the Python client and the end of a run on the server | `remote_conversation`, `RemoteConversationProofs` |
| `View` | the cached and the rebuilt view, and the condenser | `view`, `load_mid_call`, `ConversationStateProofs` |
| `MC...` | values of constants that a cfg cannot write down | |

How the layers fit: `FIFOLock` is shown to implement `FairMutex`;
`ResourceLockManager` has each lock object as such a holder and queue, and asks what
that gives a key whose object comes and goes (`KeyServedInOrder`); `ConversationRun`
uses the same queue discipline for the state lock. `ConversationTree` assumes that one process
writes at a time, which is what `ConversationLease` is for, and that a log in
memory is the log on disk, which is what `EventLog` is for. `EventService`
reduces arun() to what admission can tell apart (status, unread messages, a
prompt in flight); `ConversationRun` has it in detail. `SessionSocket` relies on
`EventLog` for cursors. `RemoteConversation` follows the tail of the run task that
`EventService` has as an action.

A property that is a conjunction of named parts is listed once: `LocksSound`
(types, holders, reference counts), `BatchSound`, `RestSound` (types,
`FinishedMeansRead`, `NotRunningAtRest`), `BranchSound` (types, `BranchExact`,
`AncestorsKept`), `IndexSound` (types, `KnowsPrefix`, `CursorExact`),
`SlotsSound` (types, `PermitsExact`), `CallbacksSound` (types, `CalledOnce` up to its
exception). The types of `FIFOLock` and `ConversationLease` are proved and need no run.

Faults are never ruled out by a guard. Where the code keeps a promise only up to some
point, history variables record what happened (`pausing`, `torn`, `shared` and
`faults`, `early`) and the property names the exception in these terms; what happens
in the exception is the counterexample of a second property, without the exception,
which stands in the module next to the first; the table at the end of section 3 has
them with the sentences in the repository that promise more.

Definitions named "Seeded fault" are plausible bugs that replace the real
definition when the properties are tested; the specifications do not use them.

### FIFOLock

`owner`, `count`, `waiters` and `notified` are the fields of the class; `mode`
and `depth` say where each thread is and what it believes. A timed waiter that
expires runs `Expire`, which looks at the front of the queue before it looks at
its deadline, as the loop in `acquire` does. `release_all` and `reacquire` keep the
nesting depth across an await.

### ResourceLockManager and ParallelToolExecutor

A caller goes through `lock()` key by key: `GetLock` (under the meta lock),
`AcquireFree` / `AcquireWait` / `AcquireGranted` / `AcquireTimeout` on the
object, `UndoReference` after a timeout, `LeaveBody` and `ReleaseLock` in the
finally block. The executor adds the batch: submission, the worker bound, the
token check of `_run_safe`, the cancellation of the asyncio task and the wait for
the pool. The content of a tool result is one of three outcomes.

### ConversationRun

`setting` fixes one of the configurations of `Settings`: which client threads
there are, and whether there are hooks, a confirmation policy, an analyzer.
`pc` is the place in `run`/`arun`, `held` and `queue` the state lock. A client's
block under the lock is one action; the loop's step is several, because astep
gives the lock up for the LLM call and for the masking of the analyzer's
verdict. The kinds of LLM answer (text, nothing usable, tool calls with or
without finish, an error) are choices; so are the verdicts of hooks, of the
confirmation policy and of the stuck detector. Messages are numbered, and `read`
is the latest one that was in a prompt. `pausing` is history: whether pause() has set
PAUSED since run() or arun() was last called, and whether the run had marked the
conversation RUNNING by then ("yes") or not ("early").

### ConversationTree

`log` is the sequence of event files, `head` and `saved` the HEAD and the RUNNING
status in memory and in base_state.json. A step is split where a crash matters:
each recorded action, each result, the end of the block that saves. A response has up
to `MaxCalls` tool calls; an invalid one is recorded with its error at once, before the
next call (`RecordInvalid`, `RecordError`), and is none of the actions the recovery looks
for, since it has no executable action. The recovery is two steps, its event
(`Recover`) and the save of HEAD (`RecoverySaves`). `Navigate` is possible whenever the
state lock is free: at rest, between the steps of a run, and while arun() awaits the
LLM, where leaving the block saves nothing. An event that is neither an executable
action nor the result of one is a "msg": messages, invalid calls and their errors are
nodes of the tree like any other. The events that append_event keeps off the tree
(state updates, error artifacts) change neither HEAD nor a branch and are left out.
`births` (what each event ever recorded was appended behind), `flushed`, `acked` and
`torn` (a crash found some results of a response recorded and some not) are history;
`AncestorsOf` follows `births`, and no file. `CopyEventForFork` and the two forked logs are
operators that the invariant `ForkKeepsBranches` evaluates in every state.

### EventLog

`files` are pairs of on-disk index and id, `known[p]` what the instance in
process p has indexed. `Lock`, `Write`, `DropMarker` and `SetMarker` are the
parts of `append` between which a process can die, alone or with others. The file
system fails at any moment: a file gets lost (`LoseFile`), a marker is not deleted
(`DropMarkerFails`, which the store logs and does not report) or not written
(`SetMarker`), the listing of a scan or the count of append() fails (`ScanFails`, the
second half of `Sync`: a failed count is 0, and append() goes on without a sync). `shared`
and `faults` are history: whether several processes had the log open at once, and
which faults came, since nobody had it open. `Undisturbed` reads off them where the
log keeps its promises: every listing worked, and while the log was shared no file got
lost and no stale marker was left. A process that is alone survives any of the latter.
`used` is history too: the highest index ever given out, on disk or not.
`IndexAfterSeq` is the binary search of the resume cursor, checked against its
definition as a count.

### ConversationLease

One action per operation under `.owner_lease.lock`; a guarded write is two, with
the lock held in between. Time is what is left of the lease, so a stall is a
number of `Tick`s. `claimant` and `stray` are history: who claimed last, and
which kinds of write landed after somebody else's claim.

### EventService

Everything runs on one event loop, so an action is what happens between two
awaits; `pc` says where each request, run task and the goal loop awaits. `run()`
is `RunEnter` (parking or refusing), `RunLock` (the check under `_run_lock`),
`RunStart` (the status, the slot, the new task) and `RunGranted` (a re-armed run
that waited for a slot). A run task goes through the reduced arun (`TaskReady`,
`TaskTop`, `TaskStep`, `TaskBreak`, `TaskCancelled`), drains (`TaskDrained`),
publishes and decides on a re-arm (`TaskPublished`, `TaskRearms`). A counter that
code captures and compares later (the stop generation) is the set `stale` of those
whose capture is out of date. `permits` are the `_RunPermit`s, with the handles
that refer to each. The goal loop's judge is a choice. `owed` is history: some
accepted message has not been run and no stop came after it. It is reset in two
places where the code may leave a message behind without a stop (listed at the end
of section 3), and `InputPickedUp` claims nothing about those.

### SessionSocket

Events are numbered by seq. `AppendEvent` persists, `Publish` reaches the
subscriber later and in order; `Connect`, `Mark`, `ReplayOne` and `GoLive` are the
parts of `session_socket` between awaits; `Send` is the bounded writer, which drops
the connection and never a frame. The client is external: it resumes from the
highest seq it received.

### RemoteConversation

The server's log, what of it has been published, and the run task with its
snapshot; the socket as a channel that loses its content when it breaks; the
WebSocket thread (`Receive`, `Replay`); the user's thread (`Construct`, `Run`,
`Post`, `Arm`, `Signalled`, `Poll`). `client` is what the client holds: cache,
`delivered_ids`, `replayed_ids`, cached status, the queue of terminal statuses, and
as history which events the callbacks saw, and which twice. `Connect` waits for
nothing: after a close in order the loop comes round at once. `early` is history: a
replay came while events that an earlier one had passed on could still come over the
socket.

### View

An event is its place in the history. `AppendTo` and `Apply` are the incremental
view, `AppendAll` the loop of from_events over it; `DuplicateObservations`, `BrokenBatches`, `Unmatched` and `BrokenLoops` the
four `enforce` methods, `Enforced` their repetition; `BetweenCallAndResult`,
`InsideBatch` and `InsideLoop` the complements of the manipulation indices.
`Condense` decides on a view and `Summarized` applies the result to a view that may
have grown. A response is one or two tool calls; the error of an invalid one is recorded
right behind its action, between the actions of the batch (`ToolCall`). The history is
one branch: switching branches rebuilds the view, which is `Rebuild`.

## 3. Runs

Bounds are named constants; a cfg gives them their values.

| Run | Shows | Bounds and why they suffice |
|---|---|---|
| `fifo_lock` | no lost wakeup, owner and count agree with the nesting, refinement of `FairMutex`, every waiter is served | 3 threads: a holder, a waiter that expires and one behind it; depth 2 for reentrancy |
| `tool_batches` | holders hold the object that is in the dict, counts exact, bodies on a key exclude across batches, a key is granted in the order of arrival; a returned batch is complete, an interrupted pool is drained, at most one late tool per worker, batches end | 5 calls in three batches, so that a call left over by an interrupt meets the next batch; 2 keys (a cycle needs two), 3 objects (a stale one exists), 2 workers |
| `conversation_run` | a FINISHED conversation has read every message, nothing rests in RUNNING, pauses of the loop of run() hold; interrupted calls are not executed twice, the loop never waits on superseded actions; runs end | 2 messages, 2 iterations, 3 runs of either kind: a message in the first, the last and between iterations, and a run after an interrupted one; three settings with two client threads each |
| `conversation_tree` | branches exact, surviving ancestors kept, saved events stay, actions and results paired unless a crash tore a batch, forks agree | local: 4 events with navigation, 1 crash, 1 lost file; server: 6 events, 2 crashes, 1 lost file; up to two tool calls per answer, each valid or not |
| `event_log` | while the log is undisturbed: prefixes, the marker is a proof, an append comes last; always: the cursor is exact | 3 processes (two that differ and one that opens in between), 3 events, 1 failure of the file system besides any number of crashes |
| `conversation_lease` | guarded writes fenced, a live lease is kept, every conversation can be taken over | 3 servers on 2 hosts, 3 processes, 3 generations, TTL 2; pids reused on two servers and not on the third |
| `event_service` | slots accounted for, one run at a time, the goal loop keeps its slot and its status, accepted input is run, a conversation at rest holds nothing, everything comes to rest | 3 requests of every kind (2 with an ACP agent), two at a time (clients are interchangeable coroutines, so the first free one takes the request); 3 tasks: one that drains, one that runs, one re-armed; 2 slots, so that a competitor can take the last; 2 goal rounds |
| `session_socket` | resuming skips nothing, the client catches up | 5 events, 2 frames pending, 2 lost connections: a drop during replay, one as a slow consumer and a last good connection |
| `remote_conversation` | callbacks see each event once unless a replay came early, none is missed, run() returns | one run after messages, 2 faults out of lost connections, failed requests and vetoes; a lag of one event and 2 frames in the socket are enough for a replay to overlap with live delivery |
| `view` | the rebuilt view is acceptable and ordered and opens with the system prompt; the cached view equals it when no call is open, but for a batch cut at an error | every history of up to 7 events with batches of up to two calls, invalid ones included; `max_size` 5, so that a condensation can keep two events behind it and condensations follow each other |

`CHECK_DEADLOCK FALSE` is set where the system may stop: when the bounds on
messages, runs, requests, events or restarts are used up. `fifo_lock` checks
deadlock; in `event_service` a wedged conversation violates `Settles`.

Runs that are expected to find a violation, each against a sentence in the
repository:

* `rearm_waits_for_slot`: a message whose run was refused while the old task
  drained is parked; the re-arm waits for a run slot with the run lock held, and
  the gateway request that has reserved the last slot waits for the lock. With one
  slot neither moves again. Settles holds with two slots because another
  conversation gives one back.
* `load_mid_call`: a conversation loaded with a call pending (it waits for a
  confirmation, say) drops the call from the cached view; its result is appended
  later, and the LLM is shown a result without a call.

Further places where the code does less than its docs or comments say. The
properties are stated in the modules and TLC finds each of them violated; add one to
the cfg named, with the change named, to see the trace. The first eight are the
exceptions that the checked properties name:

| Property | Module, cfg | How it fails |
|---|---|---|
| `PauseHoldsRun` | `MCConversationRun`, `ConversationRun.cfg` | a pause() that comes after the call of run() and before its first block under the lock (while `_ensure_agent_ready` works or the lock is waited for) is overwritten with RUNNING (`local_conversation.py:2011-2018`), and a step begins. The docstring (2810-2812): "can be called from any thread ... The pause will take effect at the next iteration of the run loop". `PauseHoldsLoop` is what holds |
| `RejectsOnlyPending` | the same | `reject_pending_actions` reads the pending actions before it has the lock (2743-2747); a run that gets in first executes them, and each has a result and a rejection. `tool_call_matching.py:18-19`: "exactly one observation-like event for each action" |
| `RecoveryPairs` | `MCConversationTree`, `ConversationTree.cfg` | a crash between two results of one response (A1, A2, R1): the recovery puts its result behind A2 (`event_service.py:1436-1455`), R1 leaves the active branch and A1 is open again. The comment there: "otherwise normal tree stamping attaches it to the stale HEAD, making the action and result siblings". `BranchMatched` is what holds |
| `MarkerNeverStale` | `MCEventLog`, `EventLog.cfg` | a process ends between the event file and the deletion of the old marker, or the deletion fails, while another process has the log open: one that is one event behind takes the marker for a proof. `event_store.py:323-324`: "an interrupted update leaves no marker rather than a stale one claiming to be current". `MarkerIsProof` is what holds |
| `SeqNeverReused` | the same | the last file is lost and the log reopened: the next event gets the index of the lost one (`event_store.py:428`), and a client whose cursor is that index does not receive it. Line 283: "Never reuse an on-disk index" |
| `IndexNeverShared` | the same | a lost file and a foreign append cancel out in the count (259), and two files have one index. Lines 284-285: "a shared index makes the reload order depend on the event ids". `AppendsLast` is what holds |
| `CalledOnce` without `~early` | `RemoteConversation`, `RemoteConversation.cfg` | a second reconnect before the events that the first one replayed are published (an orderly close reconnects at once): its replay empties `replayed_ids` (`remote_conversation.py:1254`), and the socket delivers them again. Line 1241: "without the live socket delivering them a second time". `CallbacksSound` is what holds |
| `BatchesWhole` | `View`, `View.cfg` | the error of a batch's first, invalid call is between its two actions (`agent.py:1375`); `manipulation_indices` looks at adjacent actions only, and a condensation that cuts behind the error shows the second action without the first. `batch_atomicity.py:55-56`: "Within a batch ... no manipulation is allowed". `CachedIsRebuilt` is what holds |
| `TokenStopsTools` | `MCParallelToolExecutor`, `ParallelToolExecutor.cfg` | the token is not looked at again after the wait for a resource lock |
| `PauseHoldsArun` | `MCConversationRun`, `ConversationRun.cfg` | a pause that lands while arun() awaits the LLM is overwritten by the step's FINISHED (`local_conversation.py:2418`); with a message in the same window the loop takes another step. The docstring (2811-2812): "The pause will take effect at the next iteration of the run loop" |
| `DiscardedStaysDiscarded` | the same | calls after FinishTool are dropped from the batch and stay in the history without a result; the next step executes them. `tests/sdk/agent/test_parallel_execution_integration.py:275`: "Tools after FinishTool are discarded and never executed." |
| `InterruptIsCaught` | the same | an interrupt during `_ensure_agent_ready` leaves arun() as CancelledError |
| `DeniedIsSkipped` | the same | a hook that denies a message and adds context records the denial under the old id |
| `AckedOnBranch` | `MCConversationTree`, `ConversationTree.cfg` | a block left while astep has lent the lock saves nothing |
| `FlushedOnBranch` without `crashes <= 1` | the same | a second recovery finds the action the first one left and hangs its event behind it: HEAD goes back behind events that were saved |
| `AncestorsKept` for `place = "local"`, or without `crashes <= 1` (then with 7 events and 3 crashes on the server) | the same | the neighbour that bridges a lost event is on another branch, which navigation or such a second recovery has made |
| `AllWritesFenced` | `MCConversationLease`, `ConversationLease.cfg` | saves of a start longer than the TTL; writes of a run() thread that outlives close() |
| `StopWins` | `MCEventService`, `EventService.cfg` | the stop generation is compared before the wait for a slot and not after it |
| `NoDuplicates` | `SessionSocket`, `SessionSocket.cfg` | an event replayed from disk before its publication reaches a subscriber that is live by then; `session_socket.py:366-368`: "deduped by seq" |
| `ReturnsAfterRun` | `RemoteConversation`, `RemoteConversation.cfg` | a snapshot taken before the new run set RUNNING, or the tail of the run before, arrives after arming |
| `StatusCurrent` | the same | a snapshot made earlier and published later overwrites a newer status |

Behaviour that the models have and no property forbids, worth knowing:

* A send looks for a stop only after it has interrupted the prompt in flight
  (`event_service.py:917-928`): one that a stop overtook before the interrupt may
  cancel a newer run that another message has started, which ends PAUSED, or before
  its first prompt in the status it found, with that message unread. Three clients
  and four calls are needed; TLC found it while the invariant of
  `EventServiceProofs` was being looked for.
* A parked message is not run when the run before it ended in ERROR, PAUSED or
  waiting for confirmation; an older task that is still publishing takes a request
  parked for a newer run; a goal loop cancelled before its first step keeps its pin
  and slot until close(); a pause while the judge is asked stops nothing; an ACP
  backlog longer than the iteration limit is left IDLE without a re-arm.
* A failed fetch during a reconnect leaves events unseen until the next one; a run
  that ends PAUSED and whose snapshot is lost is waited for until the deadline; a
  stale ERROR that arrives after the drain ends the next run().
* A hard context reset forgets the `keep_first` events that the docstring of the
  condenser says are never condensed.
* In confirmation mode a message sent while actions wait is followed by a run that
  executes them; an event callback that raises in the middle of a batch leaves
  executed calls without a result; a crash between the ERROR status and the
  recovery event skips the recovery.

## 4. Fairness

Liveness is checked under weak fairness of what the Python runtime does by
itself: a notified thread wakes, a scheduled task goes on, a tool or an LLM call
ends (an assumption about what is called: a tool that never returns blocks its
batch in the code too), a `with` block is left. One strong fairness:
`FIFOLock` assumes that a thread inside nested blocks leaves the outermost one
again and again (`SF` of `Release` with `count = 1`); a thread that nests for ever
never gives any lock up. In `ConversationRun` nothing forces clients to act: only
one that is queued for the lock takes it. In `ConversationLease` time passes and
a running server is asked for the conversation; no server has to crash, close or
renew. Timeouts never have to expire.

In `EventService` the event loop and its worker threads run what is ready, the
LLM, the judge and the agent's start-up answer or fail, and other conversations end
their runs; no client has to ask for anything. All that is asked of the loop is that
it runs something while something is ready, one weak fairness over the steps of
all coroutines: no order among them is needed for `Settles`, and the counterexample
of `rearm_waits_for_slot` ends where nothing is ready. In `SessionSocket` the client
reconnects, and the writer's `Receive` is strongly fair: dropped connections
disable it again and again, and the replay yields to the writer after every frame
(`session_socket.py:308-311`) so that each connection gets some frames through.
`RemoteConversation` assumes, as the comment in `_wait_for_run_completion` does, that
stop hooks take less than half a minute; faults are bounded, so the last connection
lasts.

## 5. Theorems

**`ConversationStateProofs`** is about the three parts of a conversation's state, one
after the other.

*The lock*, for any set of threads and any nesting depth, from
`NoThread \notin Threads` and `MaxDepth > 0`. The invariant the runs check is not
inductive: that a free lock has a notified first waiter (`NoLostWakeup`) needs to
know that the deque holds exactly the threads in the loop, each once
(`QueueExact`), that only the front is ever notified and only while the lock is
free (`NotifiedIsFront`), and where an owner can be (`OwnerPlace`). `FifoInv` is
their conjunction. From it: `LockTypeCorrect`, `NeverLosesWakeup`, `DepthCorrect`, and
`RefinesFairMutex`, the step simulation behind `ImplementsFairMutex`. Two lemmas
say what removing an element of a duplicate-free sequence leaves.

*The tree*, for any number of events, crashes and lost files, from `BoundsAssumption`.
What `path_to_root` returns is defined by recursion. Its lemmas are proved by induction
written as the search for a least counterexample (`LeastExists`, `Induction`), since
parents are older than their children; a recursive function is unfolded from a lemma
that says its equation has a solution. `TreeInv` ties the files to `births`: the ids
are those recorded, in order, each with a parent that is older (`Recorded`), and all of
them while no file is lost (`Complete`); `BranchExact` follows, wherever the
conversation lives, and `ForkKeepsBranchesHolds`, lost files included. On the server,
where nobody navigates, `GrowthInv` says that the log is a single chain until the first
crash and its recovery are over (`FirstLife`), and that after them whatever an event
descends from, everything recorded in between descends from too (`Nested`, kept at the
place where the tree grows by `OpenAt`): a lost event is then bridged by a neighbour
on the same branch, which is `AncestorsKept`. `FlushInv` adds that what a save
covered lies before every open action, so that the recovery, which goes back to the
first of these, stays behind it (`FlushedOnBranchHolds`). `PairInv` says at each place
of a step which actions are unanswered (`Awaited`), that a result lies behind its
action (`Behind`), and that a log which a crash did not tear is cut by the recovery,
which goes back to the first open action, without separating a result from its
action; with it `BranchMatchedHolds`, for any number of tool calls per response
and a crash at any point of the step that is not between two results (`torn`): there
`RecoveryPairs` fails. A second crash ends what is claimed of
branches on the server; section 3 has what can happen then.

*The view*, for any history, `max_size`, `keep_first` and token pressure, from
`SizeAssumption`. `OrderInv` says that a history refers to what is there (`WellMade`:
a result to an earlier call, a second call of a batch to the one before it or, with an
error in between, to the one before that, a condensation never to the system prompt),
and that the cached view and the built one
(from_events before it repairs) open with the system prompt, hold nothing twice and
keep the order of the history (`Ordered`). A round of enforce_properties either finds
none of the four properties broken or makes the view shorter, and never drops the
system prompt (`EnforceOnceFacts`), so as many rounds as the view is long leave
nothing broken (`EnforcedFacts`); an ordered view in which nothing is broken is
acceptable. That is `RebuiltAcceptableHolds`. For `CachedIsRebuiltHolds`, `WholeInv`
says that while no call has two results and no batch was cut at an error (`Clean`) the
cached view is the built one and consists of whole parts (`Whole`): two events of a
batch or of a tool loop that follow each other in the history are neighbours in the
view or both missing from it (`Glued`), a result is there exactly if its call is
(`Matched`), so are the two actions of a batch with an error between them (`Batched`),
open calls are there, and the last event is there if it is a call or a result, so that
the next one can join it. A response is taken in event by event (`KeptGrows`). A
manipulation index of such a view is a safe place to cut (`IndexIsSafe`; that a
thinking loop of the history is a run of the view is the lemma `RunInView`), it stays
safe while messages arrive (`CuttingGrows`), and a cut between two safe places leaves
whole parts, with a summary or without (`WholeCut`). When no call is open nothing is
broken in a view of whole parts (`WholeIsSound`) and a rebuild changes nothing. The
exception for a cut at an error is needed: `BatchesWhole` fails. The
hypothesis `LoadMidCall = FALSE` is the run's; `load_mid_call` shows what a load with a
call pending does.

**`ConversationLeaseProofs`**, for any servers, hosts, TTL and bounds, from the
assumptions in the module. `IInv` adds to the types that instance ids are unique
(`IdsUnique`) and that a lease which names a running process names its host and
pid (`OwnerRecorded`). From it `LiveLeaseNeverTaken`: nobody else can claim an
unexpired lease of a running server, because the pid check looks at the right
host. `WriterOwns` (whoever is inside guarded_write holds the lease of the latest
claimant) is inductive because a claim waits for the lock; it gives
`GuardedWritesFenced`, however long the writer stalls. `PromptStartsFenced`
extends the fence to the unguarded writes when no start outlasts its lease
(`~SlowStart`) and no thread outlives close() (`~Lingering`), so those two are the
only ways past it.

**`ParallelToolExecutorProofs`**, for any callers, resources, batches and number of
workers, from the assumptions of both modules and `CallsAssumption` (a tool call is in
one batch: `execute_batch` is given the action events of one step). It has two layers.
`LockInv` is about the lock manager alone (`LockManagerInv`): the reference count of a
key is the number of its users (a caller between `_get_lock` and `_release_lock`), the
table has an object for a key exactly while there are users, every user refers to the
object in the table, objects of different keys differ, and an object's queue holds
exactly its waiters, each once. Without the tie between user and table
`BodiesExclude` is not inductive: a key whose object was dropped too early would have
two. `ExecutorUsesLocks` shows that every step of a batch is a step of the lock
manager or leaves it alone, so `LocksSoundHolds`, `BodiesExcludeHolds` and
`KeyServedInOrderHolds` hold of the executor. The last needs the tie between user and
table too: two callers that wait for a key are in the queue of one object only because
both refer to the object in the table. `ExecInv` adds where each call of a batch can be, what its result says about
it, and that the callers past the token check are at most the workers; it gives
`BatchSoundHolds` and `LateToolsBoundedHolds`.

**`ConversationRunProofs`**, for any settings, clients and bounds. `IInv` adds to the
types who holds the lock at each point of the loop (`LockPlaces`), what the loop's
locals are worth there (`LoopPlaces`), which status goes with which point
(`StatusPlaces`), what has been read when the status says finished (`ReadPlaces`),
which calls are pending or begun (`PendingPlaces`) and when a pause is in force
(`PausePlaces`). Each of the four theorems is one of these parts read at one point;
the invariant is needed because every client can run between two of them, wherever
astep has given the lock up.

**`EventLogProofs`**, for any processes, finite set of events and number of failures,
with crashes, lost files, stale markers and failed listings at any moment, shared or
not. `Undisturbed` is in the properties, not in the specification, so the invariant
has to follow the history from the moment the log is first opened. The properties
say little about a process inside append(), which is where they are decided: `IInv`
adds that the holder of the file lock knows every file (`InStep`), that what an
instance knows lies below its next index (`InstanceSound`), that a process which has
been alone knows all that is left (`Alone`, `OneOpen`), and that the marker of an
instance that is behind is there only while the process that appended the event it
misses has yet to delete it (`NotBehind`); markers of other lengths may be left over
from any earlier fault. Each but the first two is claimed while the log is undisturbed.
The heart is
`SyncIsFresh`: where the marker or the count lets append() skip the scan, its index
was current already. `IndexSoundHolds` includes the binary search for a cursor: the
function that keeps the right answer within the interval solves the search's
equation, and a shortest interval on which another solution differs cannot exist, so
no induction over data is needed. Ranks exist by counting: the map from events to
ranks is an injection between sets of one size.

**`SessionSocketProofs`**, for any number of events and dropped connections and any
budget of the writer. `IInv` says that the buffer is the latest run of published
events (`BufferLatest`), what each stage of a connection has (`ConnPlaces`), and that
before any event in the queue comes every lower one the client does not have
(`NoGap`). The lemma `AboveOfRun` says what go_live keeps of the buffer. It gives
`ResumeLosesNothingHolds`: the client's cursor moves by one.

**`RemoteConversationProofs`**, for any number of events, runs, faults and frames in
flight. `CalledOnce` rests on what `delivered_ids` and `replayed_ids` mean while no
replay came early (`OnceSound`): of the events the callbacks have seen, only those
of the latest replay can still come over the socket, and exactly these are in
`replayed_ids`; the socket carries published events in order and each once
(`WireSound`). No delay of a reconnect is assumed: after an early replay `CalledOnce`
fails. `NothingMissedHolds` needs that an event counts as delivered only if the constructor had it or the
callbacks have seen it (`MissedSound`).

**`EventServiceProofs`**, for any finite sets of requests and run tasks, any capacity
and any number of calls and goal rounds (`NamesAssumption`, `FiniteAssumption`,
`BoundsAssumption`). `IInv` has three parts. `PlacesOK` says where processes may be:
`_run_task` is the only task with its body or tail under way (`RunPlaces`), whoever is
past the check of `_run_task` holds the run lock and no run is alive (`LockPlaces`),
nothing replaces the run that close() waits for (`ClosePlaces`), a handle lasts as long
as the send or the body it was made for, and a re-armed run waits for a token only
where the session has none (`HandlePlaces`). `SlotsOK` counts: each permit's `refs` is
the number of its handles and the tokens add up (`PermitsOK`, kept by `Release`, `Share`,
`Acquire` and `EndSession` by lemmas of their own), the pins cover the requests and the
loop that need the session (`PinPlaces`), and a session that is held is pinned or a task
or close() will return it (`SessionHeld`). `OwedOK` follows the messages: one that is
owed to an idle conversation, or that the step under way will not read, is with
somebody who carries it, a request on its way to run(), a run that will read it, a run
that will find it parked, or a task that re-arms for it (`OwedCarried`); while the run
is being cancelled it must be a request (`CancelCarried`), since what is parked with that
run would be lost with it. Each action has a lemma; `PlaceFrame`, `SlotFrame` and
`CarriedFrame` say once what a step that moves one process leaves alone. All six
invariants of the run follow, `InputPickedUpHolds` with the exceptions its definition
names. The proof needs that a task whose cancellation is scheduled takes no other step
first, which is how asyncio delivers a cancellation; `RunCall` states it.

Every inductive invariant was checked with TLC on an instance of its module before it
was proved.

Only model-checked: all liveness properties (`WaiterServed`, `BatchEnds`, `RunEnds`,
`TakenOver`, `Settles`, `CaughtUp`, `RunReturns`) and the fairness half of the
refinement, since the prover does not handle fairness or ENABLED. Every invariant and
action property of a passing run is stated by a theorem; of a refinement
(`ImplementsFairMutex`) it is the safety half.

## 6. What the models leave out

* Data: prompts, message contents, tool results, formatting, logging.
* `ConversationRun`: the ACP branch of arun, navigation and model switching
  during a run, failing event callbacks, several arun tasks at once. A rejection
  that lands while the analyzer's verdict is masked does not stop the actions it
  rejected from being confirmed or executed; the model has that behaviour and no
  property forbids it.
* `ConversationTree`: fields of base_state.json other than HEAD and RUNNING;
  events that append_event keeps off the tree; a crash in the middle of a fork.
* `EventLog`: a wait for the file lock that times out (it changes nothing), event
  files that are there and cannot be parsed, clearing the cache, a scan of append()
  that fails right after a count that did not.
* `ConversationLease`: clock skew between hosts, a lease file that cannot be
  parsed (treated as no lease), pids taken over by unrelated processes.
* `EventService`: agents without astep (run on a thread), the webhook and
  file-watching parts, the goal runner outside the server; start() is in
  `ConversationLease` and `ConversationTree`.
* `SessionSocket`: snapshots without a seq and progress frames, messages a client
  sends, the limit on subscribers, unreadable event files.
* `RemoteConversation`: streaming deltas, merging of ACP events, fatal close codes,
  the deadline of run(), other clients that run the same conversation.
* `View`: texts and token counts (token pressure may keep any suffix), branches.
* Crashes of the machine that lose writes already returned by the file system.

## 7. Not modelled, and the plan

The parts modelled are those whose correctness depends on an order of steps. Most
of the repository is not of this kind: the LLM layer, settings, skills, plugins,
tools, analyzers, workspaces, routers and clients in TypeScript move, convert and
classify data or drive an external process, and a model of them would either be a
transliteration or have nothing to check. They are listed in `PROJECT.json`, each
with its reason. Candidates that remain, in this order: `ConversationService`
(start, resume, idle eviction and deletion racing, with the reclaimer), the tmux
pane pool and the task manager, the stuck detector as a function of the last
events.

Theorems that would say more state what section 3 shows to fail:
`RecoveryPairs`, once the recovery answers open actions without leaving results behind,
`CachedAcceptable` and `BatchesWhole`, once a load keeps the calls that are pending and
no cut falls between the actions of a batch, `CalledOnce`, once a replay keeps what the
one before it passed on. All are false of the code as it is.
