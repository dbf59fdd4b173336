-------------------------- MODULE ConversationTree --------------------------
(***************************************************************************)
(* The tree of a conversation's events, its HEAD, and what survives a      *)
(* crash: EventLog.path_to_root (openhands-sdk/openhands/sdk/conversation/ *)
(* event_store.py), ConversationState.append_event and the deferred save   *)
(* of base_state.json (conversation/state.py), navigate_to and fork        *)
(* (conversation/impl/local_conversation.py), and the recovery the agent   *)
(* server runs when it loads a conversation that was RUNNING               *)
(* (openhands-agent-server/openhands/agent_server/event_service.py).       *)
(*                                                                         *)
(* One process writes at a time (the lease sees to that), so the log in    *)
(* memory is the log on disk; base_state.json is not, and lags it.  Event  *)
(* files may get lost while the process is down.                           *)
(***************************************************************************)
EXTENDS Integers, Sequences, FiniteSets

CONSTANTS
  Deployments,  \* where conversations live: "local", where a program may also
                \* navigate, or "server", which does not, and which recovers an
                \* interrupted run after a reload
  MaxCalls,     \* tool calls in one response
  MaxEvents,    \* bound: events ever appended, for each deployment
  MaxCrashes,   \* bound: crashes
  MaxLost       \* bound: event files lost

ASSUME DeploymentsAssumption == Deployments \subseteq {"local", "server"}
ASSUME BoundsAssumption ==
  /\ MaxCalls \in Nat /\ {MaxEvents, MaxCrashes, MaxLost} \subseteq [Deployments -> Nat]
  /\ \A d \in Deployments : MaxEvents[d] >= 2   \* room for the linear history of Init

NoId == 0          \* Python's None as an event id
RootId == -1       \* ROOT_PARENT_ID

VARIABLES
  place,      \* where the conversation lives; never changes
  log,        \* the event files, in on-disk order
  nextId,     \* the id of the next event
  head,       \* [leaf, empty, running]: leaf_event_id, head_is_empty and
              \* whether execution_status is RUNNING, in memory
  saved,      \* the same in base_state.json
  pc,         \* where the process is (see Points)
  left,       \* calls of the response that are not recorded yet
  batch,      \* the actions that are being executed
  crashes,    \* crashes so far
  lost,       \* event files lost so far
  torn,       \* history: a crash found a result behind an action still open
  births,     \* history: for event n, the event it was appended behind
  flushed,    \* history: the events that were on the active branch at a save
  acked       \* history: messages for which send_message has returned

logVars == <<place, log, nextId, births>>
workVars == <<left, batch>>
faultVars == <<crashes, lost, torn>>
vars == <<logVars, head, saved, pc, workVars, faultVars, flushed, acked>>

\* "rest" nothing holds the state lock; "sent" a message is written and the
\* block of send_message not left; "llm", "acting", "invalid" (a call that failed
\* validation is recorded and its error is not) and "results" the parts of a
\* step; "done" a step that is over, its block not left; "recover" the status is
\* reset and the recovery event not written, "recovered" it is written and HEAD
\* is not saved; "down" after a crash.
Points == {"rest", "sent", "llm", "acting", "invalid", "results", "done", "recover",
           "recovered", "down"}

-----------------------------------------------------------------------------
(* EventLog: the tree *)

\* get_index in a log s; 0 when the event is unknown.
IndexIn(s, id) ==
  IF \E i \in 1..Len(s) : s[i].id = id
  THEN CHOOSE i \in 1..Len(s) : s[i].id = id ELSE 0

\* Seeded fault: a lost parent ends the branch.
EffectiveParentNoBridge(s, i) ==
  IF s[i].parent \in {NoId, RootId} \/ IndexIn(s, s[i].parent) # 0
  THEN IF s[i].parent = RootId THEN NoId
       ELSE IF s[i].parent # NoId THEN s[i].parent
       ELSE IF i = 1 THEN NoId ELSE s[i - 1].id
  ELSE NoId

\* _effective_parent_id: an explicit parent if it is there; an event without
\* one, or whose parent is lost, hangs behind its neighbour in the log.
EffectiveParent(s, i) ==
  IF s[i].parent = RootId THEN NoId
  ELSE IF s[i].parent # NoId /\ IndexIn(s, s[i].parent) # 0 THEN s[i].parent
  ELSE IF i = 1 THEN NoId ELSE s[i - 1].id

\* path_to_root, as a sequence, root first.
PathToRoot(s, leaf) ==
  LET path[i \in 0..Len(s)] ==
        IF i = 0 THEN <<>> ELSE Append(path[IndexIn(s, EffectiveParent(s, i))], s[i])
  IN  path[IndexIn(s, leaf)]

IdsOf(path) == {path[i].id : i \in 1..Len(path)}

ActionsIn(path) == {path[i].id : i \in {j \in 1..Len(path) : path[j].kind = "act"}}
AnsweredIn(path) == {path[i].call : i \in {j \in 1..Len(path) : path[j].kind = "res"}}

\* get_unmatched_actions.
UnmatchedIn(path) == ActionsIn(path) \ AnsweredIn(path)

\* The first event of s whose id is in S.
FirstIn(s, S) ==
  s[CHOOSE i \in 1..Len(s) : s[i].id \in S /\ \A j \in 1..(i - 1) : s[j].id \notin S].id

\* _resolve_active_leaf: no leaf and no deliberate empty HEAD is a
\* conversation from before the tree.
ActiveLeaf(s, h) ==
  IF h.leaf # NoId THEN h.leaf
  ELSE IF h.empty \/ s = <<>> THEN NoId ELSE s[Len(s)].id

ActiveBranch == PathToRoot(log, ActiveLeaf(log, head))

\* Seeded fault: a new root is not marked.
StampNoRoot == ActiveLeaf(log, head)

\* _stamp_parent_id.
Stamp ==
  IF ActiveLeaf(log, head) = NoId /\ log # <<>> THEN RootId ELSE ActiveLeaf(log, head)

\* Seeded fault: an append leaves head_is_empty set.
AppendEventStillEmpty(kind, call, parent) ==
  /\ nextId <= MaxEvents[place] /\ UNCHANGED place
  /\ log' = Append(log, [id |-> nextId, kind |-> kind, call |-> call, parent |-> parent])
  /\ nextId' = nextId + 1
  /\ births' = Append(births, parent)
  /\ head' = [head EXCEPT !.leaf = nextId]

\* append_event: the log, then HEAD in memory.  An event is an executable action,
\* the result of one, or ("msg") any other node of the tree.
AppendEvent(kind, call, parent) ==
  /\ nextId <= MaxEvents[place] /\ UNCHANGED place
  /\ log' = Append(log, [id |-> nextId, kind |-> kind, call |-> call, parent |-> parent])
  /\ nextId' = nextId + 1
  /\ births' = Append(births, parent)
  /\ head' = [head EXCEPT !.leaf = nextId, !.empty = FALSE]

\* Leaving the outermost block of the state writes base_state.json.
Flush(h) ==
  /\ head' = h
  /\ saved' = h
  /\ flushed' = flushed \cup IdsOf(PathToRoot(log, ActiveLeaf(log, h)))

\* A new conversation, or one with a linear history from before the tree.
Init ==
  /\ place \in Deployments
  /\ \E n \in {0, 2} :
       /\ log = [i \in 1..n |-> [id |-> i, kind |-> "msg", call |-> NoId, parent |-> NoId]]
       /\ nextId = n + 1
       /\ births = [i \in 1..n |-> i - 1]
       /\ flushed = 1..n
  /\ head = [leaf |-> NoId, empty |-> FALSE, running |-> FALSE]
  /\ saved = head
  /\ pc = "rest" /\ left = 0 /\ batch = {}
  /\ crashes = 0 /\ lost = 0 /\ torn = FALSE /\ acked = {}

-----------------------------------------------------------------------------
(* Clients *)

\* send_message() while no step runs.
SendMessage ==
  /\ pc = "rest"
  /\ AppendEvent("msg", NoId, Stamp)
  /\ pc' = "sent"
  /\ UNCHANGED <<saved, workVars, faultVars, flushed, acked>>

SendReturns ==
  /\ pc = "sent"
  /\ Flush(head)
  /\ acked' = acked \cup {head.leaf}
  /\ pc' = "rest"
  /\ UNCHANGED <<logVars, workVars, faultVars>>

\* send_message() while arun() waits for the LLM: the step's block is still
\* open (_save_depth), so leaving this one saves nothing.
SendDuringCall ==
  /\ pc = "llm"
  /\ AppendEvent("msg", NoId, Stamp)
  /\ acked' = acked \cup {nextId}
  /\ UNCHANGED <<saved, pc, workVars, faultVars, flushed>>

\* navigate_to() whenever the state lock is free, a run on or not: between steps,
\* or while arun() waits for the LLM, when leaving the block saves nothing.
NavigateTo(id) ==
  /\ place = "local" /\ pc \in {"rest", "llm"}
  /\ id = NoId \/ IndexIn(log, id) # 0
  /\ LET h == [head EXCEPT !.leaf = id, !.empty = (id = NoId)]
     IN  IF pc = "rest" THEN Flush(h) ELSE head' = h /\ UNCHANGED <<saved, flushed>>
  /\ UNCHANGED <<logVars, pc, workVars, faultVars, acked>>

-----------------------------------------------------------------------------
(* The run loop, as far as it appends events *)

\* RUNNING is saved before the first step; a step executes the pending actions
\* of the active branch if there are any.
BeginStep ==
  /\ pc = "rest"
  /\ Flush([head EXCEPT !.running = TRUE])
  /\ LET pending == UnmatchedIn(ActiveBranch)
     IN  IF pending # {}
         THEN pc' = "results" /\ batch' = pending
         ELSE pc' = "llm" /\ UNCHANGED batch
  /\ UNCHANGED <<logVars, left, faultVars, acked>>

ReplyText ==
  /\ pc = "llm"
  /\ AppendEvent("msg", NoId, Stamp)
  /\ pc' = "done"
  /\ UNCHANGED <<saved, workVars, faultVars, flushed, acked>>

ReplyCalls(n) ==
  /\ pc = "llm"
  /\ left' = n /\ batch' = {} /\ pc' = "acting"
  /\ UNCHANGED <<logVars, head, saved, faultVars, flushed, acked>>

RecordAction ==
  /\ pc = "acting"
  /\ AppendEvent("act", NoId, Stamp)
  /\ batch' = batch \cup {nextId}
  /\ left' = left - 1
  /\ pc' = IF left = 1 THEN "results" ELSE "acting"
  /\ UNCHANGED <<saved, faultVars, flushed, acked>>

\* A call that fails validation is recorded without an executable action, so that
\* get_unmatched_actions never finds it ...
RecordInvalid ==
  /\ pc = "acting"
  /\ AppendEvent("msg", NoId, Stamp)
  /\ pc' = "invalid"
  /\ UNCHANGED <<saved, workVars, faultVars, flushed, acked>>

\* ... and its error at once, before the next call of the response.
RecordError ==
  /\ pc = "invalid"
  /\ AppendEvent("msg", NoId, Stamp)
  /\ left' = left - 1
  /\ pc' = IF left > 1 THEN "acting" ELSE IF batch = {} THEN "done" ELSE "results"
  /\ UNCHANGED <<saved, batch, faultVars, flushed, acked>>

\* The results of a batch are emitted in the order of its actions.
RecordResult ==
  /\ pc = "results"
  /\ LET action == FirstIn(log, batch)
     IN  AppendEvent("res", action, Stamp) /\ batch' = batch \ {action}
  /\ pc' = IF batch' = {} THEN "done" ELSE "results"
  /\ UNCHANGED <<saved, left, faultVars, flushed, acked>>

\* Seeded fault: the step's block does not save HEAD.
EndStepUnsaved ==
  /\ pc = "done"
  /\ \E r \in BOOLEAN : head' = [head EXCEPT !.running = r]
  /\ saved' = [saved EXCEPT !.running = head'.running]
  /\ flushed' = flushed \cup IdsOf(ActiveBranch)
  /\ pc' = "rest"
  /\ UNCHANGED <<logVars, workVars, faultVars, acked>>

\* The block of the step is left; the run goes on or is over.
EndStep ==
  /\ pc = "done"
  /\ \E r \in BOOLEAN : Flush([head EXCEPT !.running = r])
  /\ pc' = "rest"
  /\ UNCHANGED <<logVars, workVars, faultVars, acked>>

-----------------------------------------------------------------------------
(* Crash and reload *)

\* A result has been recorded behind an action that is still open: the results of
\* a response with several calls are not all there.
Torn ==
  \E i, j, k \in 1..Len(log) :
    /\ i < j /\ j < k
    /\ log[j].id \in UnmatchedIn(log)
    /\ log[k].kind = "res" /\ log[k].call = log[i].id

Crash ==
  /\ pc # "down" /\ crashes < MaxCrashes[place]
  /\ crashes' = crashes + 1
  /\ torn' = (torn \/ Torn)
  /\ pc' = "down"
  /\ head' = [leaf |-> NoId, empty |-> FALSE, running |-> FALSE]
  /\ left' = 0 /\ batch' = {}
  /\ UNCHANGED <<logVars, saved, lost, flushed, acked>>

LoseFile(i) ==
  /\ pc = "down" /\ lost < MaxLost[place]
  /\ lost' = lost + 1
  /\ log' = SubSeq(log, 1, i - 1) \o SubSeq(log, i + 1, Len(log))
  /\ UNCHANGED <<place, nextId, births, head, saved, pc, workVars, crashes, torn, flushed, acked>>

\* ConversationState.create on the resume path: a HEAD whose event is lost
\* moves to the last event (_repair_missing_leaf).  The server also replaces a
\* RUNNING status by ERROR.
Reload ==
  /\ pc = "down"
  /\ LET leaf == IF saved.leaf # NoId /\ IndexIn(log, saved.leaf) = 0
                 THEN ActiveLeaf(log, [saved EXCEPT !.leaf = NoId]) ELSE saved.leaf
         stale == place = "server" /\ saved.running
     IN  /\ head' = [saved EXCEPT !.leaf = leaf, !.running = (saved.running /\ ~stale)]
         /\ saved' = head'
         /\ pc' = IF stale THEN "recover" ELSE "rest"
  /\ UNCHANGED <<logVars, workVars, faultVars, flushed, acked>>

\* Seeded fault: the recovery event is stamped with HEAD.
RecoverBehindHead ==
  /\ pc = "recover"
  /\ LET orphans == UnmatchedIn(log)
         first == FirstIn(log, orphans)
     IN  IF orphans = {}
         THEN pc' = "rest" /\ UNCHANGED <<logVars, head>>
         ELSE pc' = "recovered" /\ AppendEvent("res", first, Stamp)
  /\ UNCHANGED <<saved, workVars, faultVars, flushed, acked>>

\* EventService.start: the first action of the whole log without a result gets
\* one, explicitly behind the action ...
Recover ==
  /\ pc = "recover"
  /\ LET orphans == UnmatchedIn(log)
         first == FirstIn(log, orphans)
     IN  IF orphans = {}
         THEN pc' = "rest" /\ UNCHANGED <<logVars, head>>
         ELSE pc' = "recovered" /\ AppendEvent("res", first, first)
  /\ UNCHANGED <<saved, workVars, faultVars, flushed, acked>>

\* ... and then the new HEAD is saved: no block of the state is open here.
RecoverySaves ==
  /\ pc = "recovered"
  /\ Flush(head)
  /\ pc' = "rest"
  /\ UNCHANGED <<logVars, workVars, faultVars, acked>>

-----------------------------------------------------------------------------
Next ==
  \/ SendMessage \/ SendReturns \/ SendDuringCall
  \/ \E id \in 0..MaxEvents[place] : NavigateTo(id)
  \/ BeginStep
  \/ ReplyText
  \/ \E n \in 1..MaxCalls : ReplyCalls(n)
  \/ RecordAction \/ RecordInvalid \/ RecordError \/ RecordResult \/ EndStep
  \/ Crash
  \/ \E i \in 1..Len(log) : LoseFile(i)
  \/ Reload \/ Recover \/ RecoverySaves

Spec == Init /\ [][Next]_vars

-----------------------------------------------------------------------------
(* fork(): a copy of the log, or of one branch *)

\* Seeded fault: a copied event keeps the id of a lost parent.
CopyEventForForkVerbatim(i) == log[i]

\* _copy_event_for_fork.
CopyEventForFork(i) ==
  IF log[i].parent \in {NoId, RootId} \/ IndexIn(log, log[i].parent) # 0
  THEN log[i] ELSE [log[i] EXCEPT !.parent = EffectiveParent(log, i)]

ForkedLog == [i \in 1..Len(log) |-> CopyEventForFork(i)]

ForkedBranch(id) ==
  LET path == PathToRoot(log, id)
  IN  [i \in 1..Len(path) |-> CopyEventForFork(IndexIn(log, path[i].id))]

\* EventLog.append raises ValueError on an explicit parent it does not know.
AppendsAll(s) ==
  \A i \in 1..Len(s) : s[i].parent \in {NoId, RootId} \cup {s[j].id : j \in 1..(i - 1)}

-----------------------------------------------------------------------------
(* Properties *)

LogIds == {log[i].id : i \in 1..Len(log)}

Heads == [leaf : 0..MaxEvents[place], empty : BOOLEAN, running : BOOLEAN]

\* Types; a HEAD names an event of the log or is deliberately empty, never both.
TypeOK ==
  /\ place \in Deployments
  /\ nextId \in 1..(MaxEvents[place] + 1)
  /\ LogIds \subseteq 1..(nextId - 1)
  /\ pc \in Points
  /\ head \in Heads /\ saved \in Heads
  /\ head.empty => head.leaf = NoId
  /\ pc # "down" => head.leaf \in LogIds \cup {NoId}
  /\ left \in 0..MaxCalls
  /\ batch \subseteq 1..MaxEvents[place]
  /\ flushed \subseteq 1..MaxEvents[place] /\ acked \subseteq 1..MaxEvents[place]

\* The events a given event was appended behind, itself included, lost or not.
AncestorsIn(b, id) ==
  LET up[n \in -1..Len(b)] == IF n < 1 THEN {} ELSE {n} \cup up[b[n]]
  IN  up[id]

AncestorsOf(id) == AncestorsIn(births, id)

\* Without lost files a branch is exactly the events its leaf was appended
\* behind, across navigation, new roots, crashes and pre-tree history: no
\* abandoned event leaks into a prompt.
BranchExact ==
  lost = 0 => \A id \in LogIds : IdsOf(PathToRoot(log, id)) = AncestorsOf(id)

\* "The branch keeps its surviving ancestors ... instead of ending at the hole"
\* (_effective_parent_id), where nobody navigates.  A second crash may let the
\* recovery go back to an older action; then the neighbour is on another branch.
AncestorsKept ==
  place = "server" /\ lost > 0 /\ crashes <= 1 =>
    \A id \in LogIds : AncestorsOf(id) \cap LogIds \subseteq IdsOf(PathToRoot(log, id))

\* The agent is shown its branch and no other, whatever files got lost.
BranchSound == TypeOK /\ BranchExact /\ AncestorsKept

\* What was saved once stays in the agent's context: crashes and the recovery
\* of interrupted tools ("there are no abandoned branches to exclude here",
\* EventService.start) never move HEAD off events that a save had covered, unless
\* a second recovery finds an action that the first one left.
FlushedOnBranch ==
  place = "server" /\ lost = 0 /\ crashes <= 1 /\ pc # "down" =>
    flushed \subseteq IdsOf(ActiveBranch)

\* "Context manager exit - flushes any deferred save" (ConversationState): a
\* message whose send_message has returned survives a crash on the active
\* branch.
AckedOnBranch == pc # "down" => acked \subseteq IdsOf(ActiveBranch)

\* Between steps the active branch pairs actions and results: the next step would
\* execute an action without a result again, and a result without its action
\* breaks the condenser (the comments of the recovery in EventService.start).
RestMatched == pc = "rest" => ActionsIn(ActiveBranch) = AnsweredIn(ActiveBranch)

\* It does so through one crash at any point of a step, with any number of calls
\* in the response, and its recovery, unless the crash came when some of the
\* response's results were recorded and some were not.
BranchMatched == place = "server" /\ lost = 0 /\ crashes <= 1 /\ ~torn => RestMatched

\* "Parent the recovery result to the action explicitly; otherwise normal tree
\* stamping attaches it to the stale HEAD, making the action and result siblings"
\* (EventService.start): also between two results.  The code does not keep this:
\* the result that was there becomes the sibling, and its action is open again.
RecoveryPairs == place = "server" /\ lost = 0 /\ crashes <= 1 => RestMatched

\* A fork made between steps can append every event it copies, and its branches
\* are those of the source, lost files included.
ForkKeepsBranches ==
  pc = "rest" =>
  /\ AppendsAll(ForkedLog)
  /\ \A id \in LogIds :
       /\ AppendsAll(ForkedBranch(id))
       /\ IdsOf(PathToRoot(ForkedLog, id)) = IdsOf(PathToRoot(log, id))
       /\ IdsOf(PathToRoot(ForkedBranch(id), id)) = IdsOf(PathToRoot(log, id))
=============================================================================
