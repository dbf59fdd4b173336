-------------------------- MODULE ConversationRun --------------------------
(***************************************************************************)
(* The run loop of a conversation and the calls that race with it:         *)
(* LocalConversation.run / arun, send_message, pause, interrupt and        *)
(* reject_pending_actions (openhands-sdk/openhands/sdk/conversation/impl/  *)
(* local_conversation.py) with Agent.step / astep (agent/agent.py and      *)
(* agent/response_dispatch.py).  The ACP branch of arun is not modelled.   *)
(*                                                                         *)
(* The state lock is the fair mutex of FairMutex.  Clients hold it only    *)
(* inside one call, so their critical sections are single actions; the run *)
(* loop holds it across a step, except that astep gives it up while it     *)
(* waits for the LLM (and, for the same message, for the masking of        *)
(* secrets: one window here, as nothing is decided in between), and again  *)
(* while it masks the verdict of the security analyzer.                    *)
(*                                                                         *)
(* User messages are numbered; the tool calls of one LLM response are the  *)
(* kinds "tool", "finish" and "after" (a call placed after the finish      *)
(* call).                                                                  *)
(***************************************************************************)
EXTENDS Naturals, Sequences

CONSTANTS
  Settings,       \* the conversations looked at, see SettingType
  Modes,          \* the kinds of run used: "sync" for run(), "async" for arun()
  MaxMessages,    \* bound: user messages
  MaxIterations,  \* max_iteration_per_run
  MaxRuns         \* bound: calls of run() / arun()

\* The threads that race with the run; whether the confirmation policy may ask, a
\* security analyzer is installed, stop hooks and prompt hooks are installed.
SettingType ==
  [ clients : SUBSET {"sender", "pauser", "rejecter"},
    confirm : BOOLEAN, analyzer : BOOLEAN, hooks : BOOLEAN ]

ASSUME SettingsAssumption == Settings \subseteq SettingType /\ Settings # {}
ASSUME ModesAssumption == Modes \subseteq {"sync", "async"} /\ Modes # {}
ASSUME BoundsAssumption ==
  MaxMessages \in Nat /\ MaxIterations \in Nat \ {0} /\ MaxRuns \in Nat

VARIABLES
  setting,      \* which of the settings this conversation has
  status,       \* execution_status
  held,         \* the run loop holds the state lock
  queue,        \* who waits for it, in FIFO order
  pc,           \* where the run loop is (see RunPoints)
  mode,         \* the kind of the current run
  pausing,      \* history: pause() set PAUSED since run() or arun() was last called:
                \* "yes", or "early" if that run had not marked RUNNING yet
  runs,         \* runs started
  iteration,    \* the loop's counter
  msgs,         \* number of the latest message a client sent
  snap,         \* last_user_message_id as read before the step (arun)
  read,         \* latest message an LLM prompt has contained
  blocked,      \* last_user_message_id is in blocked_messages
  verdict,      \* history: what the prompt hooks said of the latest message with
                \* source "user", and whether a step has skipped it
  pending,      \* unmatched actions of the latest response
  batch,        \* the actions the step is about to execute or executes
  begun,        \* those of its actions whose execution has begun
  cancelReq,    \* task.cancel() is scheduled on the loop
  seen          \* what reject_pending_actions read before it takes the lock:
                \* <<>>, or whether it is about `pending` still, the actions,
                \* and whether no run was on

runVars == <<pc, mode, runs, pausing, iteration, cancelReq>>
msgVars == <<msgs, snap, read, blocked, verdict>>
actVars == <<pending, batch, begun, seen>>
lockVars == <<held, queue>>
vars == <<setting, status, lockVars, runVars, msgVars, actVars>>

Clients == setting.clients
Confirm == setting.confirm
Analyzer == setting.analyzer
Hooks == setting.hooks

Statuses == {"idle", "running", "paused", "waiting", "finished", "error", "stuck"}
Kinds == {"tool", "finish", "after"}

(***************************************************************************)
(* "off"       no run                                                      *)
(* "init"      arun awaits _ensure_agent_ready on a worker thread          *)
(* "start"     before the first block under the lock                       *)
(* "top"       at the head of `while True`, before the lock                *)
(* "llm"       in the LLM call (the async one without the lock)            *)
(* "reply"     the answer is there; reacquiring the lock (async)           *)
(* "audit"     the analyzer's verdict is masked (async, without the lock)  *)
(* "audited"   the same, reacquiring the lock                              *)
(* "tools"     the tool calls run; lock held                               *)
(* "post"      after the step; lock held                                   *)
(* "cancelled" in `except CancelledError`, before the lock                 *)
(* "raised"    in `except Exception`, before the lock                      *)
(***************************************************************************)
NeedsLock == {"start", "top", "reply", "audited", "cancelled", "raised"}
RunPoints == NeedsLock \cup {"off", "init", "llm", "audit", "tools", "post"}

Queued(a) == \E i \in 1..Len(queue) : queue[i] = a

\* a may enter its block under the lock now: it is first in line, or there is
\* no line.
MayTake(a) ==
  /\ ~held
  /\ IF Queued(a) THEN Head(queue) = a ELSE queue = <<>>

QueueAfter(a) == IF Queued(a) THEN Tail(queue) ELSE queue

\* a waits for the lock; it joins the end of the queue.
JoinQueue(a) ==
  /\ ~Queued(a)
  /\ ~MayTake(a)
  /\ queue' = Append(queue, a)
  /\ UNCHANGED <<status, held, runVars, msgVars, actVars>>

\* a's block under the lock is one action.
Briefly(a) ==
  /\ MayTake(a)
  /\ queue' = QueueAfter(a)
  /\ UNCHANGED held

Init ==
  /\ setting \in Settings
  /\ status = "idle"
  /\ held = FALSE /\ queue = <<>>
  /\ pc = "off" /\ mode \in Modes /\ runs = 0 /\ iteration = 0
  /\ cancelReq = FALSE /\ pausing = "no"
  /\ msgs = 0 /\ snap = 0 /\ read = 0 /\ blocked = FALSE
  /\ verdict = "accepted"
  /\ pending = {} /\ batch = {} /\ begun = {} /\ seen = <<>>

-----------------------------------------------------------------------------
(* run() and arun() *)

StartRun ==
  /\ pc = "off"
  /\ runs < MaxRuns
  /\ runs' = runs + 1
  /\ mode' \in Modes
  /\ pc' = IF mode' = "async" THEN "init" ELSE "start"
  /\ iteration' = 0
  /\ cancelReq' = FALSE
  /\ pausing' = "no"
  /\ UNCHANGED <<status, lockVars, msgVars, actVars>>

AgentReady ==
  /\ pc = "init"
  /\ pc' = "start"
  /\ UNCHANGED <<status, lockVars, mode, runs, pausing, iteration, cancelReq, msgVars, actVars>>

RunJoinsQueue == pc \in NeedsLock /\ JoinQueue("run")

MarkRunning ==
  /\ pc = "start"
  /\ Briefly("run")
  /\ status' = IF status \in {"idle", "paused", "error", "stuck"} THEN "running" ELSE status
  /\ pc' = "top"
  /\ UNCHANGED <<mode, runs, pausing, iteration, cancelReq, msgVars, actVars>>

\* The run is over; a cancellation that comes later finds the task done.
EndRun == pc' = "off" /\ cancelReq' = FALSE /\ UNCHANGED <<mode, runs, pausing, iteration>>

\* Seeded fault: STUCK does not leave the loop.
TopBreakNotStuck ==
  /\ pc = "top"
  /\ Briefly("run")
  /\ status \in {"paused", "finished"}
  /\ EndRun
  /\ UNCHANGED <<status, msgVars, actVars>>

\* PAUSED or STUCK, or FINISHED and the stop hooks allow it: leave the loop.
TopBreak ==
  /\ pc = "top"
  /\ Briefly("run")
  /\ status \in {"paused", "stuck", "finished"}
  /\ EndRun
  /\ UNCHANGED <<status, msgVars, actVars>>

\* A stop hook denies: the loop goes on.
TopHookDenies ==
  /\ pc = "top"
  /\ Briefly("run")
  /\ Hooks /\ status = "finished"
  /\ status' = "running"
  /\ UNCHANGED <<runVars, msgVars, actVars>>

\* The stuck detector fires; the next turn of the loop leaves it.
TopStuck ==
  /\ pc = "top"
  /\ Briefly("run")
  /\ status \notin {"paused", "stuck", "finished"}
  /\ status' = "stuck"
  /\ UNCHANGED <<runVars, msgVars, actVars>>

\* The actions of S that a batch executes (_truncate_at_finish): calls after
\* the finish call are discarded.
UpToFinish(S) == IF "finish" \in S THEN S \ {"after"} ELSE S

\* A step begins: pending actions first (implicit confirmation), then the
\* blocked message, then the LLM call, for which astep drops the lock.
StepBegin ==
  /\ pc = "top"
  /\ MayTake("run")
  /\ status \notin {"paused", "stuck", "finished"}
  /\ queue' = QueueAfter("run")
  /\ snap' = msgs
  /\ LET st == IF status = "waiting" THEN "running" ELSE status
     IN  IF pending # {}
         THEN /\ pc' = "tools" /\ held' = TRUE /\ status' = st
              /\ batch' = pending
              /\ begun' = begun \cup UpToFinish(pending)
              /\ UNCHANGED <<read, blocked, verdict>>
         ELSE IF blocked
         THEN /\ pc' = "post" /\ held' = TRUE /\ status' = "finished"
              /\ blocked' = FALSE /\ verdict' = "skipped"
              /\ UNCHANGED <<read, batch, begun>>
         ELSE /\ pc' = "llm" /\ held' = (mode = "sync") /\ status' = st
              /\ read' = msgs
              /\ UNCHANGED <<blocked, verdict, batch, begun>>
  /\ UNCHANGED <<mode, runs, pausing, iteration, cancelReq, msgs, pending, seen>>

\* What arun() awaits without the lock is there: the LLM's answer, or the
\* masked verdict.  The step asks for the lock again.
LLMAnswers ==
  /\ mode = "async"
  /\ \/ pc = "llm" /\ pc' = "reply"
     \/ pc = "audit" /\ pc' = "audited"
  /\ UNCHANGED <<status, lockVars, mode, runs, pausing, iteration, cancelReq, msgVars, actVars>>

\* The step holds the lock and has the answer.
HasReply ==
  \/ pc = "llm" /\ mode = "sync" /\ UNCHANGED queue
  \/ pc = "reply" /\ MayTake("run") /\ queue' = QueueAfter("run")

\* Text: the agent's turn is over.
ReplyContent ==
  /\ HasReply
  /\ held' = TRUE /\ status' = "finished" /\ pc' = "post"
  /\ UNCHANGED <<mode, runs, pausing, iteration, cancelReq, msgVars, actVars>>

\* An event with source "user", from a client or from the agent, passes the
\* prompt hooks and becomes last_user_message_id.  A hook that denies it puts
\* its id in blocked_messages; one that adds context gives it a new id.
EmitUserMessage ==
  \E deny \in {FALSE, Hooks}, addContext \in {FALSE, Hooks} :
    /\ verdict' = IF deny THEN "denied" ELSE "accepted"
    /\ blocked' = (deny /\ ~addContext)

\* No content or a condensation: the loop tries again.  After a malformed call
\* or a filtered answer, with a message of source "user".
ReplyAgain ==
  /\ HasReply
  /\ held' = TRUE /\ pc' = "post"
  /\ UNCHANGED <<blocked, verdict>> \/ EmitUserMessage
  /\ UNCHANGED <<status, mode, runs, pausing, iteration, cancelReq, msgs, snap, read, actVars>>

\* Either the policy asks, never for a lone finish, or the actions of S are
\* executed.
ConfirmOrExecute(S) ==
  /\ held' = TRUE
  /\ \/ /\ Confirm /\ S # {"finish"} /\ status' = "waiting"
        /\ pc' = "post" /\ batch' = {} /\ begun' = {}
     \/ /\ UNCHANGED status
        /\ pc' = "tools" /\ batch' = S /\ begun' = UpToFinish(S)

\* Tool calls: every call becomes an ActionEvent.  With an analyzer astep then
\* gives the lock up once more.
ReplyTools(S) ==
  /\ HasReply
  /\ S # {} /\ ("after" \in S => "finish" \in S)
  /\ pending' = S
  /\ seen' = IF seen = <<>> THEN seen ELSE <<FALSE, seen[2], seen[3]>>
  /\ IF Analyzer /\ mode = "async" /\ S # {"finish"}
     THEN /\ held' = FALSE /\ pc' = "audit" /\ batch' = S /\ begun' = {}
          /\ UNCHANGED status
     ELSE ConfirmOrExecute(S)
  /\ UNCHANGED <<mode, runs, pausing, iteration, cancelReq, msgVars>>

\* The verdict is recorded and the policy applied to the actions of the answer,
\* whatever became of them meanwhile.
Audited ==
  /\ pc = "audited" /\ MayTake("run") /\ queue' = QueueAfter("run")
  /\ ConfirmOrExecute(batch)
  /\ UNCHANGED <<mode, runs, pausing, iteration, cancelReq, msgVars, pending, seen>>

\* The LLM call fails for good; the `with` block is left.
ReplyRaises ==
  /\ HasReply
  /\ held' = FALSE /\ pc' = "raised"
  /\ UNCHANGED <<status, mode, runs, pausing, iteration, cancelReq, msgVars, actVars>>

\* The batch is executed and its results are emitted; finish ends the turn
\* unless a hook blocked it or iterative refinement asks for more.
ToolsDone ==
  /\ pc = "tools"
  /\ pending' = pending \ UpToFinish(batch)
  /\ batch' = {}
  /\ \/ "finish" \in batch /\ status' = "finished" /\ UNCHANGED <<blocked, verdict>>
     \/ UNCHANGED <<status, blocked, verdict>>
     \/ "finish" \in batch /\ UNCHANGED status /\ EmitUserMessage
  /\ pc' = "post"
  /\ UNCHANGED <<lockVars, mode, runs, pausing, iteration, cancelReq, msgs, snap, read, begun, seen>>

\* Seeded fault: one iteration too many.
LimitsOffByOne(st, finished) ==
  /\ held' = FALSE
  /\ iteration' = iteration + 1
  /\ UNCHANGED <<mode, runs, pausing>>
  /\ \/ st = "waiting" /\ status' = st /\ pc' = "off" /\ cancelReq' = FALSE
     \/ /\ st # "waiting"
        /\ IF iteration < MaxIterations
           THEN status' = st /\ pc' = "top" /\ UNCHANGED cancelReq
           ELSE /\ status' = IF st = "finished" THEN st ELSE "error"
                /\ pc' = "off" /\ cancelReq' = FALSE

\* After the step: limits.  st is the status, finished whether the step ended
\* the turn.
Limits(st, finished) ==
  /\ held' = FALSE
  /\ iteration' = iteration + 1
  /\ UNCHANGED <<mode, runs, pausing>>
  /\ \/ st = "waiting" /\ status' = st /\ pc' = "off" /\ cancelReq' = FALSE
     \/ st # "waiting" /\ ~finished          \* the budget is spent
          /\ status' = "error" /\ pc' = "off" /\ cancelReq' = FALSE
     \/ /\ st # "waiting"
        /\ IF iteration + 1 < MaxIterations
           THEN status' = st /\ pc' = "top" /\ UNCHANGED cancelReq
           ELSE /\ status' = IF st = "finished" THEN st ELSE "error"
                /\ pc' = "off" /\ cancelReq' = FALSE

PostSync ==
  /\ pc = "post" /\ mode = "sync"
  /\ Limits(status, status = "finished")
  /\ UNCHANGED <<queue, msgVars, actVars>>

\* A message landed during the step and the step ended the turn or waits for
\* confirmation.
Superseded == msgs # snap /\ status \in {"finished", "waiting"}

\* Seeded fault: arun() does not look for messages after the step.
PostAsyncNoRescan ==
  /\ pc = "post" /\ mode = "async"
  /\ Limits(status, status = "finished")
  /\ UNCHANGED <<queue, msgVars, actVars>>

PostAsync ==
  /\ pc = "post" /\ mode = "async"
  /\ pending' = IF Superseded /\ status = "waiting" THEN {} ELSE pending
  /\ IF Superseded /\ iteration + 1 >= MaxIterations
     THEN /\ status' = "idle" /\ pc' = "off" /\ held' = FALSE /\ cancelReq' = FALSE
          /\ iteration' = iteration + 1 /\ UNCHANGED <<mode, runs, pausing>>
     ELSE Limits(IF Superseded THEN "running" ELSE status, status = "finished")
  /\ UNCHANGED <<queue, msgVars, batch, begun, seen>>

\* The scheduled task.cancel() reaches arun() at one of its awaits.
CancelLands ==
  /\ cancelReq
  /\ pc \in {"init", "llm", "audit", "tools"} /\ mode = "async"
  /\ cancelReq' = FALSE
  /\ held' = FALSE
  /\ IF pc = "init"       \* outside the try block
     THEN pc' = "off"
     ELSE pc' = "cancelled"
  /\ batch' = {}
  /\ UNCHANGED <<status, queue, mode, runs, pausing, iteration, msgVars, pending, begun, seen>>

\* Seeded fault: the actions in flight get no synthetic error.
HandleCancelNoErrors ==
  /\ pc = "cancelled"
  /\ Briefly("run")
  /\ status' = "paused"
  /\ EndRun
  /\ UNCHANGED <<msgVars, actVars>>

\* except CancelledError: synthetic errors for orphaned actions, PAUSED.
HandleCancel ==
  /\ pc = "cancelled"
  /\ Briefly("run")
  /\ pending' = {}
  /\ status' = "paused"
  /\ EndRun
  /\ UNCHANGED <<msgVars, batch, begun, seen>>

\* Seeded fault: the error handler leaves the status alone.
HandleErrorSilent ==
  /\ pc = "raised"
  /\ Briefly("run")
  /\ EndRun
  /\ UNCHANGED <<status, msgVars, actVars>>

\* except Exception: ERROR and a ConversationErrorEvent.
HandleError ==
  /\ pc = "raised"
  /\ Briefly("run")
  /\ status' = "error"
  /\ EndRun
  /\ UNCHANGED <<msgVars, actVars>>

-----------------------------------------------------------------------------
(* The calls of other threads *)

WantsLock(c) ==
  \/ c = "sender" /\ msgs < MaxMessages
  \/ c = "pauser" /\ status # "paused"
  \/ c = "rejecter" /\ seen # <<>>

ClientJoinsQueue(c) == WantsLock(c) /\ JoinQueue(c)

\* Seeded fault: a new message does not reset FINISHED or STUCK.
SendMessageNoReset ==
  /\ "sender" \in Clients /\ Briefly("sender")
  /\ msgs < MaxMessages
  /\ msgs' = msgs + 1
  /\ EmitUserMessage
  /\ UNCHANGED <<status, runVars, snap, read, actVars>>

\* Seeded fault: a new message also takes the conversation out of PAUSED.
SendMessageUnpauses ==
  /\ "sender" \in Clients /\ Briefly("sender")
  /\ msgs < MaxMessages
  /\ msgs' = msgs + 1
  /\ EmitUserMessage
  /\ status' = IF status \in {"finished", "stuck", "paused"} THEN "idle" ELSE status
  /\ UNCHANGED <<runVars, snap, read, actVars>>

\* send_message(): a terminal status is reset and the message is recorded.
SendMessage ==
  /\ "sender" \in Clients /\ Briefly("sender")
  /\ msgs < MaxMessages
  /\ msgs' = msgs + 1
  /\ EmitUserMessage
  /\ status' = IF status \in {"finished", "stuck"} THEN "idle" ELSE status
  /\ UNCHANGED <<runVars, snap, read, actVars>>

\* pause(): the status is read before the lock and again under it.
Pause ==
  /\ "pauser" \in Clients /\ Briefly("pauser")
  /\ Queued("pauser") \/ status # "paused"
  /\ IF status \in {"idle", "running"}
     THEN status' = "paused" /\ pausing' = IF pc \in {"init", "start"} THEN "early" ELSE "yes"
     ELSE UNCHANGED <<status, pausing>>
  /\ UNCHANGED <<pc, mode, runs, iteration, cancelReq, msgVars, actVars>>

\* interrupt() with an arun() task; without one it is pause().
Interrupt ==
  /\ mode = "async" /\ pc # "off"
  /\ ~cancelReq
  /\ cancelReq' = TRUE
  /\ UNCHANGED <<status, lockVars, pc, mode, runs, pausing, iteration, msgVars, actVars>>

\* reject_pending_actions() reads the unmatched actions without the lock ...
RejectRead ==
  /\ "rejecter" \in Clients
  /\ seen = <<>>
  /\ seen' = <<TRUE, pending, pc = "off">>
  /\ UNCHANGED <<status, lockVars, runVars, msgVars, pending, batch, begun>>

\* ... and emits a UserRejectObservation for each of them under it.
RejectApply ==
  /\ Briefly("rejecter")
  /\ seen # <<>>
  /\ status' = IF status = "waiting" THEN "idle" ELSE status
  /\ pending' = IF seen[1] THEN pending \ seen[2] ELSE pending
  /\ seen' = <<>>
  /\ UNCHANGED <<runVars, msgVars, batch, begun>>

-----------------------------------------------------------------------------
RunStep ==
  \/ AgentReady
  \/ RunJoinsQueue
  \/ MarkRunning
  \/ TopBreak \/ TopHookDenies \/ TopStuck \/ StepBegin
  \/ LLMAnswers
  \/ ReplyContent \/ ReplyAgain \/ ReplyRaises
  \/ \E S \in SUBSET Kinds : ReplyTools(S)
  \/ Audited
  \/ ToolsDone
  \/ PostSync \/ PostAsync
  \/ CancelLands \/ HandleCancel \/ HandleError

ClientLocked == SendMessage \/ Pause \/ RejectApply

Next ==
  /\ \/ StartRun
     \/ RunStep
     \/ Interrupt
     \/ RejectRead
     \/ \E c \in Clients : ClientJoinsQueue(c)
     \/ ClientLocked
  /\ UNCHANGED setting

Spec == Init /\ [][Next]_vars

\* The run's thread is scheduled, LLM calls and tools end, and a client that
\* waits for the lock takes it when its turn comes.
FairSpec ==
  /\ Spec
  /\ WF_vars(RunStep /\ UNCHANGED setting)
  /\ WF_vars(SendMessage /\ Queued("sender") /\ UNCHANGED setting)
  /\ WF_vars(Pause /\ Queued("pauser") /\ UNCHANGED setting)
  /\ WF_vars(RejectApply /\ Queued("rejecter") /\ UNCHANGED setting)

-----------------------------------------------------------------------------
(* Properties *)

\* Types of the conversation's state, of the lock and of the loop.
TypeOK ==
  /\ setting \in Settings
  /\ status \in Statuses
  /\ held \in BOOLEAN
  /\ queue \in Seq(Clients \cup {"run"})
  /\ pc \in RunPoints
  /\ mode \in Modes
  /\ runs \in 0..MaxRuns
  /\ iteration \in 0..MaxIterations
  /\ msgs \in 0..MaxMessages /\ snap \in 0..MaxMessages /\ read \in 0..MaxMessages
  /\ pending \in SUBSET Kinds /\ batch \in SUBSET Kinds /\ begun \in SUBSET Kinds
  /\ cancelReq \in BOOLEAN /\ blocked \in BOOLEAN /\ pausing \in {"no", "early", "yes"}
  /\ verdict \in {"accepted", "denied", "skipped"}
  /\ seen = <<>> \/ seen \in BOOLEAN \X (SUBSET Kinds) \X BOOLEAN

\* No message is lost at the end of a turn: when a run has left the
\* conversation FINISHED, every message was in a prompt, whenever it arrived and
\* whichever run it raced with, unless a prompt hook denied the last one.  (With
\* a confirmation policy a run first carries out what waits, a finish included.)
FinishedMeansRead ==
  pc = "off" /\ status = "finished" /\ ~Confirm => read = msgs \/ verdict # "accepted"

\* A conversation without a run never says RUNNING: every way out of the loop,
\* errors and interrupts included, leaves a status a client can act on.
NotRunningAtRest == pc = "off" => status # "running"

\* What a client finds when no run is on: no turn ended on an unread message, and
\* the status is one it can act on.
RestSound == TypeOK /\ FinishedMeansRead /\ NotRunningAtRest

\* No tool call is executed twice: a call that was in flight when the run was
\* interrupted or failed is not taken for a pending one by the next run.
CallsRunOnce ==
  [][pc = "top" /\ pc' = "tools" => begun \cap UpToFinish(pending) = {}]_vars

\* When arun() stops to wait for confirmation, no newer message has come since
\* the step that proposed the actions began.
WaitingIsCurrent ==
  [][pc = "post" /\ pc' = "off" /\ status' = "waiting" => msgs = snap]_vars

\* A run ends, whatever hooks, senders and pausers do.
RunEnds == pc # "off" ~> pc = "off"

\* A step of a run of kind m begins.
StepBegins(m) == mode = m /\ pc = "top" /\ pc' \in {"llm", "tools", "post"}

\* "The pause will take effect at the next iteration of the run loop" (pause):
\* once the loop of run() has marked the conversation RUNNING and pause() has set
\* PAUSED, whichever messages, hooks and limits follow, no further step begins
\* until run() or arun() is called again.
PauseHoldsLoop == [][StepBegins("sync") => pausing # "yes"]_vars

\* The same from the call of run() on.  The code does not keep this: the first
\* block under the lock takes a pause that came before it for one of an earlier
\* time, and sets RUNNING.
PauseHoldsRun == [][StepBegins("sync") => pausing = "no"]_vars

\* The same of the loop of arun(), where the pause can land during the LLM call.
PauseHoldsArun == [][StepBegins("async") => pausing # "yes"]_vars

\* "Tools after FinishTool are discarded and never executed" (a test of the
\* executor): also not by the next run.
DiscardedStaysDiscarded ==
  [][pc = "tools" /\ pc' = "post" => "after" \notin UpToFinish(batch)]_vars

\* "arun() catches the resulting CancelledError, sets execution status to
\* PAUSED, and emits an InterruptEvent" (interrupt): the error never leaves it.
InterruptIsCaught == [][pc = "init" => pc' # "off"]_vars

\* "The Agent will check this and skip processing the message" (the prompt
\* hooks): no prompt is built on a message that was denied and not skipped.
DeniedIsSkipped == [][pc = "top" /\ pc' = "llm" => verdict # "denied"]_vars

\* "Reject all pending actions from the agent", "between run() calls"
\* (reject_pending_actions): a call made between two runs rejects only actions
\* that are still pending, so that none has a result and a rejection.  The code
\* does not keep this: it reads the actions before it waits for the lock.
RejectsOnlyPending ==
  [][seen # <<>> /\ seen' = <<>> /\ seen[3] =>
       seen[2] \subseteq (IF seen[1] THEN pending ELSE {})]_vars
=============================================================================
