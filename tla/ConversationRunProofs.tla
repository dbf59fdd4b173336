------------------------ MODULE ConversationRunProofs ------------------------
(***************************************************************************)
(* Proofs about ConversationRun for every combination of clients, hooks,   *)
(* confirmation policy and analyzer, and for any number of messages, runs  *)
(* and iterations.                                                         *)
(***************************************************************************)
EXTENDS ConversationRun, TLAPS

\* The run loop holds the state lock exactly while it executes tools or looks at
\* the outcome of a step, and in run() during the LLM call too.
LockPlaces ==
  held <=> pc \in {"tools", "post"} \/ (pc = "llm" /\ mode = "sync")

\* A run that is on has an iteration left; only arun() gives the lock up in a step.
LoopPlaces ==
  /\ pc # "off" => iteration < MaxIterations
  /\ pc \in {"reply", "audit", "audited"} => mode = "async"

\* Where a conversation can be RUNNING or FINISHED.
StatusPlaces ==
  /\ pc \in {"off", "init", "start"} => status # "running"
  /\ status = "finished" => pc \in {"off", "init", "start", "top", "post"}

\* What the run has read of the conversation.  Before the verdict of a step is
\* looked at, its prompt is as new as the snapshot taken when the step began;
\* and run() holds the lock, so that no message comes after the snapshot.
ReadPlaces ==
  /\ pc \in {"llm", "reply", "audit", "audited"} => read = snap
  /\ pc = "tools" /\ "finish" \in batch /\ ~Confirm => read = snap
  /\ mode = "sync" /\ pc \in {"llm", "tools", "post"} => msgs = snap
  /\ pc = "post" /\ status = "finished" /\ ~Confirm => read = snap \/ verdict # "accepted"
  /\ pc \in {"off", "init", "start", "top"} /\ status = "finished" /\ ~Confirm =>
       read = msgs \/ verdict # "accepted"

\* What can be pending: nothing while a prompt is built, never a finish call
\* between two steps unless a policy asked, and never a call that has begun
\* unless it is being executed or was cancelled.
PendingPlaces ==
  /\ pc \in {"llm", "reply", "raised"} => pending = {}
  /\ pc \notin {"tools", "audit", "audited", "cancelled"} /\ ~Confirm => "finish" \notin pending
  /\ pc \in {"tools", "audit", "audited"} => pending \subseteq batch
  /\ pc \notin {"tools", "cancelled"} => begun \cap pending = {}
  /\ pc = "tools" => begun \cap (pending \ UpToFinish(batch)) = {}

\* run() sees a pause that came after it marked RUNNING: it is PAUSED when it
\* comes back to the head of the loop.
PausePlaces ==
  mode = "sync" => /\ pc = "top" /\ pausing = "yes" => status = "paused"
                   /\ pc \in {"init", "start", "llm", "tools", "post"} => pausing # "yes"

IInv ==
  /\ TypeOK
  /\ LockPlaces
  /\ LoopPlaces
  /\ StatusPlaces
  /\ ReadPlaces
  /\ PendingPlaces
  /\ PausePlaces

-----------------------------------------------------------------------------
(* The lock *)

\* Whoever takes the lock leaves the queue well typed.
LEMMA QueueAfterType ==
  ASSUME TypeOK, NEW a
  PROVE  QueueAfter(a) \in Seq(Clients \cup {"run"})
<1>1. queue \in Seq(Clients \cup {"run"})
  BY DEF TypeOK
<1>2. Queued(a) => queue # <<>>
  BY <1>1 DEF Queued
<1>. QED
  BY <1>1, <1>2 DEF QueueAfter

\* Nobody else's block under the lock runs while the run loop holds it.
LEMMA LockIsFree ==
  ASSUME IInv, NEW a, MayTake(a)
  PROVE  ~held /\ pc \notin {"tools", "post"} /\ ~(pc = "llm" /\ mode = "sync")
<1>. QED
  BY DEF IInv, LockPlaces, MayTake

-----------------------------------------------------------------------------
(* The run loop: one lemma per action or group of like actions *)

\* A run is started, and its agent becomes ready.
LEMMA StartsKeep ==
  ASSUME IInv, StartRun \/ AgentReady, UNCHANGED setting
  PROVE  IInv'
<1>. USE DEF IInv, runVars, msgVars, actVars, lockVars, RunPoints, NeedsLock, Statuses
<1>1. Clients' = Clients /\ Confirm' = Confirm
  BY DEF Clients, Confirm
<1>2. runs' \in 0..MaxRuns /\ iteration' \in 0..MaxIterations /\ mode' \in Modes
  BY BoundsAssumption DEF TypeOK, StartRun, AgentReady
<1>3. TypeOK'
  BY ZenonT(60), <1>1, <1>2 DEF TypeOK, StartRun, AgentReady
<1>4. LockPlaces' /\ LoopPlaces' /\ StatusPlaces'
  BY BoundsAssumption DEF LockPlaces, LoopPlaces, StatusPlaces, StartRun, AgentReady
<1>5. ReadPlaces'
  BY <1>1 DEF ReadPlaces, StartRun, AgentReady
<1>6. PendingPlaces'
  BY <1>1 DEF PendingPlaces, StartRun, AgentReady
<1>7. PausePlaces'
  BY DEF PausePlaces, StartRun, AgentReady
<1>. QED
  BY <1>3, <1>4, <1>5, <1>6, <1>7

\* Somebody joins the queue of the lock.
LEMMA JoinKeeps ==
  ASSUME IInv, NEW a \in Clients \cup {"run"}, JoinQueue(a), UNCHANGED setting
  PROVE  IInv'
<1>. USE DEF IInv, runVars, msgVars, actVars, lockVars, RunPoints, NeedsLock, Statuses
<1>1. Clients' = Clients /\ Confirm' = Confirm
  BY DEF Clients, Confirm
<1>2. TypeOK'
  BY <1>1 DEF TypeOK, JoinQueue
<1>3. LockPlaces' /\ LoopPlaces' /\ StatusPlaces'
  BY DEF LockPlaces, LoopPlaces, StatusPlaces, JoinQueue
<1>4. ReadPlaces'
  BY <1>1 DEF ReadPlaces, JoinQueue
<1>5. PendingPlaces'
  BY <1>1 DEF PendingPlaces, JoinQueue
<1>6. PausePlaces'
  BY DEF PausePlaces, JoinQueue
<1>. QED
  BY <1>2, <1>3, <1>4, <1>5, <1>6

\* The run marks the conversation RUNNING, over a pause that came before.
LEMMA MarkRunningKeeps ==
  ASSUME IInv, MarkRunning, UNCHANGED setting
  PROVE  IInv'
<1>. USE DEF IInv, runVars, msgVars, actVars, lockVars, RunPoints, NeedsLock, Statuses
<1>1. Clients' = Clients /\ Confirm' = Confirm
  BY DEF Clients, Confirm
<1>2. QueueAfter("run") \in Seq(Clients \cup {"run"})
  BY QueueAfterType
<1>3. ~held /\ pc \notin {"tools", "post"} /\ ~(pc = "llm" /\ mode = "sync")
  BY LockIsFree DEF Briefly, MarkRunning
<1>4. TypeOK'
  BY <1>1, <1>2 DEF TypeOK, MarkRunning, Briefly
<1>5. LockPlaces' /\ LoopPlaces' /\ StatusPlaces'
  BY DEF LockPlaces, LoopPlaces, StatusPlaces, MarkRunning, Briefly
<1>6. ReadPlaces'
  BY <1>1 DEF ReadPlaces, MarkRunning
<1>7. PendingPlaces'
  BY <1>1 DEF PendingPlaces, MarkRunning
<1>8. PausePlaces'
  BY DEF PausePlaces, MarkRunning
<1>. QED
  BY <1>4, <1>5, <1>6, <1>7, <1>8

\* The loop is left, a stop hook denies, or the stuck detector fires.
LEMMA TopKeeps ==
  ASSUME IInv, TopBreak \/ TopHookDenies \/ TopStuck, UNCHANGED setting
  PROVE  IInv'
<1>. USE DEF IInv, runVars, msgVars, actVars, lockVars, RunPoints, NeedsLock, Statuses
<1>1. Clients' = Clients /\ Confirm' = Confirm
  BY DEF Clients, Confirm
<1>2. QueueAfter("run") \in Seq(Clients \cup {"run"})
  BY QueueAfterType
<1>3. ~held /\ pc \notin {"tools", "post"} /\ ~(pc = "llm" /\ mode = "sync")
  BY LockIsFree DEF Briefly, TopBreak, TopHookDenies, TopStuck
<1>4. TypeOK'
  BY ZenonT(60), <1>1, <1>2 DEF TypeOK, TopBreak, TopHookDenies, TopStuck, EndRun, Briefly
<1>5. LockPlaces' /\ LoopPlaces' /\ StatusPlaces'
  BY DEF LockPlaces, LoopPlaces, StatusPlaces, TopBreak, TopHookDenies, TopStuck,
     EndRun, Briefly
<1>6. ReadPlaces'
  BY <1>1 DEF ReadPlaces, TopBreak, TopHookDenies, TopStuck, EndRun
<1>7. PendingPlaces'
  BY <1>1 DEF PendingPlaces, TopBreak, TopHookDenies, TopStuck, EndRun
<1>8. PausePlaces'
  BY DEF PausePlaces, TopBreak, TopHookDenies, TopStuck, EndRun
<1>. QED
  BY <1>4, <1>5, <1>6, <1>7, <1>8

\* A step begins: with the pending actions, with a blocked message, or with a
\* prompt that has every message.
LEMMA StepBeginKeeps ==
  ASSUME IInv, StepBegin, UNCHANGED setting
  PROVE  IInv'
<1>. USE DEF IInv, runVars, msgVars, actVars, lockVars, RunPoints, NeedsLock, Statuses
<1>1. Clients' = Clients /\ Confirm' = Confirm
  BY DEF Clients, Confirm
<1>2. QueueAfter("run") \in Seq(Clients \cup {"run"})
  BY QueueAfterType
<1>3. ~held /\ pc \notin {"tools", "post"} /\ ~(pc = "llm" /\ mode = "sync")
  BY LockIsFree DEF Briefly, StepBegin
<1>4. TypeOK'
  BY ZenonT(60), <1>1, <1>2 DEF TypeOK, StepBegin, UpToFinish
<1>5. LockPlaces' /\ LoopPlaces' /\ StatusPlaces'
  BY DEF LockPlaces, LoopPlaces, StatusPlaces, StepBegin
<1>6. ReadPlaces'
  BY <1>1 DEF ReadPlaces, PendingPlaces, StepBegin
<1>7. PendingPlaces'
  BY DEF PendingPlaces, StepBegin
<1>8. PausePlaces'
  BY DEF PausePlaces, StepBegin
<1>. QED
  BY <1>4, <1>5, <1>6, <1>7, <1>8

\* The answer is there, or the masked verdict.
LEMMA LLMAnswersKeeps ==
  ASSUME IInv, LLMAnswers, UNCHANGED setting
  PROVE  IInv'
<1>. USE DEF IInv, runVars, msgVars, actVars, lockVars, RunPoints, NeedsLock, Statuses
<1>1. Clients' = Clients /\ Confirm' = Confirm
  BY DEF Clients, Confirm
<1>2. TypeOK'
  BY <1>1 DEF TypeOK, LLMAnswers
<1>3. LockPlaces' /\ LoopPlaces' /\ StatusPlaces'
  BY DEF LockPlaces, LoopPlaces, StatusPlaces, LLMAnswers
<1>4. ReadPlaces'
  BY DEF ReadPlaces, LLMAnswers
<1>5. PendingPlaces'
  BY DEF PendingPlaces, LLMAnswers
<1>6. PausePlaces'
  BY DEF PausePlaces, LLMAnswers
<1>. QED
  BY <1>2, <1>3, <1>4, <1>5, <1>6

\* What the prompt hooks leave is well typed.
LEMMA EmitType == EmitUserMessage => blocked' \in BOOLEAN /\ verdict' \in {"accepted", "denied"}
<1>. QED
  BY DEF EmitUserMessage

\* Where the step is when it has the answer and the lock.
LEMMA ReplyPlace ==
  ASSUME IInv, HasReply
  PROVE  /\ queue' \in Seq(Clients \cup {"run"})
         /\ pc \in {"llm", "reply"} /\ pending = {} /\ read = snap
         /\ status # "finished" /\ (mode = "sync" => msgs = snap /\ pausing # "yes")
         /\ iteration < MaxIterations
<1>. USE DEF IInv, runVars, msgVars, actVars, lockVars, RunPoints, NeedsLock, Statuses
<1>1. queue' \in Seq(Clients \cup {"run"})
  BY QueueAfterType DEF HasReply, TypeOK
<1>. QED
  BY <1>1 DEF HasReply, LoopPlaces, StatusPlaces, ReadPlaces, PendingPlaces, PausePlaces

\* The answer is text: the turn is over.
LEMMA ReplyTextKeeps ==
  ASSUME IInv, ReplyContent, UNCHANGED setting
  PROVE  IInv'
<1>. USE DEF IInv, runVars, msgVars, actVars, lockVars, RunPoints, NeedsLock, Statuses
<1>1. Clients' = Clients /\ Confirm' = Confirm
  BY DEF Clients, Confirm
<1>2. /\ queue' \in Seq(Clients \cup {"run"})
      /\ pc \in {"llm", "reply"} /\ pending = {} /\ read = snap
      /\ status # "finished" /\ (mode = "sync" => msgs = snap /\ pausing # "yes")
      /\ iteration < MaxIterations
  BY ReplyPlace DEF ReplyContent
<1>3. TypeOK'
  BY <1>1, <1>2 DEF TypeOK, ReplyContent
<1>4. LockPlaces' /\ LoopPlaces' /\ StatusPlaces'
  BY <1>2 DEF LockPlaces, LoopPlaces, StatusPlaces, ReplyContent
<1>5. ReadPlaces'
  BY <1>2 DEF ReadPlaces, ReplyContent
<1>6. PendingPlaces'
  BY <1>2 DEF PendingPlaces, ReplyContent
<1>7. PausePlaces'
  BY <1>2 DEF PausePlaces, ReplyContent
<1>. QED
  BY <1>3, <1>4, <1>5, <1>6, <1>7

\* The answer is of no use: the loop tries again.
LEMMA ReplyAgainKeeps ==
  ASSUME IInv, ReplyAgain, UNCHANGED setting
  PROVE  IInv'
<1>. USE DEF IInv, runVars, msgVars, actVars, lockVars, RunPoints, NeedsLock, Statuses
<1>1. Clients' = Clients /\ Confirm' = Confirm
  BY DEF Clients, Confirm
<1>2. /\ queue' \in Seq(Clients \cup {"run"})
      /\ pc \in {"llm", "reply"} /\ pending = {} /\ read = snap
      /\ status # "finished" /\ (mode = "sync" => msgs = snap /\ pausing # "yes")
      /\ iteration < MaxIterations
  BY ReplyPlace DEF ReplyAgain
<1>3. TypeOK'
  BY ZenonT(60), <1>1, <1>2 DEF TypeOK, ReplyAgain, EmitUserMessage
<1>4. LockPlaces' /\ LoopPlaces' /\ StatusPlaces'
  BY <1>2 DEF LockPlaces, LoopPlaces, StatusPlaces, ReplyAgain
<1>5. ReadPlaces'
  BY <1>2 DEF ReadPlaces, ReplyAgain
<1>6. PendingPlaces'
  BY <1>2 DEF PendingPlaces, ReplyAgain
<1>7. PausePlaces'
  BY <1>2 DEF PausePlaces, ReplyAgain
<1>. QED
  BY <1>3, <1>4, <1>5, <1>6, <1>7

\* The LLM call fails for good.
LEMMA ReplyRaisesKeeps ==
  ASSUME IInv, ReplyRaises, UNCHANGED setting
  PROVE  IInv'
<1>. USE DEF IInv, runVars, msgVars, actVars, lockVars, RunPoints, NeedsLock, Statuses
<1>1. Clients' = Clients /\ Confirm' = Confirm
  BY DEF Clients, Confirm
<1>2. /\ queue' \in Seq(Clients \cup {"run"})
      /\ pc \in {"llm", "reply"} /\ pending = {} /\ read = snap
      /\ status # "finished" /\ (mode = "sync" => msgs = snap /\ pausing # "yes")
      /\ iteration < MaxIterations
  BY ReplyPlace DEF ReplyRaises
<1>3. TypeOK'
  BY ZenonT(60), <1>1, <1>2 DEF TypeOK, ReplyRaises
<1>4. LockPlaces' /\ LoopPlaces' /\ StatusPlaces'
  BY <1>2 DEF LockPlaces, LoopPlaces, StatusPlaces, ReplyRaises
<1>5. ReadPlaces'
  BY DEF ReadPlaces, ReplyRaises
<1>6. PendingPlaces'
  BY <1>2 DEF PendingPlaces, ReplyRaises
<1>7. PausePlaces'
  BY DEF PausePlaces, ReplyRaises
<1>. QED
  BY <1>3, <1>4, <1>5, <1>6, <1>7

\* The answer has tool calls: they are executed, held back for confirmation, or
\* looked at by the analyzer first.
LEMMA ReplyToolsKeeps ==
  ASSUME IInv, NEW S \in SUBSET Kinds, ReplyTools(S), UNCHANGED setting
  PROVE  IInv'
<1>. USE DEF IInv, runVars, msgVars, actVars, lockVars, RunPoints, NeedsLock, Statuses
<1>1. Clients' = Clients /\ Confirm' = Confirm
  BY DEF Clients, Confirm
<1>2. /\ queue' \in Seq(Clients \cup {"run"})
      /\ pc \in {"llm", "reply"} /\ pending = {} /\ read = snap
      /\ status # "finished" /\ (mode = "sync" => msgs = snap /\ pausing # "yes")
      /\ iteration < MaxIterations
  BY ReplyPlace DEF ReplyTools
<1>3. TypeOK'
  BY ZenonT(60), <1>1, <1>2 DEF TypeOK, ReplyTools, ConfirmOrExecute, UpToFinish
<1>4. LockPlaces' /\ LoopPlaces' /\ StatusPlaces'
  BY <1>2 DEF LockPlaces, LoopPlaces, StatusPlaces, ReplyTools, ConfirmOrExecute
<1>5. ReadPlaces'
  BY <1>2 DEF ReadPlaces, ReplyTools, ConfirmOrExecute
<1>6. PendingPlaces'
  BY <1>1 DEF PendingPlaces, ReplyTools, ConfirmOrExecute
<1>7. PausePlaces'
  BY <1>2 DEF PausePlaces, ReplyTools
<1>. QED
  BY <1>3, <1>4, <1>5, <1>6, <1>7

\* The masked verdict is there, and the policy is applied.
LEMMA AuditedKeeps ==
  ASSUME IInv, Audited, UNCHANGED setting
  PROVE  IInv'
<1>. USE DEF IInv, runVars, msgVars, actVars, lockVars, RunPoints, NeedsLock, Statuses
<1>1. Clients' = Clients /\ Confirm' = Confirm
  BY DEF Clients, Confirm
<1>2. QueueAfter("run") \in Seq(Clients \cup {"run"})
  BY QueueAfterType
<1>3. ~held /\ pc \notin {"tools", "post"} /\ ~(pc = "llm" /\ mode = "sync")
  BY LockIsFree DEF Briefly, Audited
<1>4. TypeOK'
  BY <1>1, <1>2 DEF TypeOK, Audited, ConfirmOrExecute, UpToFinish
<1>5. LockPlaces' /\ LoopPlaces' /\ StatusPlaces'
  BY DEF LockPlaces, LoopPlaces, StatusPlaces, Audited, ConfirmOrExecute
<1>6. ReadPlaces'
  BY DEF LoopPlaces, ReadPlaces, Audited, ConfirmOrExecute
<1>7. PendingPlaces'
  BY <1>1 DEF PendingPlaces, Audited, ConfirmOrExecute
<1>8. PausePlaces'
  BY DEF LoopPlaces, PausePlaces, Audited
<1>. QED
  BY <1>4, <1>5, <1>6, <1>7, <1>8

\* The batch is executed; what it did not execute stays pending.
LEMMA ToolsDoneKeeps ==
  ASSUME IInv, ToolsDone, UNCHANGED setting
  PROVE  IInv'
<1>. USE DEF IInv, runVars, msgVars, actVars, lockVars, RunPoints, NeedsLock, Statuses
<1>1. Clients' = Clients /\ Confirm' = Confirm
  BY DEF Clients, Confirm
<1>2. TypeOK'
  BY <1>1, EmitType DEF TypeOK, ToolsDone, UpToFinish
<1>3. LockPlaces' /\ LoopPlaces' /\ StatusPlaces'
  BY DEF LockPlaces, LoopPlaces, StatusPlaces, ToolsDone
<1>4. ReadPlaces'
  BY <1>1 DEF StatusPlaces, ReadPlaces, ToolsDone
<1>5. PendingPlaces'
  BY DEF PendingPlaces, ToolsDone, UpToFinish
<1>6. PausePlaces'
  BY DEF PausePlaces, ToolsDone
<1>. QED
  BY <1>2, <1>3, <1>4, <1>5, <1>6

\* run() looks at the outcome of the step.
LEMMA PostSyncKeeps ==
  ASSUME IInv, PostSync, UNCHANGED setting
  PROVE  IInv'
<1>. USE DEF IInv, runVars, msgVars, actVars, lockVars, RunPoints, NeedsLock, Statuses
<1>1. Clients' = Clients /\ Confirm' = Confirm
  BY DEF Clients, Confirm
<1>2. iteration' = iteration + 1 /\ iteration' \in 0..MaxIterations
  BY BoundsAssumption DEF TypeOK, LoopPlaces, Limits, PostSync
<1>3. TypeOK'
  BY ZenonT(60), <1>1, <1>2 DEF TypeOK, PostSync, Limits
<1>4. LockPlaces' /\ LoopPlaces' /\ StatusPlaces'
  BY DEF LockPlaces, LoopPlaces, StatusPlaces, PostSync, Limits
<1>5. ReadPlaces'
  BY <1>1 DEF ReadPlaces, PostSync, Limits
<1>6. PendingPlaces'
  BY <1>1 DEF PendingPlaces, PostSync, Limits
<1>7. PausePlaces'
  BY DEF PausePlaces, PostSync, Limits
<1>. QED
  BY <1>3, <1>4, <1>5, <1>6, <1>7

\* arun() does so too, and looks for messages that came during the step.
LEMMA PostAsyncKeeps ==
  ASSUME IInv, PostAsync, UNCHANGED setting
  PROVE  IInv'
<1>. USE DEF IInv, runVars, msgVars, actVars, lockVars, RunPoints, NeedsLock, Statuses
<1>1. Clients' = Clients /\ Confirm' = Confirm
  BY DEF Clients, Confirm
<1>2. iteration' = iteration + 1 /\ iteration' \in 0..MaxIterations
  BY BoundsAssumption DEF TypeOK, LoopPlaces, Limits, PostAsync
<1>3. TypeOK'
  BY ZenonT(60), <1>1, <1>2 DEF TypeOK, PostAsync, Limits
<1>4. LockPlaces' /\ LoopPlaces' /\ StatusPlaces'
  BY DEF LockPlaces, LoopPlaces, StatusPlaces, PostAsync, Limits
<1>5. ReadPlaces'
  BY <1>1 DEF ReadPlaces, PostAsync, Limits, Superseded
<1>6. PendingPlaces'
  BY <1>1 DEF PendingPlaces, PostAsync, Limits
<1>7. PausePlaces'
  BY DEF PausePlaces, PostAsync, Limits
<1>. QED
  BY <1>3, <1>4, <1>5, <1>6, <1>7

\* The cancellation reaches arun() at an await.
LEMMA CancelLandsKeeps ==
  ASSUME IInv, CancelLands, UNCHANGED setting
  PROVE  IInv'
<1>. USE DEF IInv, runVars, msgVars, actVars, lockVars, RunPoints, NeedsLock, Statuses
<1>1. Clients' = Clients /\ Confirm' = Confirm
  BY DEF Clients, Confirm
<1>2. TypeOK'
  BY ZenonT(60), <1>1 DEF TypeOK, CancelLands
<1>3. LockPlaces' /\ LoopPlaces' /\ StatusPlaces'
  BY DEF LockPlaces, LoopPlaces, StatusPlaces, CancelLands
<1>4. ReadPlaces'
  BY <1>1 DEF ReadPlaces, CancelLands
<1>5. PendingPlaces'
  BY <1>1 DEF PendingPlaces, CancelLands
<1>6. PausePlaces'
  BY DEF PausePlaces, CancelLands
<1>. QED
  BY <1>2, <1>3, <1>4, <1>5, <1>6

\* The handlers of a cancellation and of an exception end the run.
LEMMA HandlersKeep ==
  ASSUME IInv, HandleCancel \/ HandleError, UNCHANGED setting
  PROVE  IInv'
<1>. USE DEF IInv, runVars, msgVars, actVars, lockVars, RunPoints, NeedsLock, Statuses
<1>1. Clients' = Clients /\ Confirm' = Confirm
  BY DEF Clients, Confirm
<1>2. QueueAfter("run") \in Seq(Clients \cup {"run"})
  BY QueueAfterType
<1>3. ~held /\ pc \notin {"tools", "post"} /\ ~(pc = "llm" /\ mode = "sync")
  BY LockIsFree DEF Briefly, HandleCancel, HandleError
<1>4. TypeOK'
  BY <1>1, <1>2 DEF TypeOK, HandleCancel, HandleError, EndRun, Briefly
<1>5. LockPlaces' /\ LoopPlaces' /\ StatusPlaces'
  BY DEF LockPlaces, LoopPlaces, StatusPlaces, HandleCancel, HandleError, EndRun,
     Briefly
<1>6. ReadPlaces'
  BY DEF ReadPlaces, HandleCancel, HandleError, EndRun
<1>7. PendingPlaces'
  BY DEF PendingPlaces, HandleCancel, HandleError
<1>8. PausePlaces'
  BY DEF PausePlaces, HandleCancel, HandleError, EndRun
<1>. QED
  BY <1>4, <1>5, <1>6, <1>7, <1>8

-----------------------------------------------------------------------------
(* The calls of other threads *)

\* A message takes the conversation out of FINISHED and STUCK.
LEMMA SendMessageKeeps ==
  ASSUME IInv, SendMessage, UNCHANGED setting
  PROVE  IInv'
<1>. USE DEF IInv, runVars, msgVars, actVars, lockVars, RunPoints, NeedsLock, Statuses
<1>1. Clients' = Clients /\ Confirm' = Confirm
  BY DEF Clients, Confirm
<1>2. QueueAfter("sender") \in Seq(Clients \cup {"run"})
  BY QueueAfterType
<1>3. ~held /\ pc \notin {"tools", "post"} /\ ~(pc = "llm" /\ mode = "sync")
  BY LockIsFree DEF Briefly, SendMessage
<1>4. msgs' \in 0..MaxMessages
  BY BoundsAssumption DEF SendMessage, TypeOK
<1>5. TypeOK'
  BY <1>1, <1>2, EmitType, <1>4 DEF TypeOK, SendMessage, Briefly
<1>6. LockPlaces' /\ LoopPlaces' /\ StatusPlaces'
  BY DEF LockPlaces, LoopPlaces, StatusPlaces, SendMessage, Briefly
<1>7. ReadPlaces'
  BY <1>3 DEF ReadPlaces, SendMessage
<1>8. PendingPlaces'
  BY <1>1 DEF PendingPlaces, SendMessage
<1>9. PausePlaces'
  BY DEF PausePlaces, SendMessage
<1>. QED
  BY <1>5, <1>6, <1>7, <1>8, <1>9

\* A pause never lands inside a step of run().
LEMMA PauseKeeps ==
  ASSUME IInv, Pause, UNCHANGED setting
  PROVE  IInv'
<1>. USE DEF IInv, runVars, msgVars, actVars, lockVars, RunPoints, NeedsLock, Statuses
<1>1. Clients' = Clients /\ Confirm' = Confirm
  BY DEF Clients, Confirm
<1>2. QueueAfter("pauser") \in Seq(Clients \cup {"run"})
  BY QueueAfterType
<1>3. ~held /\ pc \notin {"tools", "post"} /\ ~(pc = "llm" /\ mode = "sync")
  BY LockIsFree DEF Briefly, Pause
<1>4. TypeOK'
  BY <1>1, <1>2 DEF TypeOK, Pause, Briefly
<1>5. LockPlaces' /\ LoopPlaces' /\ StatusPlaces'
  BY DEF LockPlaces, LoopPlaces, StatusPlaces, Pause, Briefly
<1>6. ReadPlaces'
  BY <1>1 DEF ReadPlaces, Pause
<1>7. PendingPlaces'
  BY <1>1 DEF PendingPlaces, Pause
<1>8. PausePlaces'
  BY <1>3 DEF PausePlaces, Pause
<1>. QED
  BY <1>4, <1>5, <1>6, <1>7, <1>8

\* An interrupt schedules the cancellation.
LEMMA InterruptKeeps ==
  ASSUME IInv, Interrupt, UNCHANGED setting
  PROVE  IInv'
<1>. USE DEF IInv, runVars, msgVars, actVars, lockVars, RunPoints, NeedsLock, Statuses
<1>1. Clients' = Clients /\ Confirm' = Confirm
  BY DEF Clients, Confirm
<1>2. TypeOK'
  BY <1>1 DEF TypeOK, Interrupt
<1>3. LockPlaces' /\ LoopPlaces' /\ StatusPlaces'
  BY DEF LockPlaces, LoopPlaces, StatusPlaces, Interrupt
<1>4. ReadPlaces'
  BY <1>1 DEF ReadPlaces, Interrupt
<1>5. PendingPlaces'
  BY <1>1 DEF PendingPlaces, Interrupt
<1>6. PausePlaces'
  BY DEF PausePlaces, Interrupt
<1>. QED
  BY <1>2, <1>3, <1>4, <1>5, <1>6

\* A rejection reads what is pending.
LEMMA RejectReadKeeps ==
  ASSUME IInv, RejectRead, UNCHANGED setting
  PROVE  IInv'
<1>. USE DEF IInv, runVars, msgVars, actVars, lockVars, RunPoints, NeedsLock, Statuses
<1>1. Clients' = Clients /\ Confirm' = Confirm
  BY DEF Clients, Confirm
<1>2. seen' \in BOOLEAN \X (SUBSET Kinds) \X BOOLEAN
  BY DEF RejectRead, TypeOK
<1>3. TypeOK'
  BY <1>1, <1>2 DEF TypeOK, RejectRead
<1>4. LockPlaces' /\ LoopPlaces' /\ StatusPlaces'
  BY DEF LockPlaces, LoopPlaces, StatusPlaces, RejectRead
<1>5. ReadPlaces'
  BY <1>1 DEF ReadPlaces, RejectRead
<1>6. PendingPlaces'
  BY <1>1 DEF PendingPlaces, RejectRead
<1>7. PausePlaces'
  BY DEF PausePlaces, RejectRead
<1>. QED
  BY <1>3, <1>4, <1>5, <1>6, <1>7

\* A rejection takes actions away and adds none.
LEMMA RejectApplyKeeps ==
  ASSUME IInv, RejectApply, UNCHANGED setting
  PROVE  IInv'
<1>. USE DEF IInv, runVars, msgVars, actVars, lockVars, RunPoints, NeedsLock, Statuses
<1>1. Clients' = Clients /\ Confirm' = Confirm
  BY DEF Clients, Confirm
<1>2. QueueAfter("rejecter") \in Seq(Clients \cup {"run"})
  BY QueueAfterType
<1>3. ~held /\ pc \notin {"tools", "post"} /\ ~(pc = "llm" /\ mode = "sync")
  BY LockIsFree DEF Briefly, RejectApply
<1>4. TypeOK'
  BY <1>1, <1>2 DEF TypeOK, RejectApply, Briefly
<1>5. LockPlaces' /\ LoopPlaces' /\ StatusPlaces'
  BY DEF LockPlaces, LoopPlaces, StatusPlaces, RejectApply, Briefly
<1>6. ReadPlaces'
  BY <1>1 DEF ReadPlaces, RejectApply
<1>7. PendingPlaces'
  BY <1>1 DEF PendingPlaces, RejectApply
<1>8. PausePlaces'
  BY DEF PausePlaces, RejectApply
<1>. QED
  BY <1>4, <1>5, <1>6, <1>7, <1>8

-----------------------------------------------------------------------------
(* The conversation *)

\* Every step of the run loop and of its clients keeps the inductive invariant.
LEMMA NextInv == IInv /\ [Next]_vars => IInv'
<1>. SUFFICES ASSUME IInv, [Next]_vars PROVE IInv'
  OBVIOUS
<1>1. CASE UNCHANGED vars
  <2>1. Clients' = Clients /\ Confirm' = Confirm
    BY <1>1 DEF vars, Clients, Confirm
  <2>. QED
    BY <1>1, <2>1 DEF vars, lockVars, runVars, msgVars, actVars, IInv, TypeOK,
       LockPlaces, LoopPlaces, StatusPlaces, ReadPlaces, PendingPlaces, PausePlaces
<1>2. CASE Next
  <2>1. UNCHANGED setting
    BY <1>2 DEF Next
  <2>2. ASSUME RunStep PROVE IInv'
    <3>1. CASE AgentReady
      BY <2>1, <3>1, StartsKeep
    <3>2. CASE RunJoinsQueue
      BY <2>1, <3>2, JoinKeeps DEF RunJoinsQueue
    <3>3. CASE MarkRunning
      BY <2>1, <3>3, MarkRunningKeeps
    <3>4. CASE TopBreak \/ TopHookDenies \/ TopStuck
      BY <2>1, <3>4, TopKeeps
    <3>5. CASE StepBegin
      BY <2>1, <3>5, StepBeginKeeps
    <3>6. CASE LLMAnswers
      BY <2>1, <3>6, LLMAnswersKeeps
    <3>7. CASE ReplyContent
      BY <2>1, <3>7, ReplyTextKeeps
    <3>8. CASE ReplyAgain
      BY <2>1, <3>8, ReplyAgainKeeps
    <3>9. CASE ReplyRaises
      BY <2>1, <3>9, ReplyRaisesKeeps
    <3>10. CASE \E S \in SUBSET Kinds : ReplyTools(S)
      BY <2>1, <3>10, ReplyToolsKeeps
    <3>11. CASE Audited
      BY <2>1, <3>11, AuditedKeeps
    <3>12. CASE ToolsDone
      BY <2>1, <3>12, ToolsDoneKeeps
    <3>13. CASE PostSync
      BY <2>1, <3>13, PostSyncKeeps
    <3>14. CASE PostAsync
      BY <2>1, <3>14, PostAsyncKeeps
    <3>15. CASE CancelLands
      BY <2>1, <3>15, CancelLandsKeeps
    <3>16. CASE HandleCancel \/ HandleError
      BY <2>1, <3>16, HandlersKeep
    <3>. QED
      BY <2>2, <3>1, <3>2, <3>3, <3>4, <3>5, <3>6, <3>7, <3>8, <3>9, <3>10, <3>11,
         <3>12, <3>13, <3>14, <3>15, <3>16 DEF RunStep
  <2>3. ASSUME NEW c \in Clients, ClientJoinsQueue(c) PROVE IInv'
    BY <2>1, <2>3, JoinKeeps DEF ClientJoinsQueue
  <2>4. ASSUME ClientLocked PROVE IInv'
    BY <2>1, <2>4, SendMessageKeeps, PauseKeeps, RejectApplyKeeps DEF ClientLocked
  <2>. QED
    BY <1>2, <2>2, <2>3, <2>4, StartsKeep, InterruptKeeps, RejectReadKeeps DEF Next
<1>. QED
  BY <1>1, <1>2

\* The inductive invariant holds in every reachable state, whatever clients,
\* hooks and policy the conversation has.
THEOREM ConversationInv == Spec => []IInv
<1>1. Init => IInv
  <2>. SUFFICES ASSUME Init PROVE IInv
    OBVIOUS
  <2>1. TypeOK
    <3>1. runs \in 0..MaxRuns /\ iteration \in 0..MaxIterations /\ msgs \in 0..MaxMessages
          /\ snap \in 0..MaxMessages /\ read \in 0..MaxMessages
      BY BoundsAssumption DEF Init
    <3>2. queue \in Seq(Clients \cup {"run"}) /\ seen = <<>>
      BY DEF Init
    <3>3. /\ setting \in Settings /\ status \in Statuses /\ pc \in RunPoints /\ mode \in Modes
          /\ verdict \in {"accepted", "denied", "skipped"}
          /\ pending \in SUBSET Kinds /\ batch \in SUBSET Kinds /\ begun \in SUBSET Kinds
      BY DEF Init, Statuses, RunPoints
    <3>4. /\ held \in BOOLEAN /\ cancelReq \in BOOLEAN /\ blocked \in BOOLEAN
          /\ pausing \in {"no", "early", "yes"}
      BY DEF Init
    <3>. QED
      BY <3>1, <3>2, <3>3, <3>4 DEF TypeOK
  <2>2. LockPlaces /\ LoopPlaces /\ StatusPlaces /\ ReadPlaces /\ PendingPlaces /\ PausePlaces
    BY DEF Init, LockPlaces, LoopPlaces, StatusPlaces, ReadPlaces, PendingPlaces,
       PausePlaces
  <2>. QED
    BY <2>1, <2>2 DEF IInv
<1>. QED
  BY <1>1, NextInv, PTL DEF Spec

\* When no run is on, the conversation does not say RUNNING, and a FINISHED one
\* has answered every message that the prompt hooks let through.
THEOREM RestSoundHolds == Spec => []RestSound
<1>1. IInv => RestSound
  BY DEF IInv, RestSound, FinishedMeansRead, NotRunningAtRest, StatusPlaces, ReadPlaces
<1>. QED
  BY <1>1, ConversationInv, PTL

\* Which actions of Next take the loop from its head into a step.
LEMMA StepBeginsIs ==
  ASSUME [Next]_vars, pc = "top", pc' \in {"llm", "tools", "post"}
  PROVE  StepBegin
<1>1. pc' # pc
  OBVIOUS
<1>2. Next
  BY <1>1 DEF vars, runVars
<1>3. ~(StartRun \/ Interrupt \/ RejectRead \/ ClientLocked)
  BY DEF StartRun, Interrupt, RejectRead, ClientLocked, SendMessage, Pause, RejectApply,
     runVars
<1>4. ~(\E c \in Clients : ClientJoinsQueue(c)) /\ ~RunJoinsQueue
  BY DEF ClientJoinsQueue, RunJoinsQueue, JoinQueue, runVars
<1>5. RunStep
  BY <1>2, <1>3, <1>4 DEF Next
<1>6. ~(AgentReady \/ MarkRunning \/ TopBreak \/ TopHookDenies \/ TopStuck \/ LLMAnswers)
  BY DEF AgentReady, MarkRunning, TopBreak, TopHookDenies, TopStuck, LLMAnswers, EndRun,
     runVars
<1>7. ~(ReplyContent \/ ReplyAgain \/ ReplyRaises \/ \E S \in SUBSET Kinds : ReplyTools(S))
  BY DEF ReplyContent, ReplyAgain, ReplyRaises, ReplyTools, HasReply
<1>8. ~(Audited \/ ToolsDone \/ PostSync \/ PostAsync \/ CancelLands \/ HandleCancel \/ HandleError)
  BY DEF Audited, ToolsDone, PostSync, PostAsync, CancelLands, HandleCancel, HandleError
<1>. QED
  BY <1>4, <1>5, <1>6, <1>7, <1>8 DEF RunStep

\* Once the loop of run() is on and pause() has set PAUSED, none of its steps
\* begins until run() or arun() is called again.
THEOREM PauseHoldsLoopHolds == Spec => PauseHoldsLoop
<1>1. IInv /\ [Next]_vars => [StepBegins("sync") => pausing # "yes"]_vars
  <2>. SUFFICES ASSUME IInv, [Next]_vars, StepBegins("sync") PROVE pausing # "yes"
    OBVIOUS
  <2>1. StepBegin /\ mode = "sync" /\ pc = "top"
    BY StepBeginsIs DEF StepBegins
  <2>. QED
    BY <2>1 DEF StepBegin, IInv, PausePlaces
<1>. QED
  BY <1>1, ConversationInv, PTL DEF Spec, PauseHoldsLoop

\* A tool call whose execution has begun is never executed again, although
\* interrupts and errors leave calls without a result.
THEOREM CallsRunOnceHolds == Spec => CallsRunOnce
<1>1. IInv /\ [Next]_vars => [pc = "top" /\ pc' = "tools" => begun \cap UpToFinish(pending) = {}]_vars
  BY DEF IInv, PendingPlaces, UpToFinish
<1>. QED
  BY <1>1, ConversationInv, PTL DEF Spec, CallsRunOnce

\* A run stops to wait for confirmation only if no message has come since the
\* step that proposed the actions began.
THEOREM WaitingIsCurrentHolds == Spec => WaitingIsCurrent
<1>1. IInv /\ [Next]_vars => [pc = "post" /\ pc' = "off" /\ status' = "waiting" => msgs = snap]_vars
  <2>. SUFFICES ASSUME IInv, [Next]_vars, pc = "post", pc' = "off", status' = "waiting"
                PROVE  msgs = snap
    OBVIOUS
  <2>1. pc' # pc /\ Next
    BY DEF vars, runVars
  <2>2. ~(StartRun \/ Interrupt \/ RejectRead \/ ClientLocked \/ \E c \in Clients : ClientJoinsQueue(c))
    BY DEF StartRun, Interrupt, RejectRead, ClientLocked, SendMessage, Pause,
       RejectApply, ClientJoinsQueue, JoinQueue, runVars
  <2>3. RunStep
    BY <2>1, <2>2 DEF Next
  <2>4. PostSync \/ PostAsync
    BY <2>3 DEF RunStep, AgentReady, RunJoinsQueue, NeedsLock, MarkRunning, TopBreak,
       TopHookDenies, TopStuck, StepBegin, LLMAnswers, ReplyContent, ReplyAgain,
       ReplyRaises, ReplyTools, HasReply, Audited, ToolsDone, CancelLands, HandleCancel,
       HandleError
  <2>5. CASE PostSync
    BY <2>5 DEF PostSync, IInv, ReadPlaces
  <2>6. CASE PostAsync
    BY <2>6 DEF PostAsync, Limits, Superseded
  <2>. QED
    BY <2>4, <2>5, <2>6
<1>. QED
  BY <1>1, ConversationInv, PTL DEF Spec, WaitingIsCurrent
=============================================================================
