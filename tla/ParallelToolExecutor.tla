------------------------ MODULE ParallelToolExecutor ------------------------
(***************************************************************************)
(* Batches of tool calls, openhands-sdk/openhands/sdk/agent/               *)
(* parallel_executor.py, on top of ResourceLockManager: the callers of     *)
(* lock() are the tool calls, one thread each while they run.              *)
(*                                                                         *)
(* Batches run one after the other, as the agent's steps do.  A batch runs *)
(* in a pool of MaxWorkers threads, or call by call when it has one call   *)
(* or there is one worker.  An interrupt first sets the batch's            *)
(* CancellationToken and then, in an async run, cancels the asyncio task.  *)
(***************************************************************************)
EXTENDS ResourceLockManager

CONSTANTS
  Batches,     \* the tool calls of each batch, in order
  LockKeys,    \* what _resolve_lock_keys returns for each call
  MaxWorkers   \* _max_workers

ASSUME BatchesAssumption == Batches \in Seq(Seq(Callers) \ {<<>>})
\* Every action event is new: no call is in two batches.
ASSUME CallsAssumption ==
  \A b, d \in 1..Len(Batches) :
    \A i \in 1..Len(Batches[b]), j \in 1..Len(Batches[d]) :
      Batches[b][i] = Batches[d][j] => b = d
ASSUME LockKeysAssumption == LockKeys \in [Callers -> SUBSET Keys]
ASSUME MaxWorkersAssumption == MaxWorkers \in Nat \ {0}

VARIABLES
  current,    \* index of the current batch; 0 before the first
  phase,      \* "active", "draining", "returned" or "cancelled"
  async,      \* aexecute_batch (TRUE) or execute_batch (FALSE)
  token,      \* per batch: the cancel_token is set
  stage,      \* where each call is (see Stages)
  result,     \* what each call returned
  late        \* history: calls whose tool began with the token set

execVars == <<current, phase, async, token, stage, result, late>>
vars == <<lockVars, execVars>>

(***************************************************************************)
(* "waiting"  in the pool's queue, or not yet reached by the loop          *)
(* "locking"  inside `with self._lock_manager.lock(...)`                   *)
(* "unlocked" in tool_runner without a lock                                *)
(* "done"     _run_safe returned                                           *)
(* "dropped"  its future was cancelled before a worker took it             *)
(***************************************************************************)
Stages == {"waiting", "locking", "unlocked", "done", "dropped"}
Alive == {"locking", "unlocked"}

Calls == Batches[current]
InBatch == {Calls[i] : i \in 1..Len(Calls)}
BatchOf(a) == CHOOSE b \in 1..Len(Batches) : \E i \in 1..Len(Batches[b]) : Batches[b][i] = a

\* `len(action_events) == 1 or self._max_workers == 1` takes no pool.
Pooled == Len(Calls) > 1 /\ MaxWorkers > 1
Workers == IF Pooled THEN MaxWorkers ELSE 1

\* The tool itself runs.
ToolRuns(a) == stage[a] = "unlocked" \/ (stage[a] = "locking" /\ pc[a] = "body")

Init ==
  /\ LockInit
  /\ current = 0
  /\ phase = "returned"
  /\ async = FALSE
  /\ token = [b \in 1..Len(Batches) |-> FALSE]
  /\ stage = [a \in Callers |-> "waiting"]
  /\ result = [a \in Callers |-> "none"]
  /\ late = {}

\* The agent hands the next batch to execute_batch or aexecute_batch.
ExecuteBatch ==
  /\ phase \in {"returned", "cancelled"}
  /\ current < Len(Batches)
  /\ current' = current + 1
  /\ phase' = "active"
  /\ async' \in BOOLEAN
  /\ UNCHANGED <<lockVars, token, stage, result, late>>

\* Seeded fault: _run_safe does not look at the token.
RunSafeUnchecked(a) ==
  /\ phase = "active"
  /\ \E i \in 1..Len(Calls) :
       /\ Calls[i] = a
       /\ \A j \in 1..(i - 1) : stage[Calls[j]] # "waiting"
  /\ stage[a] = "waiting"
  /\ Cardinality({b \in InBatch : stage[b] \in Alive}) < Workers
  /\ IF LockKeys[a] = {}
     THEN stage' = [stage EXCEPT ![a] = "unlocked"] /\ UNCHANGED lockVars
     ELSE stage' = [stage EXCEPT ![a] = "locking"] /\ Enter(a, LockKeys[a])
  /\ UNCHANGED <<current, phase, async, token, result, late>>

\* A worker takes the next call in submission order; _run_safe checks the
\* token once and then asks for the locks.
RunSafe(a) ==
  /\ phase = "active"
  /\ \E i \in 1..Len(Calls) :
       /\ Calls[i] = a
       /\ \A j \in 1..(i - 1) : stage[Calls[j]] # "waiting"
  /\ stage[a] = "waiting"
  /\ Cardinality({b \in InBatch : stage[b] \in Alive}) < Workers
  /\ IF token[current]
     THEN /\ stage' = [stage EXCEPT ![a] = "done"]
          /\ result' = [result EXCEPT ![a] = "skipped"]
          /\ UNCHANGED lockVars
     ELSE /\ UNCHANGED result
          /\ IF LockKeys[a] = {}
             THEN stage' = [stage EXCEPT ![a] = "unlocked"] /\ UNCHANGED lockVars
             ELSE stage' = [stage EXCEPT ![a] = "locking"] /\ Enter(a, LockKeys[a])
  /\ UNCHANGED <<current, phase, async, token, late>>

\* A step inside lock(); `late` remembers whose tool begins under a set token.
LockStep(a) ==
  /\ stage[a] = "locking"
  /\ LockProgress(a) \/ AcquireTimeout(a)
  /\ late' = IF token[BatchOf(a)] /\ pc[a] # "body" /\ pc'[a] = "body"
             THEN late \cup {a} ELSE late
  /\ UNCHANGED <<current, phase, async, token, stage, result>>

\* tool_runner returns its events, or raises and the exception becomes an
\* AgentErrorEvent: the call has a result either way.
EndTool(a) ==
  /\ ToolRuns(a)
  /\ result' = [result EXCEPT ![a] = "ran"]
  /\ IF stage[a] = "unlocked"
     THEN stage' = [stage EXCEPT ![a] = "done"] /\ UNCHANGED lockVars
     ELSE UNCHANGED stage /\ LeaveBody(a)
  /\ UNCHANGED <<current, phase, async, token, late>>

\* lock() is left; without a result of the tool it was a ResourceLockTimeout,
\* which becomes an AgentErrorEvent too.
EndCall(a) ==
  /\ stage[a] = "locking"
  /\ pc[a] = "idle"
  /\ stage' = [stage EXCEPT ![a] = "done"]
  /\ result' = [result EXCEPT ![a] = IF @ = "none" THEN "failed" ELSE @]
  /\ UNCHANGED <<lockVars, current, phase, async, token, late>>

\* interrupt() sets the token from any thread.
CancelToken ==
  /\ phase = "active"
  /\ ~token[current]
  /\ token' = [token EXCEPT ![current] = TRUE]
  /\ UNCHANGED <<lockVars, current, phase, async, stage, result, late>>

\* Seeded fault: the pool is left without waiting for its threads.
CancelTaskNoWait ==
  /\ phase = "active" /\ async /\ token[current]
  /\ stage' = [a \in Callers |-> IF a \in InBatch /\ stage[a] = "waiting"
                                 THEN "dropped" ELSE stage[a]]
  /\ phase' = "cancelled"
  /\ UNCHANGED <<lockVars, current, async, token, result, late>>

\* The asyncio task is cancelled at its await.  Calls no worker has taken are
\* dropped; running threads cannot be cancelled.  Leaving the pool's `with`
\* block waits for them; without a pool the batch ends while the thread runs on.
CancelTask ==
  /\ phase = "active" /\ async /\ token[current]
  /\ stage' = [a \in Callers |-> IF a \in InBatch /\ stage[a] = "waiting"
                                 THEN "dropped" ELSE stage[a]]
  /\ phase' = IF Pooled THEN "draining" ELSE "cancelled"
  /\ UNCHANGED <<lockVars, current, async, token, result, late>>

PoolShutdown ==
  /\ phase = "draining"
  /\ \A a \in InBatch : stage[a] \notin Alive
  /\ phase' = "cancelled"
  /\ UNCHANGED <<lockVars, current, async, token, stage, result, late>>

\* Every future has a result: the batch returns them in order.
ReturnResults ==
  /\ phase = "active"
  /\ \A a \in InBatch : stage[a] = "done"
  /\ phase' = "returned"
  /\ UNCHANGED <<lockVars, current, async, token, stage, result, late>>

Next ==
  \/ ExecuteBatch
  \/ CancelToken
  \/ CancelTask
  \/ PoolShutdown
  \/ ReturnResults
  \/ \E a \in Callers :
       \/ RunSafe(a)
       \/ LockStep(a)
       \/ EndTool(a)
       \/ EndCall(a)

\* Workers are scheduled and tools end.  Lock timeouts, the interrupt and its
\* task cancellation may or may not come.
Fairness ==
  /\ WF_vars(PoolShutdown)
  /\ WF_vars(ReturnResults)
  /\ \A a \in Callers :
       /\ WF_vars(RunSafe(a))
       /\ WF_vars(LockStep(a) /\ LockProgress(a))
       /\ WF_vars(EndTool(a))
       /\ WF_vars(EndCall(a))

Spec == Init /\ [][Next]_vars

FairSpec == Spec /\ Fairness

-----------------------------------------------------------------------------
(* Properties *)

\* Types of the executor's own state.
ExecTypeOK ==
  /\ current \in 0..Len(Batches)
  /\ phase \in {"active", "draining", "returned", "cancelled"}
  /\ async \in BOOLEAN
  /\ token \in [1..Len(Batches) -> BOOLEAN]
  /\ stage \in [Callers -> Stages]
  /\ result \in [Callers -> {"none", "ran", "failed", "skipped"}]
  /\ late \in SUBSET Callers

\* A batch that returns has exactly one result for every call, and one that
\* leaves the pool after an interrupt leaves no tool of its own running.
BatchSettled ==
  /\ phase = "returned" /\ current > 0 => \A a \in InBatch : result[a] # "none"
  /\ phase = "cancelled" /\ Pooled => \A a \in InBatch : ~ToolRuns(a)

\* Results, stages and tokens of a batch agree.
BatchSound == ExecTypeOK /\ BatchSettled

\* After the token is set, at most one more tool per worker begins: those
\* whose call was past _run_safe's check and waiting for a lock.
LateToolsBounded ==
  \A b \in 1..Len(Batches) :
    Cardinality({a \in late : BatchOf(a) = b}) <= MaxWorkers

\* Every batch comes to an end: timeouts need not expire, the order of the keys
\* alone rules out a deadlock.
BatchEnds == phase = "active" ~> phase \in {"returned", "cancelled"}

\* "If cancel_token is set before the tool begins, the call is skipped and a
\* synthetic error is returned" (docstring of _run_safe): no tool begins under
\* a set token.
TokenStopsTools == late = {}
=============================================================================
