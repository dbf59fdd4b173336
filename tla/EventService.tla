---------------------------- MODULE EventService ----------------------------
(***************************************************************************)
(* The run admission of one conversation in the agent server:              *)
(* EventService.run, send_message, pause, interrupt, close and the /goal   *)
(* loop, and the run permits they share (RunSlot), in                      *)
(* openhands-agent-server/openhands/agent_server/event_service.py.         *)
(*                                                                         *)
(* Everything here runs on one event loop, so an action is what happens    *)
(* between two awaits.  The processes are the requests being handled       *)
(* (Clients), the run tasks (Tasks) and the goal loop ("goal"); pc says    *)
(* where each one awaits.  A generation counter compared with a value      *)
(* captured earlier is the set `stale` of those whose capture is older     *)
(* than the latest explicit stop.                                          *)
(*                                                                         *)
(* LocalConversation.arun is reduced to what admission depends on: the     *)
(* status, how many messages are unread and, for an ACP agent, whether a   *)
(* prompt is in flight (ConversationRun models it in detail).  An agent    *)
(* without a native astep, which runs on a worker thread, is left out.     *)
(***************************************************************************)
EXTENDS Integers, FiniteSets

CONSTANTS
  Clients,     \* requests handled at the same time
  Tasks,       \* bound: run tasks alive at the same time
  Requests,    \* the kinds of request used
  Agents,      \* the kinds of agent: "llm", "acp"
  Capacity,    \* run slots of the server
  MaxCalls,    \* bound: requests in all, for each kind of agent
  MaxRounds    \* max_iterations of the goal loop

AllRequests ==
  {"send", "reserve", "run", "pause", "interrupt", "goal", "resume", "stopgoal", "close"}

ASSUME RequestsAssumption == Requests \subseteq AllRequests
ASSUME AgentsAssumption == Agents \subseteq {"llm", "acp"} /\ Agents # {}
ASSUME NamesAssumption ==
  /\ Clients \cap Tasks = {}
  /\ (Clients \cup Tasks) \cap {"goal", "session", "none"} = {}
ASSUME FiniteAssumption == IsFiniteSet(Clients) /\ IsFiniteSet(Tasks)
ASSUME BoundsAssumption ==
  /\ Capacity \in Nat \ {0} /\ MaxRounds \in Nat \ {0} /\ MaxCalls \in [Agents -> Nat]

Procs == Clients \cup Tasks \cup {"goal"}
Handles == Clients \cup Tasks \cup {"session"}

VARIABLES
  agent,       \* the kind of the conversation's agent
  status,      \* execution_status
  unread,      \* messages the agent has not been prompted with yet
  inflight,    \* ACP: the prompt of the first of them is in flight
  superseded,  \* ACP_SUPERSEDE_INFLIGHT_PROMPT
  owed,        \* history: a message was accepted to be run, no stop came since
  pc, mark,    \* where a process awaits; what its call of run() is for
  stale,       \* processes whose captured generation is out of date
  waitFor,     \* the run task a process waits for
  cancels,     \* tasks whose cancellation is scheduled
  runTask,     \* _run_task
  arunTask,    \* LocalConversation._arun_task
  lock,        \* the holder of _run_lock
  rerun,       \* _rerun_requested
  acpRerun,    \* _acp_internal_rerun_requested
  pins,        \* _run_session_pins
  closing,     \* _closing
  closed,      \* _conversation is None
  permits,     \* the RunSlot handles and their permits, see Permits
  others,      \* tokens held by other conversations
  goal,        \* the last persisted goal status, and its audit rounds
  calls        \* requests so far

convVars == <<agent, status, unread, inflight, superseded, owed>>
flagVars == <<rerun, acpRerun, closing, closed>>
vars == <<convVars, pc, mark, stale, waitFor, cancels, runTask, arunTask, lock,
          flagVars, pins, permits, others, goal, calls>>

-----------------------------------------------------------------------------
(* RunSlot and _RunPermit.  A permit owns one token of the semaphore; refs   *)
(* counts the handles to it; at says which permit a handle refers to (0:     *)
(* none, the handle was released or never made).                             *)

PermitIds == 1..Capacity

\* Seeded fault: a handle released twice gives its token back twice.
ReleaseTwice(P, h) ==
  LET p == IF P.at[h] = 0 /\ h \in Tasks THEN P.at["session"] ELSE P.at[h]
  IN  IF p = 0 THEN P
      ELSE [free |-> IF P.refs[p] = 1 THEN P.free + 1 ELSE P.free,
            refs |-> [P.refs EXCEPT ![p] = @ - 1],
            at   |-> [P.at EXCEPT ![h] = 0]]

Release(P, h) ==
  LET p == P.at[h]
  IN  IF p = 0 THEN P
      ELSE [free |-> IF P.refs[p] = 1 THEN P.free + 1 ELSE P.free,
            refs |-> [P.refs EXCEPT ![p] = @ - 1],
            at   |-> [P.at EXCEPT ![h] = 0]]

Share(P, from, to) ==
  [P EXCEPT !.refs[P.at[from]] = @ + 1, !.at[to] = P.at[from]]

Acquire(P, h) ==
  LET p == CHOOSE q \in PermitIds : P.refs[q] = 0
  IN  [free |-> P.free - 1, refs |-> [P.refs EXCEPT ![p] = 1],
       at |-> [P.at EXCEPT ![h] = p]]

\* Some re-armed run waits for a token.  It is served before anybody else, and
\* semaphore.locked() is true as long as it waits.
Waiting == \E t \in Tasks : pc[t] = "sem"
HasCapacity == permits.free > 0 /\ ~Waiting

Live(t) == t # "none" /\ pc[t] # "off"

\* Seeded fault: a pin does not keep the session permit.
EndSessionIgnoringPins(P, pn, busy) ==
  IF busy THEN P ELSE Release(P, "session")

\* _maybe_end_run_session: the session's handle is returned once no pin and no
\* run (busy) needs it.
EndSession(P, pn, busy) ==
  IF pn > 0 \/ busy THEN P ELSE Release(P, "session")

\* Seeded fault: the run that ends is taken for a successor and keeps the permit.
SettledDoneBusy(P, t, new) ==
  EndSession(Release(P, t), pins, TRUE)

\* settle() at the end of run task t's body: the run of its own is no reason to
\* keep the permit, a parked request is.
Settled(t) ==
  EndSession(Release(permits, t), pins,
             IF runTask = t THEN rerun \/ acpRerun ELSE Live(runTask))

\* The same as the done callback of t, with new the task it has started.
SettledDone(P, t, new) ==
  EndSession(Release(P, t), pins, new # "none" \/ (Live(runTask) /\ runTask # t))

Unpinned == IF pins > 0 THEN pins - 1 ELSE 0

Init ==
  /\ agent \in Agents
  /\ status = "idle" /\ unread = 0 /\ inflight = FALSE /\ superseded = FALSE
  /\ owed = FALSE
  /\ pc = [p \in Procs |-> "off"] /\ mark = [p \in Procs |-> "run"]
  /\ stale = {} /\ waitFor = [p \in Procs |-> "none"] /\ cancels = {}
  /\ runTask = "none" /\ arunTask = "none" /\ lock = "none"
  /\ rerun = FALSE /\ acpRerun = FALSE /\ pins = 0
  /\ closing = FALSE /\ closed = FALSE
  /\ permits = [free |-> Capacity, refs |-> [p \in PermitIds |-> 0],
                at |-> [h \in Handles |-> 0]]
  /\ others = 0
  /\ goal = [status |-> "none", rounds |-> 0]
  /\ calls = 0

-----------------------------------------------------------------------------
(* LocalConversation.send_message, pause and interrupt *)

Appended ==
  /\ unread' = unread + 1
  /\ status' = IF status \in {"finished", "stuck"} THEN "idle" ELSE status

PausedStatus == IF status \in {"idle", "running"} THEN "paused" ELSE status

\* interrupt(): cancels the task of arun(), or else falls back to pause().
InterruptConversation ==
  IF Live(arunTask)
  THEN cancels' = cancels \cup {arunTask} /\ UNCHANGED status
  ELSE status' = PausedStatus /\ UNCHANGED cancels

-----------------------------------------------------------------------------
(* EventService.run, called by a request, by the goal loop, or by a run task  *)
(* that re-arms.  mark: "run" when no generation is passed; "send",           *)
(* "superseded" and "latest" for a message, by what became of the prompt in   *)
(* flight; "rearm" for the re-arm of an internal ACP restart.                 *)

Outdated(p) == mark[p] # "run" /\ p \in stale

\* p's call of run() is over with outcome out, in permit state P; new is the
\* task it started.  What the callers do with the outcome is theirs:
\* send_message parks a refused request, _run_and_publish parks it again, the
\* goal loop waits for the run there is.
Return(p, out, P, new) ==
  LET sends == mark[p] \in {"send", "superseded", "latest"}
      pinned == mark[p] = "superseded"
      busy == new # "none" \/ (Live(runTask) /\ runTask # p)
      Q == Release(P, p)
      fails == out \in {"inactive", "full"}
  IN  /\ pins' = IF pinned THEN Unpinned ELSE pins
      /\ permits' =
           IF p = "goal" THEN P
           ELSE IF p \in Tasks \/ pinned THEN EndSession(Q, pins', busy) ELSE Q
      /\ rerun' = (rerun \/ (out = "refused" /\
                             (p \in Tasks \/ mark[p] \in {"send", "superseded"})))
      /\ acpRerun' =
           IF out = "refused" /\ p \in Tasks THEN mark[p] = "rearm"
           ELSE IF out = "refused" /\ pinned THEN TRUE
           ELSE IF ~fails /\ out # "refused" /\ sends THEN FALSE
           ELSE acpRerun
      /\ owed' = (owed /\ ~(sends /\ out \in {"full", "inactive"}))
      /\ pc' = [q \in Procs |->
                  IF q = new THEN "new"
                  ELSE IF q # p THEN pc[q]
                  ELSE IF p # "goal" THEN "off"
                  ELSE IF fails THEN "ending" ELSE "wait"]
      /\ waitFor' = IF p = "goal" /\ ~fails
                    THEN [waitFor EXCEPT ![p] = IF new # "none" THEN new ELSE runTask]
                    ELSE waitFor
      /\ mark' = [mark EXCEPT ![p] = "run"]

runRest == <<agent, status, unread, inflight, superseded, cancels, arunTask,
             closing, closed, others, goal, calls>>

RunEnter(p) ==
  /\ pc[p] = "enter"
  /\ IF closing
     THEN Return(p, "inactive", permits, "none")
     ELSE /\ pc' = [pc EXCEPT ![p] = "lock"]
          /\ UNCHANGED <<mark, waitFor, rerun, acpRerun, pins, permits, owed>>
  /\ UNCHANGED <<runRest, stale, runTask, lock>>

\* Seeded fault: a finished body no longer counts as a live run.
RunLockBodyOnly(p) ==
  /\ pc[p] = "lock" /\ lock = "none"
  /\ IF Outdated(p)
     THEN Return(p, "stale", permits, "none") /\ UNCHANGED lock
     ELSE IF Live(runTask) /\ pc[runTask] \notin {"new", "tail"}
     THEN Return(p, "refused", permits, "none") /\ UNCHANGED lock
     ELSE /\ lock' = p /\ pc' = [pc EXCEPT ![p] = "status"]
          /\ UNCHANGED <<mark, waitFor, rerun, acpRerun, pins, permits, owed>>
  /\ UNCHANGED <<runRest, stale, runTask>>

RunLock(p) ==
  /\ pc[p] = "lock" /\ lock = "none"
  /\ IF Outdated(p)
     THEN Return(p, "stale", permits, "none") /\ UNCHANGED lock
     ELSE IF Live(runTask)
     THEN Return(p, "refused", permits, "none") /\ UNCHANGED lock
     ELSE /\ lock' = p /\ pc' = [pc EXCEPT ![p] = "status"]
          /\ UNCHANGED <<mark, waitFor, rerun, acpRerun, pins, permits, owed>>
  /\ UNCHANGED <<runRest, stale, runTask>>

\* Tasks nobody refers to any more.
FreeTasks ==
  {t \in Tasks : pc[t] = "off" /\ arunTask # t /\ \A p \in Procs : waitFor[p] # t}

\* The session's permit in P is shared with a new run task.
Start(p, P) ==
  /\ FreeTasks # {}
  /\ LET t == CHOOSE x \in FreeTasks : TRUE
     IN  /\ runTask' = t
         /\ stale' = stale \ {t}
         /\ Return(p, "started", Share(P, "session", t), t)
  /\ lock' = "none"

\* Seeded fault: a refusal for capacity leaves the lock held.
RunStartKeepsLock(p) ==
  /\ pc[p] = "status"
  /\ LET gaveUp(out) == Return(p, out, permits, "none") /\ UNCHANGED <<runTask, stale>>
     IN  IF status = "running" THEN gaveUp("refused") /\ lock' = "none"
         ELSE IF permits.at["session"] # 0 THEN Start(p, permits)
         ELSE IF HasCapacity THEN Start(p, Acquire(permits, "session"))
         ELSE gaveUp("full") /\ UNCHANGED lock
  /\ UNCHANGED runRest

\* The status has been read; p holds the lock.
RunStart(p) ==
  /\ pc[p] = "status"
  /\ LET offered == p \in Clients /\ permits.at[p] # 0
         gaveUp(out) == Return(p, out, permits, "none") /\ lock' = "none"
                        /\ UNCHANGED <<runTask, stale>>
     IN  IF status = "running" THEN gaveUp("refused")
         ELSE IF closing THEN gaveUp("inactive")
         ELSE IF Outdated(p) THEN gaveUp("stale")
         ELSE IF permits.at["session"] # 0
         THEN Start(p, IF offered THEN Release(permits, p) ELSE permits)
         ELSE IF offered THEN Start(p, Share(permits, p, "session"))
         ELSE IF HasCapacity THEN Start(p, Acquire(permits, "session"))
         ELSE IF p \in Tasks
         THEN /\ pc' = [pc EXCEPT ![p] = "sem"]
              /\ UNCHANGED <<mark, waitFor, rerun, acpRerun, pins, permits, owed,
                             lock, runTask, stale>>
         ELSE gaveUp("full")
  /\ UNCHANGED runRest

\* A re-armed run gets the token it has waited for, with the lock held.
RunGranted(p) ==
  /\ pc[p] = "sem" /\ permits.free > 0
  /\ Start(p, Acquire(permits, "session"))
  /\ UNCHANGED runRest

-----------------------------------------------------------------------------
(* A run task: _run_and_publish *)

taskRest == <<agent, unread, owed, pins, stale, waitFor, mark, lock, closing, closed,
              others, goal, calls>>

\* The body is over, however: settle() and then wait_for_pending.
ToTail(t) ==
  /\ pc' = [pc EXCEPT ![t] = "tail"]
  /\ permits' = Settled(t)

\* Task t ends; its done callback settles once more.
TaskOff(t) ==
  /\ pc' = [pc EXCEPT ![t] = "off"]
  /\ permits' = SettledDone(permits, t, "none")

TaskBegin(t) ==
  /\ pc[t] = "new" /\ t \notin cancels
  /\ IF t \in stale
     THEN ToTail(t) /\ UNCHANGED arunTask
     ELSE pc' = [pc EXCEPT ![t] = "init"] /\ arunTask' = t /\ UNCHANGED permits
  /\ UNCHANGED <<taskRest, status, inflight, superseded, cancels, runTask, rerun, acpRerun>>

\* _ensure_agent_ready succeeds and arun marks the conversation RUNNING, or it
\* raises outside arun's try block and the backstop sets ERROR.
TaskReady(t) ==
  /\ pc[t] = "init"
  /\ \/ /\ pc' = [pc EXCEPT ![t] = "top"]
        /\ status' = IF status \in {"idle", "paused", "error", "stuck"}
                     THEN "running" ELSE status
        /\ UNCHANGED permits
     \/ status' = "error" /\ ToTail(t)
  /\ UNCHANGED <<taskRest, inflight, superseded, cancels, arunTask, runTask, rerun, acpRerun>>

\* arun returns or raises with status st.
LeaveArun(t, st) ==
  /\ status' = st
  /\ arunTask' = "none"
  /\ ToTail(t)

\* The head of arun's loop.
TaskTop(t) ==
  /\ pc[t] = "top"
  /\ \/ /\ status \in {"paused", "stuck", "finished"}
        /\ LeaveArun(t, status)
        /\ UNCHANGED <<unread, inflight, owed>>
     \/ /\ status \notin {"paused", "stuck", "finished"}
        /\ agent = "acp" /\ unread = 0
        /\ LeaveArun(t, "finished")
        /\ UNCHANGED <<unread, inflight, owed>>
     \/ /\ status \notin {"paused", "stuck", "finished"}
        /\ agent = "acp" => unread > 0
        /\ pc' = [pc EXCEPT ![t] = "step"]
        /\ status' = IF status = "waiting" THEN "running" ELSE status
        /\ IF agent = "acp"
           THEN inflight' = TRUE /\ owed' = (owed /\ unread > 1) /\ UNCHANGED unread
           ELSE unread' = 0 /\ owed' = FALSE /\ UNCHANGED inflight
        /\ UNCHANGED <<arunTask, permits>>
  /\ UNCHANGED <<agent, superseded, pins, stale, waitFor, mark, lock, closing, closed, others,
                 goal, calls, cancels, runTask, rerun, acpRerun>>

\* A step ends the turn (a message that came meanwhile keeps the run going), or
\* the loop goes round because it was paused or has new input.
TaskStep(t) ==
  /\ pc[t] = "step"
  /\ pc' = [pc EXCEPT ![t] = "top"]
  /\ IF agent = "acp"
     THEN /\ unread' = unread - 1 /\ inflight' = FALSE /\ superseded' = FALSE
          /\ status' = IF status = "paused" THEN "paused"
                       ELSE IF unread > 1 THEN "running" ELSE "finished"
     ELSE /\ \/ status' = IF unread > 0 THEN "running" ELSE "finished"
             \/ (unread > 0 \/ status = "paused") /\ UNCHANGED status
          /\ UNCHANGED <<unread, inflight, superseded>>
  /\ UNCHANGED <<agent, owed, pins, stale, waitFor, mark, lock, closing, closed, others,
                 goal, calls, permits, arunTask, cancels, runTask, rerun, acpRerun>>

\* A step ends the run: an exception or a limit (ERROR), an action that needs
\* confirmation, the stuck detector (which looks at what follows the last message),
\* or the last iteration with a message that came meanwhile (IDLE).  A backlog of
\* ACP prompts longer than the iteration limit is left out.
TaskBreak(t) ==
  /\ pc[t] = "step"
  /\ \E st \in {"error", "waiting", "stuck", "idle"} :
       /\ st = "idle" => unread > 0
       /\ st \in {"waiting", "stuck"} => unread = 0
       /\ agent = "acp" => st = "error"
       /\ LeaveArun(t, st)
  /\ inflight' = FALSE /\ superseded' = FALSE
  /\ UNCHANGED <<agent, unread, owed, pins, stale, waitFor, mark, lock, closing, closed, others,
                 goal, calls, cancels, runTask, rerun, acpRerun>>

\* The cancellation of t arrives at what it awaits.
TaskCancelled(t) ==
  /\ t \in cancels /\ pc[t] # "off"
  /\ pc[t] = "top" => status \notin {"paused", "stuck", "finished"}
  /\ cancels' = cancels \ {t}
  /\ CASE pc[t] = "init" ->
            ToTail(t) /\ UNCHANGED <<status, arunTask, unread, inflight, superseded>>
       [] pc[t] \in {"top", "step"} ->
            /\ LeaveArun(t, "paused")
            /\ unread' = IF superseded /\ inflight THEN unread - 1 ELSE unread
            /\ inflight' = FALSE /\ superseded' = FALSE
       [] OTHER ->
            TaskOff(t) /\ UNCHANGED <<status, arunTask, unread, inflight, superseded>>
  /\ lock' = IF lock = t THEN "none" ELSE lock
  /\ UNCHANGED <<agent, owed, pins, stale, waitFor, mark, closing, closed, others,
                 goal, calls, runTask, rerun, acpRerun>>

\* The pending events are published; _run_task is cleared and the final state
\* update goes out.
TaskDrained(t) ==
  /\ pc[t] = "tail" /\ t \notin cancels
  /\ pc' = [pc EXCEPT ![t] = "pub"]
  /\ runTask' = "none"
  /\ UNCHANGED <<taskRest, permits, status, inflight, superseded, cancels, arunTask, rerun,
                 acpRerun>>

\* The flags are taken; a parked request needs the status.
TaskPublished(t) ==
  /\ pc[t] = "pub" /\ t \notin cancels
  /\ rerun' = FALSE /\ acpRerun' = FALSE
  /\ IF rerun
     THEN /\ pc' = [pc EXCEPT ![t] = "decide"]
          /\ mark' = [mark EXCEPT ![t] = IF acpRerun THEN "rearm" ELSE "run"]
          /\ stale' = stale \ {t}
          /\ UNCHANGED permits
     ELSE TaskOff(t) /\ UNCHANGED <<mark, stale>>
  /\ UNCHANGED <<agent, unread, owed, pins, waitFor, lock, closing, closed, others, goal,
                 calls, status, inflight, superseded, cancels, arunTask, runTask>>

\* Seeded fault: a parked request is honoured only after a finished turn.
RestartsIdleNot(t) == t \notin stale /\ mark[t] = "rearm" /\ status = "paused"

\* should_restart
Restarts(t) ==
  /\ t \notin stale
  /\ status = "idle" \/ (mark[t] = "rearm" /\ status = "paused" /\ agent = "acp")

TaskRearms(t) ==
  /\ pc[t] = "decide" /\ t \notin cancels
  /\ IF Restarts(t)
     THEN pc' = [pc EXCEPT ![t] = "enter"] /\ UNCHANGED <<permits, mark>>
     ELSE TaskOff(t) /\ mark' = [mark EXCEPT ![t] = "run"]
  /\ owed' = (owed /\ (Restarts(t) \/ ~Live(runTask)))
  /\ UNCHANGED <<agent, unread, pins, stale, waitFor, lock, closing, closed, others,
                 goal, calls, status, inflight, superseded, cancels, arunTask, runTask,
                 rerun, acpRerun>>

-----------------------------------------------------------------------------
(* Requests *)

\* An explicit stop: the generation goes up, what was parked is dropped.
Stop ==
  /\ stale' = Procs
  /\ rerun' = FALSE /\ acpRerun' = FALSE
  /\ owed' = FALSE

\* A cancellation that is scheduled is delivered within a turn or two of the event
\* loop: no request arrives, no timeout expires and no worker thread is waited for
\* in between.
NoneScheduled == cancels \cap Tasks = {}

\* A client is no more than the coroutine of a request, and a client at rest is like
\* any other: which one takes the request makes no difference.
Arrives(c, request) ==
  /\ request \in Requests /\ NoneScheduled
  /\ pc[c] = "off" /\ calls < MaxCalls[agent] /\ ~closed
  /\ c = CHOOSE d \in Clients : pc[d] = "off"
  /\ calls' = calls + 1

At(c, point) == pc' = [pc EXCEPT ![c] = point]

\* Messages, the OpenAI gateway's with a reservation made before it is saved.
\* A goal loop is cancelled first.
Send(c) ==
  /\ \/ Arrives(c, "send") /\ UNCHANGED permits
     \/ /\ Arrives(c, "reserve")
        /\ IF permits.at["session"] # 0 \/ Live(runTask) THEN UNCHANGED permits
           ELSE HasCapacity /\ permits' = Acquire(permits, c)
  /\ mark' = [mark EXCEPT ![c] = "send"]
  /\ IF pc["goal"] # "off"
     THEN At(c, "stopping") /\ cancels' = cancels \cup {"goal"} /\ UNCHANGED stale
     ELSE At(c, "append") /\ stale' = stale \ {c} /\ UNCHANGED cancels
  /\ UNCHANGED <<convVars, waitFor, runTask, arunTask, lock, flagVars, pins, others, goal>>

\* The cancelled goal loop has ended; the generation is captured.
GoalStopped(c) ==
  /\ pc[c] = "stopping" /\ pc["goal"] = "off" /\ NoneScheduled
  /\ IF mark[c] = "send"
     THEN At(c, "append") /\ stale' = stale \ {c}
     ELSE At(c, "off") /\ UNCHANGED stale
  /\ UNCHANGED <<convVars, mark, waitFor, cancels, runTask, arunTask, lock, flagVars, pins,
                 permits, others, goal, calls>>

\* The message is saved on a worker thread.
SendAppend(c) ==
  /\ pc[c] = "append"
  /\ Appended
  /\ owed' = (owed \/ c \notin stale)
  /\ At(c, "saved")
  /\ UNCHANGED <<agent, inflight, superseded, mark, stale, waitFor, cancels, runTask, arunTask,
                 lock, flagVars, pins, permits, others, goal, calls>>

\* Unless a stop came meanwhile, the ACP prompt in flight is marked superseded,
\* or found to be the prompt of this very message.
SendMark(c) ==
  /\ pc[c] = "saved" /\ NoneScheduled
  /\ LET acpRuns == agent = "acp" /\ Live(runTask) /\ status = "running" /\ inflight
     IN  IF c \in stale
         THEN /\ At(c, "off") /\ permits' = Release(permits, c)
              /\ mark' = [mark EXCEPT ![c] = "run"] /\ UNCHANGED superseded
         ELSE /\ UNCHANGED permits
              /\ IF acpRuns /\ unread > 1
                 THEN /\ mark' = [mark EXCEPT ![c] = "superseded"]
                      /\ superseded' = TRUE /\ At(c, "marked")
                 ELSE /\ mark' = [mark EXCEPT ![c] = IF acpRuns THEN "latest" ELSE "send"]
                      /\ At(c, "enter") /\ UNCHANGED superseded
  /\ UNCHANGED <<agent, status, unread, inflight, owed, stale, waitFor, cancels, runTask,
                 arunTask, lock, flagVars, pins, others, goal, calls>>

\* The session permit is pinned and the prompt interrupted, or the run that has
\* taken its place meanwhile: a stop is looked for only afterwards (owed is reset
\* where the request that interrupts is itself overtaken by a stop).
SendSupersede(c) ==
  /\ pc[c] = "marked"
  /\ owed' = (owed /\ ~(c \in stale /\ Live(arunTask)))
  /\ pins' = pins + 1 /\ acpRerun' = TRUE
  /\ InterruptConversation
  /\ waitFor' = [waitFor EXCEPT ![c] = IF Live(runTask) THEN runTask ELSE "none"]
  /\ At(c, "supersede")
  /\ UNCHANGED <<agent, unread, inflight, superseded, mark, stale, runTask, arunTask, lock,
                 rerun, closing, closed, permits, others, goal, calls>>

\* The interrupted run has ended, or the five seconds are over.
WaitedForRun(c) ==
  /\ Live(waitFor[c]) => NoneScheduled
  /\ waitFor' = [waitFor EXCEPT ![c] = "none"]
  /\ runTask' = IF waitFor[c] # "none" /\ ~Live(runTask) THEN "none" ELSE runTask

SendSuperseded(c) ==
  /\ pc[c] = "supersede"
  /\ WaitedForRun(c)
  /\ IF c \in stale
     THEN /\ At(c, "off") /\ pins' = Unpinned
          /\ permits' = EndSession(Release(permits, c), pins', Live(runTask))
          /\ mark' = [mark EXCEPT ![c] = "run"]
     ELSE At(c, "enter") /\ UNCHANGED <<pins, permits, mark>>
  /\ UNCHANGED <<convVars, stale, cancels, arunTask, lock, flagVars, others, goal, calls>>

\* POST /run, and respond_to_confirmation that accepts.
Run(c) ==
  /\ Arrives(c, "run")
  /\ At(c, "enter")
  /\ UNCHANGED <<convVars, mark, stale, waitFor, cancels, runTask, arunTask, lock, flagVars,
                 pins, permits, others, goal>>

Pause(c) ==
  /\ Arrives(c, "pause")
  /\ Stop
  /\ At(c, "pausing")
  /\ UNCHANGED <<agent, status, unread, inflight, superseded, mark, waitFor, cancels, runTask,
                 arunTask, lock, closing, closed, pins, permits, others, goal>>

PauseConversation(c) ==
  /\ pc[c] = "pausing"
  /\ status' = PausedStatus
  /\ At(c, "off")
  /\ UNCHANGED <<agent, unread, inflight, superseded, owed, mark, stale, waitFor, cancels,
                 runTask, arunTask, lock, flagVars, pins, permits, others, goal, calls>>

Interrupt(c) ==
  /\ Arrives(c, "interrupt")
  /\ Stop
  /\ InterruptConversation
  /\ waitFor' = [waitFor EXCEPT ![c] = IF Live(runTask) THEN runTask ELSE "none"]
  /\ At(c, "interrupting")
  /\ UNCHANGED <<agent, unread, inflight, superseded, mark, runTask, arunTask, lock, closing,
                 closed, pins, permits, others, goal>>

Interrupted(c) ==
  /\ pc[c] = "interrupting"
  /\ WaitedForRun(c)
  /\ At(c, "off")
  /\ UNCHANGED <<convVars, mark, stale, cancels, arunTask, lock, flagVars, pins, permits,
                 others, goal, calls>>

StopGoal(c) ==
  /\ Arrives(c, "stopgoal")
  /\ pc["goal"] # "off"
  /\ cancels' = cancels \cup {"goal"}
  /\ At(c, "stopping")
  /\ UNCHANGED <<convVars, mark, stale, waitFor, runTask, arunTask, lock, flagVars, pins,
                 permits, others, goal>>

-----------------------------------------------------------------------------
(* close() *)

Close(c) ==
  /\ Arrives(c, "close")
  /\ ~closing
  /\ Stop
  /\ closing' = TRUE /\ pins' = 0
  /\ cancels' = IF pc["goal"] # "off" THEN cancels \cup {"goal"} ELSE cancels
  /\ At(c, "closeGoal")
  /\ UNCHANGED <<agent, status, unread, inflight, superseded, mark, waitFor, runTask, arunTask,
                 lock, closed, permits, others, goal>>

CloseGoalEnded(c) ==
  /\ pc[c] = "closeGoal" /\ pc["goal"] = "off"
  /\ waitFor' = [waitFor EXCEPT ![c] = IF Live(runTask) THEN runTask ELSE "none"]
  /\ At(c, IF Live(runTask) THEN "closePause" ELSE "closeRun")
  /\ UNCHANGED <<convVars, mark, stale, cancels, runTask, arunTask, lock, flagVars, pins,
                 permits, others, goal, calls>>

\* The conversation is paused on a worker thread, then the task is cancelled.
ClosePause(c) ==
  /\ pc[c] = "closePause"
  /\ status' = PausedStatus
  /\ cancels' = IF Live(waitFor[c]) THEN cancels \cup {waitFor[c]} ELSE cancels
  /\ At(c, "closeRun")
  /\ UNCHANGED <<agent, unread, inflight, superseded, owed, mark, stale, waitFor, runTask,
                 arunTask, lock, flagVars, pins, permits, others, goal, calls>>

\* wait_for gives up after ten seconds: a second cancellation.
CloseTimeout(c) ==
  /\ pc[c] = "closeRun" /\ Live(waitFor[c]) /\ waitFor[c] \notin cancels
  /\ cancels' = cancels \cup {waitFor[c]}
  /\ UNCHANGED <<convVars, pc, mark, stale, waitFor, runTask, arunTask, lock, flagVars, pins,
                 permits, others, goal, calls>>

CloseRunEnded(c) ==
  /\ pc[c] = "closeRun" /\ ~Live(waitFor[c])
  /\ runTask' = IF waitFor[c] = "none" THEN runTask ELSE "none"
  /\ waitFor' = [waitFor EXCEPT ![c] = "none"]
  /\ permits' = EndSession(permits, pins, Live(runTask'))
  /\ At(c, "closeConv")
  /\ UNCHANGED <<convVars, mark, stale, cancels, arunTask, lock, flagVars, pins, others,
                 goal, calls>>

CloseConversation(c) ==
  /\ pc[c] = "closeConv"
  /\ closed' = TRUE
  /\ At(c, "off")
  /\ UNCHANGED <<convVars, mark, stale, waitFor, cancels, runTask, arunTask, lock, rerun,
                 acpRerun, closing, pins, permits, others, goal, calls>>

-----------------------------------------------------------------------------
(* The /goal loop *)

goalRest == <<agent, inflight, superseded, mark, stale, runTask, arunTask, flagVars, others>>

\* start_goal_loop and resume_goal_loop: no second loop, no active run; a loop that
\* is complete or capped is not resumed.
GoalAsk(c) ==
  \E request \in {"goal", "resume"} :
    /\ Arrives(c, request)
    /\ request = "resume" => goal.status \in {"running", "interrupted"}
    /\ ~closing
    /\ lock = "none" /\ pc["goal"] = "off" /\ ~Live(runTask)
    /\ lock' = c
    /\ At(c, request)
    /\ UNCHANGED <<goalRest, status, unread, owed, waitFor, cancels, pins, permits, goal>>

\* The status has been read.  A slot is claimed, and dropped again when the
\* conversation has one; the loop's task is created.
GoalSchedule(c) ==
  /\ pc[c] \in {"goal", "resume"}
  /\ lock' = "none"
  /\ IF status = "running" \/ closing \/ ~HasCapacity
     THEN At(c, "off") /\ UNCHANGED <<pins, permits, goal>>
     ELSE /\ permits' = LET P == Acquire(permits, c)
                        IN  IF permits.at["session"] = 0
                            THEN Release(Share(P, c, "session"), c) ELSE permits
          /\ pins' = pins + 1
          /\ pc' = [pc EXCEPT ![c] = "off", !["goal"] = "new"]
          /\ goal' = [goal EXCEPT !.rounds =
                        IF pc[c] = "goal" THEN 0
                        ELSE IF @ < MaxRounds THEN @ ELSE MaxRounds - 1]
  /\ UNCHANGED <<goalRest, status, unread, owed, waitFor, cancels, calls>>

\* The task's first step.  Cancelled before it, the coroutine never runs, its
\* finally neither.
GoalBegin ==
  /\ pc["goal"] = "new"
  /\ IF "goal" \in cancels
     THEN At("goal", "off") /\ cancels' = cancels \ {"goal"} /\ UNCHANGED goal
     ELSE At("goal", "say") /\ goal' = [goal EXCEPT !.status = "running"]
          /\ UNCHANGED cancels
  /\ UNCHANGED <<goalRest, status, unread, owed, waitFor, lock, pins, permits, calls>>

\* The objective or the follow-up is sent (run=False).
GoalSay ==
  /\ pc["goal"] = "say" /\ "goal" \notin cancels
  /\ Appended
  /\ At("goal", "enter")
  /\ UNCHANGED <<goalRest, owed, waitFor, cancels, lock, pins, permits, goal, calls>>

\* The run has ended: PAUSED and ERROR end the loop, otherwise the judge is asked.
GoalWaited ==
  /\ pc["goal"] = "wait" /\ "goal" \notin cancels
  /\ ~Live(waitFor["goal"])
  /\ waitFor' = [waitFor EXCEPT !["goal"] = "none"]
  /\ IF status \in {"paused", "error"}
     THEN At("goal", "ending") /\ goal' = [goal EXCEPT !.status = "interrupted"]
     ELSE At("goal", "judge") /\ UNCHANGED goal
  /\ UNCHANGED <<goalRest, status, unread, owed, cancels, lock, pins, permits, calls>>

\* Complete, capped, or once more; or the judge raises.
GoalJudge ==
  /\ pc["goal"] = "judge" /\ "goal" \notin cancels
  /\ \/ /\ goal' = [status |-> "over", rounds |-> goal.rounds + 1]
        /\ At("goal", "ending")
     \/ /\ goal.rounds + 1 < MaxRounds
        /\ goal' = [goal EXCEPT !.rounds = @ + 1]
        /\ At("goal", "say")
     \/ At("goal", "ending") /\ goal' = [goal EXCEPT !.status = "interrupted"]
  /\ UNCHANGED <<goalRest, status, unread, owed, waitFor, cancels, lock, pins, permits, calls>>

\* Seeded fault: the cancellation is not recorded.
GoalCancelledSilently ==
  /\ "goal" \in cancels /\ pc["goal"] \notin {"off", "new", "ending"}
  /\ cancels' = cancels \ {"goal"}
  /\ pc' = [pc EXCEPT !["goal"] = "off"]
  /\ waitFor' = [waitFor EXCEPT !["goal"] = "none"]
  /\ lock' = IF lock = "goal" THEN "none" ELSE lock
  /\ pins' = Unpinned
  /\ permits' = EndSession(permits, pins', Live(runTask))
  /\ UNCHANGED <<goalRest, status, unread, owed, goal, calls>>

\* The loop is cancelled where it awaits; a message being sent may be saved all
\* the same.  Outside teardown the interruption is recorded.
GoalCancelled ==
  /\ "goal" \in cancels /\ pc["goal"] \notin {"off", "new", "ending"}
  /\ cancels' = cancels \ {"goal"}
  /\ At("goal", "ending")
  /\ goal' = [goal EXCEPT !.status = IF closing THEN @ ELSE "interrupted"]
  /\ waitFor' = [waitFor EXCEPT !["goal"] = "none"]
  /\ lock' = IF lock = "goal" THEN "none" ELSE lock
  /\ UNCHANGED <<status, unread>> \/ (pc["goal"] = "say" /\ Appended)
  /\ UNCHANGED <<goalRest, owed, pins, permits, calls>>

\* The finally block; a loop that ends on an exception records it first.
GoalEnd ==
  /\ pc["goal"] = "ending"
  /\ At("goal", "off")
  /\ cancels' = cancels \ {"goal"}
  /\ goal' = [goal EXCEPT !.status = IF @ = "running" /\ ~closing THEN "interrupted" ELSE @]
  /\ pins' = Unpinned
  /\ permits' = EndSession(permits, pins', Live(runTask))
  /\ UNCHANGED <<goalRest, status, unread, owed, waitFor, lock, calls>>

-----------------------------------------------------------------------------
(* Other conversations take and return tokens *)

otherRest == <<convVars, pc, mark, stale, waitFor, cancels, runTask, arunTask, lock, flagVars,
               pins, goal, calls>>

OtherTakes ==
  /\ HasCapacity
  /\ permits' = [permits EXCEPT !.free = @ - 1]
  /\ others' = others + 1
  /\ UNCHANGED otherRest

OtherReturns ==
  /\ others > 0
  /\ permits' = [permits EXCEPT !.free = @ + 1]
  /\ others' = others - 1
  /\ UNCHANGED otherRest

-----------------------------------------------------------------------------
\* The next step of a task whose cancellation is scheduled is the cancellation.
RunCall(p) ==
  p \notin cancels /\ (RunEnter(p) \/ RunLock(p) \/ RunStart(p) \/ RunGranted(p))

TaskSteps(t) ==
  \/ TaskBegin(t) \/ TaskReady(t) \/ TaskTop(t) \/ TaskStep(t) \/ TaskBreak(t)
  \/ TaskCancelled(t) \/ TaskDrained(t) \/ TaskPublished(t) \/ TaskRearms(t)

NewRequest(c) ==
  \/ Send(c) \/ Run(c) \/ Pause(c) \/ Interrupt(c) \/ StopGoal(c) \/ Close(c) \/ GoalAsk(c)

ClientSteps(c) ==
  \/ GoalStopped(c) \/ SendAppend(c) \/ SendMark(c) \/ SendSupersede(c) \/ SendSuperseded(c)
  \/ PauseConversation(c) \/ Interrupted(c)
  \/ CloseGoalEnded(c) \/ ClosePause(c) \/ CloseTimeout(c) \/ CloseRunEnded(c)
  \/ CloseConversation(c) \/ GoalSchedule(c)

GoalSteps ==
  GoalBegin \/ GoalSay \/ GoalWaited \/ GoalJudge \/ GoalCancelled \/ GoalEnd

\* Nothing is under way.
AtRest == \A p \in Procs : pc[p] = "off"

Next ==
  \/ \E p \in Procs : RunCall(p)
  \/ \E t \in Tasks : TaskSteps(t)
  \/ \E c \in Clients : NewRequest(c) \/ ClientSteps(c)
  \/ GoalSteps
  \/ OtherTakes \/ OtherReturns

\* The event loop and its worker threads run what is ready; the LLM, the judge and
\* the agent's start-up answer or fail; other conversations end their runs.  That
\* something ready is run is all that is asked of the loop, not in which order.
Fairness ==
  /\ WF_vars(\/ \E p \in Procs : RunCall(p)
             \/ \E t \in Tasks : TaskSteps(t)
             \/ \E c \in Clients : ClientSteps(c)
             \/ GoalSteps)
  /\ WF_vars(OtherReturns)

Spec == Init /\ [][Next]_vars
FairSpec == Spec /\ Fairness

-----------------------------------------------------------------------------
(* Properties *)

Statuses == {"idle", "running", "paused", "waiting", "finished", "error", "stuck"}

\* The variables have their types.
TypeOK ==
  /\ agent \in Agents /\ status \in Statuses /\ unread \in Nat
  /\ {inflight, superseded, owed, rerun, acpRerun, closing, closed} \subseteq BOOLEAN
  /\ stale \subseteq Procs /\ cancels \subseteq Tasks \cup {"goal"}
  /\ waitFor \in [Procs -> Tasks \cup {"none"}]
  /\ mark \in [Procs -> {"run", "send", "superseded", "latest", "rearm"}]
  /\ {runTask, arunTask} \subseteq Tasks \cup {"none"} /\ lock \in Procs \cup {"none"}
  /\ pins \in Nat /\ others \in 0..Capacity
  /\ permits.free \in 0..Capacity /\ permits.at \in [Handles -> 0..Capacity]

\* RunSlot: a permit is returned exactly when its last handle is.  refs counts the
\* live handles of each permit, and every token is free, or with another
\* conversation, or behind one permit that somebody still holds.
PermitsExact ==
  /\ \A p \in PermitIds : permits.refs[p] = Cardinality({h \in Handles : permits.at[h] = p})
  /\ permits.free + others + Cardinality({p \in PermitIds : permits.refs[p] > 0}) = Capacity

\* The run slots and everything that refers to them are in order.
SlotsSound == TypeOK /\ PermitsExact

\* run(): the check of _run_task and its setting are atomic whoever calls it, so
\* never do two tasks drive the same conversation.
OneRun == Cardinality({t \in Tasks : pc[t] \in {"new", "init", "top", "step"}}) <= 1

\* _schedule_goal_loop: the session permit is held for the loop's whole lifetime, so
\* no round of it is refused for capacity (outside teardown).
GoalKeepsPermit ==
  pc["goal"] \notin {"off", "ending"} /\ ~closing => permits.at["session"] # 0

\* A message that was accepted to be run and that no stop followed is not left
\* behind when everything has come to rest: it has been prompted, or the
\* conversation ended in a state the re-arm does not start from (PAUSED, ERROR or
\* waiting for confirmation), or an older task took the parked request while
\* another run was on, or a send that a stop had overtaken interrupted the run that
\* was to read it (owed is reset in both places).
InputPickedUp == AtRest /\ owed => status \in {"paused", "error", "waiting"}

\* A conversation at rest holds no run slot, unless a goal loop was cancelled
\* before its first step (its pin stays); a closed one holds none at all.
RestHoldsNothing ==
  AtRest /\ (pins = 0 \/ closed) => \A h \in Handles : permits.at[h] = 0

\* The last persisted goal status says running only while a loop is alive, or after
\* a teardown (the next start reconciles it).
GoalStatusTrue == goal.status = "running" /\ ~closing => pc["goal"] # "off"

\* Every request is answered, every run and every goal loop ends, a re-armed run
\* that waits for a slot gets one: the conversation comes to rest.
Settles == <>[]AtRest

\* What the comment at the re-arm says: the request is parked safely, because "the
\* parked input is always picked up by this call".  A re-armed run that waits for a
\* run slot gets one.
ParkedRunStarts == Waiting ~> ~Waiting

\* What the comment above the re-arm says: "user stop intent wins over an older
\* automatic restart request".  A re-arm that a stop has overtaken starts no run.
StopWins ==
  [][\A t \in Tasks : pc[t] \in {"status", "sem"} /\ t \in stale => runTask' = runTask]_vars

=============================================================================
