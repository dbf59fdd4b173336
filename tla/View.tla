--------------------------------- MODULE View ---------------------------------
(***************************************************************************)
(* What the LLM is shown of a conversation: the view that ConversationState*)
(* keeps up to date event by event, the view that View.from_events derives *)
(* from the whole history and repairs, and the LLMSummarizingCondenser that*)
(* decides what to forget (openhands-sdk/.../context/view,                 *)
(* context/condenser, event/condenser.py, conversation/state.py).          *)
(*                                                                         *)
(* An event is its place in the history; the summary that condensation n   *)
(* puts into a view is -n.  A tool call is named by its action, a batch    *)
(* (llm_response_id) by its first action, the only one with thinking       *)
(* blocks.  Positions of a view count from 0 where the code's do.  Texts   *)
(* and token counts are left out: token pressure is a choice.              *)
(***************************************************************************)
EXTENDS Integers, SequencesExt

CONSTANTS
  MaxSize,       \* max_size of the condenser
  KeepFirst,     \* keep_first
  MaxHistory,    \* bound: events in the history
  LoadMidCall    \* whether the conversation may be loaded with calls pending

ASSUME SizeAssumption ==
  /\ MaxSize \in Nat /\ KeepFirst \in Nat /\ MaxHistory \in Nat
  /\ MaxSize \div 2 - KeepFirst - 1 > 0
ASSUME LoadAssumption == LoadMidCall \in BOOLEAN

VARIABLES
  history,   \* every event, in order
  view,      \* the cached view: _view.events
  asked,     \* its unhandled_condensation_request
  summing    \* the condensation whose summary the LLM is writing, or None

viewVars == <<history, view, asked, summing>>

None == [kind |-> "none"]
Plain(k) == [kind |-> k]
Action(b, thinks) == [kind |-> "action", batch |-> b, thinking |-> thinks]
Observation(c) == [kind |-> "observation", call |-> c]
Condensation(f, s, o) ==
  [kind |-> "condensation", forgotten |-> f, summary |-> s, offset |-> o]

\* What is at an id, a summary included.
At(id) == IF id < 0 THEN Plain("summary") ELSE history[id]
Is(id, k) == At(id).kind = k
InToolLoop(id) == At(id).kind \in {"action", "observation"}
Thinks(id) == Is(id, "action") /\ At(id).thinking

\* A view without some events.
Drop(v, ids) ==
  LET kept[i \in 0..Len(v)] == IF i = 0 THEN <<>>
        ELSE IF v[i] \in ids THEN kept[i - 1] ELSE Append(kept[i - 1], v[i])
  IN  kept[Len(v)]

ViewInit ==
  /\ history = <<Plain("system")>> /\ view = <<1>> /\ asked = FALSE
  /\ summing = None

-----------------------------------------------------------------------------
(* View *)

\* Condensation.apply, for the condensation that is event n.
Apply(v, n, c) ==
  LET kept == Drop(v, c.forgotten)
      place == IF c.offset > Len(kept) THEN Len(kept) ELSE c.offset
  IN  IF c.summary THEN InsertAt(kept, place + 1, -n) ELSE kept

\* View.append_event, of event n.
AppendTo(v, n, e) ==
  CASE e.kind = "condensation" -> Apply(v, n, e)
    [] e.kind \in {"request", "other"} -> v
    [] OTHER -> Append(v, n)

\* Some events, behind the first n of the history.
AppendAll(v, n, events) ==
  LET taken[k \in 0..Len(events)] ==
        IF k = 0 THEN v ELSE AppendTo(taken[k - 1], n + k, events[k])
  IN  taken[Len(events)]

AskedAfter(a, e) ==
  CASE e.kind = "condensation" -> FALSE
    [] e.kind = "request" -> TRUE
    [] OTHER -> a

\* ObservationUniquenessProperty.enforce: every observation but a call's first.
DuplicateObservations(v) ==
  {v[i] : i \in {j \in DOMAIN v : Is(v[j], "observation")
     /\ \E k \in 1..(j - 1) : Is(v[k], "observation") /\ At(v[k]).call = At(v[j]).call}}

\* The actions of a batch, among some ids.
BatchIn(ids, b) == {id \in ids : Is(id, "action") /\ At(id).batch = b}

\* BatchAtomicityProperty.enforce: what is left of a batch.
BrokenBatches(v) ==
  {id \in ToSet(v) : Is(id, "action")
     /\ BatchIn(ToSet(v), At(id).batch) # BatchIn(DOMAIN history, At(id).batch)}

\* ToolCallMatchingProperty.enforce: an action without an observation, or the
\* other way round.
Unmatched(v) ==
  LET actions == {id \in ToSet(v) : Is(id, "action")}
      observed == {At(id).call : id \in {x \in ToSet(v) : Is(x, "observation")}}
  IN  (actions \ observed)
        \cup {id \in ToSet(v) : Is(id, "observation") /\ At(id).call \notin actions}

\* ToolLoopAtomicityProperty._tool_loops of the history: from an action that
\* thinks, over actions and observations, to the next such action or to the
\* first event of another kind.
LoopFrom(s) ==
  {e \in s..Len(history) : \A i \in s..e : InToolLoop(i) /\ (i > s => ~Thinks(i))}

\* ToolLoopAtomicityProperty.enforce: what is left of a tool loop.
BrokenLoops(v) ==
  {id \in ToSet(v) : \E s \in DOMAIN history :
     Thinks(s) /\ id \in LoopFrom(s) /\ ~(LoopFrom(s) \subseteq ToSet(v))}

\* Seeded fault: one round repairs every property from the view it started with.
EnforcedInOneRound(v) ==
  Drop(v, DuplicateObservations(v) \cup BrokenBatches(v) \cup Unmatched(v)
               \cup BrokenLoops(v))

\* One round of enforce_properties: the first property that is broken.
EnforceOnce(v) ==
  LET removals == <<DuplicateObservations(v), BrokenBatches(v), Unmatched(v),
                    BrokenLoops(v)>>
      broken == {p \in 1..4 : removals[p] # {}}
  IN  IF broken = {} THEN v
      ELSE Drop(v, removals[CHOOSE p \in broken : \A q \in broken : p <= q])

\* enforce_properties: rounds until nothing changes; each removes an event.
Enforced(v) ==
  LET round[k \in 0..Len(v)] == IF k = 0 THEN v ELSE EnforceOnce(round[k - 1])
  IN  round[Len(v)]

\* View.from_events of the history.
FromEvents == Enforced(AppendAll(<<>>, 0, history))

-----------------------------------------------------------------------------
(* Manipulation indices: where a view may be cut.  Index p is the gap after   *)
(* its first p events.                                                        *)

\* ToolCallMatchingProperty: not between an action and its observation.
BetweenCallAndResult(v, p) ==
  \E i \in 1..p : Is(v[i], "action")
    /\ \A j \in (i + 1)..p : ~(Is(v[j], "observation") /\ At(v[j]).call = v[i])

\* BatchAtomicityProperty: not between two actions of a batch.
InsideBatch(v, p) ==
  /\ p \in 1..(Len(v) - 1)
  /\ Is(v[p], "action") /\ Is(v[p + 1], "action")
  /\ At(v[p]).batch = At(v[p + 1]).batch

\* ToolLoopAtomicityProperty: not inside a tool loop of the view.
InsideLoop(v, p) ==
  /\ p \in 1..(Len(v) - 1)
  /\ InToolLoop(v[p + 1]) /\ ~Thinks(v[p + 1])
  /\ \E s \in 1..p : Thinks(v[s]) /\ \A i \in s..p : InToolLoop(v[i])

\* Seeded fault: a call and its result may be separated.
ManipulationIndicesLoose(v) ==
  {p \in 0..Len(v) : ~InsideBatch(v, p) /\ ~InsideLoop(v, p)}

\* View.manipulation_indices
ManipulationIndices(v) ==
  {p \in 0..Len(v) :
     ~BetweenCallAndResult(v, p) /\ ~InsideBatch(v, p) /\ ~InsideLoop(v, p)}

-----------------------------------------------------------------------------
(* LLMSummarizingCondenser *)

Least(S) == CHOOSE x \in S : \A y \in S : x <= y

\* The length of the prefix that is never forgotten: keep_first events, and the
\* leading system prompt.
ProtectedPrefix ==
  LET systems == {i \in DOMAIN view : Is(view[i], "system")}
  IN  IF systems = {} \/ Least(systems) < KeepFirst THEN KeepFirst
      ELSE Least(systems)

\* How many events at the end each reason to condense keeps; (tokens) says how
\* many token pressure keeps, or is {}.
SuffixesToKeep(tokens) ==
  (IF asked THEN {Len(view) \div 2 - KeepFirst - 1} ELSE {})
    \cup (IF Len(view) > MaxSize THEN {MaxSize \div 2 - KeepFirst - 1} ELSE {})
    \cup tokens

\* The condensations that forget a range: _get_forgotten_events and the checks of
\* get_condensation.  None if there is no index to cut at, or too little to gain.
RangeCondensations(tokens) ==
  LET indices == ManipulationIndices(view)
      starts == {p \in indices : p >= ProtectedPrefix}
      ends == {p \in indices : p >= Len(view) - Least(SuffixesToKeep(tokens))}
      start == Least(starts)
      forgotten == SubSeq(view, start + 1, Least(ends))
  IN  IF starts = {} \/ ends = {} \/ forgotten = <<>>
           \/ 10 * Len(forgotten) < Len(view)
      THEN {} ELSE {Condensation(ToSet(forgotten), TRUE, start)}

\* hard_context_reset: everything behind the system prompt.
ResetCondensations ==
  LET systems == {i \in DOMAIN view : Is(view[i], "system")}
      keep == IF systems = {} THEN 0 ELSE Least(systems)
      forgotten == SubSeq(view, keep + 1, Len(view))
  IN  IF forgotten = <<>> THEN {} ELSE {Condensation(ToSet(forgotten), TRUE, keep)}

\* condense: a range; when there is none, or its summary fails, and the
\* requirement is hard (a request, or tokens), a reset.
Condensations(tokens) ==
  RangeCondensations(tokens)
    \cup (IF asked \/ tokens # {} THEN ResetCondensations ELSE {})

-----------------------------------------------------------------------------
(* The conversation *)

\* Calls without a result.
Pending ==
  {id \in DOMAIN history : Is(id, "action")
     /\ \A o \in DOMAIN history : ~(Is(o, "observation") /\ At(o).call = id)}

\* Two results for one call have been recorded.
Doubled == DuplicateObservations([i \in DOMAIN history |-> i]) # {}

\* Events are recorded, and the cached view takes them in.
Record(events) ==
  /\ Len(history) + Len(events) <= MaxHistory
  /\ history' = history \o events
  /\ view' = AppendAll(view, Len(history), events)
  /\ asked' = AskedAfter(asked, events[Len(events)])

\* A message of the user or the agent; an event the LLM does not see; a request
\* to condense.  They arrive at any time: while a summary is awaited, from a
\* coroutine of the thread that has the (reentrant) state lock.
PlainEvent ==
  /\ \E k \in {"message", "other", "request"} : Record(<<Plain(k)>>)
  /\ UNCHANGED summing

\* What tool call n leaves at once: its action and, if there is no such tool or
\* the arguments are invalid, the error that answers it.
ToolCall(n, b, thinks, invalid) ==
  <<Action(b, thinks)>> \o (IF invalid THEN <<Observation(n)>> ELSE <<>>)

\* The LLM answers with one or two tool calls.
Respond ==
  /\ Pending = {} /\ summing = None /\ ~asked
  /\ \E thinks, invalid \in BOOLEAN :
       LET n == Len(history) + 1
           first == ToolCall(n, n, thinks, invalid)
       IN  \/ Record(first)
           \/ \E also \in BOOLEAN :
                Record(first \o ToolCall(n + Len(first), n, FALSE, also))
  /\ UNCHANGED summing

\* A call is answered.
Observe ==
  /\ \E c \in Pending : Record(<<Observation(c)>>)
  /\ UNCHANGED summing

\* A result arrives for a call that crash recovery has already answered; once.
LateObserve ==
  /\ ~Doubled
  /\ \E c \in DOMAIN history : Is(c, "action") /\ c \notin Pending
       /\ Record(<<Observation(c)>>)
  /\ UNCHANGED summing

\* A step of the agent finds that the view must be condensed, and asks the LLM
\* for a summary.
Condense ==
  /\ Pending = {} /\ summing = None
  /\ \E tokens \in {{}} \cup {{k} : k \in 0..(Len(view) - KeepFirst)} :
       /\ SuffixesToKeep(tokens) # {}
       /\ summing' \in Condensations(tokens)
  /\ UNCHANGED <<history, view, asked>>

\* The LLM has answered, perhaps without a text; the condensation is recorded.
Summarized ==
  /\ summing # None
  /\ \E s \in BOOLEAN : Record(<<[summing EXCEPT !.summary = s]>>)
  /\ summing' = None

\* rebuild_view: the conversation is loaded, or recovers from an error.
Rebuild ==
  /\ LoadMidCall \/ Pending = {}
  /\ view' = FromEvents
  /\ summing' = None
  /\ UNCHANGED <<history, asked>>

ViewNext ==
  \/ PlainEvent \/ Respond \/ Observe \/ LateObserve
  \/ Condense \/ Summarized \/ Rebuild

ViewSpec == ViewInit /\ [][ViewNext]_viewVars

-----------------------------------------------------------------------------
\* What an LLM accepts: each call has one result, behind it, and each result a
\* call; a batch is there with all of its calls or not at all.
Acceptable(v) ==
  /\ \A i \in DOMAIN v : Is(v[i], "action") =>
       \E j \in (i + 1)..Len(v) :
          {k \in DOMAIN v : Is(v[k], "observation") /\ At(v[k]).call = v[i]} = {j}
  /\ \A i \in DOMAIN v : Is(v[i], "observation") => At(v[i]).call \in ToSet(v)
  /\ \A b \in DOMAIN history : BatchIn(ToSet(v), b) \in {{}, BatchIn(DOMAIN history, b)}

\* A rebuilt view is acceptable, keeps the order of the history and opens with the
\* system prompt, whatever calls are pending or answered twice, and however often
\* the history was condensed.
RebuiltAcceptable ==
  LET v == FromEvents
  IN  /\ Acceptable(v)
      /\ v # <<>> /\ v[1] = 1
      /\ \A i \in DOMAIN v : \A j \in (i + 1)..Len(v) :
            v[i] > 0 /\ v[j] > 0 => v[i] < v[j]

\* A condensation has forgotten one action of a batch and not another, and the
\* error of an invalid call is between the two.
CutAtError ==
  \E n, a, c \in DOMAIN history :
     /\ Is(n, "condensation") /\ Is(a, "action") /\ Is(c, "action")
     /\ At(a).batch = At(c).batch /\ \E o \in a..c : Is(o, "observation")
     /\ (a \in At(n).forgotten) # (c \in At(n).forgotten)

\* When no call is open the cached view, kept up to date event by event and never
\* repaired, is the view a rebuild would give: condensation at manipulation
\* indices keeps every property ("properties should hold inductively"), and a
\* step after a restart shows the LLM what the step before it did.  The one
\* exception is the cut that BatchesWhole is about.
CachedIsRebuilt == Pending = {} /\ ~Doubled /\ ~CutAtError => view = FromEvents

\* What BatchAtomicityProperty says of the view ("Within a batch (from the start
\* index to the end), no manipulation is allowed"): a batch is shown with all of
\* its actions or not at all.  manipulation_indices looks at adjacent actions only,
\* and allows a cut behind the error of a batch's first call.
BatchesWhole ==
  \A b \in DOMAIN history : BatchIn(ToSet(view), b) \in {{}, BatchIn(DOMAIN history, b)}

\* What ToolCallMatchingProperty says of the view ("should contain exactly one
\* observation-like event for each action"): when the agent is about to call the
\* LLM, the cached view is acceptable.
CachedAcceptable == Pending = {} /\ ~Doubled => Acceptable(view)

=============================================================================
