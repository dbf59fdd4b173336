--------------------------- MODULE MCEventService ---------------------------
(***************************************************************************)
(* Three requests to a conversation whose agent calls an LLM, two to one   *)
(* with an ACP agent.                                                      *)
(***************************************************************************)
EXTENDS EventService

MCMaxCalls == [a \in Agents |-> IF a = "llm" THEN 3 ELSE 2]
=============================================================================
