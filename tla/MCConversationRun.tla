-------------------------- MODULE MCConversationRun --------------------------
(***************************************************************************)
(* Three conversations: one with hooks and without confirmation, and two   *)
(* with a confirmation policy and a security analyzer.  In each, two other *)
(* threads race with the run.                                              *)
(***************************************************************************)
EXTENDS ConversationRun

Hooked(c) == [clients |-> c, confirm |-> FALSE, analyzer |-> FALSE, hooks |-> TRUE]
Confirmed(c) == [clients |-> c, confirm |-> TRUE, analyzer |-> TRUE, hooks |-> FALSE]

MCSettings ==
  { Hooked({"sender", "pauser"}), Confirmed({"sender", "rejecter"}),
    Confirmed({"pauser", "rejecter"}) }
=============================================================================
