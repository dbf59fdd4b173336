------------------------- MODULE MCConversationTree -------------------------
(***************************************************************************)
(* Bounds for ConversationTree: navigation multiplies the trees, so a      *)
(* local conversation is kept shorter than one on the server.              *)
(***************************************************************************)
EXTENDS ConversationTree

MCMaxEvents == [local |-> 4, server |-> 6]
MCMaxCrashes == [local |-> 1, server |-> 2]
MCMaxLost == [local |-> 1, server |-> 1]
=============================================================================
