------------------------ MODULE MCConversationLease ------------------------
(***************************************************************************)
(* ConversationLease on two hosts: two servers share one, the third is     *)
(* alone on the other.                                                     *)
(***************************************************************************)
EXTENDS ConversationLease

CONSTANTS s1, s2, s3, h1, h2

MCHost == [s \in Servers |-> IF s = s3 THEN h2 ELSE h1]
=============================================================================
