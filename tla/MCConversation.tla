--------------------------- MODULE MCConversation ---------------------------
(* Instance of Conversation: two connections of one user, and a second     *)
(* user who may only be refused.                                           *)
EXTENDS Conversation, TLC

CONSTANTS c1, c2, r1, u1, u2

MCUserOf == [c \in {c1, c2} |-> u1]
=============================================================================
