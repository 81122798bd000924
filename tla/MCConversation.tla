--------------------------- MODULE MCConversation ---------------------------
(***************************************************************************)
(* Small instance of Conversation: one question that candidates may word   *)
(* alike or not, one confirmation to promote, a dormancy allowance of one  *)
(* turn.                                                                   *)
(***************************************************************************)
EXTENDS Conversation

CONSTANT t1

MCTopics == {t1}
=============================================================================
