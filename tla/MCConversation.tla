---------------------------- MODULE MCConversation ----------------------------
(* Conversation on two calls and replies of at most two calls.             *)
EXTENDS Conversation

CONSTANTS a, b

MCCallId == {a, b}
MCReplies == {<<>>, <<a>>, <<a, b>>}
MCRepliesIds == MCReplies \cup {<<a, a>>}
=============================================================================
