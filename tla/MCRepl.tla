------------------------------- MODULE MCRepl -------------------------------
(* Repl on one message, one command and replies of at most one call.       *)
EXTENDS Repl

CONSTANTS a, hello, command

MCCallId == {a}
MCReplies == {<<>>, <<a>>}
MCText == {hello, command}
MCCommands == {command}
=============================================================================
