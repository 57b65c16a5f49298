----------------------------- MODULE MCToolExec -----------------------------
(* ToolExec with descriptors for one call and the reuse of some by another.*)
EXTENDS ToolExec

MCFds == 1..9
=============================================================================
