------------------------------ MODULE DurableLog ------------------------------
(***************************************************************************)
(* What include/oi/sesslog.h promises of a session log, and what the rest  *)
(* of this project assumes of an append: records are added at the end, one *)
(* at a time and whole; none is ever lost, changed or reordered; and a     *)
(* record whose append returned OI_OK is there.  An append that failed, or *)
(* was cut off by the death of the process, added its record or did not.   *)
(***************************************************************************)
EXTENDS Naturals, Sequences

CONSTANT Record

VARIABLES log,    \* the records in the log
          known   \* so many of them somebody was told of

Init == log = <<>> /\ known = 0

Add(r) == log' = Append(log, r) /\ known' \in {known, Len(log')}

Spec == Init /\ [][\E r \in Record : Add(r)]_<<log, known>>
=============================================================================
