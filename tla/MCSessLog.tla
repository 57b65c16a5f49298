------------------------------ MODULE MCSessLog ------------------------------
(* SessLog with bits for bytes.                                            *)
EXTENDS SessLog

MCHeader == <<1, 0>>
=============================================================================
