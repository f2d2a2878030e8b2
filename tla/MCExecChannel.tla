--------------------------- MODULE MCExecChannel ---------------------------
(* Instance of ExecChannel for TLC.                                         *)
EXTENDS ExecChannel
=============================================================================
