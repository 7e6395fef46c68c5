------------------------------ MODULE MCOutputPipe ------------------------------
(* Small instances of OutputPipe: a command that is waited for, and a       *)
(* dependency service.                                                      *)
EXTENDS OutputPipe, TLC
=============================================================================
