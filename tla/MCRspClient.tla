------------------------------ MODULE MCRspClient ------------------------------
(* Small instances of RspClient. *)
EXTENDS RspClient, TLC
=============================================================================
