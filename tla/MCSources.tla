------------------------------- MODULE MCSources -------------------------------
(* Small instances of Sources.                                              *)
EXTENDS Sources

OneTarget == {"portal"}
TwoWorkspaces == {"work", "other"}
=============================================================================
