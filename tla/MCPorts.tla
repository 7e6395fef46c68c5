-------------------------------- MODULE MCPorts --------------------------------
(* A small instance of Ports: a frontend and its backend, whose searches    *)
(* overlap as those of the neighbours portal (8093) and enterprise-business *)
(* (8094) do, and a service whose fixed port lies in the search of its own  *)
(* target, as those of msa do (19003 in 19000 .. 19099), but not in the     *)
(* frontend's.  A run may be given any port, the fixed one included.        *)
EXTENDS Ports

PairJobs    == {"front", "back"}
PairBase    == [front |-> 1, back |-> 2]
PairDep     == [front |-> 0, back |-> 3]
PairBackend == [front |-> "back", back |-> "back"]
=============================================================================
