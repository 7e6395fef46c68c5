------------------------------ MODULE MCRspJobs ------------------------------
(* RspJobs with two ports. *)
EXTENDS RspJobs, TLC

TwoPorts == {8080, 8081}

JobsAreAlike == Permutations(Jobs)

=============================================================================
