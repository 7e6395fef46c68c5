-------------------------------- MODULE MCLogBuf --------------------------------
(* Small instances of LogBuf. *)
EXTENDS LogBuf, TLC

ActorsAreAlike == Permutations(Writers) \cup Permutations(Streams)
=============================================================================
