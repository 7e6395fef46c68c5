------------------------------ MODULE MCJobRunner ------------------------------
(* Small instances of JobRunner: the shapes the catalog's targets have.    *)
EXTENDS JobRunner

(* A boot or npm target, and one deployed as a WAR. *)
Plain == [offers |-> {"build", "run"}, chain |-> <<>>]
WAR   == [offers |-> {"build", "war"}, chain |-> <<>>]

(* The MSA targets start services with a port of their own, then services  *)
(* on random ports, before the last command.                               *)
MSA   == [offers |-> {"build", "run"}, chain |-> <<"mapped", "random">>]

(* runLongWithPort also runs commands of a chain to completion. *)
Mixed == [offers |-> {"build", "run"}, chain |-> <<"mapped", "step">>]

AllShapes == {Plain, WAR, MSA, Mixed}
OnlyMSA   == {MSA}

(* A job nobody coordinates where two runs have something to fight about,  *)
(* and every shape with a user who waits.                                  *)
AnyUser   == [t \in AllShapes |-> IF t \in {WAR, Mixed} THEN {"api", "serial"} ELSE {"serial"}]
Dashboard == [t \in OnlyMSA |-> {"dashboard"}]

=============================================================================
