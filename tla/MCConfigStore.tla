----------------------------- MODULE MCConfigStore -----------------------------
(* Small instances of ConfigStore: two directories, JDKs and Tomcats. *)
EXTENDS ConfigStore, TLC

FormsAreAlike == Permutations(Forms)
=============================================================================
