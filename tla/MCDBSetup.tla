------------------------------ MODULE MCDBSetup ------------------------------
(* DBSetup with the layouts the catalog's projects have.  common-components  *)
(* and the MSA stack name the same schema, as backend and portal do here.    *)
EXTENDS DBSetup, TLC

Templates == {"edu", "backend", "portal"}
Shared    == {"common", "msa"}

CatalogLayout == [p \in Templates \cup Shared |->
  CASE p = "common"  -> [kind |-> "script", schema |-> "com", sides |-> {}]
    [] p = "msa"     -> [kind |-> "compose", schema |-> "com", sides |-> {"redis"}]
    [] p = "edu"     -> [kind |-> "self", schema |-> "edu", sides |-> {"rabbit"}]
    [] p = "backend" -> [kind |-> "bootprops", schema |-> "sht", sides |-> {}]
    [] p = "portal"  -> [kind |-> "war", schema |-> "sht", sides |-> {}]]

CallsAreAlike == Permutations(Calls)

=============================================================================
