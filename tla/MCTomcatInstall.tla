---------------------------- MODULE MCTomcatInstall ----------------------------
(* Small instances of TomcatInstall: three files, the script first, as in   *)
(* the archive, whose bin directory comes before conf and lib.              *)
EXTENDS TomcatInstall, TLC
=============================================================================
