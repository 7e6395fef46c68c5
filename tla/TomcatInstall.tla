----------------------------- MODULE TomcatInstall -----------------------------
(***************************************************************************)
(* Which Tomcat a WAR run or an RSP setup uses, and the installation of    *)
(* one when none is configured: the first steps of runWAR and setupRSP,    *)
(* autoInstallTomcat, downloadAndVerifySHA512, unzip.                      *)
(*                                                                         *)
(* The Tomcat that is installed is the list of its files in the order of   *)
(* the archive; file Script is the catalina script every check looks for.  *)
(***************************************************************************)
EXTENDS Integers, FiniteSets

CONSTANTS
  WarRuns,    \* goroutines of runWAR
  RspSetups,  \* goroutines of setupRSP
  Files,      \* bound: files in the archive
  Script      \* the place of bin/catalina.sh among them

ASSUME FilesAssumption ==
  /\ WarRuns \cap RspSetups = {}
  /\ Files \in Nat \ {0} /\ Script \in 1 .. Files

(* The server lets them run at the same time. *)
Users == WarRuns \cup RspSetups
File  == 1 .. Files

VARIABLES
  home,      \* the files below targetHome: absent, cut short, whole
  offline,   \* the archive a user may put beside it
  saved,     \* TomcatPath in the configuration: none, auto (targetHome), other
  otherGood, \* the directory a user configured has a script
  pc,
  use,       \* the Tomcat each goroutine goes on with
  at,        \* the file it extracts
  temp,      \* the goroutines whose downloaded archive is on the disk
  litter,    \* an archive was left behind
  killed,    \* history: the launcher died with an archive on the disk
  broken     \* history: an extraction was cut off, by an error or a kill

vars == <<home, offline, saved, otherGood, pc, use, at, temp, litter, killed, broken>>

Homes == {"none", "auto", "other"}

TypeOK ==
  /\ home \in [File -> {"absent", "cut", "whole"}]
  /\ offline \in {"absent", "bad", "good"}
  /\ saved \in Homes /\ otherGood \in BOOLEAN
  /\ pc \in [Users -> {"idle", "stat", "check", "findZip", "verify", "download", "hash", "extract",
                       "write", "save", "ready", "failed"}]
  /\ use \in [Users -> Homes]
  /\ at \in [Users -> 1 .. Files + 1]
  /\ temp \subseteq Users
  /\ litter \in BOOLEAN /\ killed \in BOOLEAN /\ broken \in BOOLEAN

Init ==
  /\ home = [f \in File |-> "absent"]
  /\ offline = "absent" /\ saved = "none" /\ otherGood = FALSE
  /\ pc = [u \in Users |-> "idle"]
  /\ use = [u \in Users |-> "none"]
  /\ at = [u \in Users |-> 1]
  /\ temp = {}
  /\ litter = FALSE /\ killed = FALSE /\ broken = FALSE

Goto(u, from, to) == pc[u] = from /\ pc' = [pc EXCEPT ![u] = to]
Quiet == \A u \in Users : pc[u] = "idle"

HasScript(h) == IF h = "auto" THEN home[Script] # "absent" ELSE h = "other" /\ otherGood

-----------------------------------------------------------------------------
(* The user, between two uses: the settings form takes any directory; a     *)
(* Tomcat is installed, removed or repaired by hand.  An archive is copied  *)
(* beside targetHome at any time, and is incomplete meanwhile.              *)

Configure ==
  /\ Quiet
  /\ saved' \in {"none", "other"}
  /\ otherGood' \in BOOLEAN
  /\ UNCHANGED <<home, offline, pc, use, at, temp, litter, killed, broken>>

RemoveHome ==
  /\ Quiet
  /\ home' = [f \in File |-> "absent"]
  /\ broken' = FALSE
  /\ UNCHANGED <<offline, saved, otherGood, pc, use, at, temp, litter, killed>>

PlaceArchive ==
  /\ offline # "good"
  /\ offline' \in IF offline = "absent" THEN {"bad"} ELSE {"absent", "good"}
  /\ UNCHANGED <<home, saved, otherGood, pc, use, at, temp, litter, killed, broken>>

-----------------------------------------------------------------------------
(* Which Tomcat.                                                            *)

(* Variant for the checks: the path is saved before it is known to be good. *)
begin_Saves(u) ==
  /\ pc[u] = "idle"
  /\ pc' = [pc EXCEPT ![u] = IF saved = "none" THEN "check"
                             ELSE IF u \in RspSetups THEN "ready" ELSE "stat"]
  /\ use' = [use EXCEPT ![u] = saved]
  /\ saved' = IF saved = "none" THEN "auto" ELSE saved
  /\ UNCHANGED <<home, offline, otherGood, at, temp, litter, killed, broken>>

(* Both functions read the configuration when they begin.  setupRSP asks    *)
(* tomcatCatalina for the name of the script, which is never empty, so any  *)
(* configured directory will do; runWAR looks whether the script exists.    *)
begin(u) ==
  /\ pc[u] = "idle"
  /\ pc' = [pc EXCEPT ![u] = IF saved = "none" THEN "check"
                             ELSE IF u \in RspSetups THEN "ready" ELSE "stat"]
  /\ use' = [use EXCEPT ![u] = saved]
  /\ UNCHANGED <<home, offline, saved, otherGood, at, temp, litter, killed, broken>>

(* Variant for the checks: a configured directory is not looked at. *)
statScript_Trusts(u) ==
  /\ Goto(u, "stat", "ready")
  /\ UNCHANGED <<home, offline, saved, otherGood, use, at, temp, litter, killed, broken>>
statScript(u) ==
  /\ Goto(u, "stat", IF HasScript(use[u]) THEN "ready" ELSE "check")
  /\ UNCHANGED <<home, offline, saved, otherGood, use, at, temp, litter, killed, broken>>

-----------------------------------------------------------------------------
(* autoInstallTomcat.                                                       *)

(* An error is returned.  The archive that was downloaded is removed. *)
Fail(u) ==
  /\ pc' = [pc EXCEPT ![u] = "failed"]
  /\ temp' = temp \ {u}
  /\ UNCHANGED litter

check(u) ==
  /\ Goto(u, "check", IF HasScript("auto") THEN "save" ELSE "findZip")
  /\ UNCHANGED <<home, offline, saved, otherGood, use, at, temp, litter, killed, broken>>

findZip(u) ==
  /\ Goto(u, "findZip", IF offline # "absent" THEN "verify" ELSE "download")
  /\ UNCHANGED <<home, offline, saved, otherGood, use, at, temp, litter, killed, broken>>

(* A wrong digest is an error, never a reason to download instead. *)
verify(u) ==
  /\ pc[u] = "verify"
  /\ \/ /\ offline = "good"
        /\ pc' = [pc EXCEPT ![u] = "extract"]
        /\ UNCHANGED <<temp, litter>>
     \/ Fail(u)
  /\ UNCHANGED <<home, offline, saved, otherGood, use, at, killed, broken>>

download(u) ==
  /\ pc[u] = "download"
  /\ \/ /\ pc' = [pc EXCEPT ![u] = "hash"]
        /\ temp' = temp \cup {u}
        /\ UNCHANGED litter
     \/ Fail(u)
  /\ UNCHANGED <<home, offline, saved, otherGood, use, at, killed, broken>>

hash(u) ==
  /\ pc[u] = "hash"
  /\ \/ /\ pc' = [pc EXCEPT ![u] = "extract"]
        /\ UNCHANGED <<temp, litter>>
     \/ Fail(u)
  /\ UNCHANGED <<home, offline, saved, otherGood, use, at, killed, broken>>

(* unzip: each file is truncated, then written. *)
openFile(u) ==
  /\ at[u] <= Files
  /\ Goto(u, "extract", "write")
  /\ home' = [home EXCEPT ![at[u]] = "cut"]
  /\ UNCHANGED <<offline, saved, otherGood, use, at, temp, litter, killed, broken>>

(* Variant for the checks: an error while a file is written is not noticed. *)
closeFile_NoError(u) ==
  /\ Goto(u, "write", "extract")
  /\ home' \in {home, [home EXCEPT ![at[u]] = "whole"]}
  /\ at' = [at EXCEPT ![u] = @ + 1]
  /\ UNCHANGED <<offline, saved, otherGood, use, temp, litter, killed, broken>>

(* Of two goroutines that write a file, the one that truncated it last      *)
(* makes it whole; until then it may have a hole. *)
Writing(f) == {u \in Users : pc[u] = "write" /\ at[u] = f}
closeFile(u) ==
  /\ Goto(u, "write", "extract")
  /\ \/ home' = [home EXCEPT ![at[u]] = "whole"]
     \/ Writing(at[u]) # {u} /\ UNCHANGED home
  /\ at' = [at EXCEPT ![u] = @ + 1]
  /\ UNCHANGED <<offline, saved, otherGood, use, temp, litter, killed, broken>>

extractFails(u) ==
  /\ pc[u] \in {"extract", "write"}
  /\ Fail(u)
  /\ broken' = TRUE
  /\ UNCHANGED <<home, offline, saved, otherGood, use, at, killed>>

extracted(u) ==
  /\ at[u] > Files
  /\ Goto(u, "extract", "save")
  /\ temp' = temp \ {u}
  /\ UNCHANGED <<home, offline, saved, otherGood, use, at, litter, killed, broken>>

(* The caller saves the path and goes on with it. *)
save(u) ==
  /\ Goto(u, "save", "ready")
  /\ saved' = "auto"
  /\ use' = [use EXCEPT ![u] = "auto"]
  /\ UNCHANGED <<home, offline, otherGood, at, temp, litter, killed, broken>>

finish(u) ==
  /\ pc[u] \in {"ready", "failed"}
  /\ pc' = [pc EXCEPT ![u] = "idle"]
  /\ use' = [use EXCEPT ![u] = "none"]
  /\ at' = [at EXCEPT ![u] = 1]
  /\ UNCHANGED <<home, offline, saved, otherGood, temp, litter, killed, broken>>

(* The launcher is killed: no deferred call runs. *)
Kill ==
  /\ ~Quiet
  /\ pc' = [u \in Users |-> "idle"]
  /\ use' = [u \in Users |-> "none"]
  /\ at' = [u \in Users |-> 1]
  /\ temp' = {}
  /\ litter' = (litter \/ temp # {})
  /\ killed' = (killed \/ temp # {})
  /\ broken' = (broken \/ \E u \in Users : pc[u] \in {"extract", "write"})
  /\ UNCHANGED <<home, offline, saved, otherGood>>

-----------------------------------------------------------------------------
Step(u) == begin(u) \/ statScript(u) \/ check(u) \/ findZip(u) \/ verify(u) \/ download(u)
           \/ hash(u) \/ openFile(u) \/ closeFile(u) \/ extractFails(u) \/ extracted(u)
           \/ save(u) \/ finish(u)
Next == Configure \/ RemoveHome \/ PlaceArchive \/ Kill \/ \E u \in Users : Step(u)

Spec == Init /\ [][Next]_vars

-----------------------------------------------------------------------------
(* Properties.                                                              *)

Whole == \A f \in File : home[f] = "whole"

(* A WAR run goes on with a directory that has a catalina script, whatever  *)
(* was configured, removed or interrupted before.  An RSP setup may not: it *)
(* takes any configured directory (runner.go 2239).                         *)
ReadyHasScript == \A u \in WarRuns : pc[u] = "ready" => HasScript(use[u])

(* Every installation takes a directory with a script for installed         *)
(* (runner.go 1957).  Once no extraction is under way it is complete,       *)
(* however many of them wrote into it at the same time, unless one was cut  *)
(* off by an error or a kill.                                               *)
Extracting(u) == pc[u] \in {"extract", "write"}
SettledIsWhole ==
  HasScript("auto") /\ ~broken /\ (\A u \in Users : ~Extracting(u)) => Whole

(* runner.go 2040: the archive is removed on any failure; only a kill       *)
(* leaves one behind.                                                       *)
NoArchiveLeft ==
  /\ litter => killed
  /\ \A u \in temp : pc[u] \in {"hash", "extract", "write"}

(* The path of the installed Tomcat is saved only while its script is       *)
(* there, also when another installation is extracting it or was killed: no *)
(* later run is sent to a directory that nothing was extracted to.          *)
SavedIsInstalled == [][saved' = "auto" /\ saved # "auto" => home[Script] # "absent"]_vars
=============================================================================
