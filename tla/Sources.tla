-------------------------------- MODULE Sources --------------------------------
(***************************************************************************)
(* The source directories of the targets: runClone with git, the patches   *)
(* that follow it, a workspace that can be changed meanwhile, and what the *)
(* dashboard's polling remembers about a directory (needsDBCache).  The    *)
(* dashboard keeps the requests of one target apart.  A git has a process  *)
(* group of its own (process_darwin.go 12), so it may go on beside the     *)
(* launcher that is started after the one that started it.                 *)
(*                                                                         *)
(* SrcInit, SrcNext, SrcTypeOK and SrcSpec have a prefix since FilesProofs *)
(* extends this module together with TomcatInstall.                        *)
(***************************************************************************)
EXTENDS Integers

CONSTANTS
  Targets,
  Workspaces,
  Polls,      \* requests of /api/targets that may be handled at the same time
  HasDB,      \* the targets whose sources contain the scripts of a database
  MaxClones,  \* bound: Clone requests of each target
  MaxCrashes  \* bound: ends of the launcher

ASSUME SourcesAssumption ==
  /\ HasDB \subseteq Targets /\ Workspaces # {}
  /\ MaxClones \in Nat /\ MaxCrashes \in Nat

VARIABLES
  workspace,  \* Runner.workspace
  tree,       \* what is on disk
  marks,      \* how often the launcher's additions are in its files
  torn,       \* whether a file was cut off while it was patched
  cache,      \* needsDBCache
  doubtful,   \* history: the answer was computed in doubt (poll), or outlived a Clone
  clone,      \* runClone of each target; disturbed is history: see DoneMeansReady
  stray,      \* where gits of earlier launchers are still at work
  poll,       \* handleTargets
  clones, crashes

disk == <<tree, marks, torn>>
srcVars == <<workspace, disk, cache, doubtful, clone, stray, poll, clones, crashes>>

Dirs == Workspaces \X Targets
Idle == [pc |-> "idle", dir |-> <<>>, at |-> <<>>, clean |-> FALSE, disturbed |-> FALSE]
NoPoll == [pc |-> "idle", dir |-> <<>>, answer |-> "none", doubt |-> FALSE]

SrcTypeOK ==
  /\ workspace \in Workspaces
  /\ tree \in [Dirs -> {"absent", "empty", "partial", "whole"}]
  /\ marks \in [Dirs -> Nat] /\ torn \in [Dirs -> BOOLEAN]
  /\ \A d \in Dirs : marks[d] > 0 \/ torn[d] => tree[d] \in {"partial", "whole"}
  /\ cache \in [Dirs -> {"none", "yes", "no"}] /\ doubtful \in [Dirs -> BOOLEAN]
  /\ \A t \in Targets : clone[t].pc \in {"idle", "look", "remove", "mkdir", "start", "git", "patch",
                                         "write", "forget"}
  /\ \A t \in Targets : clone[t].pc = "git" => clone[t].at \in Dirs
  /\ stray \subseteq Dirs
  /\ \A p \in Polls : poll[p].pc \in {"idle", "load", "walk", "store"}

SrcInit ==
  /\ workspace \in Workspaces
  /\ tree = [d \in Dirs |-> "absent"]
  /\ marks = [d \in Dirs |-> 0] /\ torn = [d \in Dirs |-> FALSE]
  /\ cache = [d \in Dirs |-> "none"] /\ doubtful = [d \in Dirs |-> FALSE]
  /\ clone = [t \in Targets |-> Idle] /\ stray = {}
  /\ poll = [p \in Polls |-> NoPoll]
  /\ clones = [t \in Targets |-> 0] /\ crashes = 0

Exists(d) == tree[d] \in {"partial", "whole"}
CloneGoes(t, from, to) == clone[t].pc = from /\ clone' = [clone EXCEPT ![t].pc = to]
End(t) == clone' = [clone EXCEPT ![t] = Idle]
(* The directory is now in this state, without the launcher's additions. *)
Becomes(d, state) ==
  /\ tree' = [tree EXCEPT ![d] = state]
  /\ marks' = [marks EXCEPT ![d] = 0] /\ torn' = [torn EXCEPT ![d] = FALSE]

(* Something is at work on the sources of d: a Clone, or a git left over. *)
AtWork(d) == clone[d[2]].pc # "idle" \/ d \in stray

-----------------------------------------------------------------------------
(* Clone.                                                                   *)

request(t, clean) ==
  /\ clone[t].pc = "idle" /\ clones[t] < MaxClones
  /\ clones' = [clones EXCEPT ![t] = @ + 1]
  /\ clone' = [clone EXCEPT ![t] = [Idle EXCEPT !.pc = "look", !.dir = <<workspace, t>>, !.clean = clean]]
  /\ poll' = [p \in Polls |->
       [poll[p] EXCEPT !.doubt = @ \/ (poll[p].pc = "store" /\ poll[p].dir[2] = t)]]
  /\ UNCHANGED <<workspace, disk, cache, doubtful, stray, crashes>>

(* Variant for the checks: what exists is cleaned away without a request. *)
look_Cleans(t) ==
  /\ clone[t].pc = "look"
  /\ CloneGoes(t, "look", IF Exists(clone[t].dir) THEN "remove" ELSE "mkdir")
  /\ UNCHANGED <<workspace, disk, cache, doubtful, stray, poll, clones, crashes>>

(* A directory that cannot be read counts as one that does not exist.       *)
look(t) ==
  /\ clone[t].pc = "look"
  /\ \/ clone[t].clean /\ CloneGoes(t, "look", "remove")
     \/ ~clone[t].clean /\ Exists(clone[t].dir) /\ CloneGoes(t, "look", "patch")
     \/ ~clone[t].clean /\ CloneGoes(t, "look", "mkdir")
  /\ UNCHANGED <<workspace, disk, cache, doubtful, stray, poll, clones, crashes>>

(* RemoveAll; its error is dropped. *)
remove(t) ==
  /\ CloneGoes(t, "remove", "mkdir")
  /\ \/ Becomes(clone[t].dir, "absent")
     \/ Exists(clone[t].dir) /\ tree' = [tree EXCEPT ![clone[t].dir] = "partial"] /\ UNCHANGED <<marks, torn>>
     \/ UNCHANGED disk
  /\ UNCHANGED <<workspace, cache, doubtful, stray, poll, clones, crashes>>

mkdir(t) ==
  LET d == clone[t].dir IN
  /\ clone[t].pc = "mkdir"
  /\ \/ /\ clone' = [clone EXCEPT ![t].pc = "start"]
        /\ IF tree[d] = "absent" THEN Becomes(d, "empty") ELSE UNCHANGED disk
     \/ tree[d] = "absent" /\ End(t) /\ UNCHANGED disk
  /\ UNCHANGED <<workspace, cache, doubtful, stray, poll, clones, crashes>>

(* Variant for the checks: git is not told its directory.                   *)
startGit_Nowhere(t) ==
  /\ CloneGoes(t, "start", "git")
  /\ UNCHANGED <<workspace, disk, cache, doubtful, stray, poll, clones, crashes>>

(* git starts in the workspace of that moment.  It needs its directory, and *)
(* refuses one that is not empty.                                           *)
startGit(t) ==
  LET at == <<workspace, t>> IN
  /\ clone[t].pc = "start"
  /\ \/ /\ tree[at] = "empty"
        /\ clone' = [clone EXCEPT ![t].pc = "git", ![t].at = at]
        /\ Becomes(at, "partial")
        /\ doubtful' = [doubtful EXCEPT ![at] = @ \/ at # clone[t].dir]
     \/ tree[at] # "empty" /\ End(t) /\ UNCHANGED <<disk, doubtful>>
  /\ UNCHANGED <<workspace, cache, stray, poll, clones, crashes>>

(* Variant for the checks: an error of git is ignored.                      *)
gitEnds_IgnoresError(t) ==
  /\ CloneGoes(t, "git", "patch")
  /\ Becomes(clone[t].at, "whole") \/ Becomes(clone[t].at, "empty") \/ UNCHANGED disk
  /\ UNCHANGED <<workspace, cache, doubtful, stray, poll, clones, crashes>>

(* git succeeds, fails and takes back what it wrote, or is killed. *)
gitEnds(t) ==
  /\ clone[t].pc = "git"
  /\ \/ clone' = [clone EXCEPT ![t].pc = "patch"] /\ Becomes(clone[t].at, "whole")
     \/ End(t) /\ Becomes(clone[t].at, "empty")
     \/ End(t) /\ UNCHANGED disk
  /\ UNCHANGED <<workspace, cache, doubtful, stray, poll, clones, crashes>>

-----------------------------------------------------------------------------
(* Clone: the patches of pom.xml, build.gradle and the central config.      *)

(* Variant for the checks: an addition that is there is not looked for. *)
MayNeedPatch_Always(d) == Exists(d)

(* The file is there, it is one of those the patch is for, and it has no    *)
(* addition.  Sources that are not whole may lack it, and one that was cut  *)
(* off may lack what the patch looks for.                                   *)
MayNeedPatch(d) == Exists(d) /\ marks[d] = 0

(* An error of ReadFile is dropped and the file left as it is. *)
patch(t) ==
  LET d == clone[t].dir IN
  /\ clone[t].pc = "patch"
  /\ \/ /\ MayNeedPatch(d)
        /\ clone' = [clone EXCEPT ![t].pc = "write"]
     \/ /\ tree[d] = "whole" /\ ~torn[d] => ~MayNeedPatch(d)
        /\ clone' = [clone EXCEPT ![t].pc = "forget"]
     \/ clone' = [clone EXCEPT ![t].pc = "forget", ![t].disturbed = TRUE]
  /\ UNCHANGED <<workspace, disk, cache, doubtful, stray, poll, clones, crashes>>

(* WriteFile truncates the file and writes it again, or makes it anew where *)
(* a git has just taken everything back.  Its error is dropped: the file is *)
(* as it was, or cut off.                                                   *)
write(t) ==
  LET d == clone[t].dir IN
  /\ clone[t].pc = "write"
  /\ \/ /\ tree[d] # "absent"
        /\ tree' = [tree EXCEPT ![d] = IF @ = "empty" THEN "partial" ELSE @]
        /\ \/ /\ marks' = [marks EXCEPT ![d] = @ + 1] /\ UNCHANGED torn
              /\ clone' = [clone EXCEPT ![t].pc = "forget"]
           \/ /\ torn' = [torn EXCEPT ![d] = TRUE] /\ UNCHANGED marks
              /\ clone' = [clone EXCEPT ![t].pc = "forget", ![t].disturbed = TRUE]
     \/ clone' = [clone EXCEPT ![t].pc = "forget", ![t].disturbed = TRUE] /\ UNCHANGED disk
  /\ UNCHANGED <<workspace, cache, doubtful, stray, poll, clones, crashes>>

(* Variant for the checks: the cache is left alone. *)
forget_Keeps(t) ==
  /\ clone[t].pc = "forget" /\ End(t)
  /\ UNCHANGED <<workspace, disk, cache, doubtful, stray, poll, clones, crashes>>

(* "clone completed". *)
forget(t) ==
  /\ clone[t].pc = "forget" /\ End(t)
  /\ cache' = [cache EXCEPT ![clone[t].dir] = "none"]
  /\ doubtful' = [doubtful EXCEPT ![clone[t].dir] = FALSE]
  /\ UNCHANGED <<workspace, disk, stray, poll, clones, crashes>>

Clone(t) == \/ \E clean \in BOOLEAN : request(t, clean)
            \/ look(t) \/ remove(t) \/ mkdir(t) \/ startGit(t) \/ gitEnds(t)
            \/ patch(t) \/ write(t) \/ forget(t)

-----------------------------------------------------------------------------
(* handleTargets, for one target.                                           *)

(* The directory that is looked for and the one that is asked about are     *)
(* read from the workspace one after the other.                             *)
stat(p, t) ==
  /\ poll[p].pc = "idle"
  /\ tree[<<workspace, t>>] # "absent"
  /\ \E w \in Workspaces : poll' = [poll EXCEPT ![p] = [NoPoll EXCEPT !.pc = "load", !.dir = <<w, t>>]]
  /\ UNCHANGED <<workspace, disk, cache, doubtful, clone, stray, clones, crashes>>

load(p) ==
  /\ poll[p].pc = "load"
  /\ poll' = [poll EXCEPT ![p] = IF cache[poll[p].dir] # "none" THEN NoPoll ELSE [@ EXCEPT !.pc = "walk"]]
  /\ UNCHANGED <<workspace, disk, cache, doubtful, clone, stray, clones, crashes>>

(* detectDBPattern on what is there. *)
Detected(d) ==
  IF d[2] \notin HasDB \/ tree[d] \in {"absent", "empty"} THEN {"no"}
  ELSE IF tree[d] = "whole" THEN {"yes"} ELSE {"yes", "no"}

(* What cannot be read counts as missing. *)
walk(p) ==
  LET answered(answer, doubt) ==
        poll' = [poll EXCEPT ![p] = [@ EXCEPT !.pc = "store", !.answer = answer, !.doubt = doubt]] IN
  /\ poll[p].pc = "walk"
  /\ \/ \E answer \in Detected(poll[p].dir) : answered(answer, AtWork(poll[p].dir))
     \/ answered("no", TRUE)
  /\ UNCHANGED <<workspace, disk, cache, doubtful, clone, stray, clones, crashes>>

store(p) ==
  /\ poll[p].pc = "store"
  /\ cache' = [cache EXCEPT ![poll[p].dir] = poll[p].answer]
  /\ doubtful' = [doubtful EXCEPT ![poll[p].dir] = poll[p].doubt]
  /\ poll' = [poll EXCEPT ![p] = NoPoll]
  /\ UNCHANGED <<workspace, disk, clone, stray, clones, crashes>>

Poll(p) == (\E t \in Targets : stat(p, t)) \/ load(p) \/ walk(p) \/ store(p)

-----------------------------------------------------------------------------
SetWorkspace(w) ==
  /\ w # workspace
  /\ workspace' = w
  /\ UNCHANGED <<disk, cache, doubtful, clone, stray, poll, clones, crashes>>

(* The launcher ends and is started again.  A git that was at work goes on, *)
(* or ends with it; a file that was being written is as it was, cut off, or *)
(* written.                                                                 *)
Crash ==
  /\ crashes < MaxCrashes /\ crashes' = crashes + 1
  /\ \E on \in SUBSET {clone[t].at : t \in {u \in Targets : clone[u].pc = "git"}} : stray' = stray \cup on
  /\ LET writing == {clone[t].dir : t \in {u \in Targets : clone[u].pc = "write" /\ Exists(clone[u].dir)}} IN
     \E cut \in SUBSET writing : \E done \in SUBSET writing :
       /\ torn' = [d \in Dirs |-> torn[d] \/ d \in cut]
       /\ marks' = [d \in Dirs |-> IF d \in done \ cut THEN marks[d] + 1 ELSE marks[d]]
  /\ cache' = [d \in Dirs |-> "none"] /\ doubtful' = [d \in Dirs |-> FALSE]
  /\ clone' = [t \in Targets |-> Idle]
  /\ poll' = [p \in Polls |-> NoPoll]
  /\ UNCHANGED <<workspace, tree, clones>>

(* A git that an earlier launcher left behind ends: it has completed the    *)
(* sources, unless another git is at work on them, over the additions made  *)
(* meanwhile or beside them; it takes everything back; or it is killed.  It *)
(* works by path, so it does so even to what came there after it.           *)
strayEnds(d) ==
  /\ d \in stray /\ stray' = stray \ {d}
  /\ \/ /\ tree[d] = "partial" /\ ~ \E t \in Targets : clone[t].pc = "git" /\ clone[t].at = d
        /\ Becomes(d, "whole") \/ (tree' = [tree EXCEPT ![d] = "whole"] /\ UNCHANGED <<marks, torn>>)
     \/ Exists(d) /\ Becomes(d, "empty")
     \/ UNCHANGED disk
  /\ clone' = [t \in Targets |->
       [clone[t] EXCEPT !.disturbed = @ \/ (clone[t].pc \notin {"idle", "look"} /\ clone[t].dir = d)]]
  /\ UNCHANGED <<workspace, cache, doubtful, poll, clones, crashes>>

SrcNext == \/ \E t \in Targets : Clone(t)
        \/ \E p \in Polls : Poll(p)
        \/ \E w \in Workspaces : SetWorkspace(w)
        \/ Crash
        \/ \E d \in Dirs : strayEnds(d)

SrcSpec == SrcInit /\ [][SrcNext]_srcVars

-----------------------------------------------------------------------------
(* Properties.                                                              *)

(* Sources that are complete are lost only in a Clone that was asked to     *)
(* clean, in the workspace in which it was asked, whatever happens to that  *)
(* workspace, to git and to the launcher meanwhile; or to a git of an       *)
(* earlier launcher that takes back what it finds where it worked.          *)
SourcesSurvive ==
  [][\A d \in Dirs : tree[d] = "whole" /\ tree'[d] # "whole" =>
       \/ \E t \in Targets : clone[t].clean /\ clone[t].dir = d /\ clone[t].pc = "remove"
       \/ d \in stray /\ d \notin stray']_srcVars

(* "idempotent (safe to re-run on an existing clone)", runner.go 1018: no   *)
(* addition is made twice, through any failed and interrupted Clones.       *)
PatchedOnce == \A d \in Dirs : marks[d] <= 1

(* A Clone that reports success leaves sources in the directory it was      *)
(* asked for, unless git ran in a workspace chosen since (runner.go 1442),  *)
(* and they are patched when they are complete, also when an earlier Clone  *)
(* or the launcher was killed at work.  Three things escape the code, and   *)
(* are recorded in disturbed: a file of the patch could not be read or      *)
(* written (981 .. 1085 drop the errors), or a git of an earlier launcher   *)
(* ended in the directory meanwhile; and a file that was once cut off is    *)
(* not told from a good one.                                                *)
DoneMeansReady ==
  \A t \in Targets : LET d == clone[t].dir IN
    clone[t].pc = "forget" /\ ~clone[t].disturbed =>
      /\ clone[t].at \in {<<>>, d} => Exists(d)
      /\ tree[d] = "whole" /\ ~torn[d] => marks[d] = 1

(* A project with a database is not remembered as one without, on account   *)
(* of a poll during which nothing was at work on its sources and all could  *)
(* be read.  runner.go 2490 says more: "the answer only changes on          *)
(* (re-)clone ... Invalidated by runClone"; an answer found during a Clone  *)
(* may be stored after the Clone has forgotten it (2503), and a git of an   *)
(* earlier launcher changes it without a Clone.                             *)
NeedsDBKnown ==
  \A d \in Dirs : ~AtWork(d) /\ d[2] \in HasDB /\ tree[d] = "whole" /\ cache[d] = "no" => doubtful[d]
=============================================================================
