------------------------------- MODULE JobRunner -------------------------------
(***************************************************************************)
(* One job of the launcher: the state a `job` struct keeps under its       *)
(* mutex, the goroutines DoWithOptions, DoWithPort and RunWAR start on it, *)
(* the Stop calls, and the operating-system processes they own.            *)
(*                                                                         *)
(* A request is one accepted clone, build, run or tomcat action: one       *)
(* goroutine.  The server never refuses a request because the job is busy, *)
(* so any number of them run against the same job.  Every critical section *)
(* of runner.go, and every process start, exit and kill, is one step.      *)
(*                                                                         *)
(* The process of a request at position 0 is its last command (`cmd`), at  *)
(* position i > 0 its i-th dependency service.                             *)
(***************************************************************************)
EXTENDS Integers, Sequences

CONSTANTS
  Requests,   \* accepted clone / build / run / tomcat actions
  Stops,      \* Stop calls
  Targets,    \* catalog targets, one of which is the job's
  Discipline, \* for each target, who may be its users: "api", "dashboard", "serial"
  Nil         \* the nil *exec.Cmd

Kinds == {"mapped", "random", "step"}

(* What a target offers: Build commands, Run commands, or to be deployed as *)
(* a WAR.  The chain is its Run commands before the last one: a "mapped"    *)
(* command is a java service with a port of its own, a "random" one a java  *)
(* service on a random port, a "step" runs to completion.                   *)
ASSUME TargetsAssumption ==
  Targets \subseteq [offers : SUBSET {"build", "run", "war"}, chain : Seq(Kinds)]
ASSUME ActorsAssumption == Requests \cap Stops = {} /\ Nil \notin Requests
ASSUME DisciplineAssumption ==
  Discipline \in [Targets -> SUBSET {"api", "dashboard", "serial"}]

Actors  == Requests \cup Stops
Deps    == Requests \X (Nat \ {0})
Procs   == Requests \X Nat
Main(r) == <<r, 0>>

VARIABLES
  target,    \* job.target
  users,     \* how careful its users are (see Dispatch)
  status,    \* job.status
  err,       \* job.err: "none" when empty, else the kind of text it holds
  stopping,  \* job.stopping
  cmd,       \* job.cmd: the request whose last command it is, or Nil
  depCmds,   \* job.depCmds
  live,      \* the processes that are alive
  clean,     \* the requests whose last command exited with status 0
  pc,        \* where each goroutine is
  act,       \* the action of each request
  next,      \* the index of the chain command a run is at
  reap,      \* the local `deps` a goroutine has taken out of depCmds to kill
  victim     \* the local `cmd` a Stop call read

jobVars == <<status, err, stopping, cmd, depCmds>>
vars == <<target, users, status, err, stopping, cmd, depCmds, live, clean, pc, act, next, reap, victim>>

Chain == target.chain
N     == Len(Chain)

(* The actions whose goroutine the server starts: DoWithPort refuses a      *)
(* target without the commands, RunWAR and DoWithOptions refuse none.       *)
Accepted == {"clone", "war"} \cup (target.offers \cap {"build", "run"})

Statuses == {"idle", "cloning", "building", "running", "done", "stopped", "error"}
Busy     == {"cloning", "building", "running"}

TypeOK ==
  /\ target \in Targets
  /\ users \in {"api", "dashboard", "serial"}
  /\ status \in Statuses
  /\ err \in {"none", "progress", "failure"}
  /\ stopping \in BOOLEAN
  /\ cmd \in Requests \cup {Nil}
  /\ depCmds \in SUBSET Deps
  /\ live \in SUBSET Procs
  /\ clean \in SUBSET Requests
  /\ pc \in [Actors -> {"idle", "begin", "install", "prepare", "npm", "jarcheck", "work",
                        "reset", "announce", "chain", "record", "deploy", "recordmain",
                        "wait", "exit", "kill", "reap", "done", "failed"}]
  /\ act \in [Requests -> {"none", "clone", "build", "run", "war"}]
  /\ next \in [Requests -> 1 .. N + 1]
  /\ reap \in [Actors -> SUBSET Deps]
  /\ victim \in [Stops -> Requests \cup {Nil}]

Init ==
  /\ target \in Targets
  /\ users \in Discipline[target]
  /\ status = "idle" /\ err = "none" /\ stopping = FALSE
  /\ cmd = Nil /\ depCmds = {}
  /\ live = {} /\ clean = {}
  /\ pc = [a \in Actors |-> "idle"]
  /\ act = [r \in Requests |-> "none"]
  /\ next = [r \in Requests |-> 1]
  /\ reap = [a \in Actors |-> {}]
  /\ victim = [s \in Stops |-> Nil]

-----------------------------------------------------------------------------
(* Steps of control.                                                        *)

Goto(a, from, to) == pc[a] = from /\ pc' = [pc EXCEPT ![a] = to]

(* job.set: status and err change together, under the lock. *)
set(s, e) == status' = s /\ err' = e /\ UNCHANGED <<stopping, cmd, depCmds>>

(* What a step that concerns none of them leaves alone: job.target, which *)
(* is never assigned, the users, and the locals of the goroutines.        *)
given   == <<target, users>>
locals  == <<given, act, next, reap, victim>>
worldly == <<live, clean>>

Active(a) == pc[a] \notin {"idle", "done", "failed"}

-----------------------------------------------------------------------------
(* Dispatch.  The server accepts everything ("api").  The dashboard offers  *)
(* an action while the status it last polled is not busy ("dashboard", with *)
(* a view that is never stale and a user who waits for the new status to    *)
(* show).  "serial" is the user who waits until nothing is in flight.       *)

Unannounced(r) == pc[r] \in {"begin", "jarcheck", "reset", "announce"}

MayRequest ==
  \/ users = "api"
  \/ /\ users = "dashboard"
     /\ status \notin Busy
     /\ \A r \in Requests : ~Unannounced(r)
  \/ /\ users = "serial"
     /\ \A a \in Actors : ~Active(a)

MayStop == users = "dashboard" => status = "running"

Dispatch(r) ==
  /\ MayRequest
  /\ Goto(r, "idle", "begin")
  /\ \E a \in Accepted : act' = [act EXCEPT ![r] = a]
  /\ UNCHANGED <<given, jobVars, worldly, next, reap, victim>>

-----------------------------------------------------------------------------
(* The early returns: set(StatusError, ...) and return.  Dependency         *)
(* services already in depCmds stay there.                                  *)

Fail(r, at) ==
  /\ Goto(r, at, "failed")
  /\ set("error", "failure")
  /\ UNCHANGED <<locals, worldly>>

Announce(r, s, e, from, to) ==
  /\ Goto(r, from, to)
  /\ set(s, e)
  /\ UNCHANGED <<locals, worldly>>

(* runClone before git runs: the sources are kept, the directory cannot be  *)
(* made, or the clone starts.                                               *)
runClone(r) ==
  /\ act[r] = "clone"
  /\ \/ Announce(r, "done", "none", "begin", "done")
     \/ Fail(r, "begin")
     \/ Announce(r, "cloning", "none", "begin", "work")

runSteps(r) == act[r] = "build" /\ Announce(r, "building", "none", "begin", "work")

(* runLongWithPort before its critical section: node_modules are missing    *)
(* or not, then the jar is missing or not; a missing one is built first.    *)
npmDeps(r) ==
  /\ act[r] = "run"
  /\ \/ Announce(r, "building", "none", "begin", "npm")
     \/ Goto(r, "begin", "jarcheck") /\ UNCHANGED <<jobVars, locals, worldly>>
missingJar(r) ==
  \/ Announce(r, "building", "none", "jarcheck", "work")
  \/ Goto(r, "jarcheck", "reset") /\ UNCHANGED <<jobVars, locals, worldly>>

(* runWAR before the build: the Tomcat is found or installed first, its     *)
(* version and the source directory are checked.                            *)
notWAR(r) == act[r] = "war" /\ "war" \notin target.offers /\ Fail(r, "begin")
resolveTomcat(r) ==
  /\ act[r] = "war" /\ "war" \in target.offers
  /\ \/ Announce(r, "building", "progress", "begin", "install")
     \/ Goto(r, "begin", "prepare") /\ UNCHANGED <<jobVars, locals, worldly>>
installTomcat(r) ==
  \/ Fail(r, "install")
  \/ Announce(r, "building", "none", "install", "prepare")
prepareWAR(r) ==
  \/ Fail(r, "prepare")
  \/ Announce(r, "building", "none", "prepare", "work")

(* The commands run through exec end.  Their processes are in no field of   *)
(* the job, so no Stop reaches them.                                        *)
execSteps(r) ==
  \/ Fail(r, "npm")
  \/ Fail(r, "work")
  \/ Goto(r, "npm", "jarcheck") /\ UNCHANGED <<jobVars, locals, worldly>>
  \/ act[r] \in {"clone", "build"} /\ Announce(r, "done", "none", "work", "done")
  \/ /\ act[r] \in {"run", "war"}
     /\ Goto(r, "work", "reset")
     /\ UNCHANGED <<jobVars, locals, worldly>>

-----------------------------------------------------------------------------
(* The chain of a run.                                                      *)

(* The critical section that begins a run: the services of an earlier run   *)
(* are forgotten.                                                           *)
resetRun(r) ==
  /\ act[r] = "run"
  /\ Goto(r, "reset", "announce")
  /\ stopping' = FALSE
  /\ depCmds' = {}
  /\ UNCHANGED <<status, err, cmd, locals, worldly>>

announceRun(r) == Announce(r, "building", "none", "announce", "chain")

(* freePort kills what lsof lists for the port of a mapped command: the     *)
(* service of another run at that position, and whatever is connected to    *)
(* it.  Nothing dies when nothing listens there yet.                        *)
Freed(i) ==
  { K \in SUBSET live :
      K # {} => Chain[i] = "mapped" /\ \E r \in Requests : <<r, i>> \in K }

startDep(r) ==
  /\ pc[r] = "chain" /\ next[r] \in 1 .. N /\ Chain[next[r]] # "step"
  /\ \E K \in Freed(next[r]) :
       \/ /\ pc' = [pc EXCEPT ![r] = "record"]
          /\ live' = (live \ K) \cup {<<r, next[r]>>}
          /\ UNCHANGED next
       \/ /\ next' = [next EXCEPT ![r] = @ + 1]
          /\ live' = live \ K
          /\ UNCHANGED pc
  /\ UNCHANGED <<given, jobVars, clean, act, reap, victim>>

(* Variant for the checks: the list is replaced instead of extended.        *)
recordDep_Replaces(r) ==
  /\ Goto(r, "record", "chain")
  /\ depCmds' = {<<r, next[r]>>}
  /\ next' = [next EXCEPT ![r] = @ + 1]
  /\ UNCHANGED <<given, status, err, stopping, cmd, worldly, act, reap, victim>>

recordDep(r) ==
  /\ Goto(r, "record", "chain")
  /\ depCmds' = depCmds \cup {<<r, next[r]>>}
  /\ next' = [next EXCEPT ![r] = @ + 1]
  /\ UNCHANGED <<given, status, err, stopping, cmd, worldly, act, reap, victim>>

chainStep(r) ==
  /\ pc[r] = "chain" /\ next[r] \in 1 .. N /\ Chain[next[r]] = "step"
  /\ \/ Fail(r, "chain")
     \/ /\ next' = [next EXCEPT ![r] = @ + 1]
        /\ UNCHANGED <<given, jobVars, worldly, pc, act, reap, victim>>

-----------------------------------------------------------------------------
(* The last command, of a run and of a WAR alike.                           *)

(* runWAR after its build: the artefact is missing, or the ports are set.   *)
resetWAR(r) ==
  /\ act[r] = "war"
  /\ \/ Fail(r, "reset")
     \/ /\ Goto(r, "reset", "deploy")
        /\ stopping' = FALSE
        /\ UNCHANGED <<status, err, cmd, depCmds, locals, worldly>>

AtLaunch(r, at) ==
  /\ pc[r] = at
  /\ \/ at = "deploy"
     \/ at = "chain" /\ next[r] = N + 1

(* The CATALINA_BASE cannot be built, or the process does not start.        *)
launchFails(r) == \E at \in {"chain", "deploy"} : AtLaunch(r, at) /\ Fail(r, at)

startMain(r) ==
  \E at \in {"chain", "deploy"} :
    /\ AtLaunch(r, at)
    /\ Goto(r, at, "recordmain")
    /\ live' = live \cup {Main(r)}
    /\ UNCHANGED <<jobVars, locals, clean>>

recordMain(r) ==
  /\ Goto(r, "recordmain", "wait")
  /\ cmd' = r
  /\ status' = "running"
  /\ UNCHANGED <<err, stopping, depCmds, locals, worldly>>

(* cmd.Wait and the drained pipe return.                                    *)
waitReturns(r) ==
  /\ Main(r) \notin live
  /\ Goto(r, "wait", "exit")
  /\ UNCHANGED <<jobVars, locals, worldly>>

(* Variant for the checks: the kill of a Stop is reported as a crash. *)
Outcome_IgnoresStop(r) == IF r \in clean THEN "done" ELSE "error"

Outcome(r) == IF stopping THEN "stopped" ELSE IF r \in clean THEN "done" ELSE "error"

(* The critical section after Wait, in two parts: what State will report,   *)
(* and the dependency services, which a run takes with it and a WAR has     *)
(* none of.                                                                 *)

(* Variant for the checks: j.cmd is not reset. *)
Report_KeepsHandle(r) ==
  /\ status' = Outcome(r)
  /\ err' = IF Outcome(r) = "error" THEN "failure" ELSE err
  /\ UNCHANGED <<cmd, stopping>>

Report(r) ==
  /\ cmd' = Nil
  /\ status' = Outcome(r)
  /\ err' = IF Outcome(r) = "error" THEN "failure" ELSE err
  /\ UNCHANGED stopping

(* Variant for the checks: nobody takes the services at the end. *)
TakeDeps_Leaves(r) ==
  /\ pc' = [pc EXCEPT ![r] = "done"]
  /\ UNCHANGED <<depCmds, reap>>

TakeDeps(r) ==
  \/ /\ act[r] = "run"
     /\ depCmds' = {}
     /\ reap' = [reap EXCEPT ![r] = depCmds]
     /\ pc' = [pc EXCEPT ![r] = IF depCmds = {} THEN "done" ELSE "reap"]
  \/ /\ act[r] = "war"
     /\ pc' = [pc EXCEPT ![r] = "done"]
     /\ UNCHANGED <<depCmds, reap>>

mainEnded(r) ==
  /\ pc[r] = "exit"
  /\ Report(r)
  /\ TakeDeps(r)
  /\ UNCHANGED <<given, act, next, victim, worldly>>

(* killTree for each service taken, by the run that ended or by a Stop.     *)
reapDep(a) ==
  /\ pc[a] = "reap"
  /\ \E d \in reap[a] :
       /\ live' = live \ {d}
       /\ reap' = [reap EXCEPT ![a] = @ \ {d}]
       /\ pc' = [pc EXCEPT ![a] = IF reap[a] = {d} THEN "done" ELSE @]
  /\ UNCHANGED <<given, jobVars, clean, act, next, victim>>

-----------------------------------------------------------------------------
(* Stop of a job that RSP does not manage.                                  *)

Stopped == status' = "stopped" /\ stopping' = TRUE /\ UNCHANGED <<err, cmd>>

stopMain(s) ==
  /\ MayStop
  /\ cmd # Nil
  /\ Goto(s, "idle", "kill")
  /\ victim' = [victim EXCEPT ![s] = cmd]
  /\ Stopped
  /\ UNCHANGED <<given, depCmds, worldly, act, next, reap>>

(* Variant for the checks: j.depCmds is read but not cleared. *)
stopChain_KeepsDeps(s) ==
  /\ MayStop
  /\ cmd = Nil /\ depCmds # {}
  /\ Goto(s, "idle", "reap")
  /\ reap' = [reap EXCEPT ![s] = depCmds]
  /\ Stopped
  /\ UNCHANGED <<given, depCmds, worldly, act, next, victim>>

stopChain(s) ==
  /\ MayStop
  /\ cmd = Nil /\ depCmds # {}
  /\ Goto(s, "idle", "reap")
  /\ reap' = [reap EXCEPT ![s] = depCmds]
  /\ depCmds' = {}
  /\ Stopped
  /\ UNCHANGED <<given, worldly, act, next, victim>>

stopNothing(s) ==
  /\ MayStop
  /\ cmd = Nil /\ depCmds = {}
  /\ Goto(s, "idle", "done")
  /\ UNCHANGED <<jobVars, locals, worldly>>

(* Variant for the checks: the signal reaches the wrong process group. *)
killMain_Misses(s) ==
  /\ Goto(s, "kill", "done")
  /\ UNCHANGED <<jobVars, locals, worldly>>

killMain(s) ==
  /\ Goto(s, "kill", "done")
  /\ live' = live \ {Main(victim[s])}
  /\ UNCHANGED <<jobVars, locals, clean>>

-----------------------------------------------------------------------------
(* Processes end by themselves, well or not.                                *)

mainExits(r) ==
  /\ Main(r) \in live
  /\ live' = live \ {Main(r)}
  /\ clean' \in {clean, clean \cup {r}}
  /\ UNCHANGED <<jobVars, pc, locals>>

depExits(d) ==
  /\ d[2] # 0
  /\ live' = live \ {d}
  /\ UNCHANGED <<jobVars, clean, pc, locals>>

-----------------------------------------------------------------------------
Preparing(r) ==
  \/ runClone(r) \/ runSteps(r) \/ npmDeps(r) \/ missingJar(r)
  \/ notWAR(r) \/ resolveTomcat(r) \/ installTomcat(r) \/ prepareWAR(r) \/ execSteps(r)
Starting(r) ==
  \/ resetRun(r) \/ announceRun(r) \/ startDep(r) \/ recordDep(r) \/ chainStep(r)
  \/ resetWAR(r) \/ launchFails(r) \/ startMain(r) \/ recordMain(r)
Ending(r) == waitReturns(r) \/ mainEnded(r) \/ reapDep(r)
Stop(s)   == stopMain(s) \/ stopChain(s) \/ stopNothing(s) \/ killMain(s) \/ reapDep(s)

Next ==
  \/ \E r \in Requests : Dispatch(r) \/ Preparing(r) \/ Starting(r) \/ Ending(r) \/ mainExits(r)
  \/ \E s \in Stops : Stop(s)
  \/ \E d \in live : depExits(d)

(* The scheduler runs every goroutine that can step.  Nothing makes a user  *)
(* send a request, a build end or a healthy service exit.                   *)
Fairness ==
  /\ \A r \in Requests : WF_vars(Ending(r))
  /\ \A s \in Stops : WF_vars(killMain(s) \/ reapDep(s))

Spec == Init /\ [][Next]_vars /\ Fairness
-----------------------------------------------------------------------------
(* Properties that hold however requests and Stops interleave.             *)

(* The handle in job.cmd belongs to a goroutine that has not yet run the    *)
(* critical section after Wait: Stop never finds the handle of a run that   *)
(* is over, even when two runs of the job overwrite each other's.           *)
CmdOwnerWaits == cmd # Nil => pc[cmd] \in {"wait", "exit"}

(* A dependency service is killed by one goroutine only: the one that took  *)
(* it out of depCmds, be it a Stop or the run that ended.                   *)
OneReaper ==
  /\ \A a \in Actors : depCmds \cap reap[a] = {}
  /\ \A a, b \in Actors : a # b => reap[a] \cap reap[b] = {}

(* What makes them inductive: the service being recorded is one of the      *)
(* chain, and every recorded service is of a position its run has passed,   *)
(* so the next one is new to depCmds and to every reaper.                   *)
RecordIndex == \A r \in Requests : pc[r] = "record" => next[r] \in 1 .. N
Passed(D)   == \A d \in D : d[2] < next[d[1]]
PassedAll   == Passed(depCmds) /\ \A a \in Actors : Passed(reap[a])

(* A goroutine holds services to kill only while it kills them. *)
ReapHeld == \A a \in Actors : pc[a] # "reap" => reap[a] = {}

IInv == TypeOK /\ RecordIndex /\ CmdOwnerWaits /\ PassedAll /\ OneReaper /\ ReapHeld

(* A service somebody can still stop. *)
Reachable(d) ==
  \/ d \in depCmds
  \/ \E a \in Actors : d \in reap[a]
  \/ pc[d[1]] = "record" /\ next[d[1]] = d[2]

(* A living dependency service drops out of sight only where a later run    *)
(* begins: no Stop, exit or failed start forgets one.                       *)
OnlyResetForgets ==
  [][ \A d \in live \cap live' :
        d[2] # 0 /\ Reachable(d) /\ ~Reachable(d)'
          => \E r \in Requests : pc[r] = "reset" /\ pc'[r] = "announce" ]_vars

-----------------------------------------------------------------------------
(* Properties of a job whose requests do not overlap.                       *)

Serial == users = "serial"

(* runner.go: the services of a chain are reaped "whenever the main process *)
(* ends so Stop (or a crash) doesn't leave orphans": when the goroutine of  *)
(* a run whose last command ended is over, its services are dead or in the  *)
(* hands of a Stop.  This is claimed of the dashboard's users too.          *)
ReapedAfterMainEnds ==
  users # "api" =>
    \A d \in live : d[2] # 0 /\ pc[d[1]] = "done" => \E s \in Stops : d \in reap[s]

(* The status the dashboard shows follows the process as promised. *)
Lifecycle == INSTANCE JobLifecycle
               WITH shown <- IF Serial THEN status ELSE "idle", up <- Serial /\ cmd # Nil
ImplementsLifecycle == Lifecycle!Spec

(* A Stop that read the handle of a run gets rid of the whole run: its last *)
(* command and every dependency service die.                                *)
StopTerminates ==
  \A s \in Stops, r \in Requests :
    Serial /\ victim[s] = r ~> \A p \in live : p[1] # r
=============================================================================
