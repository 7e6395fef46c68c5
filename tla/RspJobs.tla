------------------------------- MODULE RspJobs -------------------------------
(***************************************************************************)
(* The WAR jobs that share one Tomcat, managed through the RSP backend of  *)
(* VS Code: SetupRSP deploys a job to it and records the job's address,    *)
(* Stop of a managed job takes the Tomcat down for all of them.            *)
(*                                                                         *)
(* The jobs have a mutex each and the runner one for its map of jobs;      *)
(* every critical section, file access and call to Tomcat or to RSP is one *)
(* step.  A job here runs no process of its own (`cmd` is nil): those are  *)
(* in JobRunner.                                                           *)
(***************************************************************************)
EXTENDS Integers

CONSTANTS
  Jobs,        \* the WAR jobs
  Setups,      \* SetupRSP calls
  Stops,       \* Stop calls
  Ports,       \* TCP ports
  DefaultPort, \* the port a Stop polls when the job has none
  FilesFail,   \* whether conf/server.xml may be unreadable or unwritable
  Discipline,  \* who sends requests: "api", "oneSetup" or "serial"
  Nobody       \* no goroutine, no job

ASSUME PortsAssumption == Ports \subseteq Nat \ {0} /\ DefaultPort \in Ports
ASSUME ActorsAssumption == Setups \cap Stops = {} /\ Nobody \notin Setups \cup Stops \cup Jobs
ASSUME DisciplineAssumption ==
  FilesFail \in BOOLEAN /\ Discipline \in {"api", "oneSetup", "serial"}

Actors == Setups \cup Stops

VARIABLES
  status,  \* job.status
  port,    \* job.port, 0 when unset
  open,    \* whether job.openPath is set
  managed, \* job.rspManaged
  mu,      \* who iterates over r.jobs, holding r.mu
  todo,    \* the jobs that iteration has still to visit
  conf,    \* the HTTP port in the Tomcat's conf/server.xml
  tomcat,  \* the port the Tomcat listens on, 0 while it is down
  notices, \* the Stop calls whose rspStopServer goroutine has not run
  pc,      \* where each goroutine is
  job,     \* the job of each goroutine
  addr,    \* the local desiredPort or appPort of each goroutine
  was      \* the local currentPort of each setup

jobVars   == <<status, port, open, managed>>
lockVars  == <<mu, todo>>
worldVars == <<conf, tomcat>>
locals    == <<job, addr, was>>
vars == <<jobVars, lockVars, worldVars, notices, pc, locals>>

TypeOK ==
  /\ status \in [Jobs -> {"idle", "building", "running", "done", "stopped", "error"}]
  /\ port \in [Jobs -> Ports \cup {0}]
  /\ open \in [Jobs -> BOOLEAN]
  /\ managed \in [Jobs -> BOOLEAN]
  /\ mu \in Actors \cup {Nobody}
  /\ todo \in SUBSET Jobs
  /\ conf \in Ports /\ tomcat \in Ports \cup {0}
  /\ notices \in SUBSET Stops
  /\ pc \in [Actors -> {"idle", "begin", "install", "prepare", "build", "ensure", "recheck",
                        "rewrite", "start", "publish", "record", "sync", "syncing", "announce",
                        "file", "home", "catalina", "port", "poll", "mark", "sweep",
                        "sweeping"}]
  /\ job \in [Actors -> Jobs \cup {Nobody}]
  /\ addr \in [Actors -> Ports]
  /\ was \in [Setups -> Ports]

(* The Tomcat may still run from an earlier session of the launcher. *)
Init ==
  /\ status = [j \in Jobs |-> "idle"]
  /\ port = [j \in Jobs |-> 0]
  /\ open = [j \in Jobs |-> FALSE]
  /\ managed = [j \in Jobs |-> FALSE]
  /\ mu = Nobody /\ todo = {}
  /\ conf = DefaultPort /\ tomcat \in {0, conf}
  /\ notices = {}
  /\ pc = [a \in Actors |-> "idle"]
  /\ job = [a \in Actors |-> Nobody]
  /\ addr = [a \in Actors |-> DefaultPort]
  /\ was = [s \in Setups |-> DefaultPort]

-----------------------------------------------------------------------------
(* Steps of control.                                                        *)

Goto(a, from, to) == pc[a] = from /\ pc' = [pc EXCEPT ![a] = to]
Active(a) == pc[a] # "idle"

(* What a check of a port finds: other programs come and go, so only the    *)
(* port of the Tomcat is certain to be in use.                              *)
MayBeFree(p) == p # tomcat

(* A stop of the Tomcat, through catalina or through RSP, works or not.      *)
MayGoDown == tomcat' \in {0, tomcat} /\ UNCHANGED conf

(* A goroutine sets the status of its job and goes on. *)
Announce(a, s, from, to) ==
  /\ Goto(a, from, to)
  /\ status' = [status EXCEPT ![job[a]] = s]
  /\ UNCHANGED <<port, open, managed, lockVars, worldVars, notices, locals>>

(* It sets the status and ends; its locals are gone. *)
Forget(a) ==
  /\ job' = [job EXCEPT ![a] = Nobody]
  /\ addr' = [addr EXCEPT ![a] = DefaultPort]
Finish(a, s, from) ==
  /\ Goto(a, from, "idle")
  /\ status' = [status EXCEPT ![job[a]] = s]
  /\ Forget(a)
  /\ UNCHANGED <<port, open, managed, lockVars, worldVars, notices, was>>

Proceed(a, from, to) ==
  /\ Goto(a, from, to)
  /\ UNCHANGED <<jobVars, lockVars, worldVars, notices, locals>>

-----------------------------------------------------------------------------
(* Iterations over r.jobs: r.mu from the first job to the last, each job's  *)
(* own mutex for its visit.                                                 *)

Lock(a, from, to) ==
  /\ mu = Nobody
  /\ Goto(a, from, to)
  /\ mu' = a
  /\ todo' = Jobs \ {job[a]}
  /\ UNCHANGED <<jobVars, worldVars, notices, locals>>

Unlock(a) ==
  /\ mu = a /\ todo = {}
  /\ mu' = Nobody
  /\ UNCHANGED <<todo, jobVars, worldVars, notices, was>>

Visit(a, j) == mu = a /\ j \in todo /\ todo' = todo \ {j}

-----------------------------------------------------------------------------
(* SetupRSP.                                                                *)

MaySetup ==
  \/ Discipline = "api"
  \/ Discipline = "oneSetup" /\ \A s \in Setups : ~Active(s)
  \/ Discipline = "serial" /\ notices = {} /\ \A a \in Actors : ~Active(a)
MayStop == Discipline = "serial" => \A a \in Actors : ~Active(a)

SetupRSP(s) ==
  /\ MaySetup
  /\ Goto(s, "idle", "begin")
  /\ \E j \in Jobs : job' = [job EXCEPT ![s] = j]
  /\ UNCHANGED <<jobVars, lockVars, worldVars, notices, addr, was>>

(* The configuration is read once.  The user may have put any port in it,   *)
(* or none, and a Tomcat path or none; without one a Tomcat is installed.   *)
Wanted(p)           == IF p = 0 THEN DefaultPort ELSE p
resolveHome(s) ==
  \/ Finish(s, "error", "begin")
  \/ \E p \in Ports \cup {0}, installs \in BOOLEAN :
       /\ Goto(s, "begin", IF installs THEN "install" ELSE "prepare")
       /\ status' = IF installs THEN [status EXCEPT ![job[s]] = "building"] ELSE status
       /\ addr' = [addr EXCEPT ![s] = Wanted(p)]
       /\ UNCHANGED <<port, open, managed, lockVars, worldVars, notices, job, was>>
install(s) ==
  \/ Finish(s, "error", "install")
  \/ Proceed(s, "install", "prepare")
prepare(s) ==
  \/ Finish(s, "error", "prepare")
  \/ Announce(s, "building", "prepare", "build")

(* The WAR is built when it is missing; without it, or without an RSP       *)
(* backend, the server is only written to a file.                           *)
buildWAR(s) ==
  \/ Finish(s, "error", "build")
  \/ Proceed(s, "build", "ensure")
  \/ Proceed(s, "build", "file")

(* ensureTomcatHTTPPort: who listens on the wanted port is stopped if it is *)
(* the Tomcat, else another port is taken; then server.xml is rewritten.    *)
ensureTomcatHTTPPort(s) ==
  \/ FilesFail /\ Proceed(s, "ensure", "start")
  \/ /\ Goto(s, "ensure", "recheck")
     /\ was' = [was EXCEPT ![s] = conf]
     /\ \/ MayGoDown
        \/ MayBeFree(addr[s]) /\ UNCHANGED worldVars
     /\ UNCHANGED <<jobVars, lockVars, notices, job, addr>>
avoidCollision(s) ==
  /\ Goto(s, "recheck", "rewrite")
  /\ \/ \E p \in Ports : MayBeFree(p) /\ addr' = [addr EXCEPT ![s] = p]
     \/ MayBeFree(addr[s]) /\ UNCHANGED addr
  /\ UNCHANGED <<jobVars, lockVars, worldVars, notices, job, was>>
rewrite(s) ==
  /\ Goto(s, "rewrite", "start")
  /\ was' = [was EXCEPT ![s] = DefaultPort]
  /\ \/ /\ conf' = IF was[s] = addr[s] THEN conf ELSE addr[s]
        /\ UNCHANGED addr
     \/ /\ FilesFail /\ was[s] # addr[s]
        /\ addr' = [addr EXCEPT ![s] = was[s]]
        /\ UNCHANGED conf
  /\ UNCHANGED <<jobVars, lockVars, tomcat, notices, job>>

(* rspDeployAndStart.  Starting a Tomcat that runs does nothing, one that   *)
(* finds its port taken does not come up; neither is an error.              *)
rspStart(s) ==
  \/ Proceed(s, "start", "file")
  \/ /\ Goto(s, "start", "publish")
     /\ tomcat' \in IF tomcat = 0 THEN {0, conf} ELSE {tomcat}
     /\ UNCHANGED <<jobVars, lockVars, conf, notices, locals>>
rspPublish(s) ==
  \/ Proceed(s, "publish", "file")
  \/ Proceed(s, "publish", "record")

record(s) ==
  /\ Goto(s, "record", "sync")
  /\ port' = [port EXCEPT ![job[s]] = addr[s]]
  /\ open' = [open EXCEPT ![job[s]] = TRUE]
  /\ managed' = [managed EXCEPT ![job[s]] = TRUE]
  /\ UNCHANGED <<status, lockVars, worldVars, notices, locals>>

(* syncRSPJobsPort: the other managed jobs that run get the new port. *)
(* Variants for the checks: the flag is not looked at; the status is not    *)
(* "running" but "done".                                                    *)
ToSync_Running(j) == status[j] = "running"
ToSync_Done(j)    == managed[j] /\ status[j] = "done"
ToSync(j)         == managed[j] /\ status[j] = "running"
syncBegin(s) == Lock(s, "sync", "syncing")
syncJob(s, j) ==
  /\ pc[s] = "syncing" /\ Visit(s, j)
  /\ port' = IF ToSync(j) THEN [port EXCEPT ![j] = addr[s]] ELSE port
  /\ UNCHANGED <<status, open, managed, mu, worldVars, notices, pc, locals>>
syncEnd(s) == Goto(s, "syncing", "announce") /\ Unlock(s) /\ UNCHANGED <<job, addr>>

setupEnds(s) ==
  \/ Finish(s, "running", "announce")
  \/ Finish(s, "error", "file")
  \/ Finish(s, "done", "file")

Setup(s) ==
  \/ SetupRSP(s) \/ resolveHome(s) \/ install(s) \/ prepare(s) \/ buildWAR(s)
  \/ ensureTomcatHTTPPort(s) \/ avoidCollision(s) \/ rewrite(s)
  \/ rspStart(s) \/ rspPublish(s) \/ record(s)
  \/ syncBegin(s) \/ (\E j \in Jobs : syncJob(s, j)) \/ syncEnd(s)
  \/ setupEnds(s)

-----------------------------------------------------------------------------
(* Stop of a managed job.  The next Stop call of the same actor waits until *)
(* the rspStopServer goroutine of the last one has run: one actor stands    *)
(* for one outstanding goroutine.                                           *)

stopJob(p) ==
  /\ MayStop /\ p \notin notices
  /\ Goto(p, "idle", "home")
  /\ \E j \in Jobs : managed[j] /\ job' = [job EXCEPT ![p] = j]
  /\ notices' = notices \cup {p}
  /\ UNCHANGED <<jobVars, lockVars, worldVars, addr, was>>

(* Without a Tomcat path the jobs are marked stopped all the same. *)
readHome(p) == Proceed(p, "home", "catalina") \/ Proceed(p, "home", "mark")
stopTomcatCatalina(p) ==
  /\ Goto(p, "catalina", "port")
  /\ MayGoDown
  /\ UNCHANGED <<jobVars, lockVars, notices, locals>>
readPort(p) ==
  /\ Goto(p, "port", "poll")
  /\ addr' = [addr EXCEPT ![p] = Wanted(port[job[p]])]
  /\ UNCHANGED <<jobVars, lockVars, worldVars, notices, job, was>>
verify(p) ==
  \/ Finish(p, "error", "poll")
  \/ MayBeFree(addr[p]) /\ Proceed(p, "poll", "mark")

Released(js) ==
  /\ status' = [j \in Jobs |-> IF j \in js THEN "stopped" ELSE status[j]]
  /\ port' = [j \in Jobs |-> IF j \in js THEN 0 ELSE port[j]]
  /\ open' = [j \in Jobs |-> j \notin js /\ open[j]]
  /\ managed' = [j \in Jobs |-> j \notin js /\ managed[j]]
markStopped(p) ==
  /\ Goto(p, "mark", "sweep")
  /\ Released({job[p]})
  /\ UNCHANGED <<lockVars, worldVars, notices, locals>>

(* stopAllRSPManagedJobs.  Variant for the checks: only the jobs that run   *)
(* are released, as in syncRSPJobsPort.                                     *)
ToRelease_Running(j) == managed[j] /\ status[j] = "running"
ToRelease(j)         == managed[j]
sweepBegin(p) == Lock(p, "sweep", "sweeping")
sweepJob(p, j) ==
  /\ pc[p] = "sweeping" /\ Visit(p, j)
  /\ Released(IF ToRelease(j) THEN {j} ELSE {})
  /\ UNCHANGED <<mu, worldVars, notices, pc, locals>>
sweepEnd(p) == Goto(p, "sweeping", "idle") /\ Unlock(p) /\ Forget(p)

(* The goroutine a Stop leaves behind, whenever it gets to RSP. *)
rspStopServer(p) ==
  /\ p \in notices
  /\ notices' = notices \ {p}
  /\ MayGoDown
  /\ UNCHANGED <<jobVars, lockVars, pc, locals>>

Stop(p) ==
  \/ stopJob(p) \/ readHome(p) \/ stopTomcatCatalina(p) \/ readPort(p) \/ verify(p)
  \/ markStopped(p)
  \/ sweepBegin(p) \/ (\E j \in Jobs : sweepJob(p, j)) \/ sweepEnd(p)
  \/ rspStopServer(p)

Next ==
  \/ \E s \in Setups : Setup(s)
  \/ \E p \in Stops : Stop(p)

Spec == Init /\ [][Next]_vars

-----------------------------------------------------------------------------
(* Properties.                                                              *)

NoSetup == \A s \in Setups : ~Active(s)
Serves(j) == managed[j] /\ status[j] = "running"

(* A job is managed exactly while it has the address of its application:    *)
(* however syncRSPJobsPort, markStopped and stopAllRSPManagedJobs interleave *)
(* with a setup, none gives a port to a job that was released or leaves one *)
(* behind. *)
ManagedHasAddress ==
  \A j \in Jobs : (managed[j] <=> port[j] # 0) /\ (managed[j] <=> open[j])

(* The jobs that run on the shared Tomcat agree on its port once no setup   *)
(* is under way, whatever Stop calls do meanwhile (syncRSPJobsPort). *)
OneAddress == NoSetup => \A i, j \in Jobs : Serves(i) /\ Serves(j) => port[i] = port[j]

(* A Stop that took the Tomcat down leaves none of the other jobs managed,  *)
(* unless one is being set up: a setup that recorded its job too late to be *)
(* released waits for r.mu in syncRSPJobsPort. *)
StopReleasesAll ==
  [][\A p \in Stops :
       (pc[p] = "sweeping" /\ pc'[p] = "idle" /\ NoSetup)
         => \A j \in Jobs \ {job[p]} : ~managed'[j]]_vars
=============================================================================
