------------------------------ MODULE RspProofs ------------------------------
(***************************************************************************)
(* Theorems about the Tomcat that is managed through VS Code: RspJobs, for  *)
(* any number of jobs, calls and ports, and RspClient (its second part), for *)
(* any number of connections and whatever RSP sends on them.               *)
(***************************************************************************)
EXTENDS RspJobs, RspClient, TLAPS

(* A goroutine that has begun has a job. *)
HasJob ==
  /\ DOMAIN pc = Actors /\ DOMAIN job = Actors
  /\ \A a \in Actors : Active(a) => job[a] \in Jobs

(* A step starts with a job, goes on with it, or ends and forgets it. *)
StepOf(a) ==
  \/ UNCHANGED <<pc, job>>
  \/ Active(a) /\ job' = job /\ \E to : pc' = [pc EXCEPT ![a] = to]
  \/ \E j \in Jobs : job' = [job EXCEPT ![a] = j] /\ \E to : pc' = [pc EXCEPT ![a] = to]
  \/ pc' = [pc EXCEPT ![a] = "idle"] /\ job' = [job EXCEPT ![a] = Nobody]

LEMMA HasJobKept ==
  ASSUME HasJob, NEW a \in Actors, StepOf(a)
  PROVE  HasJob'
BY DEF HasJob, Active, StepOf

LEMMA HasJobSetup ==
  ASSUME HasJob, NEW s \in Setups, Setup(s)
  PROVE  HasJob'
<1> s \in Actors
  BY DEF Actors
<1> USE DEF StepOf, Goto, Active, Announce, Finish, Forget, Proceed, Lock, Unlock, locals
<1>1. ASSUME SetupRSP(s) PROVE StepOf(s)
  BY <1>1 DEF SetupRSP
<1>2. ASSUME resolveHome(s) PROVE StepOf(s)
  BY <1>2 DEF resolveHome
<1>3. ASSUME install(s) \/ prepare(s) \/ buildWAR(s) \/ setupEnds(s) PROVE StepOf(s)
  BY <1>3 DEF install, prepare, buildWAR, setupEnds
<1>4. ASSUME ensureTomcatHTTPPort(s) \/ avoidCollision(s) \/ rewrite(s) PROVE StepOf(s)
  BY <1>4 DEF ensureTomcatHTTPPort, avoidCollision, rewrite
<1>5. ASSUME rspStart(s) \/ rspPublish(s) \/ record(s) PROVE StepOf(s)
  BY <1>5 DEF rspStart, rspPublish, record
<1>6. ASSUME syncBegin(s) \/ (\E j \in Jobs : syncJob(s, j)) \/ syncEnd(s) PROVE StepOf(s)
  BY <1>6 DEF syncBegin, syncJob, syncEnd
<1> QED BY <1>1, <1>2, <1>3, <1>4, <1>5, <1>6, HasJobKept DEF Setup

LEMMA HasJobStop ==
  ASSUME HasJob, NEW p \in Stops, Stop(p)
  PROVE  HasJob'
<1> p \in Actors
  BY DEF Actors
<1> USE DEF StepOf, Goto, Active, Announce, Finish, Forget, Proceed, Lock, Unlock, locals
<1>1. ASSUME stopJob(p) PROVE StepOf(p)
  BY <1>1 DEF stopJob
<1>2. ASSUME readHome(p) \/ stopTomcatCatalina(p) \/ readPort(p) \/ verify(p) PROVE StepOf(p)
  BY <1>2 DEF readHome, stopTomcatCatalina, readPort, verify
<1>3. ASSUME markStopped(p) \/ sweepBegin(p) \/ (\E j \in Jobs : sweepJob(p, j)) \/ sweepEnd(p)
      PROVE  StepOf(p)
  BY <1>3 DEF markStopped, sweepBegin, sweepJob, sweepEnd
<1>4. ASSUME rspStopServer(p) PROVE StepOf(p)
  BY <1>4 DEF rspStopServer
<1> QED BY <1>1, <1>2, <1>3, <1>4, HasJobKept DEF Stop

(* The addresses in use, and the flag that goes with them.  No discipline   *)
(* is needed: each critical section sets or clears the three together, and  *)
(* syncRSPJobsPort looks at the flag again in the section that writes.      *)
AddressInv ==
  /\ port \in [Jobs -> Ports \cup {0}]
  /\ open \in [Jobs -> BOOLEAN]
  /\ managed \in [Jobs -> BOOLEAN]
  /\ conf \in Ports
  /\ addr \in [Actors -> Ports]
  /\ was \in [Setups -> Ports]
  /\ ManagedHasAddress

LEMMA AddressInit == Init => AddressInv
BY PortsAssumption DEF Init, AddressInv, ManagedHasAddress

(* The steps that assign none of a job's three fields. *)
LEMMA FieldsKept ==
  ASSUME AddressInv, UNCHANGED <<port, open, managed>>,
         conf' \in Ports, addr' \in [Actors -> Ports], was' \in [Setups -> Ports]
  PROVE  AddressInv'
BY DEF AddressInv, ManagedHasAddress

LEMMA SetupStep ==
  ASSUME AddressInv, NEW s \in Setups, Setup(s)
  PROVE  AddressInv'
<1> s \in Actors
  BY DEF Actors
<1> USE PortsAssumption
<1>1. CASE \/ SetupRSP(s) \/ resolveHome(s) \/ install(s) \/ prepare(s) \/ buildWAR(s)
           \/ ensureTomcatHTTPPort(s) \/ avoidCollision(s) \/ rewrite(s)
           \/ rspStart(s) \/ rspPublish(s) \/ syncBegin(s) \/ syncEnd(s) \/ setupEnds(s)
  <2>1. UNCHANGED <<port, open, managed>>
    BY <1>1 DEF SetupRSP, resolveHome, install, prepare, buildWAR, ensureTomcatHTTPPort,
         avoidCollision, rewrite, rspStart, rspPublish, syncBegin, syncEnd, setupEnds,
         Announce, Finish, Proceed, Lock, Unlock, jobVars
  <2>2. conf' \in Ports /\ addr' \in [Actors -> Ports] /\ was' \in [Setups -> Ports]
    <3> USE DEF AddressInv, jobVars, worldVars, locals, Announce, Finish, Forget, Proceed
    <3>1. CASE SetupRSP(s) \/ install(s) \/ prepare(s) \/ buildWAR(s) \/ rspStart(s)
               \/ rspPublish(s) \/ setupEnds(s)
      BY <3>1 DEF SetupRSP, install, prepare, buildWAR, rspStart, rspPublish, setupEnds
    <3>2. CASE resolveHome(s)
      BY <3>2 DEF resolveHome, Wanted
    <3>3. CASE ensureTomcatHTTPPort(s)
      BY <3>3 DEF ensureTomcatHTTPPort, MayGoDown
    <3>4. CASE avoidCollision(s)
      BY <3>4 DEF avoidCollision
    <3>5. CASE rewrite(s)
      BY <3>5 DEF rewrite
    <3>6. CASE syncBegin(s) \/ syncEnd(s)
      BY <3>6 DEF syncBegin, syncEnd, Lock, Unlock
    <3> QED BY <1>1, <3>1, <3>2, <3>3, <3>4, <3>5, <3>6
  <2> QED BY <2>1, <2>2, FieldsKept
<1>2. CASE record(s)
  <2>1. addr[s] \in Ports /\ addr[s] # 0
    BY DEF AddressInv
  <2> QED BY <1>2, <2>1 DEF record, AddressInv, ManagedHasAddress, worldVars, locals
<1>3. ASSUME NEW j \in Jobs, syncJob(s, j) PROVE AddressInv'
  <2>1. addr[s] \in Ports /\ addr[s] # 0
    BY DEF AddressInv
  <2>2. UNCHANGED <<open, managed, conf, addr, was>>
    BY <1>3 DEF syncJob, worldVars, locals
  <2>3. \/ port' = port
        \/ managed[j] /\ port' = [port EXCEPT ![j] = addr[s]]
    BY <1>3 DEF syncJob, ToSync
  <2> QED BY <2>1, <2>2, <2>3 DEF AddressInv, ManagedHasAddress
<1> QED BY <1>1, <1>2, <1>3 DEF Setup

LEMMA StopStep ==
  ASSUME AddressInv, HasJob, NEW p \in Stops, Stop(p)
  PROVE  AddressInv'
<1> p \in Actors
  BY DEF Actors
<1> USE PortsAssumption
<1>1. CASE stopJob(p) \/ readHome(p) \/ stopTomcatCatalina(p) \/ readPort(p) \/ verify(p)
           \/ sweepBegin(p) \/ sweepEnd(p) \/ rspStopServer(p)
  <2>1. UNCHANGED <<port, open, managed>>
    BY <1>1 DEF stopJob, readHome, stopTomcatCatalina, readPort, verify, sweepBegin, sweepEnd,
         rspStopServer, Announce, Finish, Proceed, Lock, Unlock, jobVars
  <2>2. conf' \in Ports /\ addr' \in [Actors -> Ports] /\ was' \in [Setups -> Ports]
    <3> USE DEF AddressInv, jobVars, worldVars, locals, Announce, Finish, Forget, Proceed
    <3>1. CASE stopJob(p) \/ readHome(p) \/ verify(p) \/ sweepBegin(p) \/ sweepEnd(p)
      BY <3>1 DEF stopJob, readHome, verify, sweepBegin, sweepEnd, Lock, Unlock
    <3>2. CASE stopTomcatCatalina(p) \/ rspStopServer(p)
      BY <3>2 DEF stopTomcatCatalina, rspStopServer, MayGoDown
    <3>3. CASE readPort(p)
      <4>1. job[p] \in Jobs
        BY <3>3 DEF readPort, Goto, HasJob, Active
      <4>2. Wanted(port[job[p]]) \in Ports
        BY <4>1 DEF Wanted
      <4> QED BY <3>3, <4>2 DEF readPort
    <3> QED BY <1>1, <3>1, <3>2, <3>3
  <2> QED BY <2>1, <2>2, FieldsKept
<1>2. ASSUME NEW js \in SUBSET Jobs, Released(js), UNCHANGED <<conf, addr, was>>
      PROVE  AddressInv'
  <2>1. /\ port' \in [Jobs -> Ports \cup {0}]
        /\ open' \in [Jobs -> BOOLEAN]
        /\ managed' \in [Jobs -> BOOLEAN]
    BY <1>2 DEF Released, AddressInv
  <2>2. ASSUME NEW j \in Jobs
        PROVE  (managed'[j] <=> port'[j] # 0) /\ (managed'[j] <=> open'[j])
    <3>1. CASE j \in js
      <4>1. ~managed'[j] /\ ~open'[j]
        BY <1>2, <3>1 DEF Released
      <4>2. port'[j] = 0
        BY <1>2, <3>1 DEF Released
      <4> QED BY <4>1, <4>2
    <3>2. CASE j \notin js
      <4>1. (managed'[j] <=> managed[j]) /\ (open'[j] <=> open[j])
        BY <1>2, <3>2 DEF Released
      <4>2. port'[j] = port[j]
        BY <1>2, <3>2 DEF Released
      <4> QED BY <4>1, <4>2 DEF AddressInv, ManagedHasAddress
    <3> QED BY <3>1, <3>2
  <2> QED BY <1>2, <2>1, <2>2 DEF AddressInv, ManagedHasAddress
<1>3. CASE markStopped(p)
  <2>1. {job[p]} \in SUBSET Jobs
    BY <1>3 DEF markStopped, Goto, HasJob, Active
  <2> QED BY <1>2, <1>3, <2>1 DEF markStopped, worldVars, locals
<1>4. ASSUME NEW j \in Jobs, sweepJob(p, j) PROVE AddressInv'
  BY <1>2, <1>4 DEF sweepJob, worldVars, locals
<1> QED BY <1>1, <1>3, <1>4 DEF Stop

(* A job is managed exactly while it has an address, however setups and     *)
(* stops of any jobs interleave: the invariant ManagedHasAddress. *)
THEOREM AddressTheorem == Spec => []ManagedHasAddress
<1> DEFINE Inv == AddressInv /\ HasJob
<1>0. Init => HasJob
  BY DEF Init, HasJob, Active
<1>1. Inv /\ [Next]_vars => Inv'
  <2> SUFFICES ASSUME AddressInv, HasJob, [Next]_vars PROVE AddressInv' /\ HasJob'
    OBVIOUS
  <2>1. CASE UNCHANGED vars
    <3>1. AddressInv'
      BY <2>1, FieldsKept DEF vars, jobVars, worldVars, locals, AddressInv
    <3>2. HasJob'
      BY <2>1 DEF vars, locals, HasJob, Active
    <3> QED BY <3>1, <3>2
  <2>2. CASE \E s \in Setups : Setup(s)
    BY <2>2, SetupStep, HasJobSetup
  <2>3. CASE \E p \in Stops : Stop(p)
    BY <2>3, StopStep, HasJobStop
  <2> QED BY <2>1, <2>2, <2>3 DEF Next
<1>2. Inv => ManagedHasAddress
  BY DEF AddressInv
<1> QED BY <1>0, <1>1, <1>2, AddressInit, PTL DEF Spec

-----------------------------------------------------------------------------
(* Type correctness.  The addresses are typed by AddressInv; what is left   *)
(* is the control, and a goroutine that has begun has a job to report on.   *)
Labels == {"idle", "begin", "install", "prepare", "build", "ensure", "recheck", "rewrite",
           "start", "publish", "record", "sync", "syncing", "announce", "file", "home",
           "catalina", "port", "poll", "mark", "sweep", "sweeping"}
Statuses == {"idle", "building", "running", "done", "stopped", "error"}

ControlTyped ==
  /\ status \in [Jobs -> Statuses]
  /\ mu \in Actors \cup {Nobody}
  /\ todo \in SUBSET Jobs
  /\ tomcat \in Ports \cup {0}
  /\ notices \in SUBSET Stops
  /\ pc \in [Actors -> Labels]
  /\ job \in [Actors -> Jobs \cup {Nobody}]

TypeInv == AddressInv /\ HasJob /\ ControlTyped

LEMMA ControlSetup ==
  ASSUME TypeInv, NEW s \in Setups, Setup(s)
  PROVE  ControlTyped'
<1> s \in Actors
  BY DEF Actors
<1> USE DEF TypeInv, ControlTyped, Labels, Statuses, Goto, jobVars, lockVars, worldVars, locals
<1>1. CASE SetupRSP(s)
  BY <1>1 DEF SetupRSP
<1>2. CASE resolveHome(s)
  BY <1>2 DEF resolveHome, Finish, Forget
<1>3. CASE install(s) \/ prepare(s) \/ buildWAR(s)
  BY <1>3 DEF install, prepare, buildWAR, Finish, Forget, Proceed, Announce
<1>4. CASE ensureTomcatHTTPPort(s) \/ avoidCollision(s) \/ rewrite(s)
  BY <1>4 DEF ensureTomcatHTTPPort, avoidCollision, rewrite, Proceed, MayGoDown
<1>5. CASE rspStart(s) \/ rspPublish(s) \/ record(s)
  BY <1>5 DEF rspStart, rspPublish, record, Proceed, AddressInv
<1>6. CASE syncBegin(s) \/ (\E j \in Jobs : syncJob(s, j)) \/ syncEnd(s)
  BY <1>6 DEF syncBegin, syncJob, syncEnd, Lock, Unlock, Visit
<1>7. CASE setupEnds(s)
  BY <1>7 DEF setupEnds, Finish, Forget
<1> QED BY <1>1, <1>2, <1>3, <1>4, <1>5, <1>6, <1>7 DEF Setup

LEMMA ReleasedTyped ==
  ASSUME ControlTyped, NEW js \in SUBSET Jobs, Released(js)
  PROVE  status' \in [Jobs -> Statuses]
BY DEF ControlTyped, Released, Statuses

LEMMA ControlStop ==
  ASSUME TypeInv, NEW p \in Stops, Stop(p)
  PROVE  ControlTyped'
<1> p \in Actors
  BY DEF Actors
<1> USE DEF TypeInv, Labels, Goto, jobVars, lockVars, worldVars, locals
<1>1. CASE stopJob(p)
  BY <1>1 DEF stopJob, ControlTyped
<1>2. CASE readHome(p) \/ stopTomcatCatalina(p) \/ readPort(p) \/ verify(p)
  BY <1>2 DEF readHome, stopTomcatCatalina, readPort, verify, Finish, Forget, Proceed,
     MayGoDown, ControlTyped, Statuses
<1>3. CASE markStopped(p)
  <2>1. {job[p]} \in SUBSET Jobs
    BY <1>3 DEF markStopped, HasJob, Active
  <2>2. status' \in [Jobs -> Statuses]
    BY <1>3, <2>1, ReleasedTyped DEF markStopped
  <2> QED BY <1>3, <2>2 DEF markStopped, ControlTyped
<1>4. CASE sweepBegin(p) \/ sweepEnd(p)
  BY <1>4 DEF sweepBegin, sweepEnd, Lock, Unlock, Forget, ControlTyped
<1>5. ASSUME NEW j \in Jobs, sweepJob(p, j) PROVE ControlTyped'
  <2>1. status' \in [Jobs -> Statuses]
    BY <1>5, ReleasedTyped DEF sweepJob
  <2> QED BY <1>5, <2>1 DEF sweepJob, Visit, ControlTyped
<1>6. CASE rspStopServer(p)
  BY <1>6 DEF rspStopServer, MayGoDown, ControlTyped
<1> QED BY <1>1, <1>2, <1>3, <1>4, <1>5, <1>6 DEF Stop

LEMMA TypesHold == Spec => []TypeInv
<1>1. Init => TypeInv
  <2> SUFFICES ASSUME Init PROVE TypeInv
    OBVIOUS
  <2>1. HasJob
    BY DEF Init, HasJob, Active
  <2>2. ControlTyped
    BY PortsAssumption DEF Init, ControlTyped, Labels, Statuses
  <2> QED BY <2>1, <2>2, AddressInit DEF TypeInv
<1>2. TypeInv /\ [Next]_vars => TypeInv'
  <2> SUFFICES ASSUME TypeInv, [Next]_vars PROVE TypeInv'
    OBVIOUS
  <2>1. CASE UNCHANGED vars
    <3>1. AddressInv'
      BY <2>1, FieldsKept DEF vars, jobVars, worldVars, locals, AddressInv, TypeInv
    <3>2. HasJob' /\ ControlTyped'
      BY <2>1 DEF vars, jobVars, lockVars, worldVars, locals, HasJob, Active, TypeInv, ControlTyped
    <3> QED BY <3>1, <3>2 DEF TypeInv
  <2>2. ASSUME NEW s \in Setups, Setup(s) PROVE TypeInv'
    BY <2>2, SetupStep, HasJobSetup, ControlSetup DEF TypeInv
  <2>3. ASSUME NEW p \in Stops, Stop(p) PROVE TypeInv'
    BY <2>3, StopStep, HasJobStop, ControlStop DEF TypeInv
  <2> QED BY <2>1, <2>2, <2>3 DEF Next
<1> QED BY <1>1, <1>2, PTL DEF Spec

(* Every variable keeps its type, for any number of jobs, calls and ports:  *)
(* no goroutine reports on a job it does not have, and every address that   *)
(* is recorded or written to server.xml is a port. *)
THEOREM TypeCorrect == Spec => []TypeOK
<1>1. TypeInv => TypeOK
  BY DEF TypeInv, AddressInv, ControlTyped, TypeOK, Labels, Statuses
<1> QED BY <1>1, TypesHold, PTL

-----------------------------------------------------------------------------
(* A step of a goroutine leaves the others where they are, with what they   *)
(* have read.  A stop only takes away: from a job's flag, its address and   *)
(* its status, and it takes from r.jobs' lock only what it holds.           *)
Others(a) ==
  \A b \in Actors \ {a} : pc'[b] = pc[b] /\ job'[b] = job[b] /\ addr'[b] = addr[b]

Fades ==
  \A j \in Jobs :
    /\ managed'[j] => managed[j] /\ port'[j] = port[j]
    /\ status'[j] = "running" => status[j] = "running"

LEMMA OthersSetup ==
  ASSUME TypeInv, NEW s \in Setups, Setup(s)
  PROVE  Others(s)
<1> s \in Actors
  BY DEF Actors
<1> USE DEF TypeInv, AddressInv, ControlTyped, Others, Goto, Announce, Finish, Forget, Proceed,
            Lock, Unlock, locals
<1>1. CASE SetupRSP(s) \/ resolveHome(s)
  BY <1>1 DEF SetupRSP, resolveHome
<1>2. CASE install(s) \/ prepare(s) \/ buildWAR(s) \/ setupEnds(s)
  BY <1>2 DEF install, prepare, buildWAR, setupEnds
<1>3. CASE ensureTomcatHTTPPort(s) \/ avoidCollision(s) \/ rewrite(s)
  BY <1>3 DEF ensureTomcatHTTPPort, avoidCollision, rewrite
<1>4. CASE rspStart(s) \/ rspPublish(s) \/ record(s)
  BY <1>4 DEF rspStart, rspPublish, record
<1>5. CASE syncBegin(s) \/ (\E j \in Jobs : syncJob(s, j)) \/ syncEnd(s)
  BY <1>5 DEF syncBegin, syncJob, syncEnd
<1> QED BY <1>1, <1>2, <1>3, <1>4, <1>5 DEF Setup

LEMMA OthersStop ==
  ASSUME TypeInv, NEW p \in Stops, Stop(p)
  PROVE  Others(p)
<1> p \in Actors
  BY DEF Actors
<1> USE DEF TypeInv, AddressInv, ControlTyped, Others, Goto, Announce, Finish, Forget, Proceed,
            Lock, Unlock, locals
<1>1. CASE stopJob(p)
  BY <1>1 DEF stopJob
<1>2. CASE readHome(p) \/ stopTomcatCatalina(p) \/ readPort(p) \/ verify(p)
  BY <1>2 DEF readHome, stopTomcatCatalina, readPort, verify
<1>3. CASE markStopped(p) \/ sweepBegin(p) \/ (\E j \in Jobs : sweepJob(p, j)) \/ sweepEnd(p)
  BY <1>3 DEF markStopped, sweepBegin, sweepJob, sweepEnd
<1>4. CASE rspStopServer(p)
  BY <1>4 DEF rspStopServer
<1> QED BY <1>1, <1>2, <1>3, <1>4 DEF Stop

LEMMA ReleasedFades ==
  ASSUME NEW js, Released(js)
  PROVE  Fades /\ \A j \in Jobs \cap js : ~managed'[j]
<1>1. ASSUME NEW j \in Jobs, j \notin js
      PROVE  (managed'[j] => managed[j]) /\ port'[j] = port[j] /\ status'[j] = status[j]
  <2>1. managed'[j] => managed[j]
    BY <1>1 DEF Released
  <2>2. port'[j] = port[j] /\ status'[j] = status[j]
    BY <1>1 DEF Released
  <2> QED BY <2>1, <2>2
<1>2. ASSUME NEW j \in Jobs, j \in js
      PROVE  ~managed'[j] /\ status'[j] = "stopped"
  <2>1. ~managed'[j]
    BY <1>2 DEF Released
  <2>2. status'[j] = "stopped"
    BY <1>2 DEF Released
  <2> QED BY <2>1, <2>2
<1> QED BY <1>1, <1>2 DEF Fades

LEMMA StopFades ==
  ASSUME TypeInv, NEW p \in Stops, Stop(p)
  PROVE  Fades
<1> p \in Actors
  BY DEF Actors
<1>1. CASE \/ stopJob(p) \/ readHome(p) \/ stopTomcatCatalina(p) \/ readPort(p)
           \/ sweepBegin(p) \/ sweepEnd(p) \/ rspStopServer(p)
  <2>1. UNCHANGED <<status, port, managed>>
    BY <1>1 DEF stopJob, readHome, stopTomcatCatalina, readPort, sweepBegin, sweepEnd,
         rspStopServer, Proceed, Lock, Unlock, jobVars
  <2> QED BY <2>1 DEF Fades
<1>2. CASE verify(p)
  BY <1>2 DEF verify, Finish, Proceed, jobVars, Fades, TypeInv, ControlTyped
<1>3. CASE markStopped(p)
  BY <1>3, ReleasedFades DEF markStopped
<1>4. ASSUME NEW j \in Jobs, sweepJob(p, j) PROVE Fades
  BY <1>4, ReleasedFades DEF sweepJob
<1> QED BY <1>1, <1>2, <1>3, <1>4 DEF Stop

-----------------------------------------------------------------------------
(* Who iterates over r.jobs.  *)
Locked == \A a \in Actors : pc[a] \in {"syncing", "sweeping"} => mu = a

LEMMA LockedSetup ==
  ASSUME TypeInv, Locked, NEW s \in Setups, Setup(s)
  PROVE  /\ Locked'
         /\ mu # s => UNCHANGED todo \/ syncBegin(s)
<1> s \in Actors /\ s # Nobody
  BY ActorsAssumption DEF Actors
<1>1. Others(s)
  BY OthersSetup
<1> USE DEF TypeInv, ControlTyped, Goto, lockVars
<1>2. CASE syncBegin(s)
  BY <1>1, <1>2, ActorsAssumption DEF syncBegin, Lock, Locked, Others, Actors
<1>3. CASE syncEnd(s)
  BY <1>1, <1>3 DEF syncEnd, Unlock, Locked, Others
<1>4. ASSUME NEW j \in Jobs, syncJob(s, j) PROVE Locked' /\ mu = s
  BY <1>1, <1>4 DEF syncJob, Visit, Locked, Others
<1>5. CASE \/ SetupRSP(s) \/ resolveHome(s) \/ install(s) \/ prepare(s) \/ buildWAR(s)
           \/ ensureTomcatHTTPPort(s) \/ avoidCollision(s) \/ rewrite(s)
           \/ rspStart(s) \/ rspPublish(s) \/ record(s) \/ setupEnds(s)
  <2> USE DEF Announce, Finish, Proceed
  <2>1. pc'[s] \notin {"syncing", "sweeping"} /\ UNCHANGED <<mu, todo>>
    <3>1. CASE SetupRSP(s) \/ resolveHome(s) \/ install(s) \/ prepare(s) \/ setupEnds(s)
      BY <1>5, <3>1 DEF SetupRSP, resolveHome, install, prepare, setupEnds
    <3>2. CASE buildWAR(s) \/ ensureTomcatHTTPPort(s) \/ avoidCollision(s) \/ rewrite(s)
      BY <1>5, <3>2 DEF buildWAR, ensureTomcatHTTPPort, avoidCollision, rewrite
    <3>3. CASE rspStart(s) \/ rspPublish(s) \/ record(s)
      BY <1>5, <3>3 DEF rspStart, rspPublish, record
    <3> QED BY <1>5, <3>1, <3>2, <3>3
  <2> QED BY <1>1, <2>1 DEF Locked, Others
<1> QED BY <1>2, <1>3, <1>4, <1>5 DEF Setup, syncEnd, Unlock

LEMMA LockedStop ==
  ASSUME TypeInv, Locked, NEW p \in Stops, Stop(p)
  PROVE  /\ Locked'
         /\ mu # p => UNCHANGED todo \/ sweepBegin(p)
<1> p \in Actors /\ p # Nobody
  BY ActorsAssumption DEF Actors
<1>1. Others(p)
  BY OthersStop
<1> USE DEF TypeInv, ControlTyped, Goto, lockVars
<1>2. CASE sweepBegin(p)
  BY <1>1, <1>2, ActorsAssumption DEF sweepBegin, Lock, Locked, Others, Actors
<1>3. CASE sweepEnd(p)
  BY <1>1, <1>3 DEF sweepEnd, Unlock, Locked, Others
<1>4. ASSUME NEW j \in Jobs, sweepJob(p, j) PROVE Locked' /\ mu = p
  BY <1>1, <1>4 DEF sweepJob, Visit, Locked, Others
<1>5. CASE stopJob(p) \/ readHome(p) \/ stopTomcatCatalina(p) \/ readPort(p) \/ verify(p)
           \/ markStopped(p)
  <2>1. pc'[p] \notin {"syncing", "sweeping"} /\ UNCHANGED <<mu, todo>>
    BY <1>5 DEF stopJob, readHome, stopTomcatCatalina, readPort, verify, markStopped, Finish,
         Proceed
  <2> QED BY <1>1, <2>1 DEF Locked, Others
<1>6. CASE rspStopServer(p)
  BY <1>6 DEF rspStopServer, Locked
<1> QED BY <1>2, <1>3, <1>4, <1>5, <1>6 DEF Stop, sweepEnd, Unlock

-----------------------------------------------------------------------------
(* A sweep releases what it has visited.  A setup may make a job managed    *)
(* again behind the sweep; it then waits in syncRSPJobsPort for the lock    *)
(* the sweep holds. *)
Waits(j) == \E s \in Setups : pc[s] = "sync" /\ job[s] = j
Swept ==
  \A p \in Stops : pc[p] = "sweeping"
     => \A j \in Jobs \ todo : j = job[p] \/ ~managed[j] \/ Waits(j)

SweepInv == Locked /\ Swept

LEMMA SweptSetup ==
  ASSUME TypeInv, SweepInv, NEW s \in Setups, Setup(s)
  PROVE  Swept'
<1> SUFFICES ASSUME NEW p \in Stops, pc'[p] = "sweeping", NEW j \in Jobs, j \notin todo',
                    j # job'[p], managed'[j]
             PROVE  Waits(j)'
  BY DEF Swept
<1> s \in Actors /\ p \in Actors /\ s # p /\ p # Nobody
  BY ActorsAssumption DEF Actors
<1>1. Others(s)
  BY OthersSetup
<1>2. pc[p] = "sweeping" /\ job'[p] = job[p]
  BY <1>1 DEF Others
<1>3. mu = p
  BY <1>2 DEF SweepInv, Locked
<1>4. ~syncBegin(s) /\ ~syncEnd(s) /\ \A k \in Jobs : ~syncJob(s, k)
  BY <1>3 DEF syncBegin, Lock, syncEnd, Unlock, syncJob, Visit
<1>5. j \notin todo
  BY <1>3, <1>4, LockedSetup DEF SweepInv
<1> USE DEF Goto, Announce, Finish, Proceed, jobVars
<1>6. CASE record(s)
  <2>1. pc'[s] = "sync" /\ job'[s] = job[s]
    BY <1>6 DEF record, locals, TypeInv, ControlTyped
  <2>2. CASE j = job[s]
    BY <2>1, <2>2 DEF Waits
  <2>3. CASE j # job[s]
    <3>1. managed[j]
      BY <1>6, <2>3 DEF record, TypeInv, AddressInv
    <3>2. PICK t \in Setups : pc[t] = "sync" /\ job[t] = j
      BY <1>2, <1>5, <3>1 DEF SweepInv, Swept, Waits
    <3>3. t \in Actors /\ t # s
      BY <2>3, <3>2 DEF Actors
    <3> QED BY <1>1, <3>2, <3>3 DEF Others, Waits
  <2> QED BY <2>2, <2>3
<1>7. CASE ~record(s)
  <2>1. pc[s] # "sync" /\ managed' = managed
    <3>1. CASE SetupRSP(s) \/ resolveHome(s) \/ install(s) \/ prepare(s) \/ setupEnds(s)
      BY <3>1 DEF SetupRSP, resolveHome, install, prepare, setupEnds
    <3>2. CASE buildWAR(s) \/ ensureTomcatHTTPPort(s) \/ avoidCollision(s) \/ rewrite(s)
      BY <3>2 DEF buildWAR, ensureTomcatHTTPPort, avoidCollision, rewrite
    <3>3. CASE rspStart(s) \/ rspPublish(s)
      BY <3>3 DEF rspStart, rspPublish
    <3> QED BY <1>4, <1>7, <3>1, <3>2, <3>3 DEF Setup
  <2>2. PICK t \in Setups : pc[t] = "sync" /\ job[t] = j
    BY <1>2, <1>5, <2>1 DEF SweepInv, Swept, Waits
  <2>3. t \in Actors /\ t # s
    BY <2>1, <2>2 DEF Actors
  <2> QED BY <1>1, <2>2, <2>3 DEF Others, Waits
<1> QED BY <1>6, <1>7

LEMMA SweptStop ==
  ASSUME TypeInv, SweepInv, NEW p \in Stops, Stop(p)
  PROVE  Swept'
<1> SUFFICES ASSUME NEW q \in Stops, pc'[q] = "sweeping", NEW j \in Jobs, j \notin todo',
                    j # job'[q], managed'[j]
             PROVE  Waits(j)'
  BY DEF Swept
<1> p \in Actors /\ q \in Actors /\ q # Nobody
  BY ActorsAssumption DEF Actors
<1>1. Others(p) /\ Locked' /\ managed[j]
  <2>1. Others(p) /\ Locked'
    BY OthersStop, LockedStop DEF SweepInv
  <2>2. Fades
    BY StopFades
  <2> QED BY <2>1, <2>2 DEF Fades
<1>2. ~sweepBegin(p)
  <2> SUFFICES ASSUME sweepBegin(p) PROVE FALSE
    OBVIOUS
  <2>1. mu = Nobody /\ mu' = p /\ todo' = Jobs \ {job[p]} /\ job' = job
    BY DEF sweepBegin, Lock, locals
  <2>2. q = p
    BY <1>1, <2>1 DEF Locked
  <2> QED BY <2>1, <2>2
<1>3. ASSUME Waits(j) PROVE Waits(j)'
  <2>1. PICK t \in Setups : pc[t] = "sync" /\ job[t] = j
    BY <1>3 DEF Waits
  <2>2. t \in Actors /\ t # p
    BY ActorsAssumption DEF Actors
  <2> QED BY <1>1, <2>1, <2>2 DEF Others, Waits
<1>4. CASE pc[q] = "sweeping" /\ job'[q] = job[q] /\ j \notin todo
  BY <1>1, <1>3, <1>4 DEF SweepInv, Swept
<1>5. CASE q # p
  <2>1. pc[q] = "sweeping" /\ job'[q] = job[q]
    BY <1>1, <1>5 DEF Others
  <2>2. mu = q
    BY <2>1 DEF SweepInv, Locked
  <2>3. todo' = todo
    BY <1>2, <1>5, <2>2, LockedStop DEF SweepInv
  <2> QED BY <1>4, <2>1, <2>3
<1>6. CASE q = p
  <2> USE <1>6 DEF TypeInv, ControlTyped, Goto, Finish, Proceed
  <2>1. CASE rspStopServer(p)
    BY <1>4, <2>1 DEF rspStopServer, lockVars, locals
  <2>2. ASSUME NEW k \in Jobs, sweepJob(p, k) PROVE Waits(j)'
    <3>1. ToRelease(k) => k # j
      <4> SUFFICES ASSUME managed[k] PROVE k # j
        BY DEF ToRelease
      <4>1. Released({k})
        BY <2>2 DEF sweepJob, ToRelease
      <4> QED BY <4>1, ReleasedFades
    <3>2. k # j
      BY <1>1, <3>1 DEF ToRelease
    <3> QED BY <1>4, <2>2, <3>2 DEF sweepJob, Visit, locals
  <2>3. ~(stopJob(p) \/ readHome(p) \/ stopTomcatCatalina(p) \/ readPort(p) \/ verify(p)
          \/ markStopped(p) \/ sweepEnd(p))
    BY DEF stopJob, readHome, stopTomcatCatalina, readPort, verify, markStopped, sweepEnd
  <2> QED BY <1>2, <2>1, <2>2, <2>3 DEF Stop
<1> QED BY <1>5, <1>6

(* A Stop that ends its sweep leaves no other job managed but one that is   *)
(* being set up: the action property StopReleasesAll, for any number of     *)
(* concurrent setups and stops and whoever sends the requests. *)
THEOREM SweepReleases == Spec => StopReleasesAll
<1> DEFINE A == \A p \in Stops : (pc[p] = "sweeping" /\ pc'[p] = "idle" /\ NoSetup)
                                  => \A j \in Jobs \ {job[p]} : ~managed'[j]
<1>1. Init => SweepInv
  BY DEF Init, SweepInv, Locked, Swept, Actors
<1>2. TypeInv /\ SweepInv /\ [Next]_vars => SweepInv'
  <2> SUFFICES ASSUME TypeInv, SweepInv, [Next]_vars PROVE Locked' /\ Swept'
    BY DEF SweepInv
  <2>1. CASE UNCHANGED vars
    BY <2>1 DEF vars, jobVars, lockVars, locals, SweepInv, Locked, Swept, Waits
  <2>2. ASSUME NEW s \in Setups, Setup(s) PROVE Locked' /\ Swept'
    BY <2>2, LockedSetup, SweptSetup DEF SweepInv
  <2>3. ASSUME NEW p \in Stops, Stop(p) PROVE Locked' /\ Swept'
    BY <2>3, LockedStop, SweptStop DEF SweepInv
  <2> QED BY <2>1, <2>2, <2>3 DEF Next
<1>3. TypeInv /\ SweepInv /\ [Next]_vars => [A]_vars
  <2> SUFFICES ASSUME TypeInv, SweepInv, Next, NEW p \in Stops, pc[p] = "sweeping",
                      pc'[p] = "idle", NoSetup, NEW j \in Jobs, j # job[p]
               PROVE  ~managed'[j]
    BY DEF A
  <2> p \in Actors
    BY DEF Actors
  <2>1. \A q \in Stops : Stop(q) => q = p
    BY OthersStop DEF Others
  <2>2. \A s \in Setups : ~Setup(s)
    BY OthersSetup, ActorsAssumption DEF Others
  <2>3. Stop(p)
    BY <2>1, <2>2 DEF Next
  <2>4. sweepEnd(p)
    <3> USE DEF TypeInv, ControlTyped, Goto, Finish, Proceed
    <3>1. ~(stopJob(p) \/ readHome(p) \/ stopTomcatCatalina(p) \/ readPort(p) \/ verify(p)
            \/ markStopped(p) \/ sweepBegin(p))
      BY DEF stopJob, readHome, stopTomcatCatalina, readPort, verify, markStopped, sweepBegin, Lock
    <3>2. ~rspStopServer(p) /\ \A k \in Jobs : ~sweepJob(p, k)
      BY DEF rspStopServer, sweepJob
    <3> QED BY <2>3, <3>1, <3>2 DEF Stop
  <2>5. todo = {} /\ managed' = managed
    BY <2>4 DEF sweepEnd, Unlock, jobVars
  <2>6. ~Waits(j)
    BY DEF NoSetup, Active, Waits
  <2> QED BY <2>5, <2>6 DEF SweepInv, Swept
<1> QED BY <1>1, <1>2, <1>3, TypesHold, PTL DEF Spec, StopReleasesAll

-----------------------------------------------------------------------------
(* The address the jobs share, when setups do not overlap.  From "prepare"  *)
(* to its end a setup keeps its job from running; after "record" the job    *)
(* has the new address, if no stop took it, and while syncRSPJobsPort goes  *)
(* over the others, those it has visited have it as well.                   *)
Preparing == {"build", "ensure", "recheck", "rewrite", "start", "publish", "record", "sync",
              "syncing", "announce"}
Sharing   == {"sync", "syncing", "announce"}

Alone(s) == \A t \in Setups \ {s} : ~Active(t)
Single   == \A s \in Setups : Active(s) => Alone(s)
Halted   == \A s \in Setups : pc[s] \in Preparing => status[job[s]] # "running"
Recorded ==
  \A s \in Setups : pc[s] \in Sharing /\ managed[job[s]] => port[job[s]] = addr[s]
Reached  ==
  \A s \in Setups : pc[s] = "syncing" => \A j \in Jobs \ todo : Serves(j) => port[j] = addr[s]
Informed ==
  \A s \in Setups : pc[s] = "announce" => \A j \in Jobs : Serves(j) => port[j] = addr[s]
Agreed   == \A i, j \in Jobs : Serves(i) /\ Serves(j) => port[i] = port[j]

ShareInv ==
  /\ Single /\ Halted /\ Recorded /\ Reached /\ Informed
  /\ (\A s \in Setups : pc[s] # "syncing") => Agreed

LEMMA FadesServes ==
  ASSUME Fades, NEW j \in Jobs, Serves(j)'
  PROVE  Serves(j) /\ port'[j] = port[j]
BY DEF Fades, Serves

(* What a stop does is no news to the setups. *)
LEMMA ShareStop ==
  ASSUME TypeInv, Locked, ShareInv, NEW p \in Stops, Stop(p)
  PROVE  ShareInv'
<1> p \in Actors
  BY DEF Actors
<1>1. Others(p) /\ Fades
  BY OthersStop, StopFades
<1>2. ASSUME NEW s \in Setups
      PROVE  pc'[s] = pc[s] /\ job'[s] = job[s] /\ addr'[s] = addr[s]
  <2>1. s \in Actors \ {p}
    BY ActorsAssumption DEF Actors
  <2> QED BY <1>1, <2>1 DEF Others
<1>3. ASSUME NEW s \in Setups, pc[s] = "syncing" PROVE todo' = todo
  <2>1. mu = s /\ s # p /\ s # Nobody
    BY <1>3, ActorsAssumption DEF Locked, Actors
  <2>2. ~sweepBegin(p)
    BY <2>1 DEF sweepBegin, Lock
  <2> QED BY <2>1, <2>2, LockedStop
<1>4. ASSUME NEW s \in Setups, pc[s] # "idle" PROVE job[s] \in Jobs
  <2>1. s \in Actors
    BY DEF Actors
  <2> QED BY <1>4, <2>1 DEF TypeInv, HasJob, Active
<1>5. Single'
  BY <1>2 DEF ShareInv, Single, Alone, Active
<1>6. Halted'
  <2> SUFFICES ASSUME NEW s \in Setups, pc'[s] \in Preparing, status'[job'[s]] = "running"
               PROVE  FALSE
    BY DEF Halted
  <2>1. pc[s] \in Preparing /\ job[s] \in Jobs /\ job'[s] = job[s]
    BY <1>2, <1>4 DEF Preparing
  <2> QED BY <1>1, <2>1 DEF Fades, ShareInv, Halted
<1>7. Recorded'
  <2> SUFFICES ASSUME NEW s \in Setups, pc'[s] \in Sharing, managed'[job'[s]]
               PROVE  port'[job'[s]] = addr'[s]
    BY DEF Recorded
  <2>1. pc[s] \in Sharing /\ job[s] \in Jobs /\ job'[s] = job[s] /\ addr'[s] = addr[s]
    BY <1>2, <1>4 DEF Sharing
  <2>2. managed'[job[s]]
    BY <2>1
  <2>3. managed[job[s]] /\ port'[job[s]] = port[job[s]]
    BY <1>1, <2>1, <2>2 DEF Fades
  <2> QED BY <2>1, <2>3 DEF ShareInv, Recorded
<1>8. Reached'
  BY <1>1, <1>2, <1>3, FadesServes DEF ShareInv, Reached
<1>9. Informed'
  BY <1>1, <1>2, FadesServes DEF ShareInv, Informed
<1>10. (\A s \in Setups : pc'[s] # "syncing") => Agreed'
  BY <1>1, <1>2, FadesServes DEF ShareInv, Agreed
<1> QED BY <1>5, <1>6, <1>7, <1>8, <1>9, <1>10 DEF ShareInv

(* A setup that is the only one, before it shares its address or when it    *)
(* gives up. *)
LEMMA ShareApart ==
  ASSUME TypeInv, ShareInv, NEW s \in Setups, Alone(s), Others(s), Fades,
         pc[s] # "syncing", pc'[s] \notin Sharing,
         pc'[s] \in Preparing => status'[job'[s]] # "running"
  PROVE  ShareInv'
<1>1. \A t \in Setups \ {s} : pc'[t] = "idle"
  BY DEF Alone, Active, Others, Actors
<1>2. Single'
  BY <1>1 DEF Single, Alone, Active
<1>3. Halted' /\ Recorded' /\ Reached' /\ Informed'
  BY <1>1 DEF Halted, Recorded, Reached, Informed, Preparing, Sharing
<1>4. Agreed'
  <2>1. \A t \in Setups : pc[t] # "syncing"
    BY DEF Alone, Active
  <2> QED BY <2>1, FadesServes DEF ShareInv, Agreed
<1> QED BY <1>2, <1>3, <1>4 DEF ShareInv

LEMMA ShareSetup ==
  ASSUME Discipline # "api", TypeInv, Locked, ShareInv, NEW s \in Setups, Setup(s)
  PROVE  ShareInv'
<1> s \in Actors /\ s # Nobody
  BY ActorsAssumption DEF Actors
<1>1. Others(s)
  BY OthersSetup
<1>2. Alone(s)
  <2>1. CASE SetupRSP(s)
    BY <2>1, DisciplineAssumption DEF SetupRSP, MaySetup, Alone, Actors
  <2>2. CASE Active(s)
    BY <2>2 DEF ShareInv, Single
  <2>3. CASE ~SetupRSP(s) /\ ~Active(s)
    BY <2>3 DEF Setup, Active, Goto, Announce, Finish, Proceed, Lock, resolveHome, install,
         prepare, buildWAR, ensureTomcatHTTPPort, avoidCollision, rewrite, rspStart, rspPublish,
         record, syncBegin, syncJob, syncEnd, setupEnds
  <2> QED BY <2>1, <2>2, <2>3
<1>3. \A t \in Setups \ {s} : pc[t] = "idle" /\ pc'[t] = "idle"
  BY <1>1, <1>2 DEF Alone, Active, Others, Actors
<1>4. Single'
  BY <1>3 DEF Single, Alone, Active
<1>5. pc[s] # "idle" => job[s] \in Jobs
  BY DEF TypeInv, HasJob, Active
<1> USE DEF TypeInv, AddressInv, ControlTyped, Goto, jobVars, lockVars, locals
<1>6. ASSUME NEW from, NEW st \in {"error", "done"}, Finish(s, st, from), from # "syncing"
      PROVE  ShareInv'
  <2>1. Fades
    BY <1>6 DEF Finish, Fades
  <2>2. pc[s] # "syncing" /\ pc'[s] = "idle"
    BY <1>6 DEF Finish
  <2> QED BY <1>1, <1>2, <2>1, <2>2, ShareApart DEF Sharing, Preparing
<1>7. ASSUME NEW from, NEW to, Goto(s, from, to), UNCHANGED <<status, port, managed>>,
             from # "syncing", to \notin Sharing, to \in Preparing => from \in Preparing,
             job'[s] = job[s]
      PROVE  ShareInv'
  <2>1. Fades
    BY <1>7 DEF Fades
  <2>2. pc[s] # "syncing" /\ pc'[s] = to
    BY <1>7
  <2>3. pc'[s] \in Preparing => status'[job'[s]] # "running"
    BY <1>7 DEF ShareInv, Halted
  <2> QED BY <1>1, <1>2, <1>7, <2>1, <2>2, <2>3, ShareApart
<1>p. ASSUME NEW from, NEW to, Proceed(s, from, to), from # "syncing", to \notin Sharing,
             to \in Preparing => from \in Preparing
      PROVE  ShareInv'
  <2>1. Goto(s, from, to) /\ UNCHANGED <<status, port, managed>> /\ job'[s] = job[s]
    BY <1>p DEF Proceed
  <2> QED BY <1>7, <1>p, <2>1
<1>q. /\ Preparing \cap {"prepare", "file"} = {}
      /\ Sharing \cap {"prepare", "file", "ensure", "recheck", "rewrite", "start", "publish",
                       "record"} = {}
      /\ {"ensure", "recheck", "rewrite", "start", "publish", "record", "build"} \subseteq Preparing
  BY DEF Preparing, Sharing
<1>8. CASE SetupRSP(s)
  <2>1. Fades
    BY <1>8 DEF SetupRSP, Fades
  <2>2. pc[s] # "syncing" /\ pc'[s] = "begin"
    BY <1>8 DEF SetupRSP
  <2> QED BY <1>1, <1>2, <2>1, <2>2, ShareApart DEF Sharing, Preparing
<1>9. CASE resolveHome(s)
  <2>1. CASE Finish(s, "error", "begin")
    BY <1>6, <2>1
  <2>2. CASE ~Finish(s, "error", "begin")
    <3>1. pc[s] = "begin" /\ pc'[s] \in {"install", "prepare"}
      BY <1>9, <2>2 DEF resolveHome
    <3>2. Fades
      BY <1>9, <2>2 DEF resolveHome, Fades
    <3> QED BY <1>1, <1>2, <3>1, <3>2, ShareApart DEF Sharing, Preparing
  <2> QED BY <2>1, <2>2
<1>10. CASE install(s) \/ buildWAR(s)
  <2>1. CASE Finish(s, "error", "install") \/ Finish(s, "error", "build")
    BY <1>6, <2>1
  <2>2. CASE Proceed(s, "install", "prepare")
    BY <1>p, <1>q, <2>2
  <2>3. CASE Proceed(s, "build", "ensure")
    BY <1>p, <1>q, <2>3
  <2>4. CASE Proceed(s, "build", "file")
    BY <1>p, <1>q, <2>4
  <2> QED BY <1>10, <2>1, <2>2, <2>3, <2>4 DEF install, buildWAR
<1>11. CASE prepare(s)
  <2>1. CASE Finish(s, "error", "prepare")
    BY <1>6, <2>1
  <2>2. CASE Announce(s, "building", "prepare", "build")
    <3>1. pc[s] = "prepare" /\ pc'[s] = "build" /\ job' = job
      BY <2>2 DEF Announce
    <3>2. status'[job'[s]] = "building" /\ Fades
      BY <1>5, <2>2, <3>1 DEF Announce, Fades
    <3> QED BY <1>1, <1>2, <3>1, <3>2, ShareApart DEF Sharing
  <2> QED BY <1>11, <2>1, <2>2 DEF prepare
<1>12. CASE ensureTomcatHTTPPort(s) \/ avoidCollision(s) \/ rewrite(s)
  <2>1. CASE Proceed(s, "ensure", "start")
    BY <1>p, <1>q, <2>1
  <2>2. CASE ensureTomcatHTTPPort(s) /\ ~Proceed(s, "ensure", "start")
    BY <1>7, <1>q, <2>2 DEF ensureTomcatHTTPPort
  <2>3. CASE avoidCollision(s)
    BY <1>7, <1>q, <2>3 DEF avoidCollision
  <2>4. CASE rewrite(s)
    BY <1>7, <1>q, <2>4 DEF rewrite
  <2> QED BY <1>12, <2>1, <2>2, <2>3, <2>4
<1>13. CASE rspStart(s) \/ rspPublish(s)
  <2>1. CASE Proceed(s, "start", "file")
    BY <1>p, <1>q, <2>1
  <2>2. CASE Proceed(s, "publish", "file")
    BY <1>p, <1>q, <2>2
  <2>3. CASE Proceed(s, "publish", "record")
    BY <1>p, <1>q, <2>3
  <2>4. CASE rspStart(s) /\ ~Proceed(s, "start", "file")
    BY <1>7, <1>q, <2>4 DEF rspStart
  <2> QED BY <1>13, <2>1, <2>2, <2>3, <2>4 DEF rspStart, rspPublish
<1>14. CASE record(s)
  <2>1. /\ pc[s] = "record" /\ pc'[s] = "sync" /\ job[s] \in Jobs
        /\ UNCHANGED <<status, job, addr>>
        /\ port' = [port EXCEPT ![job[s]] = addr[s]]
        /\ managed' = [managed EXCEPT ![job[s]] = TRUE]
    BY <1>5, <1>14 DEF record
  <2>2. status[job[s]] # "running"
    BY <2>1 DEF ShareInv, Halted, Preparing
  <2>3. ASSUME NEW j \in Jobs, Serves(j)' PROVE Serves(j) /\ port'[j] = port[j]
    <3>1. j # job[s]
      BY <2>1, <2>2, <2>3 DEF Serves
    <3> QED BY <2>1, <2>3, <3>1 DEF Serves
  <2>4. Halted' /\ Recorded' /\ Reached' /\ Informed'
    BY <1>3, <2>1, <2>2 DEF Halted, Recorded, Reached, Informed, Preparing, Sharing
  <2>5. Agreed'
    BY <1>3, <2>1, <2>3 DEF ShareInv, Agreed
  <2> QED BY <1>4, <2>4, <2>5 DEF ShareInv
<1>15. CASE syncBegin(s)
  <2>1. /\ pc[s] = "sync" /\ pc'[s] = "syncing" /\ job[s] \in Jobs
        /\ todo' = Jobs \ {job[s]}
        /\ UNCHANGED <<status, port, managed, job, addr>>
    BY <1>5, <1>15 DEF syncBegin, Lock
  <2>2. status[job[s]] # "running"
    BY <2>1 DEF ShareInv, Halted, Preparing
  <2>3. Halted' /\ Recorded' /\ Informed'
    BY <1>3, <2>1, <2>2 DEF ShareInv, Halted, Recorded, Informed, Preparing, Sharing
  <2>4. Reached'
    BY <1>3, <2>1, <2>2 DEF Reached, Serves
  <2> QED BY <1>4, <2>1, <2>3, <2>4 DEF ShareInv
<1>16. ASSUME NEW k \in Jobs, syncJob(s, k) PROVE ShareInv'
  <2>1. /\ pc[s] = "syncing" /\ job[s] \in Jobs
        /\ todo' = todo \ {k}
        /\ UNCHANGED <<status, managed, pc, job, addr>>
    BY <1>5, <1>16 DEF syncJob, Visit
  <2>2. \/ ~Serves(k) /\ port' = port
        \/ port' = [port EXCEPT ![k] = addr[s]]
    BY <1>16 DEF syncJob, ToSync, Serves
  <2>3. Halted' /\ Informed'
    BY <1>3, <2>1 DEF ShareInv, Halted, Informed
  <2>4. Recorded'
    BY <1>3, <2>1, <2>2 DEF ShareInv, Recorded, Sharing
  <2>5. Reached'
    <3> SUFFICES ASSUME NEW j \in Jobs, j \notin todo', Serves(j) PROVE port'[j] = addr[s]
      BY <1>3, <2>1 DEF Reached, Serves
    <3>1. CASE j = k
      BY <2>2, <3>1
    <3>2. CASE j # k
      BY <2>1, <2>2, <3>2 DEF ShareInv, Reached
    <3> QED BY <3>1, <3>2
  <2> QED BY <1>4, <2>1, <2>3, <2>4, <2>5 DEF ShareInv
<1>17. CASE syncEnd(s)
  <2>1. /\ pc[s] = "syncing" /\ pc'[s] = "announce" /\ todo = {}
        /\ UNCHANGED <<status, port, managed, job, addr>>
    BY <1>17 DEF syncEnd, Unlock
  <2>2. Halted' /\ Recorded' /\ Reached'
    BY <1>3, <2>1 DEF ShareInv, Halted, Recorded, Reached, Preparing, Sharing
  <2>3. \A j \in Jobs : Serves(j)' => port'[j] = addr[s]
    BY <2>1 DEF ShareInv, Reached, Serves
  <2>4. Informed' /\ Agreed'
    BY <1>3, <2>1, <2>3 DEF Informed, Agreed
  <2> QED BY <1>4, <2>2, <2>4 DEF ShareInv
<1>18. CASE setupEnds(s)
  <2>1. CASE Finish(s, "error", "file") \/ Finish(s, "done", "file")
    BY <1>6, <2>1
  <2>2. CASE Finish(s, "running", "announce")
    <3>1. /\ pc[s] = "announce" /\ pc'[s] = "idle" /\ job[s] \in Jobs
          /\ status' = [status EXCEPT ![job[s]] = "running"]
          /\ UNCHANGED <<port, managed>>
      BY <1>5, <2>2 DEF Finish
    <3>2. ASSUME NEW j \in Jobs, Serves(j)' PROVE port'[j] = addr[s]
      <4>1. CASE j = job[s]
        BY <3>1, <3>2, <4>1 DEF ShareInv, Recorded, Sharing, Serves
      <4>2. CASE j # job[s]
        <5>1. Serves(j)
          BY <3>1, <3>2, <4>2 DEF Serves
        <5> QED BY <3>1, <5>1 DEF ShareInv, Informed
      <4> QED BY <4>1, <4>2
    <3>3. Agreed'
      BY <3>2 DEF Agreed
    <3>4. Halted' /\ Recorded' /\ Reached' /\ Informed'
      BY <1>3, <3>1 DEF Halted, Recorded, Reached, Informed, Preparing, Sharing
    <3> QED BY <1>4, <3>3, <3>4 DEF ShareInv
  <2> QED BY <1>18, <2>1, <2>2 DEF setupEnds
<1> QED BY <1>8, <1>9, <1>10, <1>11, <1>12, <1>13, <1>14, <1>15, <1>16, <1>17, <1>18 DEF Setup

(* While setups come one after the other, the jobs that run on the Tomcat   *)
(* show one port, whatever stops of any of them do during a setup: the      *)
(* invariant OneAddress, for any number of jobs and stops. *)
THEOREM AddressShared == ASSUME Discipline # "api" PROVE Spec => []OneAddress
<1>1. Init => Locked /\ ShareInv
  <2> SUFFICES ASSUME Init PROVE Locked /\ ShareInv
    OBVIOUS
  <2>1. Locked /\ \A s \in Setups : pc[s] = "idle"
    BY DEF Init, Locked, Actors
  <2>2. Agreed
    BY DEF Init, Agreed, Serves
  <2> QED BY <2>1, <2>2
       DEF ShareInv, Single, Alone, Active, Halted, Recorded, Reached, Informed, Preparing, Sharing
<1>2. TypeInv /\ (Locked /\ ShareInv) /\ [Next]_vars => (Locked /\ ShareInv)'
  <2> SUFFICES ASSUME TypeInv, Locked, ShareInv, [Next]_vars PROVE Locked' /\ ShareInv'
    OBVIOUS
  <2>1. CASE UNCHANGED vars
    BY <2>1 DEF vars, jobVars, lockVars, locals, Locked, ShareInv, Single, Alone, Active, Halted,
         Recorded, Reached, Informed, Agreed, Serves
  <2>2. ASSUME NEW s \in Setups, Setup(s) PROVE Locked' /\ ShareInv'
    BY <2>2, LockedSetup, ShareSetup
  <2>3. ASSUME NEW p \in Stops, Stop(p) PROVE Locked' /\ ShareInv'
    BY <2>3, LockedStop, ShareStop
  <2> QED BY <2>1, <2>2, <2>3 DEF Next
<1>3. ShareInv => OneAddress
  BY DEF ShareInv, Agreed, OneAddress, NoSetup, Active
<1> QED BY <1>1, <1>2, <1>3, TypesHold, PTL DEF Spec

-----------------------------------------------------------------------------
(* RspClient.                                                               *)

(* The functions' scripts, line by line. *)
LEMMA ScriptShape ==
  /\ DOMAIN Script = {"rspDeployAndStart", "rspPublish", "rspStopServer"}
  /\ Len(Script["rspDeployAndStart"]) = 6
  /\ Len(Script["rspPublish"]) = 2
  /\ Len(Script["rspStopServer"]) = 2
  /\ Script["rspDeployAndStart"][1].op = "createServer"
  /\ Script["rspDeployAndStart"][2].op = "getServerHandles" /\ Script["rspDeployAndStart"][2].fatal
  /\ Script["rspDeployAndStart"][3].op = "addDeployable"
  /\ Script["rspDeployAndStart"][4].op = "startServerAsync"
  /\ Script["rspDeployAndStart"][5].op = "waitState"
  /\ Script["rspDeployAndStart"][6].op = "publish" /\ Script["rspDeployAndStart"][6].fatal
  /\ Script["rspPublish"][1].op = "getServerHandles"
  /\ Script["rspPublish"][2].op = "publish" /\ Script["rspPublish"][2].fatal
  /\ Script["rspStopServer"][1].op = "stopServerAsync"
  /\ Script["rspStopServer"][2].op = "waitState" /\ Script["rspStopServer"][2].fatal
BY DEF Script, Call, Wait

LEMMA LinesShape ==
  ASSUME NEW f \in DOMAIN Script, NEW n \in 1 .. Len(Script[f])
  PROVE  /\ Len(Script[f]) \in {2, 6}
         /\ n \in 1 .. 6
         /\ Script[f][n].op \in Ops \cup {"waitState"}
         /\ f = "rspPublish" => Script[f][n].op \notin StateOps \cup {"waitState"}
         /\ f = "rspDeployAndStart" => /\ Script[f][n].op \in StateOps => n = 4
                                       /\ Script[f][n].op = "waitState" => n = 5
         /\ f = "rspStopServer" => /\ Script[f][n].op \in StateOps => n = 1
                                   /\ n = 2 => Script[f][n].op = "waitState"
         /\ n = Len(Script[f]) /\ f # "rspStopServer" => Script[f][n].op = "publish" /\ Script[f][n].fatal
         /\ f = "rspDeployAndStart" => Len(Script[f]) = 6
         /\ f = "rspDeployAndStart" /\ n = 2 => Script[f][n].op = "getServerHandles" /\ Script[f][n].fatal
         /\ f = "rspDeployAndStart" /\ n = 5 => Script[f][n].op = "waitState"
<1>1. CASE f = "rspDeployAndStart"
  <2>1. Len(Script[f]) = 6
    BY <1>1, ScriptShape
  <2>2. n \in {1, 2, 3, 4, 5, 6}
    BY <2>1
  <2>3. CASE n = 1
    BY <1>1, <2>1, <2>3, ScriptShape DEF Ops, StateOps
  <2>4. CASE n = 2
    BY <1>1, <2>1, <2>4, ScriptShape DEF Ops, StateOps
  <2>5. CASE n = 3
    BY <1>1, <2>1, <2>5, ScriptShape DEF Ops, StateOps
  <2>6. CASE n = 4
    BY <1>1, <2>1, <2>6, ScriptShape DEF Ops, StateOps
  <2>7. CASE n = 5
    BY <1>1, <2>1, <2>7, ScriptShape DEF Ops, StateOps
  <2>8. CASE n = 6
    BY <1>1, <2>1, <2>8, ScriptShape DEF Ops, StateOps
  <2> QED BY <2>2, <2>3, <2>4, <2>5, <2>6, <2>7, <2>8
<1>2. CASE f = "rspPublish"
  <2>1. Len(Script[f]) = 2
    BY <1>2, ScriptShape
  <2>2. n \in {1, 2}
    BY <2>1
  <2>3. CASE n = 1
    BY <1>2, <2>1, <2>3, ScriptShape DEF Ops, StateOps
  <2>4. CASE n = 2
    BY <1>2, <2>1, <2>4, ScriptShape DEF Ops, StateOps
  <2> QED BY <2>2, <2>3, <2>4
<1>3. CASE f = "rspStopServer"
  <2>1. Len(Script[f]) = 2
    BY <1>3, ScriptShape
  <2>2. n \in {1, 2}
    BY <2>1
  <2>3. CASE n = 1
    BY <1>3, <2>1, <2>3, ScriptShape DEF Ops, StateOps
  <2>4. CASE n = 2
    BY <1>3, <2>1, <2>4, ScriptShape DEF Ops, StateOps
  <2> QED BY <2>2, <2>3, <2>4
<1> QED BY <1>1, <1>2, <1>3, ScriptShape

-----------------------------------------------------------------------------
(* Types.  The number of the next request is bounded by the line of the      *)
(* script.                                                                  *)
Counted ==
  /\ step \in [Clients -> 1 .. 6]
  /\ \A c \in Clients : /\ stage[c] = "send" => nextID[c] < step[c]
                        /\ stage[c] = "read" => nextID[c] <= step[c]
ClientTypes == RCTypeOK /\ Counted

LEMMA NowTyped ==
  ASSUME ClientTypes, NEW c \in Clients
  PROVE  /\ running[c] \in DOMAIN Script /\ step[c] \in 1 .. Len(Script[running[c]])
         /\ step[c] \in 1 .. 6 /\ nextID[c] \in 0 .. 6
         /\ Now(c).op \in Ops \cup {"waitState"}
         /\ Length(c) \in {2, 6}
<1>1. running[c] \in DOMAIN Script /\ step[c] \in 1 .. Len(Script[running[c]])
  BY DEF ClientTypes, RCTypeOK, Length
<1>2. step[c] \in 1 .. 6 /\ nextID[c] \in 0 .. 6
  BY DEF ClientTypes, RCTypeOK, Counted, ID
<1> QED BY <1>1, <1>2, LinesShape DEF Now, Length

(* What is left of a stream. *)
LEMMA TailTyped ==
  ASSUME NEW s \in Seq(Message), s # <<>>
  PROVE  Head(s) \in Message /\ Tail(s) \in Seq(Message)
OBVIOUS

(* The end of a line of the script: the next one is sent, or the function   *)
(* returns.                                                                 *)
LineEnds(c) ==
  /\ orphans' \subseteq StateOps
  /\ pending' \in [Clients -> SUBSET Request] /\ replying' \in [Clients -> SUBSET Request]
  /\ inbox' \in [Clients -> Seq(Message)] /\ late' \in [Clients -> BOOLEAN]
  /\ stage' \in [Clients -> {"idle", "send", "read", "ok", "failed"}]
  /\ running' = running /\ step' \in [Clients -> 1 .. 6]
  /\ \A d \in Clients : step'[d] \in 1 .. Length(d)
  /\ \A d \in Clients : d # c => stage'[d] = stage[d] /\ step'[d] = step[d]
  /\ stage'[c] # "read" /\ (stage'[c] = "send" => step'[c] = step[c] + 1)

LEMMA LineTyped ==
  ASSUME ClientTypes, NEW c \in Clients, NEW rest \in Seq(Message), GoOn(c, rest) \/ Failed(c, rest)
  PROVE  LineEnds(c)
<1>0. step[c] \in 1 .. 6 /\ Length(c) \in {2, 6}
  BY NowTyped
<1>1. ASSUME NEW result \in {"ok", "failed"}, Returns(c, result)
      PROVE  LineEnds(c)
  BY <1>1 DEF Returns, LineEnds, ClientTypes, RCTypeOK, Counted
<1>2. ASSUME GoOn(c, rest)
      PROVE  LineEnds(c)
  <2>1. CASE Returns(c, "ok")
    BY <1>1, <2>1
  <2>2. CASE ~ Returns(c, "ok")
    <3>0. step[c] < Length(c)
      BY <1>2, <2>2 DEF GoOn
    <3>1. /\ stage' = [stage EXCEPT ![c] = "send"]
          /\ step' = [step EXCEPT ![c] = @ + 1]
          /\ inbox' = [inbox EXCEPT ![c] = rest]
          /\ late' = [late EXCEPT ![c] = FALSE]
          /\ UNCHANGED <<orphans, pending, replying, running>>
      BY <1>2, <2>2 DEF GoOn
    <3>2. step' \in [Clients -> 1 .. 6] /\ \A d \in Clients : step'[d] \in 1 .. Length(d)
      BY <1>0, <3>0, <3>1 DEF ClientTypes, RCTypeOK, Counted
    <3>3. \A d \in Clients : d # c => stage'[d] = stage[d] /\ step'[d] = step[d]
      BY <3>1 DEF ClientTypes, RCTypeOK, Counted
    <3>4. stage'[c] = "send" /\ step'[c] = step[c] + 1
      BY <3>1 DEF ClientTypes, RCTypeOK, Counted
    <3> QED BY <3>1, <3>2, <3>3, <3>4 DEF LineEnds, ClientTypes, RCTypeOK, Counted
  <2> QED BY <2>1, <2>2
<1> QED BY <1>1, <1>2 DEF Failed

LEMMA RSPTyped ==
  ASSUME ClientTypes, RSP
  PROVE  ClientTypes'
<1> USE DEF ClientTypes, RCTypeOK, Counted, Length
<1>0. ASSUME NEW c \in Clients, NEW m \in Message, NEW s \in Seq(Message)
      PROVE  Append(s, m) \in Seq(Message)
  OBVIOUS
<1>1. ASSUME NEW c \in Clients, handle(c)
      PROVE  ClientTypes'
  <2>1. PICK q \in pending[c] : /\ pending' = [pending EXCEPT ![c] = @ \ {q}]
                                /\ replying' = [replying EXCEPT ![c] = @ \cup {q}]
                                /\ handled' = [handled EXCEPT ![c] = IF q.id > @ THEN q.id ELSE @]
                                /\ Effect(q.op)
    BY <1>1 DEF handle
  <2>2. q \in Request /\ q.id \in ID
    BY DEF Request
  <2>3. /\ pending' \in [Clients -> SUBSET Request] /\ replying' \in [Clients -> SUBSET Request]
        /\ handled' \in [Clients -> ID \cup {0}]
    BY <2>1, <2>2
  <2>4. server' \in {"stopped", "starting", "started", "stopping"}
    BY <2>1 DEF Effect
  <2> QED BY <1>1, <2>3, <2>4 DEF handle, conn
<1>2. ASSUME handleOrphan
      PROVE  ClientTypes'
  BY <1>2 DEF handleOrphan, Effect, conn
<1>3. ASSUME NEW c \in Clients, reply(c)
      PROVE  ClientTypes'
  <2>1. PICK q \in replying[c], ok \in BOOLEAN :
          /\ replying' = [replying EXCEPT ![c] = @ \ {q}]
          /\ inbox' = [inbox EXCEPT ![c] =
                         Append(@, [kind |-> "reply", id |-> q.id, op |-> q.op, ok |-> ok])]
    BY <1>3 DEF reply
  <2>2. [kind |-> "reply", id |-> q.id, op |-> q.op, ok |-> ok] \in Message
    BY DEF Request, Message
  <2>3. inbox' \in [Clients -> Seq(Message)]
    BY <2>1, <2>2, <1>0
  <2>4. replying' \in [Clients -> SUBSET Request]
    BY <2>1
  <2> QED BY <1>3, <2>3, <2>4 DEF reply, conn
<1>4. ASSUME tomcatMoves
      PROVE  ClientTypes'
  <2>1. ASSUME NEW state \in {STARTED, STOPPED}, Broadcast(state)
        PROVE  inbox' \in [Clients -> Seq(Message)]
    <3>1. \A c \in Clients : [kind |-> "state", state |-> state, after |-> handled[c]] \in Message
      BY DEF Message
    <3> QED BY <2>1, <3>1 DEF Broadcast
  <2>2. inbox' \in [Clients -> Seq(Message)] /\ server' \in {"stopped", "starting", "started", "stopping"}
    BY <1>4, <2>1 DEF tomcatMoves
  <2> QED BY <1>4, <2>2 DEF tomcatMoves, conn
<1>5. ASSUME NEW c \in Clients, noise(c)
      PROVE  ClientTypes'
  <2>1. [kind |-> "noise"] \in Message
    BY DEF Message
  <2>2. inbox' \in [Clients -> Seq(Message)]
    BY <1>5, <2>1 DEF noise
  <2> QED BY <1>5, <2>2 DEF noise, rsp, conn
<1>6. ASSUME rspExits \/ rspStarts
      PROVE  ClientTypes'
  BY <1>6 DEF rspExits, rspStarts, conn
<1> QED BY <1>1, <1>2, <1>3, <1>4, <1>5, <1>6 DEF RSP

LEMMA DialTyped ==
  ASSUME ClientTypes, NEW c \in Clients, dialRSP(c)
  PROVE  ClientTypes'
<1> USE DEF ClientTypes, RCTypeOK, Counted, Length
<1>1. PICK f \in DOMAIN Script : running' = [running EXCEPT ![c] = f]
  BY DEF dialRSP
<1>2. 1 \in 1 .. Len(Script[f])
  BY ScriptShape
<1>3. /\ running' \in [Clients -> DOMAIN Script] /\ step' \in [Clients -> 1 .. 6]
      /\ \A d \in Clients : step'[d] \in 1 .. Len(Script[running'[d]])
  BY <1>1, <1>2 DEF dialRSP
<1>4. \A d \in Clients : /\ stage'[d] = "send" => nextID'[d] < step'[d]
                         /\ stage'[d] = "read" => nextID'[d] <= step'[d]
  BY DEF dialRSP, ID
<1>5. /\ stage' \in [Clients -> {"idle", "send", "read", "ok", "failed"}]
      /\ nextID' \in [Clients -> ID \cup {0}] /\ handled' \in [Clients -> ID \cup {0}]
      /\ taken' \in [Clients -> SUBSET (Ops \X Ops)]
      /\ broken' \in [Clients -> BOOLEAN] /\ stale' \in [Clients -> BOOLEAN]
  BY DEF dialRSP
<1> QED BY <1>3, <1>4, <1>5 DEF dialRSP

(* A step that ends a line has the right types if it gives the right ones   *)
(* to the variables of the history and counts no request before the next.   *)
LEMMA EndTyped ==
  ASSUME ClientTypes, NEW c \in Clients, LineEnds(c),
         nextID' \in [Clients -> ID \cup {0}], nextID'[c] <= step[c],
         \A d \in Clients : d # c => nextID'[d] = nextID[d],
         broken' \in [Clients -> BOOLEAN], stale' \in [Clients -> BOOLEAN],
         taken' \in [Clients -> SUBSET (Ops \X Ops)], UNCHANGED <<up, server, handled>>
  PROVE  ClientTypes'
<1> USE DEF ClientTypes, RCTypeOK, Counted, Length
<1>1. \A d \in Clients : /\ stage'[d] = "send" => nextID'[d] < step'[d]
                         /\ stage'[d] = "read" => nextID'[d] <= step'[d]
  <2> TAKE d \in Clients
  <2>1. nextID'[c] \in 0 .. 6 /\ step[c] \in 1 .. 6
    BY DEF ID
  <2>2. CASE d = c
    BY <2>1, <2>2 DEF LineEnds
  <2>3. CASE d # c
    BY <2>3 DEF LineEnds
  <2> QED BY <2>2, <2>3
<1> QED BY <1>1 DEF LineEnds

LEMMA ClientTyped ==
  ASSUME ClientTypes, NEW c \in Clients, Client(c) \/ deadline(c)
  PROVE  ClientTypes'
<1>0. /\ step[c] \in 1 .. 6 /\ nextID[c] \in 0 .. 6 /\ Now(c).op \in Ops \cup {"waitState"}
      /\ running[c] \in DOMAIN Script /\ step[c] \in 1 .. Len(Script[running[c]])
  BY NowTyped
<1> USE DEF ClientTypes, RCTypeOK, Counted
<1>1. ASSUME send(c)
      PROVE  ClientTypes'
  <2>0. nextID[c] < step[c]
    BY <1>1 DEF send
  <2>1. CASE Now(c).op = "waitState"
    <3>1. /\ stage' = [stage EXCEPT ![c] = "read"]
          /\ UNCHANGED <<orphans, pending, replying, inbox, running, step, late, nextID>>
      BY <1>1, <2>1 DEF send
    <3>2. \A d \in Clients : /\ stage'[d] = "send" => nextID'[d] < step'[d]
                             /\ stage'[d] = "read" => nextID'[d] <= step'[d]
      BY <1>0, <2>0, <3>1
    <3> QED BY <1>1, <3>1, <3>2 DEF send, Length
  <2>2. CASE Now(c).op # "waitState"
    <3>1. nextID' = [nextID EXCEPT ![c] = @ + 1]
      BY <1>1, <2>2 DEF send
    <3>2. /\ nextID' \in [Clients -> ID \cup {0}] /\ nextID'[c] <= step[c] /\ nextID'[c] \in ID
          /\ \A d \in Clients : d # c => nextID'[d] = nextID[d]
      BY <1>0, <2>0, <3>1 DEF ID
    <3>3. CASE Failed(c, inbox[c])
      BY <1>1, <3>2, <3>3, LineTyped, EndTyped DEF send
    <3>4. CASE ~ Failed(c, inbox[c])
      <4>1. /\ stage' = [stage EXCEPT ![c] = "read"]
            /\ pending' = [pending EXCEPT ![c] = @ \cup {[id |-> nextID'[c], op |-> Now(c).op]}]
            /\ UNCHANGED <<orphans, replying, inbox, running, step, late>>
        BY <1>1, <2>2, <3>4 DEF send
      <4>2. [id |-> nextID'[c], op |-> Now(c).op] \in Request
        BY <1>0, <2>2, <3>2 DEF Request
      <4>3. pending' \in [Clients -> SUBSET Request]
        BY <4>1, <4>2
      <4>4. \A d \in Clients : /\ stage'[d] = "send" => nextID'[d] < step'[d]
                               /\ stage'[d] = "read" => nextID'[d] <= step'[d]
        BY <3>2, <4>1
      <4> QED BY <1>1, <3>2, <4>1, <4>3, <4>4 DEF send, Length
    <3> QED BY <3>3, <3>4
  <2> QED BY <2>1, <2>2
<1>2. ASSUME Readable(c)
      PROVE  Head(inbox[c]) \in Message /\ Tail(inbox[c]) \in Seq(Message) /\ nextID[c] <= step[c]
  BY <1>2, TailTyped DEF Readable
<1>3. ASSUME Readable(c), Skip(c), UNCHANGED <<up, server, handled, nextID, broken, stale, taken>>
      PROVE  ClientTypes'
  BY <1>2, <1>3 DEF Skip, Length
<1>4. ASSUME callReads(c)
      PROVE  ClientTypes'
  <2> DEFINE m == Head(inbox[c])
  <2>0. m \in Message /\ Tail(inbox[c]) \in Seq(Message) /\ nextID[c] <= step[c] /\ Readable(c)
    BY <1>2, <1>4 DEF callReads
  <2>1. CASE IsMine(c, m) /\ m.ok
    <3>1. taken' = [taken EXCEPT ![c] = @ \cup {<<Now(c).op, m.op>>}] /\ GoOn(c, Tail(inbox[c]))
      BY <1>4, <2>1 DEF callReads
    <3>2. m.op \in Ops /\ Now(c).op \in Ops
      BY <1>0, <1>4, <2>0, <2>1 DEF IsMine, Message, callReads
    <3>3. taken' \in [Clients -> SUBSET (Ops \X Ops)]
      BY <3>1, <3>2
    <3>4. LineEnds(c)
      BY <2>0, <3>1, LineTyped
    <3> QED BY <1>4, <2>0, <3>3, <3>4, EndTyped DEF callReads
  <2>2. CASE IsMine(c, m) /\ ~m.ok
    <3>1. Failed(c, Tail(inbox[c])) /\ UNCHANGED taken
      BY <1>4, <2>2 DEF callReads
    <3> QED BY <1>4, <2>0, <3>1, LineTyped, EndTyped DEF callReads
  <2>3. CASE ~IsMine(c, m)
    BY <1>3, <1>4, <2>0, <2>3 DEF callReads
  <2> QED BY <2>1, <2>2, <2>3
<1>5. ASSUME waitReads(c)
      PROVE  ClientTypes'
  <2>0. Head(inbox[c]) \in Message /\ Tail(inbox[c]) \in Seq(Message) /\ nextID[c] <= step[c] /\ Readable(c)
    BY <1>2, <1>5 DEF waitReads
  <2>1. CASE Skip(c) /\ UNCHANGED stale
    BY <1>3, <1>5, <2>0, <2>1 DEF waitReads
  <2>2. CASE ~ (Skip(c) /\ UNCHANGED stale)
    <3> DEFINE old == Head(inbox[c]).after < nextID[c]
    <3>0. old \in BOOLEAN
      OBVIOUS
    <3>1. /\ GoOn(c, Tail(inbox[c])) \/ Failed(c, Tail(inbox[c]))
          /\ stale' = [stale EXCEPT ![c] = old] \/ stale' = stale
      BY <1>5, <2>2 DEF waitReads
    <3> HIDE DEF old
    <3>2. stale' \in [Clients -> BOOLEAN]
      BY <3>0, <3>1
    <3>3. LineEnds(c)
      BY <2>0, <3>1, LineTyped
    <3> QED BY <1>5, <2>0, <3>2, <3>3, EndTyped DEF waitReads
  <2> QED BY <2>1, <2>2
<1>6. ASSUME readFails(c)
      PROVE  ClientTypes'
  <2>1. nextID[c] <= step[c] /\ <<>> \in Seq(Message) /\ inbox[c] \in Seq(Message)
    BY <1>6 DEF readFails
  <2>2. LineEnds(c)
    BY <1>6, <2>1, LineTyped DEF readFails
  <2>3. broken' \in [Clients -> BOOLEAN]
    BY <1>6 DEF readFails
  <2> QED BY <1>6, <2>1, <2>2, <2>3, EndTyped DEF readFails
<1>7. ASSUME deadline(c)
      PROVE  ClientTypes'
  BY <1>7 DEF deadline, rsp, Length
<1> QED BY <1>1, <1>4, <1>5, <1>6, <1>7 DEF Client

(* The types of a connection, and the bound of its requests, for any number *)
(* of clients and any InboxSize. *)
THEOREM ClientTypesHold == RCSpec => []ClientTypes
<1>1. RCInit => ClientTypes
  <2>1. "rspPublish" \in DOMAIN Script /\ 1 \in 1 .. Len(Script["rspPublish"])
    BY ScriptShape
  <2> QED BY <2>1 DEF RCInit, ClientTypes, RCTypeOK, Counted, Length, ID
<1>2. ClientTypes /\ [RCNext]_RCvars => ClientTypes'
  <2> SUFFICES ASSUME ClientTypes, [RCNext]_RCvars PROVE ClientTypes'
    OBVIOUS
  <2>1. CASE UNCHANGED RCvars
    BY <2>1 DEF RCvars, ClientTypes, RCTypeOK, Counted, Length
  <2> QED BY <2>1, RSPTyped, DialTyped, ClientTyped DEF RCNext
<1> QED BY <1>1, <1>2, PTL DEF RCSpec

-----------------------------------------------------------------------------
(* The stream of a connection.                                              *)

(* No reply is to a request after n; all replies to request n are to `op`.  *)
RepliesBelow(s, n) == \A i \in 1 .. Len(s) : s[i].kind = "reply" => s[i].id <= n
Matches(s, n, op)  == \A i \in 1 .. Len(s) : s[i].kind = "reply" /\ s[i].id = n => s[i].op = op

(* A state that comes after a reply was reported after that request was      *)
(* handled; so were all states, of request n.                               *)
InOrder(s) == \A i, k \in 1 .. Len(s) :
                i < k /\ s[i].kind = "reply" /\ s[k].kind = "state" => s[k].after >= s[i].id
StatesFrom(s, n) == \A i \in 1 .. Len(s) : s[i].kind = "state" => s[i].after >= n

(* What is read, or dropped, is read from the front. *)
Rest(r, s) == \E n \in Nat : /\ Len(r) + n <= Len(s)
                             /\ \A i \in 1 .. Len(r) : r[i] = s[i + n]

LEMMA Rests ==
  ASSUME NEW s \in Seq(Message)
  PROVE  Rest(s, s) /\ Rest(<<>>, s) /\ (s # <<>> => Rest(Tail(s), s))
<1>1. Rest(s, s)
  <2>1. Len(s) + 0 <= Len(s) /\ \A i \in 1 .. Len(s) : s[i] = s[i + 0]
    OBVIOUS
  <2> QED BY <2>1 DEF Rest
<1>2. Rest(<<>>, s)
  <2>1. Len(<<>>) + 0 <= Len(s) /\ \A i \in 1 .. Len(<<>>) : <<>>[i] = s[i + 0]
    OBVIOUS
  <2> QED BY <2>1 DEF Rest
<1>3. ASSUME s # <<>>
      PROVE  Rest(Tail(s), s)
  <2>1. Len(Tail(s)) + 1 <= Len(s) /\ \A i \in 1 .. Len(Tail(s)) : Tail(s)[i] = s[i + 1]
    BY <1>3
  <2> QED BY <2>1 DEF Rest
<1> QED BY <1>1, <1>2, <1>3

LEMMA RestKeeps ==
  ASSUME NEW r \in Seq(Message), NEW s \in Seq(Message), Rest(r, s), NEW n \in Nat, NEW op
  PROVE  /\ RepliesBelow(s, n) => RepliesBelow(r, n)
         /\ Matches(s, n, op) => Matches(r, n, op)
         /\ InOrder(s) => InOrder(r)
         /\ StatesFrom(s, n) => StatesFrom(r, n)
<1>1. PICK k \in Nat : Len(r) + k <= Len(s) /\ \A i \in 1 .. Len(r) : r[i] = s[i + k]
  BY DEF Rest
<1>2. Len(r) \in Nat /\ Len(s) \in Nat
  OBVIOUS
<1>3. \A i \in 1 .. Len(r) : i + k \in 1 .. Len(s) /\ r[i] = s[i + k]
  BY <1>1, <1>2
<1>4. ASSUME RepliesBelow(s, n) PROVE RepliesBelow(r, n)
  BY <1>3, <1>4 DEF RepliesBelow
<1>5. ASSUME Matches(s, n, op) PROVE Matches(r, n, op)
  BY <1>3, <1>5 DEF Matches
<1>6. ASSUME InOrder(s) PROVE InOrder(r)
  <2> SUFFICES ASSUME NEW i \in 1 .. Len(r), NEW j \in 1 .. Len(r),
                      i < j, r[i].kind = "reply", r[j].kind = "state"
               PROVE  r[j].after >= r[i].id
    BY DEF InOrder
  <2>1. i + k \in 1 .. Len(s) /\ j + k \in 1 .. Len(s) /\ i + k < j + k
    BY <1>3
  <2> QED BY <1>3, <1>6, <2>1 DEF InOrder
<1>7. ASSUME StatesFrom(s, n) PROVE StatesFrom(r, n)
  BY <1>3, <1>7 DEF StatesFrom
<1> QED BY <1>4, <1>5, <1>6, <1>7

LEMMA Appended ==
  ASSUME NEW s \in Seq(Message), NEW m \in Message
  PROVE  /\ Append(s, m) \in Seq(Message) /\ Len(Append(s, m)) = Len(s) + 1 /\ Len(s) \in Nat
         /\ \A i \in 1 .. Len(s) + 1 : Append(s, m)[i] = IF i = Len(s) + 1 THEN m ELSE s[i]
OBVIOUS

LEMMA AppendKeeps ==
  ASSUME NEW s \in Seq(Message), NEW m \in Message, NEW n \in Nat, NEW op
  PROVE  /\ RepliesBelow(s, n) /\ (m.kind = "reply" => m.id <= n) => RepliesBelow(Append(s, m), n)
         /\ Matches(s, n, op) /\ (m.kind = "reply" /\ m.id = n => m.op = op)
              => Matches(Append(s, m), n, op)
         /\ StatesFrom(s, n) /\ (m.kind = "state" => m.after >= n) => StatesFrom(Append(s, m), n)
<1> DEFINE a == Append(s, m)
<1>1. Len(a) = Len(s) + 1 /\ Len(s) \in Nat /\ \A i \in 1 .. Len(s) + 1 : a[i] = m \/ (i \in 1 .. Len(s) /\ a[i] = s[i])
  BY Appended
<1> HIDE DEF a
<1>2. ASSUME RepliesBelow(s, n), m.kind = "reply" => m.id <= n PROVE RepliesBelow(a, n)
  BY <1>1, <1>2 DEF RepliesBelow
<1>3. ASSUME Matches(s, n, op), m.kind = "reply" /\ m.id = n => m.op = op PROVE Matches(a, n, op)
  BY <1>1, <1>3 DEF Matches
<1>4. ASSUME StatesFrom(s, n), m.kind = "state" => m.after >= n PROVE StatesFrom(a, n)
  BY <1>1, <1>4 DEF StatesFrom
<1> QED BY <1>2, <1>3, <1>4 DEF a

LEMMA AppendInOrder ==
  ASSUME NEW s \in Seq(Message), NEW m \in Message, NEW n \in Nat,
         InOrder(s), RepliesBelow(s, n), m.kind = "state" => m.after >= n
  PROVE  InOrder(Append(s, m))
<1> DEFINE a == Append(s, m)
<1>1. Len(a) = Len(s) + 1 /\ Len(s) \in Nat /\ \A i \in 1 .. Len(s) + 1 : a[i] = IF i = Len(s) + 1 THEN m ELSE s[i]
  BY Appended
<1> HIDE DEF a
<1> SUFFICES ASSUME NEW i \in 1 .. Len(a), NEW k \in 1 .. Len(a),
                    i < k, a[i].kind = "reply", a[k].kind = "state"
             PROVE  a[k].after >= a[i].id
  BY DEF InOrder, a
<1>2. i \in 1 .. Len(s) /\ a[i] = s[i]
  BY <1>1
<1>3. CASE k \in 1 .. Len(s)
  BY <1>1, <1>2, <1>3 DEF InOrder
<1>4. CASE k = Len(s) + 1
  <2>1. a[k] = m /\ m.after >= n /\ a[i].id <= n
    BY <1>1, <1>2, <1>4 DEF RepliesBelow
  <2>2. a[i] \in Message /\ a[i].kind = "reply" /\ a[k] \in Message /\ a[k].kind = "state"
    BY <1>2, <2>1
  <2>3. a[i].id \in Nat /\ a[k].after \in Nat
    BY <2>2 DEF Message, ID
  <2> QED BY <2>1, <2>3
<1> QED BY <1>1, <1>3, <1>4

-----------------------------------------------------------------------------
(* A connection.                                                            *)
Busy(c)     == stage[c] \in {"send", "read"}
Requests(c) == pending[c] \cup replying[c]
Asked(c)    == \E op \in StateOps : Answered(c, op)

(* What is under way on it: nothing is answered that was not sent, nor       *)
(* before it was handled.                                                   *)
Wire(c) ==
  /\ ~Busy(c) => Requests(c) = {} /\ inbox[c] = <<>>
  /\ RepliesBelow(inbox[c], nextID[c]) /\ \A q \in Requests(c) : q.id <= nextID[c]
  /\ RepliesBelow(inbox[c], handled[c]) /\ \A q \in replying[c] : q.id <= handled[c]
  /\ InOrder(inbox[c])

(* A call that reads waits for an answer to its own request only. *)
Awaits(c) ==
  stage[c] = "read" /\ Now(c).op # "waitState" =>
    /\ Matches(inbox[c], nextID[c], Now(c).op)
    /\ \A q \in Requests(c) : q.id = nextID[c] => q.op = Now(c).op

(* When waitState begins after a start or stop that was answered, whatever  *)
(* it will read was reported after that request was handled.                *)
Newer(c) ==
  Busy(c) /\ Now(c).op = "waitState" /\ Asked(c) =>
    nextID[c] <= handled[c] /\ StatesFrom(inbox[c], nextID[c])

(* What has been confirmed so far, by the line of the script. *)
Story(c) ==
  /\ \A t \in taken[c] : t[1] = t[2]
  /\ Asked(c) => ~stale[c]
  /\ Busy(c) /\ Asked(c) => \/ running[c] = "rspDeployAndStart" /\ step[c] >= 5
                            \/ running[c] = "rspStopServer" /\ step[c] = 2
  /\ Busy(c) /\ stale[c] => running[c] = "rspDeployAndStart" /\ step[c] = 6
  /\ Busy(c) /\ running[c] = "rspDeployAndStart" /\ step[c] > 2 => Answered(c, "getServerHandles")
  /\ stage[c] = "ok" /\ running[c] # "rspStopServer" =>
       /\ Answered(c, "publish")
       /\ running[c] = "rspDeployAndStart" => Answered(c, "getServerHandles")

Sound(c) == Wire(c) /\ Awaits(c) /\ Newer(c) /\ Story(c)

(* Nothing of connection d changes. *)
Unmoved(d) ==
  /\ stage'[d] = stage[d] /\ running'[d] = running[d] /\ step'[d] = step[d]
  /\ nextID'[d] = nextID[d] /\ taken'[d] = taken[d] /\ stale'[d] = stale[d]
  /\ pending'[d] = pending[d] /\ replying'[d] = replying[d]
  /\ handled'[d] = handled[d] /\ inbox'[d] = inbox[d]

LEMMA UnmovedSound ==
  ASSUME NEW d, Sound(d), Unmoved(d)
  PROVE  Sound(d)'
BY DEF Sound, Unmoved, Wire, Awaits, Newer, Story, Busy, Requests, Asked, Answered, Now

(* What RSP does on connection d. *)
Delivers(d) ==
  /\ UNCHANGED conn
  /\ handled'[d] >= handled[d]
  /\ pending'[d] \subseteq pending[d] /\ replying'[d] \subseteq Requests(d)
  /\ \A q \in replying'[d] : q \in replying[d] \/ q.id <= handled'[d]
  /\ \/ inbox'[d] = inbox[d]
     \/ /\ Busy(d) /\ handled'[d] = handled[d]
        /\ \E m \in Message : /\ inbox'[d] = Append(inbox[d], m)
                              /\ m.kind = "state" => m.after = handled[d]
                              /\ m.kind = "reply" => \E q \in replying[d] : m.id = q.id /\ m.op = q.op

LEMMA DeliversSound ==
  ASSUME ClientTypes, ClientTypes', NEW d \in Clients, Sound(d), Delivers(d)
  PROVE  Sound(d)'
<1>1. /\ handled[d] \in Nat /\ handled'[d] \in Nat /\ nextID[d] \in Nat
      /\ inbox[d] \in Seq(Message) /\ inbox'[d] \in Seq(Message)
      /\ pending[d] \subseteq Request /\ replying[d] \subseteq Request
  <2>1. handled[d] \in ID \cup {0} /\ handled'[d] \in ID \cup {0} /\ nextID[d] \in ID \cup {0}
    BY DEF ClientTypes, RCTypeOK
  <2>2. inbox[d] \in Seq(Message) /\ inbox'[d] \in Seq(Message)
    BY DEF ClientTypes, RCTypeOK
  <2>3. pending[d] \subseteq Request /\ replying[d] \subseteq Request
    BY DEF ClientTypes, RCTypeOK
  <2> QED BY <2>1, <2>2, <2>3 DEF ID
<1>2. \A q \in Request : q.id \in Nat
  BY DEF Request, ID
<1>3. /\ stage' = stage /\ running' = running /\ step' = step /\ nextID' = nextID
      /\ taken' = taken /\ stale' = stale
  BY DEF Delivers, conn
<1>4. Requests(d)' \subseteq Requests(d) /\ (Busy(d)' <=> Busy(d)) /\ Now(d)' = Now(d)
      /\ (Asked(d)' <=> Asked(d))
  <2>1. Requests(d)' \subseteq Requests(d)
    BY DEF Delivers, Requests
  <2>2. Busy(d)' <=> Busy(d)
    BY <1>3 DEF Busy
  <2>3. Now(d)' = Now(d)
    BY <1>3 DEF Now
  <2>4. Asked(d)' <=> Asked(d)
    BY <1>3 DEF Asked, Answered
  <2> QED BY <2>1, <2>2, <2>3, <2>4
<1>5. Story(d)'
  BY <1>3 DEF Sound, Story, Busy, Asked, Answered
<1>6. \A q \in replying'[d] : q.id <= handled'[d]
  BY <1>1, <1>2, <1>4 DEF Delivers, Sound, Wire, Requests
<1>7. ASSUME RepliesBelow(inbox[d], handled[d])
      PROVE  RepliesBelow(inbox[d], handled'[d])
  <2> SUFFICES ASSUME NEW i \in 1 .. Len(inbox[d]), inbox[d][i].kind = "reply"
               PROVE  inbox[d][i].id <= handled'[d]
    BY DEF RepliesBelow
  <2>1. inbox[d][i] \in Message /\ inbox[d][i].id <= handled[d]
    BY <1>1, <1>7 DEF RepliesBelow
  <2>2. inbox[d][i].id \in Nat
    BY <2>1 DEF Message, ID
  <2> QED BY <1>1, <2>1, <2>2 DEF Delivers
<1>8. CASE inbox'[d] = inbox[d]
  <2>1. Wire(d)'
    BY <1>3, <1>4, <1>6, <1>7, <1>8 DEF Sound, Wire
  <2>2. Awaits(d)'
    BY <1>3, <1>4, <1>8 DEF Sound, Awaits
  <2>3. Newer(d)'
    BY <1>1, <1>3, <1>4, <1>8 DEF Sound, Newer, Delivers
  <2> QED BY <1>5, <2>1, <2>2, <2>3 DEF Sound
<1>9. CASE inbox'[d] # inbox[d]
  <2>1. PICK m \in Message :
          /\ inbox'[d] = Append(inbox[d], m)
          /\ m.kind = "state" => m.after = handled[d]
          /\ m.kind = "reply" => \E q \in replying[d] : m.id = q.id /\ m.op = q.op
    BY <1>9 DEF Delivers
  <2>2. Busy(d) /\ handled'[d] = handled[d]
    BY <1>9 DEF Delivers
  <2>3. m.kind = "reply" => m.id <= nextID[d] /\ m.id <= handled[d]
    BY <2>1 DEF Sound, Wire, Requests
  <2>4. Wire(d)'
    <3>1. RepliesBelow(inbox'[d], nextID[d]) /\ RepliesBelow(inbox'[d], handled[d])
      BY <1>1, <2>1, <2>3, AppendKeeps DEF Sound, Wire
    <3>2. m.kind = "state" => m.after >= handled[d]
      BY <1>1, <2>1
    <3>3. InOrder(inbox'[d])
      BY <1>1, <2>1, <3>2, AppendInOrder DEF Sound, Wire
    <3> QED BY <1>3, <1>4, <1>6, <2>2, <3>1, <3>3 DEF Sound, Wire
  <2>5. Awaits(d)'
    <3> SUFFICES ASSUME stage[d] = "read", Now(d).op # "waitState"
                 PROVE  Matches(inbox'[d], nextID[d], Now(d).op)
      BY <1>3, <1>4 DEF Sound, Awaits
    <3>1. m.kind = "reply" /\ m.id = nextID[d] => m.op = Now(d).op
      BY <2>1 DEF Sound, Awaits, Requests
    <3> QED BY <1>1, <2>1, <3>1, AppendKeeps DEF Sound, Awaits
  <2>6. Newer(d)'
    <3> SUFFICES ASSUME Busy(d), Now(d).op = "waitState", Asked(d)
                 PROVE  nextID[d] <= handled[d] /\ StatesFrom(inbox'[d], nextID[d])
      BY <1>3, <1>4, <2>2 DEF Newer
    <3>1. nextID[d] <= handled[d] /\ StatesFrom(inbox[d], nextID[d])
      BY DEF Sound, Newer
    <3>2. m.kind = "state" => m.after >= nextID[d]
      BY <1>1, <2>1, <3>1
    <3> QED BY <1>1, <2>1, <3>1, <3>2, AppendKeeps
  <2> QED BY <1>5, <2>4, <2>5, <2>6 DEF Sound
<1> QED BY <1>8, <1>9

LEMMA RSPDelivers ==
  ASSUME ClientTypes, RSP, NEW d \in Clients
  PROVE  Delivers(d)
<1>0. /\ DOMAIN pending = Clients /\ DOMAIN replying = Clients /\ DOMAIN handled = Clients
      /\ DOMAIN inbox = Clients /\ handled[d] \in Nat /\ \A c \in Clients : handled[c] \in ID \cup {0}
  <2>1. handled \in [Clients -> ID \cup {0}]
    BY DEF ClientTypes, RCTypeOK
  <2>2. handled[d] \in Nat
    BY <2>1 DEF ID
  <2> QED BY <2>1, <2>2 DEF ClientTypes, RCTypeOK
<1>1. ASSUME NEW c \in Clients, handle(c)
      PROVE  Delivers(d)
  <2>1. PICK q \in pending[c] : /\ pending' = [pending EXCEPT ![c] = @ \ {q}]
                                /\ replying' = [replying EXCEPT ![c] = @ \cup {q}]
                                /\ handled' = [handled EXCEPT ![c] = IF q.id > @ THEN q.id ELSE @]
    BY <1>1 DEF handle
  <2>2. UNCHANGED <<conn, inbox>>
    BY <1>1 DEF handle
  <2>3. q \in Request /\ q.id \in Nat
    BY DEF ClientTypes, RCTypeOK, Request, ID
  <2>4. CASE d = c
    <3>1. pending'[d] = pending[d] \ {q} /\ replying'[d] = replying[d] \cup {q}
      BY <1>0, <2>1, <2>4
    <3>2. handled'[d] >= handled[d] /\ q.id <= handled'[d]
      BY <1>0, <2>1, <2>3, <2>4
    <3> QED BY <2>2, <2>4, <3>1, <3>2 DEF Delivers, Requests
  <2>5. CASE d # c
    <3>1. pending'[d] = pending[d] /\ replying'[d] = replying[d] /\ handled'[d] = handled[d]
      BY <1>0, <2>1, <2>5
    <3> QED BY <1>0, <2>2, <3>1 DEF Delivers, Requests
  <2> QED BY <2>4, <2>5
<1>2. ASSUME handleOrphan \/ rspStarts
      PROVE  Delivers(d)
  BY <1>0, <1>2 DEF handleOrphan, rspStarts, Delivers, Requests
<1>3. ASSUME NEW c \in Clients, reply(c)
      PROVE  Delivers(d)
  <2>1. PICK q \in replying[c], ok \in BOOLEAN :
          /\ replying' = [replying EXCEPT ![c] = @ \ {q}]
          /\ inbox' = [inbox EXCEPT ![c] =
                         Append(@, [kind |-> "reply", id |-> q.id, op |-> q.op, ok |-> ok])]
    BY <1>3 DEF reply
  <2>2. UNCHANGED <<conn, handled, pending>> /\ Busy(c)
    BY <1>3 DEF reply, Open, Busy
  <2>3. CASE d = c
    <3> DEFINE m == [kind |-> "reply", id |-> q.id, op |-> q.op, ok |-> ok]
    <3>1. q \in Request
      BY DEF ClientTypes, RCTypeOK
    <3>2. m \in Message
      BY <3>1 DEF Request, Message
    <3>3. replying'[d] = replying[d] \ {q} /\ inbox'[d] = Append(inbox[d], m)
      BY <1>0, <2>1, <2>3
    <3>4. m.kind = "reply" /\ m.id = q.id /\ m.op = q.op
      OBVIOUS
    <3> HIDE DEF m
    <3> QED BY <1>0, <2>2, <2>3, <3>2, <3>3, <3>4 DEF Delivers, Requests
  <2>4. CASE d # c
    <3>1. replying'[d] = replying[d] /\ inbox'[d] = inbox[d]
      BY <1>0, <2>1, <2>4
    <3> QED BY <1>0, <2>2, <3>1 DEF Delivers, Requests
  <2> QED BY <2>3, <2>4
<1>4. ASSUME tomcatMoves
      PROVE  Delivers(d)
  <2>1. UNCHANGED <<conn, pending, replying, handled>>
    BY <1>4 DEF tomcatMoves
  <2>2. ASSUME NEW state \in {STARTED, STOPPED}, Broadcast(state)
        PROVE  Delivers(d)
    <3> DEFINE m == [kind |-> "state", state |-> state, after |-> handled[d]]
    <3>1. m \in Message
      BY <1>0 DEF Message
    <3>2. m.kind = "state" /\ m.after = handled[d]
      OBVIOUS
    <3>3. IF d \in Open THEN inbox'[d] = Append(inbox[d], m) ELSE inbox'[d] = inbox[d]
      BY <2>2 DEF Broadcast
    <3>4. d \in Open => Busy(d)
      BY DEF Open, Busy
    <3> HIDE DEF m
    <3> QED BY <1>0, <2>1, <3>1, <3>2, <3>3, <3>4 DEF Delivers, Requests
  <2>3. UNCHANGED inbox => Delivers(d)
    BY <1>0, <2>1 DEF Delivers, Requests
  <2> QED BY <1>4, <2>2, <2>3 DEF tomcatMoves
<1>5. ASSUME NEW c \in Clients, noise(c)
      PROVE  Delivers(d)
  <2> DEFINE m == [kind |-> "noise"]
  <2>1. m \in Message /\ m.kind = "noise"
    BY DEF Message
  <2>2. UNCHANGED <<conn, pending, replying, handled>>
    BY <1>5 DEF noise, rsp
  <2>3. CASE d = c
    <3>1. inbox[d] = <<>> /\ inbox'[d] = << m >> /\ Busy(d)
      BY <1>0, <1>5, <2>3 DEF noise, Open, Busy
    <3>2. inbox'[d] = Append(inbox[d], m)
      BY <3>1
    <3> HIDE DEF m
    <3> QED BY <1>0, <2>1, <2>2, <3>1, <3>2 DEF Delivers, Requests
  <2>4. CASE d # c
    <3>1. inbox'[d] = inbox[d]
      BY <1>0, <1>5, <2>4 DEF noise
    <3> QED BY <1>0, <2>2, <3>1 DEF Delivers, Requests
  <2> QED BY <2>3, <2>4
<1>6. ASSUME rspExits
      PROVE  Delivers(d)
  BY <1>0, <1>6 DEF rspExits, Delivers, Requests
<1> QED BY <1>1, <1>2, <1>3, <1>4, <1>5, <1>6 DEF RSP

(* The two ends of a line: the next one is sent, or the function returns,    *)
(* with success only after its last line. *)
LineGoesOn(c, rest) ==
  /\ stage'[c] = "send" /\ step[c] < Length(c) /\ step'[c] = step[c] + 1
  /\ inbox'[c] = rest /\ pending'[c] = pending[c] /\ replying'[c] = replying[c]
Ended(c) ==
  /\ stage'[c] \in {"ok", "failed"} /\ step'[c] = step[c]
  /\ stage'[c] = "ok" => step[c] = Length(c)
  /\ inbox'[c] = <<>> /\ pending'[c] = {} /\ replying'[c] = {}

LEMMA LineFlow ==
  ASSUME ClientTypes, NEW c \in Clients, NEW rest
  PROVE  /\ GoOn(c, rest) => running' = running /\ (LineGoesOn(c, rest) \/ Ended(c))
         /\ Failed(c, rest) => /\ running' = running /\ (LineGoesOn(c, rest) \/ Ended(c))
                               /\ Now(c).fatal => stage'[c] = "failed"
         /\ GoOn(c, rest) \/ Failed(c, rest) =>
              \A d \in Clients : d # c =>
                /\ stage'[d] = stage[d] /\ step'[d] = step[d] /\ inbox'[d] = inbox[d]
                /\ pending'[d] = pending[d] /\ replying'[d] = replying[d]
<1>0. /\ DOMAIN pending = Clients /\ DOMAIN replying = Clients /\ DOMAIN inbox = Clients
      /\ DOMAIN stage = Clients /\ DOMAIN step = Clients
  BY DEF ClientTypes, RCTypeOK, Counted
<1> DEFINE Elsewhere == \A d \in Clients : d # c =>
                       /\ stage'[d] = stage[d] /\ step'[d] = step[d] /\ inbox'[d] = inbox[d]
                       /\ pending'[d] = pending[d] /\ replying'[d] = replying[d]
<1>1. ASSUME NEW result \in {"ok", "failed"}, Returns(c, result)
      PROVE  running' = running /\ stage'[c] = result /\ step' = step /\ inbox'[c] = <<>>
             /\ pending'[c] = {} /\ replying'[c] = {} /\ Elsewhere
  BY <1>0, <1>1 DEF Returns
<1>2. ASSUME GoOn(c, rest)
      PROVE  running' = running /\ (LineGoesOn(c, rest) \/ Ended(c)) /\ Elsewhere
  <2>1. CASE step[c] = Length(c) /\ Returns(c, "ok")
    BY <1>1, <2>1 DEF Ended
  <2>2. CASE ~ (step[c] = Length(c) /\ Returns(c, "ok"))
    <3>1. /\ step[c] < Length(c)
          /\ stage' = [stage EXCEPT ![c] = "send"] /\ step' = [step EXCEPT ![c] = @ + 1]
          /\ inbox' = [inbox EXCEPT ![c] = rest] /\ UNCHANGED <<pending, replying, running>>
      BY <1>2, <2>2 DEF GoOn
    <3> QED BY <1>0, <3>1 DEF LineGoesOn
  <2> QED BY <2>1, <2>2
<1>3. ASSUME Failed(c, rest)
      PROVE  /\ running' = running /\ (LineGoesOn(c, rest) \/ Ended(c)) /\ Elsewhere
             /\ Now(c).fatal => stage'[c] = "failed"
  <2>1. CASE Now(c).fatal
    <3>1. Returns(c, "failed")
      BY <1>3, <2>1 DEF Failed
    <3> QED BY <1>1, <3>1 DEF Ended
  <2>2. CASE ~ Now(c).fatal
    BY <1>2, <1>3, <2>2 DEF Failed
  <2> QED BY <2>1, <2>2
<1> QED BY <1>2, <1>3

(* A line that ends leaves a sound connection, if its history is right. *)
LEMMA EndSound ==
  ASSUME ClientTypes, ClientTypes', NEW c \in Clients, Sound(c), Busy(c), NEW rest \in Seq(Message),
         LineGoesOn(c, rest) \/ Ended(c), Rest(rest, inbox[c]), running'[c] = running[c],
         handled'[c] = handled[c], nextID'[c] >= nextID[c],
         \A t \in taken'[c] : t[1] = t[2],
         Asked(c)' => ~stale'[c],
         stage'[c] = "send" =>
           /\ Asked(c)' => \/ running[c] = "rspDeployAndStart" /\ step[c] >= 4
                           \/ running[c] = "rspStopServer" /\ step[c] = 1
           /\ stale'[c] => running[c] = "rspDeployAndStart" /\ step[c] = 5
           /\ running[c] = "rspDeployAndStart" /\ step[c] >= 2 => Answered(c, "getServerHandles")'
           /\ Asked(c)' /\ Now(c)'.op = "waitState" =>
                nextID'[c] <= handled[c] /\ StatesFrom(rest, nextID'[c]),
         stage'[c] = "ok" /\ running[c] # "rspStopServer" =>
           /\ Answered(c, "publish")'
           /\ running[c] = "rspDeployAndStart" => Answered(c, "getServerHandles")'
  PROVE  Sound(c)'
<1>1. /\ handled[c] \in Nat /\ nextID[c] \in Nat /\ nextID'[c] \in Nat
      /\ inbox[c] \in Seq(Message) /\ step[c] \in 1 .. 6
  <2>1. handled[c] \in ID \cup {0} /\ nextID[c] \in ID \cup {0} /\ nextID'[c] \in ID \cup {0}
    BY DEF ClientTypes, RCTypeOK
  <2>2. inbox[c] \in Seq(Message) /\ step[c] \in 1 .. 6
    BY DEF ClientTypes, RCTypeOK, Counted
  <2> QED BY <2>1, <2>2 DEF ID
<1>2. \A q \in Requests(c) : q.id \in Nat /\ q.id <= nextID'[c]
  <2>1. Requests(c) \subseteq Request
    BY DEF Requests, ClientTypes, RCTypeOK
  <2>2. \A q \in Request : q.id \in Nat
    BY DEF Request, ID
  <2> QED BY <1>1, <2>1, <2>2 DEF Sound, Wire
<1>3. Wire(c)'
  <2>1. CASE LineGoesOn(c, rest)
    <3>1. RepliesBelow(rest, nextID[c]) /\ RepliesBelow(rest, handled[c]) /\ InOrder(rest)
      BY <1>1, RestKeeps DEF Sound, Wire
    <3>2. RepliesBelow(rest, nextID'[c])
      <4> SUFFICES ASSUME NEW i \in 1 .. Len(rest), rest[i].kind = "reply"
                   PROVE  rest[i].id <= nextID'[c]
        BY DEF RepliesBelow
      <4>1. rest[i] \in Message /\ rest[i].id <= nextID[c]
        BY <3>1 DEF RepliesBelow
      <4>2. rest[i].id \in Nat
        BY <4>1 DEF Message, ID
      <4> QED BY <1>1, <4>1, <4>2
    <3> QED BY <1>2, <2>1, <3>1, <3>2 DEF LineGoesOn, Wire, Sound, Busy, Requests
  <2>2. CASE Ended(c)
    <3>1. RepliesBelow(<<>>, nextID'[c]) /\ RepliesBelow(<<>>, handled[c]) /\ InOrder(<<>>)
      BY DEF RepliesBelow, InOrder
    <3> QED BY <2>2, <3>1 DEF Ended, Wire, Busy, Requests
  <2> QED BY <2>1, <2>2
<1>4. Awaits(c)' /\ Newer(c)'
  BY DEF LineGoesOn, Ended, Awaits, Newer, Busy
<1>5. Story(c)'
  <2>1. CASE LineGoesOn(c, rest)
    <3>1. stage'[c] = "send" /\ step'[c] = step[c] + 1
      BY <2>1 DEF LineGoesOn
    <3>2. Asked(c)' => \/ running'[c] = "rspDeployAndStart" /\ step'[c] >= 5
                       \/ running'[c] = "rspStopServer" /\ step'[c] = 2
      BY <1>1, <3>1
    <3>3. stale'[c] => running'[c] = "rspDeployAndStart" /\ step'[c] = 6
      BY <1>1, <3>1
    <3>4. running'[c] = "rspDeployAndStart" /\ step'[c] > 2 => Answered(c, "getServerHandles")'
      BY <1>1, <3>1
    <3> QED BY <3>1, <3>2, <3>3, <3>4 DEF Story
  <2>2. CASE Ended(c)
    BY <2>2 DEF Ended, Story, Busy
  <2> QED BY <2>1, <2>2
<1> QED BY <1>3, <1>4, <1>5 DEF Sound

LEMMA ErrorSound ==
  ASSUME ClientTypes, ClientTypes', NEW c \in Clients, Sound(c), Busy(c), NEW rest \in Seq(Message),
         Failed(c, rest), Rest(rest, inbox[c]), handled' = handled,
         nextID'[c] >= nextID[c], taken' = taken, stale' = stale
  PROVE  Sound(c)'
<1>0. /\ running[c] \in DOMAIN Script /\ step[c] \in 1 .. Len(Script[running[c]])
      /\ step[c] \in 1 .. 6 /\ nextID[c] \in 0 .. 6 /\ Length(c) \in {2, 6}
  BY NowTyped
<1>1. /\ running' = running /\ (LineGoesOn(c, rest) \/ Ended(c))
      /\ Now(c).fatal => stage'[c] = "failed"
  BY LineFlow
<1>2. Asked(c)' <=> Asked(c)
  BY DEF Asked, Answered
<1>3. stage'[c] = "send" => step[c] < Length(c) /\ ~Now(c).fatal
  BY <1>1 DEF LineGoesOn, Ended
<1>4. ASSUME stage'[c] = "send"
      PROVE  /\ Asked(c)' => running[c] = "rspDeployAndStart" /\ step[c] = 5
             /\ ~stale'[c]
             /\ running[c] = "rspDeployAndStart" /\ step[c] >= 2 => Answered(c, "getServerHandles")'
  <2>1. running[c] = "rspDeployAndStart" => Length(c) = 6 /\ (step[c] = 2 => Now(c).fatal)
    BY <1>0, LinesShape DEF Length, Now
  <2>2. running[c] = "rspStopServer" => Length(c) = 2
    BY ScriptShape DEF Length
  <2>3. Asked(c) => running[c] = "rspDeployAndStart" /\ step[c] = 5
    BY <1>0, <1>3, <1>4, <2>1, <2>2 DEF Sound, Story
  <2>4. ~stale[c]
    BY <1>0, <1>3, <1>4, <2>1 DEF Sound, Story
  <2>5. running[c] = "rspDeployAndStart" /\ step[c] >= 2 => Answered(c, "getServerHandles")
    BY <1>0, <1>3, <1>4, <2>1 DEF Sound, Story
  <2> QED BY <1>2, <2>3, <2>4, <2>5 DEF Answered
<1>5. ASSUME stage'[c] = "send", Now(c)'.op = "waitState"
      PROVE  ~Asked(c)'
  <2>1. step'[c] = step[c] + 1 /\ step'[c] \in 1 .. Len(Script[running[c]])
    BY <1>1, <1>5 DEF LineGoesOn, Ended, ClientTypes, RCTypeOK, Length
  <2>2. Now(c)' = Script[running[c]][step'[c]]
    BY <1>1 DEF Now
  <2>3. running[c] = "rspDeployAndStart" => step'[c] = 5
    BY <1>0, <1>5, <2>1, <2>2, LinesShape
  <2> QED BY <1>4, <1>5, <2>1, <2>3
<1>6. ~ (stage'[c] = "ok" /\ running[c] # "rspStopServer")
  <2> SUFFICES ASSUME stage'[c] = "ok", running[c] # "rspStopServer" PROVE FALSE
    OBVIOUS
  <2>1. step[c] = Length(c)
    BY <1>1 DEF LineGoesOn, Ended
  <2>2. Now(c).fatal
    BY <1>0, <2>1, LinesShape DEF Now, Length
  <2> QED BY <1>1, <2>2
<1> QED BY <1>1, <1>2, <1>4, <1>5, <1>6, EndSound DEF Sound, Story

(* The reply to the request of a line that succeeds is recorded. *)
LEMMA ReplySound ==
  ASSUME ClientTypes, ClientTypes', NEW c \in Clients, Sound(c), callReads(c),
         IsMine(c, Head(inbox[c])), Head(inbox[c]).ok
  PROVE  Sound(c)'
<1> DEFINE m == Head(inbox[c])  rest == Tail(inbox[c])  op == Now(c).op
<1>0. /\ running[c] \in DOMAIN Script /\ step[c] \in 1 .. Len(Script[running[c]])
      /\ step[c] \in 1 .. 6 /\ nextID[c] \in 0 .. 6
  BY NowTyped
<1>1. /\ stage[c] = "read" /\ op # "waitState" /\ inbox[c] # <<>> /\ inbox[c] \in Seq(Message)
      /\ m \in Message /\ rest \in Seq(Message) /\ Rest(rest, inbox[c])
  BY TailTyped, Rests DEF callReads, Readable, ClientTypes, RCTypeOK
<1>2. m = inbox[c][1] /\ 1 \in 1 .. Len(inbox[c]) /\ m.kind = "reply" /\ m.id = nextID[c]
  BY <1>1 DEF IsMine
<1>3. m.op = op
  BY <1>1, <1>2 DEF Sound, Awaits, Matches
<1>4. /\ taken' = [taken EXCEPT ![c] = @ \cup {<<op, m.op>>}]
      /\ GoOn(c, rest) /\ UNCHANGED <<handled, nextID, stale>>
  BY DEF callReads
<1>5. taken'[c] = taken[c] \cup {<<op, op>>}
  BY <1>3, <1>4 DEF ClientTypes, RCTypeOK
<1>6. running' = running /\ (LineGoesOn(c, rest) \/ Ended(c))
  BY <1>4, LineFlow
<1>7. nextID[c] <= handled[c] /\ StatesFrom(rest, nextID[c])
  <2>1. nextID[c] <= handled[c]
    BY <1>2 DEF Sound, Wire, RepliesBelow
  <2>2. \A i \in 1 .. Len(rest) : i + 1 \in 1 .. Len(inbox[c]) /\ rest[i] = inbox[c][i + 1] /\ 1 < i + 1
    BY <1>1
  <2>3. StatesFrom(rest, nextID[c])
    BY <1>2, <2>2 DEF StatesFrom, Sound, Wire, InOrder
  <2> QED BY <2>1, <2>3
<1> HIDE DEF m, rest
<1>8. \A t \in taken'[c] : t[1] = t[2]
  BY <1>5 DEF Sound, Story
<1>9. Asked(c)' => Asked(c) \/ op \in StateOps
  BY <1>5 DEF Asked, Answered
<1>10. Busy(c)
  BY <1>1 DEF Busy
<1>11. op \in StateOps => \/ running[c] = "rspDeployAndStart" /\ step[c] = 4
                          \/ running[c] = "rspStopServer" /\ step[c] = 1
  <2>1. running[c] = "rspPublish" => op \notin StateOps
    BY <1>0, LinesShape DEF Now
  <2>2. running[c] = "rspDeployAndStart" => (op \in StateOps => step[c] = 4)
    BY <1>0, LinesShape DEF Now
  <2>3. running[c] = "rspStopServer" => (op \in StateOps => step[c] = 1)
    BY <1>0, LinesShape DEF Now
  <2> QED BY <1>0, <2>1, <2>2, <2>3, ScriptShape
<1>12. ~ (running[c] = "rspStopServer" /\ step[c] = 2) /\ ~ (running[c] = "rspDeployAndStart" /\ step[c] = 5)
  BY <1>0, <1>1, LinesShape DEF Now
<1>13. Asked(c)' => ~stale'[c]
  BY <1>0, <1>4, <1>9, <1>10, <1>11 DEF Sound, Story
<1>14. ASSUME stage'[c] = "send"
       PROVE  /\ Asked(c)' => \/ running[c] = "rspDeployAndStart" /\ step[c] >= 4
                              \/ running[c] = "rspStopServer" /\ step[c] = 1
              /\ stale'[c] => running[c] = "rspDeployAndStart" /\ step[c] = 5
              /\ running[c] = "rspDeployAndStart" /\ step[c] >= 2 => Answered(c, "getServerHandles")'
  <2>1. step[c] < Length(c)
    BY <1>6, <1>14 DEF LineGoesOn, Ended
  <2>2. Asked(c)' => \/ running[c] = "rspDeployAndStart" /\ step[c] >= 4
                     \/ running[c] = "rspStopServer" /\ step[c] = 1
    BY <1>0, <1>9, <1>10, <1>11, <1>12 DEF Sound, Story
  <2>3. ~stale'[c]
    <3>1. stale[c] => running[c] = "rspDeployAndStart" /\ step[c] = 6
      BY <1>10 DEF Sound, Story
    <3>2. running[c] = "rspDeployAndStart" => Length(c) = 6
      BY ScriptShape DEF Length
    <3> QED BY <1>4, <2>1, <3>1, <3>2
  <2>4. running[c] = "rspDeployAndStart" /\ step[c] = 2 => op = "getServerHandles"
    BY <1>0, LinesShape DEF Now
  <2>5. running[c] = "rspDeployAndStart" /\ step[c] >= 2 => Answered(c, "getServerHandles")'
    BY <1>0, <1>5, <1>10, <2>4 DEF Sound, Story, Answered
  <2> QED BY <2>2, <2>3, <2>5
<1>15. ASSUME stage'[c] = "ok", running[c] # "rspStopServer"
       PROVE  /\ Answered(c, "publish")'
              /\ running[c] = "rspDeployAndStart" => Answered(c, "getServerHandles")'
  <2>1. step[c] = Length(c)
    BY <1>6, <1>15 DEF LineGoesOn, Ended
  <2>2. op = "publish"
    BY <1>0, <1>15, <2>1, LinesShape DEF Now, Length
  <2>3. running[c] = "rspDeployAndStart" => step[c] = 6
    BY <2>1, ScriptShape DEF Length
  <2> QED BY <1>5, <1>10, <2>2, <2>3 DEF Sound, Story, Answered
<1> HIDE DEF op
<1>16. handled'[c] = handled[c] /\ nextID'[c] >= nextID[c] /\ nextID'[c] = nextID[c] /\ running'[c] = running[c]
  BY <1>0, <1>4, <1>6
<1> QED BY <1>1, <1>6, <1>7, <1>8, <1>10, <1>13, <1>14, <1>15, <1>16, EndSound DEF rest

(* The state that waitState wants: a new one, if the request was answered.  *)
LEMMA StateSound ==
  ASSUME ClientTypes, ClientTypes', NEW c \in Clients, Sound(c), waitReads(c),
         GoOn(c, Tail(inbox[c])), stale' = [stale EXCEPT ![c] = Head(inbox[c]).after < nextID[c]],
         Head(inbox[c]).kind = "state"
  PROVE  Sound(c)'
<1> DEFINE m == Head(inbox[c])  rest == Tail(inbox[c])
<1>0. /\ running[c] \in DOMAIN Script /\ step[c] \in 1 .. Len(Script[running[c]])
      /\ step[c] \in 1 .. 6 /\ nextID[c] \in 0 .. 6
  BY NowTyped
<1>1. /\ stage[c] = "read" /\ Now(c).op = "waitState" /\ inbox[c] # <<>> /\ inbox[c] \in Seq(Message)
      /\ m \in Message /\ rest \in Seq(Message) /\ Rest(rest, inbox[c])
  BY TailTyped, Rests DEF waitReads, Readable, ClientTypes, RCTypeOK
<1>2. m = inbox[c][1] /\ 1 \in 1 .. Len(inbox[c])
  BY <1>1
<1>3. Busy(c)
  BY <1>1 DEF Busy
<1>4. UNCHANGED <<handled, nextID, taken>>
  BY DEF waitReads
<1>5. running' = running /\ (LineGoesOn(c, rest) \/ Ended(c))
  BY LineFlow
<1>6. Asked(c)' <=> Asked(c)
  BY <1>4 DEF Asked, Answered
<1>7. Asked(c)' => ~stale'[c]
  <2> SUFFICES ASSUME Asked(c) PROVE ~stale'[c]
    BY <1>6
  <2>1. m.after >= nextID[c]
    BY <1>1, <1>2, <1>3 DEF Sound, Newer, StatesFrom
  <2>2. m.after \in Nat
    BY <1>1 DEF Message, ID
  <2>3. ~ (m.after < nextID[c])
    BY <1>0, <2>1, <2>2
  <2>4. stale'[c] = (m.after < nextID[c])
    BY DEF ClientTypes, RCTypeOK
  <2> QED BY <2>3, <2>4
<1>8. \/ running[c] = "rspDeployAndStart" /\ step[c] = 5
      \/ running[c] = "rspStopServer" /\ step[c] = 2 /\ step[c] = Length(c)
  <2>1. running[c] = "rspDeployAndStart" => step[c] = 5
    BY <1>0, <1>1, LinesShape DEF Now
  <2>2. running[c] # "rspPublish"
    BY <1>0, <1>1, LinesShape DEF Now
  <2>3. ASSUME running[c] = "rspStopServer" PROVE step[c] \in {1, 2} /\ Length(c) = 2
    <3>1. Len(Script[running[c]]) = 2
      BY <2>3, ScriptShape
    <3> QED BY <1>0, <3>1 DEF Length
  <2>4. ~ (running[c] = "rspStopServer" /\ step[c] = 1)
    BY <1>1, ScriptShape DEF Now
  <2> QED BY <1>0, <2>1, <2>2, <2>3, <2>4, ScriptShape
<1> HIDE DEF m, rest
<1>9. ASSUME stage'[c] = "send"
      PROVE  running[c] = "rspDeployAndStart" /\ step[c] = 5 /\ Now(c)'.op # "waitState"
  <2>1. step[c] < Length(c) /\ step'[c] = step[c] + 1
    BY <1>5, <1>9 DEF LineGoesOn, Ended
  <2>2. running[c] = "rspDeployAndStart" /\ step[c] = 5
    BY <1>0, <1>8, <2>1 DEF Length
  <2>3. Now(c)' = Script["rspDeployAndStart"][6]
    BY <1>5, <2>1, <2>2 DEF Now
  <2> QED BY <2>2, <2>3, ScriptShape
<1>10. ~ (stage'[c] = "ok" /\ running[c] # "rspStopServer")
  <2>1. stage'[c] = "ok" => step[c] = Length(c)
    BY <1>5 DEF LineGoesOn, Ended
  <2> QED BY <1>8, <2>1, ScriptShape DEF Length
<1>11. running[c] = "rspDeployAndStart" /\ step[c] = 5 => Answered(c, "getServerHandles")'
  BY <1>3, <1>4 DEF Sound, Story, Answered
<1>12. \A t \in taken'[c] : t[1] = t[2]
  BY <1>4 DEF Sound, Story
<1>13. handled'[c] = handled[c] /\ nextID'[c] >= nextID[c] /\ running'[c] = running[c]
  BY <1>0, <1>4, <1>5
<1>14. stage'[c] = "send" =>
         /\ Asked(c)' => \/ running[c] = "rspDeployAndStart" /\ step[c] >= 4
                         \/ running[c] = "rspStopServer" /\ step[c] = 1
         /\ stale'[c] => running[c] = "rspDeployAndStart" /\ step[c] = 5
         /\ running[c] = "rspDeployAndStart" /\ step[c] >= 2 => Answered(c, "getServerHandles")'
         /\ Asked(c)' /\ Now(c)'.op = "waitState" =>
              nextID'[c] <= handled[c] /\ StatesFrom(rest, nextID'[c])
  BY <1>9, <1>11
<1> QED BY <1>1, <1>3, <1>5, <1>7, <1>10, <1>12, <1>13, <1>14, EndSound DEF rest

LEMMA SkipSound ==
  ASSUME ClientTypes, NEW c \in Clients, Sound(c), Readable(c), Skip(c),
         UNCHANGED <<handled, nextID, taken, stale>>
  PROVE  Sound(c)'
<1>1. inbox[c] \in Seq(Message) /\ Tail(inbox[c]) \in Seq(Message) /\ Rest(Tail(inbox[c]), inbox[c])
  BY TailTyped, Rests DEF Readable, ClientTypes, RCTypeOK
<1>2. inbox'[c] = Tail(inbox[c])
  BY DEF Skip, ClientTypes, RCTypeOK
<1>3. handled[c] \in Nat /\ nextID[c] \in Nat
  <2>1. handled[c] \in ID \cup {0} /\ nextID[c] \in ID \cup {0}
    BY DEF ClientTypes, RCTypeOK
  <2> QED BY <2>1 DEF ID
<1>4. Busy(c) /\ UNCHANGED <<orphans, pending, replying, stage, running, step, late>>
  BY DEF Readable, Busy, Skip
<1>5. Wire(c)'
  BY <1>1, <1>2, <1>3, <1>4, RestKeeps DEF Sound, Wire, Busy, Requests
<1>6. Awaits(c)'
  <2>1. \A op : Matches(inbox[c], nextID[c], op) => Matches(inbox'[c], nextID[c], op)
    BY <1>1, <1>2, <1>3, RestKeeps
  <2> QED BY <1>4, <2>1 DEF Sound, Awaits, Requests, Now
<1>7. Newer(c)'
  BY <1>1, <1>2, <1>3, <1>4, RestKeeps DEF Sound, Newer, Busy, Asked, Answered, Now
<1>8. Story(c)'
  BY <1>4 DEF Sound, Story, Busy, Asked, Answered
<1> QED BY <1>5, <1>6, <1>7, <1>8 DEF Sound

(* A new connection: nothing is left of the last one. *)
LEMMA DialSound ==
  ASSUME ClientTypes, NEW c \in Clients, Sound(c), dialRSP(c)
  PROVE  Sound(c)'
<1>1. /\ stage'[c] = "send" /\ step'[c] = 1 /\ nextID'[c] = 0 /\ handled'[c] = 0
      /\ taken'[c] = {} /\ stale'[c] = FALSE
  BY DEF dialRSP, ClientTypes, RCTypeOK, Counted
<1>2. ~Busy(c)
  BY DEF dialRSP, Busy
<1>3. inbox'[c] = <<>> /\ Requests(c)' = {} /\ replying'[c] = {}
  BY <1>2 DEF dialRSP, Sound, Wire, Requests
<1>4. Wire(c)'
  <2>1. RepliesBelow(<<>>, 0) /\ InOrder(<<>>)
    BY DEF RepliesBelow, InOrder
  <2> QED BY <1>1, <1>3, <2>1 DEF Wire, Busy
<1>5. ~Asked(c)'
  BY <1>1 DEF Asked, Answered
<1> QED BY <1>1, <1>4, <1>5 DEF Sound, Awaits, Newer, Story, Busy

LEMMA SendSound ==
  ASSUME ClientTypes, ClientTypes', NEW c \in Clients, Sound(c), send(c)
  PROVE  Sound(c)'
<1>0. /\ nextID[c] \in Nat /\ inbox[c] \in Seq(Message) /\ Rest(inbox[c], inbox[c]) /\ Busy(c)
      /\ stage[c] = "send"
  <2>1. nextID[c] \in ID \cup {0} /\ inbox[c] \in Seq(Message)
    BY DEF ClientTypes, RCTypeOK
  <2> QED BY <2>1, Rests DEF send, Busy, ID
<1>1. UNCHANGED <<handled, taken, stale>>
  BY DEF send
<1>2. CASE Now(c).op = "waitState"
  <2>1. stage'[c] = "read" /\ UNCHANGED <<nextID, pending, replying, inbox, running, step>>
    BY <1>2 DEF send, ClientTypes, RCTypeOK
  <2>2. Wire(c)' /\ Newer(c)' /\ Story(c)'
    BY <1>0, <1>1, <2>1 DEF Sound, Wire, Newer, Story, Busy, Requests, Asked, Answered, Now
  <2>3. Awaits(c)'
    BY <1>2, <2>1 DEF Awaits, Now
  <2> QED BY <2>2, <2>3 DEF Sound
<1>3. CASE Now(c).op # "waitState"
  <2>1. nextID'[c] = nextID[c] + 1
    BY <1>3 DEF send, ClientTypes, RCTypeOK
  <2>2. CASE Failed(c, inbox[c])
    BY <1>0, <1>1, <2>1, <2>2, ErrorSound
  <2>3. CASE ~ Failed(c, inbox[c])
    <3> DEFINE q == [id |-> nextID'[c], op |-> Now(c).op]
    <3>1. /\ stage'[c] = "read" /\ UNCHANGED <<replying, inbox, running, step>>
          /\ pending'[c] = pending[c] \cup {q}
      BY <1>3, <2>3 DEF send, ClientTypes, RCTypeOK
    <3>2. q.id = nextID[c] + 1 /\ q.op = Now(c).op
      BY <2>1
    <3> HIDE DEF q
    <3>3. Requests(c)' = Requests(c) \cup {q}
      BY <3>1 DEF Requests
    <3>4. \A r \in Requests(c) : r.id \in Nat /\ r.id <= nextID[c]
      <4>1. Requests(c) \subseteq Request
        BY DEF Requests, ClientTypes, RCTypeOK
      <4>2. \A r \in Request : r.id \in Nat
        BY DEF Request, ID
      <4> QED BY <4>1, <4>2 DEF Sound, Wire
    <3>5. /\ RepliesBelow(inbox[c], nextID[c] + 1)
          /\ Matches(inbox[c], nextID[c] + 1, Now(c).op)
      <4>1. \A i \in 1 .. Len(inbox[c]) : inbox[c][i].kind = "reply" =>
              inbox[c][i].id \in Nat /\ inbox[c][i].id <= nextID[c]
        <5> SUFFICES ASSUME NEW i \in 1 .. Len(inbox[c]), inbox[c][i].kind = "reply"
                     PROVE  inbox[c][i].id \in Nat /\ inbox[c][i].id <= nextID[c]
          OBVIOUS
        <5>1. inbox[c][i] \in Message
          BY <1>0
        <5>2. inbox[c][i].id \in Nat
          BY <5>1 DEF Message, ID
        <5> QED BY <5>2 DEF Sound, Wire, RepliesBelow
      <4> QED BY <1>0, <4>1 DEF RepliesBelow, Matches
    <3>6. Wire(c)'
      <4>1. \A r \in Requests(c)' : r.id <= nextID'[c]
        BY <1>0, <2>1, <3>2, <3>3, <3>4
      <4> QED BY <1>1, <2>1, <3>1, <3>5, <4>1 DEF Sound, Wire, Busy
    <3>7. Awaits(c)'
      <4>1. \A r \in Requests(c)' : r.id = nextID'[c] => r.op = Now(c).op
        BY <1>0, <2>1, <3>2, <3>3, <3>4
      <4>2. Now(c)' = Now(c)
        BY <3>1 DEF Now
      <4> QED BY <2>1, <3>1, <3>5, <4>1, <4>2 DEF Awaits
    <3>8. Newer(c)'
      BY <1>3, <3>1 DEF Newer, Now
    <3>9. Story(c)'
      BY <1>0, <1>1, <3>1 DEF Sound, Story, Busy, Asked, Answered
    <3> QED BY <3>6, <3>7, <3>8, <3>9 DEF Sound
  <2> QED BY <2>2, <2>3
<1> QED BY <1>2, <1>3

LEMMA ClientSound ==
  ASSUME ClientTypes, ClientTypes', NEW c \in Clients, Sound(c), Client(c) \/ deadline(c)
  PROVE  Sound(c)'
<1>0. nextID[c] \in Nat /\ inbox[c] \in Seq(Message)
  <2>1. nextID[c] \in ID \cup {0} /\ inbox[c] \in Seq(Message)
    BY DEF ClientTypes, RCTypeOK
  <2> QED BY <2>1 DEF ID
<1>1. ASSUME callReads(c)
      PROVE  Sound(c)'
  <2> DEFINE m == Head(inbox[c])
  <2>0. Readable(c) /\ UNCHANGED <<handled, nextID, stale>>
    BY <1>1 DEF callReads
  <2>5. handled' = handled /\ stale' = stale /\ nextID'[c] >= nextID[c]
    BY <1>0, <2>0
  <2>1. Tail(inbox[c]) \in Seq(Message) /\ Rest(Tail(inbox[c]), inbox[c]) /\ Busy(c)
    BY <1>0, <2>0, TailTyped, Rests DEF Readable, Busy
  <2>2. CASE IsMine(c, m) /\ m.ok
    BY <1>1, <2>2, ReplySound
  <2>3. CASE IsMine(c, m) /\ ~m.ok
    <3>1. Failed(c, Tail(inbox[c])) /\ UNCHANGED taken
      BY <1>1, <2>3 DEF callReads
    <3> QED BY <2>1, <2>5, <3>1, ErrorSound
  <2>4. CASE ~IsMine(c, m)
    <3>1. Skip(c) /\ UNCHANGED taken
      BY <1>1, <2>4 DEF callReads
    <3> QED BY <2>0, <3>1, SkipSound
  <2> QED BY <2>2, <2>3, <2>4
<1>2. ASSUME waitReads(c)
      PROVE  Sound(c)'
  <2> DEFINE m == Head(inbox[c])
  <2>0. Readable(c) /\ UNCHANGED <<handled, nextID, taken>>
    BY <1>2 DEF waitReads
  <2>5. handled' = handled /\ taken' = taken /\ nextID'[c] >= nextID[c]
    BY <1>0, <2>0
  <2>1. Tail(inbox[c]) \in Seq(Message) /\ Rest(Tail(inbox[c]), inbox[c]) /\ Busy(c)
    BY <1>0, <2>0, TailTyped, Rests DEF Readable, Busy
  <2>2. CASE m.kind = "state" /\ GoOn(c, Tail(inbox[c]))
             /\ stale' = [stale EXCEPT ![c] = m.after < nextID[c]]
    BY <1>2, <2>2, StateSound
  <2>3. CASE Failed(c, Tail(inbox[c])) /\ UNCHANGED stale
    BY <2>1, <2>3, <2>5, ErrorSound
  <2>4. CASE Skip(c) /\ UNCHANGED stale
    BY <2>0, <2>4, SkipSound
  <2> QED BY <1>2, <2>2, <2>3, <2>4 DEF waitReads
<1>3. ASSUME readFails(c)
      PROVE  Sound(c)'
  <2>1. /\ Busy(c) /\ handled' = handled /\ taken' = taken /\ stale' = stale
        /\ nextID'[c] >= nextID[c]
    BY <1>0, <1>3 DEF readFails, Busy
  <2>2. Rest(<<>>, inbox[c]) /\ Rest(inbox[c], inbox[c]) /\ <<>> \in Seq(Message)
    BY <1>0, Rests
  <2>3. Failed(c, <<>>) \/ Failed(c, inbox[c])
    BY <1>3 DEF readFails
  <2> QED BY <1>0, <2>1, <2>2, <2>3, ErrorSound
<1>4. ASSUME deadline(c)
      PROVE  Sound(c)'
  <2>1. Unmoved(c)
    BY <1>4 DEF deadline, rsp, Unmoved
  <2> QED BY <2>1, UnmovedSound
<1> QED BY <1>1, <1>2, <1>3, <1>4, SendSound DEF Client

(* A connection is a client's own. *)
LEMMA OthersUnmoved ==
  ASSUME ClientTypes, NEW c \in Clients, dialRSP(c) \/ Client(c) \/ deadline(c),
         NEW d \in Clients, d # c
  PROVE  Unmoved(d)
<1>0. /\ DOMAIN stage = Clients /\ DOMAIN step = Clients /\ DOMAIN nextID = Clients
      /\ DOMAIN taken = Clients /\ DOMAIN stale = Clients /\ DOMAIN pending = Clients
      /\ DOMAIN inbox = Clients /\ DOMAIN running = Clients /\ DOMAIN handled = Clients
  BY DEF ClientTypes, RCTypeOK, Counted
<1>1. ASSUME dialRSP(c)
      PROVE  Unmoved(d)
  BY <1>0, <1>1 DEF dialRSP, Unmoved
<1>2. ASSUME NEW rest, GoOn(c, rest) \/ Failed(c, rest)
      PROVE  /\ stage'[d] = stage[d] /\ step'[d] = step[d] /\ inbox'[d] = inbox[d]
             /\ pending'[d] = pending[d] /\ replying'[d] = replying[d] /\ running' = running
  BY <1>2, LineFlow
<1>3. ASSUME Skip(c)
      PROVE  /\ stage'[d] = stage[d] /\ step'[d] = step[d] /\ inbox'[d] = inbox[d]
             /\ pending'[d] = pending[d] /\ replying'[d] = replying[d] /\ running' = running
  BY <1>0, <1>3 DEF Skip
<1>4. ASSUME send(c)
      PROVE  Unmoved(d)
  <2>1. nextID'[d] = nextID[d] /\ UNCHANGED <<handled, taken, stale>>
    BY <1>0, <1>4 DEF send
  <2>2. CASE Failed(c, inbox[c])
    BY <1>2, <2>1, <2>2 DEF Unmoved
  <2>3. CASE ~ Failed(c, inbox[c])
    BY <1>0, <1>4, <2>1, <2>3 DEF send, Unmoved
  <2> QED BY <2>2, <2>3
<1>5. ASSUME callReads(c)
      PROVE  Unmoved(d)
  <2>1. taken'[d] = taken[d] /\ UNCHANGED <<handled, nextID, stale>>
    BY <1>0, <1>5 DEF callReads
  <2>2. GoOn(c, Tail(inbox[c])) \/ Failed(c, Tail(inbox[c])) \/ Skip(c)
    BY <1>5 DEF callReads
  <2> QED BY <1>2, <1>3, <2>1, <2>2 DEF Unmoved
<1>6. ASSUME waitReads(c)
      PROVE  Unmoved(d)
  <2>1. stale'[d] = stale[d] /\ UNCHANGED <<handled, nextID, taken>>
    BY <1>0, <1>6 DEF waitReads
  <2>2. GoOn(c, Tail(inbox[c])) \/ Failed(c, Tail(inbox[c])) \/ Skip(c)
    BY <1>6 DEF waitReads
  <2> QED BY <1>2, <1>3, <2>1, <2>2 DEF Unmoved
<1>7. ASSUME readFails(c)
      PROVE  Unmoved(d)
  <2>1. UNCHANGED <<handled, nextID, taken, stale>> /\ (Failed(c, <<>>) \/ Failed(c, inbox[c]))
    BY <1>7 DEF readFails
  <2> QED BY <1>2, <2>1 DEF Unmoved
<1>8. ASSUME deadline(c)
      PROVE  Unmoved(d)
  BY <1>8 DEF deadline, rsp, Unmoved
<1> QED BY <1>1, <1>4, <1>5, <1>6, <1>7, <1>8 DEF Client

(* The inductive invariant of RspClient. *)
AllSound == ClientTypes /\ \A c \in Clients : Sound(c)

(* Every connection stays sound, for any number of clients and whatever RSP  *)
(* sends, in whatever order it answers, and whenever it goes. *)
THEOREM ConnectionsSound == RCSpec => []AllSound
<1>1. RCInit => \A c \in Clients : Sound(c)
  <2> SUFFICES ASSUME RCInit, NEW c \in Clients PROVE Sound(c)
    OBVIOUS
  <2>1. /\ stage[c] = "idle" /\ inbox[c] = <<>> /\ pending[c] = {} /\ replying[c] = {}
        /\ nextID[c] = 0 /\ handled[c] = 0 /\ taken[c] = {} /\ stale[c] = FALSE
    BY DEF RCInit
  <2>2. RepliesBelow(<<>>, 0) /\ InOrder(<<>>)
    BY DEF RepliesBelow, InOrder
  <2>3. Wire(c)
    BY <2>1, <2>2 DEF Wire, Requests
  <2>4. Awaits(c) /\ Newer(c) /\ Story(c)
    BY <2>1 DEF Awaits, Newer, Story, Busy, Asked, Answered
  <2> QED BY <2>3, <2>4 DEF Sound
<1>2. AllSound /\ ClientTypes' /\ [RCNext]_RCvars => (\A c \in Clients : Sound(c))'
  <2> SUFFICES ASSUME ClientTypes, ClientTypes', \A c \in Clients : Sound(c), [RCNext]_RCvars,
                      NEW d \in Clients
               PROVE  Sound(d)'
    BY DEF AllSound
  <2>1. CASE RSP
    BY <2>1, RSPDelivers, DeliversSound
  <2>2. ASSUME NEW c \in Clients, dialRSP(c) \/ Client(c) \/ deadline(c)
        PROVE  Sound(d)'
    <3>1. CASE d = c
      BY <2>2, <3>1, DialSound, ClientSound
    <3>2. CASE d # c
      BY <2>2, <3>2, OthersUnmoved, UnmovedSound
    <3> QED BY <3>1, <3>2
  <2>3. CASE UNCHANGED RCvars
    <3>1. Unmoved(d)
      BY <2>3 DEF RCvars, Unmoved
    <3> QED BY <3>1, UnmovedSound
  <2> QED BY <2>1, <2>2, <2>3 DEF RCNext
<1> QED BY <1>1, <1>2, ClientTypesHold, PTL DEF RCSpec, AllSound

(* RspClient's type invariant. *)
THEOREM ClientTypeCorrect == RCSpec => []RCTypeOK
<1>1. ClientTypes => RCTypeOK
  BY DEF ClientTypes
<1> QED BY <1>1, ClientTypesHold, PTL

(* No result is that of another request (rsp_client.go, call): OwnReply. *)
THEOREM RepliesMatch == RCSpec => []OwnReply
<1>1. AllSound => OwnReply
  BY DEF AllSound, Sound, Story, OwnReply
<1> QED BY <1>1, ConnectionsSound, PTL

(* A state that is reported as confirmed was reached after RSP had handled   *)
(* the start or stop of this connection, if that was answered (rsp_client.go, *)
(* waitState): ConfirmedIsNews. *)
THEOREM ConfirmationsAreNews == RCSpec => []ConfirmedIsNews
<1>1. AllSound => ConfirmedIsNews
  BY DEF AllSound, Sound, Story, ConfirmedIsNews, Asked
<1> QED BY <1>1, ConnectionsSound, PTL

(* Success is returned only after RSP has answered this connection's own     *)
(* publish request, and for a deployment its getServerHandles, without an    *)
(* error (rspDeployAndStart, rspPublish): SuccessIsAnswered. *)
THEOREM AnsweredTheorem == RCSpec => []SuccessIsAnswered
<1>1. AllSound => SuccessIsAnswered
  BY DEF AllSound, Sound, Story, SuccessIsAnswered
<1> QED BY <1>1, ConnectionsSound, PTL
=============================================================================
