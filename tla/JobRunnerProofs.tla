---------------------------- MODULE JobRunnerProofs ----------------------------
(* Theorems about JobRunner, for every set of requests and Stops, every    *)
(* chain and every discipline of the users.                                *)
EXTENDS JobRunner, TLAPS

LEMMA ChainLength == target \in Targets => N \in Nat
BY TargetsAssumption DEF N, Chain

LEMMA TargetStays == [Next]_vars => target' = target /\ users' = users /\ N' = N
<1> SUFFICES ASSUME [Next]_vars PROVE target' = target /\ users' = users
  BY DEF N, Chain
<1> USE DEF locals, given, Fail, Announce
<1>1. ASSUME NEW r \in Requests, Dispatch(r) \/ mainExits(r) PROVE target' = target /\ users' = users
  BY <1>1 DEF Dispatch, mainExits
<1>2. ASSUME NEW r \in Requests, Preparing(r) PROVE target' = target /\ users' = users
  BY <1>2 DEF Preparing, runClone, runSteps, npmDeps, missingJar, notWAR, resolveTomcat,
              installTomcat, prepareWAR, execSteps
<1>3. ASSUME NEW r \in Requests, Starting(r) PROVE target' = target /\ users' = users
  BY <1>3 DEF Starting, resetRun, announceRun, startDep, recordDep, chainStep,
              resetWAR, launchFails, startMain, recordMain
<1>4. ASSUME NEW r \in Requests, Ending(r) PROVE target' = target /\ users' = users
  BY <1>4 DEF Ending, waitReturns, mainEnded, reapDep
<1>5. ASSUME NEW s \in Stops, Stop(s) PROVE target' = target /\ users' = users
  BY <1>5 DEF Stop, stopMain, stopChain, stopNothing, killMain, reapDep
<1>6. ASSUME NEW d \in live, depExits(d) PROVE target' = target /\ users' = users
  BY <1>6 DEF depExits
<1>7. QED
  BY <1>1, <1>2, <1>3, <1>4, <1>5, <1>6 DEF Next, vars

(* Types first.  RecordIndex is what keeps recordDep inside the chain.      *)
LEMMA InitTypes == Init => TypeOK /\ RecordIndex
<1> SUFFICES ASSUME Init PROVE TypeOK /\ RecordIndex
  OBVIOUS
<1>1. next \in [Requests -> 1 .. N + 1]
  BY ChainLength DEF Init
<1>2. stopping \in BOOLEAN /\ users \in {"api", "dashboard", "serial"}
  BY DisciplineAssumption DEF Init
<1>3. QED
  BY <1>1, <1>2 DEF Init, TypeOK, RecordIndex, Statuses, Actors

LEMMA StepTypes == TypeOK /\ RecordIndex /\ [Next]_vars => TypeOK'
<1> SUFFICES ASSUME TypeOK, RecordIndex, [Next]_vars PROVE TypeOK'
  OBVIOUS
<1>0. target' = target /\ users' = users /\ N' = N /\ N \in Nat
  BY TargetStays, ChainLength DEF TypeOK
<1> USE <1>0 DEF TypeOK, Statuses, jobVars, locals, given, worldly, Goto, set, Announce, Fail
<1>1. CASE UNCHANGED vars
  BY <1>1 DEF vars
<1>2. ASSUME NEW r \in Requests, Dispatch(r) PROVE TypeOK'
  BY <1>2 DEF Dispatch, Accepted, Actors
<1>3. ASSUME NEW r \in Requests, Preparing(r) PROVE TypeOK'
  BY <1>3 DEF Preparing, runClone, runSteps, npmDeps, missingJar, notWAR, resolveTomcat,
              installTomcat, prepareWAR, execSteps
<1>4. ASSUME NEW r \in Requests, Starting(r) PROVE TypeOK'
  <2>1. CASE resetRun(r)
    BY <2>1 DEF resetRun
  <2>2. CASE announceRun(r)
    BY <2>2 DEF announceRun
  <2>3. CASE startDep(r)
    <3>1. PICK K \in SUBSET live :
            \/ /\ pc' = [pc EXCEPT ![r] = "record"] /\ next' = next
               /\ live' = (live \ K) \cup {<<r, next[r]>>}
            \/ /\ next' = [next EXCEPT ![r] = @ + 1] /\ pc' = pc
               /\ live' = live \ K
      BY <2>3 DEF startDep, Freed
    <3>2. next[r] \in 1 .. N /\ next[r] + 1 \in 1 .. N + 1
      BY <2>3, ChainLength DEF startDep
    <3>3. <<r, next[r]>> \in Procs
      BY <3>2 DEF Procs, Deps
    <3>4. live' \in SUBSET Procs
      BY <3>1, <3>3
    <3>5. next' \in [Requests -> 1 .. N + 1]
      BY <3>1, <3>2
    <3>6. QED
      BY <2>3, <3>1, <3>4, <3>5 DEF startDep
  <2>4. CASE recordDep(r)
    <3>1. next[r] \in 1 .. N
      BY <2>4 DEF recordDep, RecordIndex
    <3>2. next' \in [Requests -> 1 .. N + 1]
      BY <2>4, <3>1, ChainLength DEF recordDep
    <3>3. depCmds' \in SUBSET Deps
      BY <2>4, <3>1 DEF recordDep, Deps
    <3>4. QED
      BY <2>4, <3>2, <3>3 DEF recordDep
  <2>5. CASE chainStep(r)
    BY <2>5, ChainLength DEF chainStep
  <2>6. CASE resetWAR(r)
    BY <2>6 DEF resetWAR
  <2>7. CASE launchFails(r)
    BY <2>7 DEF launchFails
  <2>8. CASE startMain(r)
    <3>1. live' \in SUBSET Procs
      BY <2>8 DEF startMain, Procs, Main
    <3>2. pc' \in [Actors -> {"idle", "begin", "install", "prepare", "npm", "jarcheck",
                              "work", "reset", "announce", "chain", "record", "deploy",
                              "recordmain", "wait", "exit", "kill", "reap", "done", "failed"}]
      BY <2>8 DEF startMain
    <3>3. QED
      BY <2>8, <3>1, <3>2 DEF startMain
  <2>9. CASE recordMain(r)
    BY <2>9 DEF recordMain
  <2>10. QED
    BY <1>4, <2>1, <2>2, <2>3, <2>4, <2>5, <2>6, <2>7, <2>8, <2>9 DEF Starting
<1>5. ASSUME NEW r \in Requests, Ending(r) PROVE TypeOK'
  BY <1>5 DEF Ending, waitReturns, mainEnded, Report, TakeDeps, Outcome, reapDep, Actors
<1>6. ASSUME NEW r \in Requests, mainExits(r) PROVE TypeOK'
  BY <1>6 DEF mainExits
<1>7. ASSUME NEW s \in Stops, Stop(s) PROVE TypeOK'
  <2>1. CASE stopMain(s)
    BY <2>1 DEF stopMain, Stopped
  <2>2. CASE stopChain(s)
    BY <2>2 DEF stopChain, Stopped
  <2>3. CASE stopNothing(s)
    BY <2>3 DEF stopNothing
  <2>4. CASE killMain(s)
    BY <2>4 DEF killMain
  <2>5. CASE reapDep(s)
    BY <2>5 DEF reapDep, Actors
  <2>6. QED
    BY <1>7, <2>1, <2>2, <2>3, <2>4, <2>5 DEF Stop
<1>8. ASSUME NEW d \in live, depExits(d) PROVE TypeOK'
  BY <1>8 DEF depExits
<1>9. QED
  BY <1>1, <1>2, <1>3, <1>4, <1>5, <1>6, <1>7, <1>8 DEF Next

LEMMA StepRecordIndex == TypeOK /\ RecordIndex /\ [Next]_vars => RecordIndex'
<1> SUFFICES ASSUME TypeOK, RecordIndex, [Next]_vars, NEW q \in Requests, pc'[q] = "record"
             PROVE  next'[q] \in 1 .. N
  BY TargetStays DEF RecordIndex
<1> USE DEF TypeOK, RecordIndex, Actors, jobVars, locals, given, worldly, Goto, Announce, Fail
<1>1. CASE UNCHANGED vars
  BY <1>1 DEF vars
<1>2. ASSUME NEW r \in Requests, Dispatch(r) PROVE next'[q] \in 1 .. N
  BY <1>2 DEF Dispatch
<1>3. ASSUME NEW r \in Requests, Preparing(r) PROVE next'[q] \in 1 .. N
  BY <1>3 DEF Preparing, runClone, runSteps, npmDeps, missingJar, notWAR, resolveTomcat,
              installTomcat, prepareWAR, execSteps
<1>4. ASSUME NEW r \in Requests, Starting(r) PROVE next'[q] \in 1 .. N
  BY <1>4 DEF Starting, resetRun, announceRun, startDep, recordDep, chainStep,
              resetWAR, launchFails, startMain, recordMain
<1>5. ASSUME NEW r \in Requests, Ending(r) PROVE next'[q] \in 1 .. N
  BY <1>5 DEF Ending, waitReturns, mainEnded, Report, TakeDeps, reapDep
<1>6. ASSUME NEW r \in Requests, mainExits(r) PROVE next'[q] \in 1 .. N
  BY <1>6 DEF mainExits
<1>7. ASSUME NEW s \in Stops, Stop(s) PROVE next'[q] \in 1 .. N
  BY <1>7 DEF Stop, stopMain, stopChain, stopNothing, killMain, reapDep
<1>8. ASSUME NEW d \in live, depExits(d) PROVE next'[q] \in 1 .. N
  BY <1>8 DEF depExits
<1>9. QED
  BY <1>1, <1>2, <1>3, <1>4, <1>5, <1>6, <1>7, <1>8 DEF Next

LEMMA TypesHold == Spec => [](TypeOK /\ RecordIndex)
BY InitTypes, StepTypes, StepRecordIndex, PTL DEF Spec

(* The variables of a job and of its goroutines keep their types whatever  *)
(* the requests do: no index runs past the chain of runLongWithPort, and no *)
(* service is recorded in depCmds that the chain does not have.             *)
THEOREM TypeCorrect == Spec => []TypeOK
BY TypesHold, PTL

-----------------------------------------------------------------------------
(* The handle of the job.                                                   *)

LEMMA StepCmd == TypeOK /\ CmdOwnerWaits /\ [Next]_vars => CmdOwnerWaits'
<1> SUFFICES ASSUME TypeOK, CmdOwnerWaits, [Next]_vars, cmd' # Nil
             PROVE  pc'[cmd'] \in {"wait", "exit"}
  BY DEF CmdOwnerWaits
<1> USE DEF TypeOK, CmdOwnerWaits, Actors, jobVars, Goto, set, Announce, Fail
<1>1. CASE UNCHANGED vars
  BY <1>1 DEF vars
<1>2. ASSUME NEW r \in Requests, Dispatch(r) PROVE pc'[cmd'] \in {"wait", "exit"}
  BY <1>2 DEF Dispatch
<1>3. ASSUME NEW r \in Requests, Preparing(r) PROVE pc'[cmd'] \in {"wait", "exit"}
  BY <1>3 DEF Preparing, runClone, runSteps, npmDeps, missingJar, notWAR, resolveTomcat,
              installTomcat, prepareWAR, execSteps
<1>4. ASSUME NEW r \in Requests, Starting(r) PROVE pc'[cmd'] \in {"wait", "exit"}
  BY <1>4 DEF Starting, resetRun, announceRun, startDep, recordDep, chainStep,
              resetWAR, AtLaunch, launchFails, startMain, recordMain
<1>5. ASSUME NEW r \in Requests, Ending(r) PROVE pc'[cmd'] \in {"wait", "exit"}
  BY <1>5 DEF Ending, waitReturns, mainEnded, Report, TakeDeps, reapDep
<1>6. ASSUME NEW r \in Requests, mainExits(r) PROVE pc'[cmd'] \in {"wait", "exit"}
  BY <1>6 DEF mainExits
<1>7. ASSUME NEW s \in Stops, Stop(s) PROVE pc'[cmd'] \in {"wait", "exit"}
  BY <1>7, ActorsAssumption
     DEF Stop, stopMain, stopChain, stopNothing, killMain, reapDep, Stopped
<1>8. ASSUME NEW d \in live, depExits(d) PROVE pc'[cmd'] \in {"wait", "exit"}
  BY <1>8 DEF depExits
<1>9. QED
  BY <1>1, <1>2, <1>3, <1>4, <1>5, <1>6, <1>7, <1>8 DEF Next

-----------------------------------------------------------------------------
(* The bookkeeping of the dependency services.                              *)

Books == PassedAll /\ OneReaper

(* Only four kinds of steps move services between depCmds and the reapers.  *)
LEMMA BooksUntouched ==
  ASSUME TypeOK, Books, UNCHANGED <<depCmds, reap>>,
         \A r \in Requests : next'[r] \in Nat /\ next[r] <= next'[r]
  PROVE  Books'
<1>1. ASSUME NEW D, D \subseteq Deps, Passed(D) PROVE \A d \in D : d[2] < next'[d[1]]
  <2>1. ASSUME NEW d \in D PROVE d[2] < next'[d[1]]
    <3>1. d[1] \in Requests /\ d[2] \in Nat /\ d[2] < next[d[1]]
      BY <1>1 DEF Deps, Passed
    <3>2. next[d[1]] \in Nat
      BY <3>1, ChainLength DEF TypeOK
    <3>3. QED
      BY <3>1, <3>2
  <2>2. QED
    BY <2>1
<1>2. PassedAll'
  BY <1>1 DEF Books, PassedAll, Passed, TypeOK
<1>3. QED
  BY <1>2 DEF Books, OneReaper

LEMMA StepBooks == TypeOK /\ RecordIndex /\ Books /\ [Next]_vars => Books'
<1> SUFFICES ASSUME TypeOK, RecordIndex, Books, [Next]_vars PROVE Books'
  OBVIOUS
<1>0. /\ TypeOK'
      /\ \A r \in Requests : next[r] \in Nat /\ next[r] \in 1 .. N + 1 /\ next'[r] \in Nat
  <2>1. TypeOK'
    BY StepTypes
  <2>2. QED
    BY <2>1, ChainLength DEF TypeOK
<1>1. CASE UNCHANGED <<depCmds, reap, next>>
  BY <1>0, <1>1, BooksUntouched
<1>2. ASSUME NEW r \in Requests, startDep(r) \/ chainStep(r) PROVE Books'
  <2>1. UNCHANGED <<depCmds, reap>>
    BY <1>2 DEF startDep, chainStep, jobVars, locals, given, Fail, set
  <2>2. \A q \in Requests : next[q] <= next'[q]
    BY <1>0, <1>2 DEF TypeOK, startDep, chainStep, jobVars, locals, given, Fail, set
  <2>3. QED
    BY <1>0, <2>1, <2>2, BooksUntouched
<1>3. ASSUME NEW r \in Requests, recordDep(r) PROVE Books'
  <2>1. /\ depCmds' = depCmds \cup {<<r, next[r]>>}
        /\ next' = [next EXCEPT ![r] = @ + 1]
        /\ reap' = reap
        /\ next[r] \in 1 .. N
    BY <1>3 DEF recordDep, RecordIndex, Goto
  <2>0. ASSUME NEW D, D \subseteq Deps, Passed(D) PROVE \A d \in D : d[2] < next'[d[1]]
    <3>1. ASSUME NEW d \in D PROVE d[2] < next'[d[1]]
      <4>1. d[1] \in Requests /\ d[2] \in Nat /\ d[2] < next[d[1]]
        BY <2>0 DEF Deps, Passed
      <4>2. QED
        BY <1>0, <2>1, <4>1 DEF TypeOK
    <3>2. QED
      BY <3>1
  <2>2. PassedAll'
    <3>1. \A d \in depCmds : d[2] < next'[d[1]]
      BY <2>0 DEF Books, PassedAll, TypeOK
    <3>2. next[r] < next'[r]
      BY <1>0, <2>1 DEF TypeOK
    <3>3. \A a \in Actors : \A d \in reap[a] : d[2] < next'[d[1]]
      BY <2>0 DEF Books, PassedAll, TypeOK
    <3>4. QED
      BY <2>1, <3>1, <3>2, <3>3 DEF PassedAll, Passed
  <2>3. \A a \in Actors : <<r, next[r]>> \notin reap[a]
    BY <1>0, <2>1 DEF Books, PassedAll, Passed
  <2>4. OneReaper'
    BY <2>1, <2>3 DEF Books, OneReaper, TypeOK
  <2>5. QED
    BY <2>2, <2>4 DEF Books
<1>4. ASSUME NEW a \in Actors, depCmds' = {}, next' = next,
             reap' = [reap EXCEPT ![a] = depCmds]
      PROVE  Books'
  BY <1>4 DEF Books, PassedAll, Passed, OneReaper, TypeOK
<1>5. ASSUME NEW r \in Requests, resetRun(r) PROVE Books'
  <2>1. depCmds' = {} /\ reap' = reap /\ next' = next
    BY <1>5 DEF resetRun, locals, given
  <2>2. QED
    BY <2>1 DEF Books, PassedAll, Passed, OneReaper
<1>6. ASSUME NEW a \in Actors, reapDep(a) PROVE Books'
  <2>1. PICK d \in reap[a] : reap' = [reap EXCEPT ![a] = @ \ {d}]
    BY <1>6 DEF reapDep
  <2>2. depCmds' = depCmds /\ next' = next
    BY <1>6 DEF reapDep, jobVars
  <2>3. QED
    BY <2>1, <2>2 DEF Books, PassedAll, Passed, OneReaper, TypeOK
<1>7. ASSUME NEW r \in Requests, mainEnded(r) PROVE Books'
  <2>1. CASE act[r] = "run"
    BY <1>4, <1>7, <2>1 DEF mainEnded, TakeDeps, Actors
  <2>2. CASE act[r] = "war"
    BY <1>1, <1>7, <2>2 DEF mainEnded, TakeDeps
  <2>3. QED
    BY <1>7, <2>1, <2>2 DEF mainEnded, TakeDeps
<1>8. ASSUME NEW s \in Stops, stopChain(s) PROVE Books'
  BY <1>4, <1>8 DEF stopChain, Actors
<1> USE DEF jobVars, locals, given, worldly, Goto, set, Announce, Fail
<1>9. ASSUME NEW r \in Requests, Preparing(r) PROVE Books'
  BY <1>1, <1>9 DEF Preparing, runClone, runSteps, npmDeps, missingJar, notWAR, resolveTomcat,
              installTomcat, prepareWAR, execSteps
<1>10. ASSUME NEW r \in Requests, Starting(r) PROVE Books'
  <2>1. CASE announceRun(r) \/ resetWAR(r) \/ launchFails(r) \/ startMain(r) \/ recordMain(r)
    BY <1>1, <2>1 DEF announceRun, resetWAR, launchFails, startMain, recordMain
  <2>2. QED
    BY <1>2, <1>3, <1>5, <1>10, <2>1 DEF Starting
<1>11. ASSUME NEW r \in Requests, Ending(r) PROVE Books'
  <2>1. CASE waitReturns(r)
    BY <1>1, <2>1 DEF waitReturns
  <2>2. QED
    BY <1>6, <1>7, <1>11, <2>1 DEF Ending, Actors
<1>12. ASSUME NEW s \in Stops, Stop(s) PROVE Books'
  <2>1. CASE stopMain(s) \/ stopNothing(s) \/ killMain(s)
    BY <1>1, <2>1 DEF stopMain, stopNothing, killMain
  <2>2. QED
    BY <1>6, <1>8, <1>12, <2>1 DEF Stop, Actors
<1>13. ASSUME NEW r \in Requests, Dispatch(r) \/ mainExits(r) PROVE Books'
  BY <1>1, <1>13 DEF Dispatch, mainExits
<1>14. ASSUME NEW d \in live, depExits(d) PROVE Books'
  BY <1>1, <1>14 DEF depExits
<1>15. CASE UNCHANGED vars
  BY <1>1, <1>15 DEF vars
<1>16. QED
  BY <1>9, <1>10, <1>11, <1>12, <1>13, <1>14, <1>15 DEF Next

LEMMA StepReapHeld == TypeOK /\ ReapHeld /\ [Next]_vars => ReapHeld'
<1> SUFFICES ASSUME TypeOK, ReapHeld, [Next]_vars, NEW b \in Actors, pc'[b] # "reap"
             PROVE  reap'[b] = {}
  BY DEF ReapHeld
<1> USE DEF TypeOK, ReapHeld, Actors, jobVars, locals, given, worldly, Goto, Announce, Fail
<1>1. CASE UNCHANGED vars
  BY <1>1 DEF vars
<1>2. ASSUME NEW r \in Requests, Dispatch(r) \/ mainExits(r) PROVE reap'[b] = {}
  BY <1>2 DEF Dispatch, mainExits
<1>3. ASSUME NEW r \in Requests, Preparing(r) PROVE reap'[b] = {}
  BY <1>3 DEF Preparing, runClone, runSteps, npmDeps, missingJar, notWAR, resolveTomcat,
              installTomcat, prepareWAR, execSteps
<1>4. ASSUME NEW r \in Requests, Starting(r) PROVE reap'[b] = {}
  BY <1>4 DEF Starting, resetRun, announceRun, startDep, recordDep, chainStep,
              resetWAR, launchFails, startMain, recordMain
<1>5. ASSUME NEW r \in Requests, Ending(r) PROVE reap'[b] = {}
  <2>1. CASE waitReturns(r)
    BY <2>1 DEF waitReturns
  <2>2. CASE mainEnded(r)
    BY <2>2 DEF mainEnded, TakeDeps
  <2>3. CASE reapDep(r)
    BY <2>3 DEF reapDep
  <2>4. QED
    BY <1>5, <2>1, <2>2, <2>3 DEF Ending
<1>6. ASSUME NEW s \in Stops, Stop(s) PROVE reap'[b] = {}
  <2>1. CASE stopMain(s) \/ stopNothing(s) \/ killMain(s)
    BY <2>1 DEF stopMain, stopNothing, killMain
  <2>2. CASE stopChain(s)
    BY <2>2 DEF stopChain
  <2>3. CASE reapDep(s)
    BY <2>3 DEF reapDep
  <2>4. QED
    BY <1>6, <2>1, <2>2, <2>3 DEF Stop
<1>7. ASSUME NEW d \in live, depExits(d) PROVE reap'[b] = {}
  BY <1>7 DEF depExits
<1>8. QED
  BY <1>1, <1>2, <1>3, <1>4, <1>5, <1>6, <1>7 DEF Next

(* A service stays within reach of whoever has taken it, and of the run     *)
(* that is recording it, until it is dead or a run forgets depCmds.         *)
LEMMA StepForgets ==
  ASSUME TypeOK, ReapHeld, [Next]_vars,
         NEW d, d \in live \cap live', d[2] # 0, Reachable(d),
         ~ \E r \in Requests : pc[r] = "reset" /\ pc'[r] = "announce"
  PROVE  Reachable(d)'
<1>0. d[1] \in Requests /\ d[1] \in Actors
  BY DEF TypeOK, Procs, Actors
<1> USE <1>0 DEF TypeOK, Reachable
<1>1. CASE UNCHANGED <<depCmds, reap, next>> /\ (pc[d[1]] = "record" => pc'[d[1]] = "record")
  BY <1>1
<1>2. ASSUME NEW r \in Requests, recordDep(r) PROVE Reachable(d)'
  <2>1. CASE d \in depCmds \/ (\E a \in Actors : d \in reap[a])
    BY <1>2, <2>1 DEF recordDep
  <2>2. CASE pc[d[1]] = "record" /\ next[d[1]] = d[2] /\ d[1] = r
    <3>1. d = <<r, next[r]>>
      BY <2>2 DEF Procs
    <3>2. QED
      BY <1>2, <3>1 DEF recordDep
  <2>3. CASE pc[d[1]] = "record" /\ next[d[1]] = d[2] /\ d[1] # r
    BY <1>2, <2>3 DEF recordDep, Goto
  <2>4. QED
    BY <2>1, <2>2, <2>3
<1>3. ASSUME NEW r \in Requests, startDep(r) \/ chainStep(r) PROVE Reachable(d)'
  <2>1. UNCHANGED <<depCmds, reap>>
    BY <1>3 DEF startDep, chainStep, jobVars, locals, given, Fail, set
  <2>2. ASSUME pc[d[1]] = "record" PROVE pc'[d[1]] = "record" /\ next'[d[1]] = next[d[1]]
    BY <1>3, <2>2 DEF startDep, chainStep, jobVars, locals, given, Fail, Goto, set
  <2>3. QED
    BY <2>1, <2>2
<1>4. ASSUME NEW a \in Actors, depCmds' = {}, next' = next, pc[a] # "reap", pc[a] # "record",
             pc' = [pc EXCEPT ![a] = pc'[a]], reap' = [reap EXCEPT ![a] = depCmds]
      PROVE  Reachable(d)'
  <2>1. reap[a] = {}
    BY <1>4 DEF ReapHeld
  <2>2. QED
    BY <1>4, <2>1
<1>5. ASSUME NEW a \in Actors, reapDep(a) PROVE Reachable(d)'
  <2>1. PICK e \in reap[a] : reap' = [reap EXCEPT ![a] = @ \ {e}] /\ live' = live \ {e}
    BY <1>5 DEF reapDep
  <2>2. depCmds' = depCmds /\ next' = next
    BY <1>5 DEF reapDep, jobVars
  <2>3. pc[d[1]] = "record" => pc'[d[1]] = "record"
    BY <1>5 DEF reapDep
  <2>4. d # e
    BY <2>1
  <2>5. QED
    BY <2>1, <2>2, <2>3, <2>4
<1>6. ASSUME NEW r \in Requests, mainEnded(r) PROVE Reachable(d)'
  <2>1. CASE act[r] = "run"
    <3>1. pc' = [pc EXCEPT ![r] = pc'[r]]
      BY <1>6, <2>1 DEF mainEnded, TakeDeps, Actors
    <3>2. QED
      BY <1>4, <1>6, <2>1, <3>1 DEF mainEnded, TakeDeps, Actors
  <2>2. CASE act[r] = "war"
    BY <1>1, <1>6, <2>2 DEF mainEnded, TakeDeps, Actors
  <2>3. QED
    BY <1>6, <2>1, <2>2 DEF mainEnded, TakeDeps
<1>7. ASSUME NEW s \in Stops, stopChain(s) PROVE Reachable(d)'
  <2>1. pc' = [pc EXCEPT ![s] = pc'[s]]
    BY <1>7 DEF stopChain, Goto, Actors
  <2>2. QED
    BY <1>4, <1>7, <2>1 DEF stopChain, Goto, Actors
<1> USE DEF jobVars, locals, given, worldly, Goto, set, Announce, Fail
<1>8. ASSUME NEW r \in Requests, Preparing(r) PROVE Reachable(d)'
  BY <1>1, <1>8 DEF Preparing, runClone, runSteps, npmDeps, missingJar, notWAR, resolveTomcat,
              installTomcat, prepareWAR, execSteps
<1>9. ASSUME NEW r \in Requests, Starting(r) PROVE Reachable(d)'
  <2>1. CASE announceRun(r) \/ resetWAR(r) \/ launchFails(r) \/ startMain(r) \/ recordMain(r)
    BY <1>1, <2>1 DEF announceRun, resetWAR, launchFails, startMain, recordMain
  <2>2. ~resetRun(r)
    BY DEF resetRun, Actors
  <2>3. QED
    BY <1>2, <1>3, <1>9, <2>1, <2>2 DEF Starting
<1>10. ASSUME NEW r \in Requests, Ending(r) PROVE Reachable(d)'
  <2>1. CASE waitReturns(r)
    BY <1>1, <2>1 DEF waitReturns
  <2>2. QED
    BY <1>5, <1>6, <1>10, <2>1 DEF Ending, Actors
<1>11. ASSUME NEW s \in Stops, Stop(s) PROVE Reachable(d)'
  <2>1. CASE stopMain(s) \/ stopNothing(s) \/ killMain(s)
    BY <1>1, <2>1 DEF stopMain, stopNothing, killMain
  <2>2. QED
    BY <1>5, <1>7, <1>11, <2>1 DEF Stop, Actors
<1>12. ASSUME NEW r \in Requests, Dispatch(r) \/ mainExits(r) PROVE Reachable(d)'
  BY <1>1, <1>12 DEF Dispatch, mainExits
<1>13. ASSUME NEW e \in live, depExits(e) PROVE Reachable(d)'
  BY <1>1, <1>13 DEF depExits
<1>14. CASE UNCHANGED vars
  BY <1>1, <1>14 DEF vars
<1>15. QED
  BY <1>8, <1>9, <1>10, <1>11, <1>12, <1>13, <1>14 DEF Next

-----------------------------------------------------------------------------
(* The inductive invariant.                                                 *)
THEOREM Invariance == Spec => []IInv
<1>1. Init => IInv
  BY InitTypes DEF Init, IInv, CmdOwnerWaits, PassedAll, Passed, OneReaper, ReapHeld
<1>2. IInv /\ [Next]_vars => IInv'
  BY StepTypes, StepRecordIndex, StepCmd, StepBooks, StepReapHeld DEF IInv, Books
<1>3. QED
  BY <1>1, <1>2, PTL DEF Spec

(* Stop never finds the handle of a run that is over, even when two runs of *)
(* the job overwrite each other's handle: the goroutine that owns job.cmd   *)
(* has yet to run its critical section after Wait.                          *)
THEOREM CmdIsOwned == Spec => []CmdOwnerWaits
BY Invariance, PTL DEF IInv

(* No dependency service is killed by two goroutines, nor left in depCmds   *)
(* for a second one by the first that took it.                              *)
THEOREM ReapedOnce == Spec => []OneReaper
BY Invariance, PTL DEF IInv

(* No Stop, exit or failed start drops a living dependency service: only    *)
(* the critical section that begins a later run forgets depCmds.            *)
THEOREM NeverForgotten == Spec => OnlyResetForgets
<1>1. IInv /\ [Next]_vars =>
        [ \A d \in live \cap live' :
            d[2] # 0 /\ Reachable(d) /\ ~Reachable(d)'
              => \E r \in Requests : pc[r] = "reset" /\ pc'[r] = "announce" ]_vars
  BY StepForgets DEF IInv
<1>2. QED
  BY <1>1, Invariance, PTL DEF Spec, OnlyResetForgets

-----------------------------------------------------------------------------
(* A job whose requests do not overlap.  At most one of them is in flight,  *)
(* so its run has depCmds, the handle and the status to itself: what is     *)
(* left to share them with are the Stops.                                   *)

AtWork == {"chain", "record", "recordmain", "wait", "exit"}

OneAtATime == \A q, r \in Requests : Active(q) /\ Active(r) => q = r

(* Only a run goes through the chain and has services. *)
OfRuns == {"npm", "jarcheck", "announce", "chain", "record"}
ActionAt ==
  \A r \in Requests :
    /\ pc[r] \in OfRuns => act[r] = "run"
    /\ \A d \in live : d[1] = r /\ d[2] # 0 => act[r] = "run"

(* A living service is in the hands of a Stop, of its run, or its run failed. *)
HeldByStop(d) == \E s \in Stops : d \in reap[s]
Held(d) ==
  \/ pc[d[1]] = "failed"
  \/ HeldByStop(d)
  \/ pc[d[1]] \in AtWork /\ d \in depCmds
  \/ pc[d[1]] = "record" /\ next[d[1]] = d[2]
  \/ pc[d[1]] = "reap" /\ d \in reap[d[1]]
Kept == \A d \in live : d[2] # 0 => Held(d)

(* Until the last command runs there is no handle, and the status is that  *)
(* of a preparation or of a Stop; from then on the handle is the run's and  *)
(* a "stopped" comes with the flag that the section after Wait reads.       *)
Shown ==
  /\ \A r \in Requests :
       /\ pc[r] \in {"work", "reset"} /\ act[r] = "war" => status \in {"building", "stopped"}
       /\ pc[r] \in {"chain", "record", "deploy", "recordmain"} => status \in {"building", "stopped"}
       /\ pc[r] \in {"wait", "exit"} => cmd = r
  /\ cmd # Nil => status \in {"running", "stopped"} /\ (status = "stopped" => stopping)

SerialInv == Serial => OneAtATime /\ ActionAt /\ Kept /\ Shown

LEMMA SerialStays == [Next]_vars => Serial' = Serial
BY TargetStays DEF Serial

LEMMA StepOneAtATime == TypeOK /\ Serial /\ OneAtATime /\ [Next]_vars => OneAtATime'
<1> SUFFICES ASSUME TypeOK, Serial, OneAtATime, [Next]_vars PROVE OneAtATime'
  OBVIOUS
<1> USE DEF TypeOK, Actors, jobVars, Goto, set, Announce, Fail
<1>1. ASSUME \A q \in Requests : pc'[q] \in {"idle", "done", "failed"} \/ Active(q)
      PROVE  OneAtATime'
  BY <1>1 DEF OneAtATime, Active
<1>2. ASSUME NEW r \in Requests, Dispatch(r) PROVE OneAtATime'
  BY <1>2 DEF Dispatch, MayRequest, Serial, OneAtATime, Active
<1>3. ASSUME NEW r \in Requests, Preparing(r) PROVE OneAtATime'
  BY <1>1, <1>3 DEF Preparing, runClone, runSteps, npmDeps, missingJar, notWAR, resolveTomcat,
              installTomcat, prepareWAR, execSteps, Active
<1>4. ASSUME NEW r \in Requests, Starting(r) PROVE OneAtATime'
  BY <1>1, <1>4 DEF Starting, resetRun, announceRun, startDep, recordDep, chainStep,
              resetWAR, launchFails, startMain, recordMain, Active
<1>5. ASSUME NEW r \in Requests, Ending(r) PROVE OneAtATime'
  BY <1>1, <1>5 DEF Ending, waitReturns, mainEnded, TakeDeps, reapDep, Active
<1>6. ASSUME NEW r \in Requests, mainExits(r) PROVE OneAtATime'
  BY <1>1, <1>6 DEF mainExits, Active
<1>7. ASSUME NEW s \in Stops, Stop(s) PROVE OneAtATime'
  BY <1>1, <1>7, ActorsAssumption
     DEF Stop, stopMain, stopChain, stopNothing, killMain, reapDep, Active
<1>8. ASSUME NEW d \in live, depExits(d) PROVE OneAtATime'
  BY <1>1, <1>8 DEF depExits, Active
<1>9. CASE UNCHANGED vars
  BY <1>1, <1>9 DEF vars, Active
<1>10. QED
  BY <1>2, <1>3, <1>4, <1>5, <1>6, <1>7, <1>8, <1>9 DEF Next

LEMMA StepActionAt ==
  TypeOK /\ ReapHeld /\ Serial /\ Kept /\ ActionAt /\ [Next]_vars => ActionAt'
<1> SUFFICES ASSUME TypeOK, ReapHeld, Serial, Kept, ActionAt, [Next]_vars, NEW q \in Requests
             PROVE  /\ pc'[q] \in OfRuns => act'[q] = "run"
                    /\ \A d \in live' : d[1] = q /\ d[2] # 0 => act'[q] = "run"
  BY DEF ActionAt
<1> DEFINE Goal == /\ pc'[q] \in OfRuns => act'[q] = "run"
                   /\ \A d \in live' : d[1] = q /\ d[2] # 0 => act'[q] = "run"
<1> USE DEF TypeOK, ActionAt, OfRuns, Actors, jobVars, locals, given, worldly, Goto, set, Announce, Fail
<1>1. ASSUME act' = act, live' \subseteq live,
             pc'[q] \in OfRuns =>
               pc[q] \in OfRuns \/ act[q] = "run"
      PROVE  Goal
  BY <1>1
<1> HIDE DEF Goal
<1>2. ASSUME NEW r \in Requests, Dispatch(r) PROVE Goal
  <2>1. \A a \in Actors : reap[a] = {} /\ pc[a] \notin {"record", "reap"} \cup AtWork
    BY <1>2 DEF Dispatch, MayRequest, Serial, Active, ReapHeld, AtWork
  <2>2. \A d \in live : d[2] # 0 => pc[d[1]] = "failed"
    <3>1. ASSUME NEW d \in live, d[2] # 0 PROVE pc[d[1]] = "failed"
      <4>1. d[1] \in Actors /\ Held(d)
        BY <3>1 DEF Kept, Procs
      <4>2. QED
        BY <2>1, <4>1 DEF Held, HeldByStop
    <3>2. QED
      BY <3>1
  <2>3. QED
    BY <1>2, <2>2 DEF Dispatch, Goal
<1>3. ASSUME NEW r \in Requests, Preparing(r) PROVE Goal
  BY <1>1, <1>3 DEF Preparing, runClone, runSteps, npmDeps, missingJar, notWAR, resolveTomcat,
              installTomcat, prepareWAR, execSteps
<1>4. ASSUME NEW r \in Requests, Starting(r) PROVE Goal
  <2>1. CASE startDep(r)
    <3>1. act' = act /\ act[r] = "run" /\ pc'[q] \in {pc[q], "record"} /\ (q # r => pc'[q] = pc[q])
      BY <2>1 DEF startDep
    <3>2. \A d \in live' : d \in live \/ d = <<r, next[r]>>
      BY <2>1 DEF startDep
    <3>3. QED
      BY <3>1, <3>2 DEF Goal
  <2>2. CASE startMain(r)
    <3>1. act' = act /\ (pc'[q] = pc[q] \/ pc'[q] = "recordmain") /\ live' = live \cup {Main(r)}
      BY <2>2 DEF startMain
    <3>2. QED
      BY <3>1 DEF Goal, Main
  <2>3. CASE resetRun(r) \/ announceRun(r) \/ recordDep(r) \/ chainStep(r)
             \/ resetWAR(r) \/ launchFails(r) \/ recordMain(r)
    BY <1>1, <2>3 DEF resetRun, announceRun, recordDep, chainStep, resetWAR, launchFails, recordMain
  <2>4. QED
    BY <1>4, <2>1, <2>2, <2>3 DEF Starting
<1>5. ASSUME NEW r \in Requests, Ending(r) PROVE Goal
  BY <1>1, <1>5 DEF Ending, waitReturns, mainEnded, TakeDeps, reapDep
<1>6. ASSUME NEW r \in Requests, mainExits(r) PROVE Goal
  BY <1>1, <1>6 DEF mainExits
<1>7. ASSUME NEW s \in Stops, Stop(s) PROVE Goal
  BY <1>1, <1>7 DEF Stop, stopMain, stopChain, stopNothing, killMain, reapDep
<1>8. ASSUME NEW d \in live, depExits(d) PROVE Goal
  BY <1>1, <1>8 DEF depExits
<1>9. CASE UNCHANGED vars
  BY <1>1, <1>9 DEF vars
<1>10. QED
  BY <1>2, <1>3, <1>4, <1>5, <1>6, <1>7, <1>8, <1>9 DEF Next, Goal

LEMMA StepKept ==
  TypeOK /\ ReapHeld /\ OneAtATime /\ ActionAt /\ Kept /\ [Next]_vars => Kept'
<1> SUFFICES ASSUME TypeOK, ReapHeld, OneAtATime, ActionAt, Kept, [Next]_vars,
                    NEW d \in live', d[2] # 0, d \in live => Held(d)
             PROVE  Held(d)'
  BY DEF Kept
<1> USE DEF TypeOK, Actors
(* A step that takes nothing out of depCmds and out of the hands of the     *)
(* reapers, and keeps the run of d at work.                                 *)
<1>1. ASSUME d \in live, UNCHANGED <<depCmds, reap>>,
             \/ pc'[d[1]] = pc[d[1]] /\ next'[d[1]] = next[d[1]]
             \/ pc'[d[1]] = "failed"
             \/ pc[d[1]] \notin AtWork \cup {"reap", "failed"}
             \/ pc[d[1]] \in AtWork \ {"record"} /\ pc'[d[1]] \in AtWork
      PROVE  Held(d)'
  BY <1>1 DEF Held, HeldByStop, AtWork
<1>2. ASSUME NEW r \in Requests, startDep(r) PROVE Held(d)'
  <2>1. PICK K \in SUBSET live :
          \/ /\ pc' = [pc EXCEPT ![r] = "record"] /\ next' = next
             /\ live' = (live \ K) \cup {<<r, next[r]>>}
          \/ /\ next' = [next EXCEPT ![r] = @ + 1] /\ pc' = pc
             /\ live' = live \ K
    BY <1>2 DEF startDep, Freed
  <2>2. CASE d = <<r, next[r]>> /\ pc' = [pc EXCEPT ![r] = "record"] /\ next' = next
    BY <2>2 DEF Held
  <2>3. CASE d \in live
    <3>1. UNCHANGED <<depCmds, reap>> /\ pc[r] = "chain"
      BY <1>2 DEF startDep, jobVars
    <3>2. CASE d[1] = r
      <4>1. pc'[r] \in AtWork
        BY <2>1, <3>1 DEF AtWork
      <4>2. QED
        BY <1>1, <2>3, <3>1, <3>2, <4>1 DEF AtWork
    <3>3. CASE d[1] # r
      <4>1. d[1] \in Requests
        BY <2>3 DEF Procs
      <4>2. pc'[d[1]] = pc[d[1]] /\ next'[d[1]] = next[d[1]]
        BY <2>1, <3>3, <4>1
      <4>3. QED
        BY <1>1, <2>3, <3>1, <4>2
    <3>4. QED
      BY <3>2, <3>3
  <2>4. QED
    BY <2>1, <2>2, <2>3
<1>3. ASSUME NEW r \in Requests, startMain(r) PROVE Held(d)'
  <2>1. live' = live \cup {Main(r)} /\ UNCHANGED <<depCmds, reap, next>>
    BY <1>3 DEF startMain, jobVars, locals
  <2>2. d \in live
    BY <2>1 DEF Main
  <2>3. pc[r] \in {"chain", "deploy"} /\ pc' = [pc EXCEPT ![r] = "recordmain"]
    BY <1>3 DEF startMain, Goto
  <2>4. QED
    BY <1>1, <2>1, <2>2, <2>3 DEF AtWork, Procs
<1>4. ASSUME NEW r \in Requests, recordDep(r) PROVE Held(d)'
  <2>1. /\ pc[r] = "record" /\ pc' = [pc EXCEPT ![r] = "chain"]
        /\ depCmds' = depCmds \cup {<<r, next[r]>>}
        /\ next' = [next EXCEPT ![r] = @ + 1]
        /\ reap' = reap /\ live' = live
    BY <1>4 DEF recordDep, Goto, worldly
  <2>2. CASE d[1] = r
    <3>1. pc'[d[1]] \in AtWork
      BY <2>1, <2>2 DEF AtWork
    <3>2. CASE next[r] = d[2]
      BY <2>1, <2>2, <3>1, <3>2 DEF Held, Procs
    <3>3. CASE next[r] # d[2]
      BY <2>1, <2>2, <3>1, <3>3 DEF Held, HeldByStop, AtWork
    <3>4. QED
      BY <3>2, <3>3
  <2>3. CASE d[1] # r
    BY <2>1, <2>3 DEF Held, HeldByStop
  <2>4. QED
    BY <2>2, <2>3
<1>5. ASSUME NEW r \in Requests, resetRun(r) PROVE Held(d)'
  <2>1. /\ pc[r] = "reset" /\ pc' = [pc EXCEPT ![r] = "announce"]
        /\ reap' = reap /\ live' = live /\ next' = next
    BY <1>5 DEF resetRun, Goto, locals, worldly
  <2>2. d[1] \in Requests
    BY <2>1 DEF Procs
  <2>3. d[1] = r => HeldByStop(d)
    BY <2>1 DEF Held, AtWork
  <2>4. d[1] # r => ~ Active(d[1])
    BY <2>1, <2>2 DEF OneAtATime, Active
  <2>5. HeldByStop(d) \/ (pc[d[1]] = "failed" /\ d[1] # r)
    BY <2>1, <2>3, <2>4 DEF Held, Active, AtWork
  <2>6. HeldByStop(d) => HeldByStop(d)'
    BY <2>1 DEF HeldByStop
  <2>7. pc[d[1]] = "failed" /\ d[1] # r => pc'[d[1]] = "failed"
    BY <2>1, <2>2
  <2>8. QED
    BY <2>5, <2>6, <2>7 DEF Held
<1>6. ASSUME NEW r \in Requests, mainEnded(r) PROVE Held(d)'
  <2>1. pc[r] = "exit" /\ live' = live /\ next' = next
    BY <1>6 DEF mainEnded, worldly
  <2>2. d[1] \in Requests
    BY <2>1 DEF Procs
  <2>3. d[1] # r => ~ Active(d[1])
    BY <2>1, <2>2 DEF OneAtATime, Active
  <2>4. \/ HeldByStop(d)
        \/ pc[d[1]] = "failed" /\ d[1] # r
        \/ d[1] = r /\ d \in depCmds
    BY <2>1, <2>3 DEF Held, Active, AtWork
  <2>5. CASE act[r] = "run"
    <3>1. /\ reap' = [reap EXCEPT ![r] = depCmds]
          /\ pc' = [pc EXCEPT ![r] = IF depCmds = {} THEN "done" ELSE "reap"]
      BY <1>6, <2>5 DEF mainEnded, TakeDeps
    <3>2. QED
      BY <2>4, <3>1, ActorsAssumption DEF Held, HeldByStop
  <2>6. CASE act[r] # "run"
    <3>1. d[1] # r
      BY <2>1, <2>6 DEF ActionAt
    <3>2. reap' = reap /\ pc' = [pc EXCEPT ![r] = "done"]
      BY <1>6, <2>6 DEF mainEnded, TakeDeps
    <3>3. QED
      BY <2>4, <3>1, <3>2 DEF Held, HeldByStop
  <2>7. QED
    BY <2>5, <2>6
<1>7. ASSUME NEW a \in Actors, reapDep(a) PROVE Held(d)'
  <2>1. PICK e \in reap[a] :
          /\ live' = live \ {e}
          /\ reap' = [reap EXCEPT ![a] = @ \ {e}]
          /\ pc' = [pc EXCEPT ![a] = IF reap[a] = {e} THEN "done" ELSE @]
    BY <1>7 DEF reapDep
  <2>2. depCmds' = depCmds /\ next' = next /\ pc[a] = "reap"
    BY <1>7 DEF reapDep, jobVars
  <2>3. d # e /\ d \in live
    BY <2>1
  <2>4. HeldByStop(d) => HeldByStop(d)'
    BY <2>1, <2>3 DEF HeldByStop
  <2>5. CASE d[1] = a
    BY <2>1, <2>2, <2>3, <2>4, <2>5 DEF Held, AtWork
  <2>6. CASE d[1] # a
    BY <2>1, <2>2, <2>3, <2>4, <2>6 DEF Held
  <2>7. QED
    BY <2>5, <2>6
<1>8. ASSUME NEW s \in Stops, stopChain(s) PROVE Held(d)'
  <2>1. /\ pc[s] = "idle" /\ pc' = [pc EXCEPT ![s] = "reap"]
        /\ reap' = [reap EXCEPT ![s] = depCmds]
        /\ live' = live /\ next' = next
    BY <1>8 DEF stopChain, Goto, worldly
  <2>2. reap[s] = {} /\ d[1] # s
    BY <2>1, ActorsAssumption DEF ReapHeld, Procs
  <2>3. HeldByStop(d) \/ d \in depCmds => HeldByStop(d)'
    BY <2>1, <2>2 DEF HeldByStop
  <2>4. QED
    BY <2>1, <2>2, <2>3 DEF Held
<1> USE DEF jobVars, locals, given, worldly, Goto, set, Announce, Fail, Procs
<1>9. ASSUME NEW r \in Requests, Preparing(r) PROVE Held(d)'
  BY <1>1, <1>9 DEF Preparing, runClone, runSteps, npmDeps, missingJar, notWAR, resolveTomcat,
              installTomcat, prepareWAR, execSteps, AtWork
<1>10. ASSUME NEW r \in Requests, Starting(r) PROVE Held(d)'
  <2>1. CASE announceRun(r) \/ resetWAR(r) \/ launchFails(r)
    BY <1>1, <2>1 DEF announceRun, resetWAR, launchFails, AtWork
  <2>2. CASE recordMain(r)
    BY <1>1, <2>2 DEF recordMain, AtWork
  <2>3. CASE chainStep(r)
    <3>1. d \in live /\ pc[r] = "chain" /\ UNCHANGED <<depCmds, reap>>
      BY <2>3 DEF chainStep
    <3>2. \/ pc' = [pc EXCEPT ![r] = "failed"] /\ next' = next
          \/ pc' = pc /\ next' = [next EXCEPT ![r] = @ + 1]
      BY <2>3 DEF chainStep
    <3>3. d[1] \in Requests
      BY <3>1
    <3>4. CASE d[1] = r
      BY <1>1, <3>1, <3>2, <3>3, <3>4 DEF AtWork
    <3>5. CASE d[1] # r
      BY <1>1, <3>1, <3>2, <3>3, <3>5
    <3>6. QED
      BY <3>4, <3>5
  <2>4. QED
    BY <1>2, <1>3, <1>4, <1>5, <1>10, <2>1, <2>2, <2>3 DEF Starting
<1>11. ASSUME NEW r \in Requests, Ending(r) PROVE Held(d)'
  <2>1. CASE waitReturns(r)
    BY <1>1, <2>1 DEF waitReturns, AtWork
  <2>2. QED
    BY <1>6, <1>7, <1>11, <2>1 DEF Ending
<1>12. ASSUME NEW s \in Stops, Stop(s) PROVE Held(d)'
  <2>1. CASE stopMain(s) \/ stopNothing(s) \/ killMain(s)
    BY <1>1, <2>1, ActorsAssumption DEF stopMain, stopNothing, killMain
  <2>2. QED
    BY <1>7, <1>8, <1>12, <2>1 DEF Stop
<1>13. ASSUME NEW r \in Requests, Dispatch(r) PROVE Held(d)'
  BY <1>1, <1>13 DEF Dispatch, AtWork
<1>14. ASSUME NEW r \in Requests, mainExits(r) PROVE Held(d)'
  BY <1>1, <1>14 DEF mainExits
<1>15. ASSUME NEW e \in live, depExits(e) PROVE Held(d)'
  BY <1>1, <1>15 DEF depExits
<1>16. CASE UNCHANGED vars
  BY <1>1, <1>16 DEF vars
<1>17. QED
  BY <1>9, <1>10, <1>11, <1>12, <1>13, <1>14, <1>15, <1>16 DEF Next

LEMMA StepShown ==
  TypeOK /\ CmdOwnerWaits /\ OneAtATime /\ ActionAt /\ Shown /\ [Next]_vars => Shown'
<1> SUFFICES ASSUME TypeOK, CmdOwnerWaits, OneAtATime, ActionAt, Shown, [Next]_vars PROVE Shown'
  OBVIOUS
<1> USE DEF TypeOK, Actors, jobVars, locals, given, worldly, Goto, set, Announce, Fail
(* The handle belongs to the one request in flight. *)
<1>1. ASSUME NEW r \in Requests, Active(r), pc[r] \notin {"wait", "exit"} PROVE cmd = Nil
  BY <1>1 DEF CmdOwnerWaits, OneAtATime, Active
<1>2. ASSUME UNCHANGED <<status, stopping, cmd, act>>, \A q \in Requests : pc'[q] = pc[q]
      PROVE  Shown'
  BY <1>2 DEF Shown
(* A step of the request in flight leaves the other requests at rest.       *)
<1>3. ASSUME NEW r \in Requests, Active(r), NEW q \in Requests, q # r
      PROVE  pc[q] \in {"idle", "done", "failed"}
  BY <1>3 DEF OneAtATime, Active
<1>4. ASSUME NEW r \in Requests, Dispatch(r) PROVE Shown'
  BY <1>4 DEF Dispatch, Shown
<1>5. ASSUME NEW r \in Requests, Preparing(r) PROVE Shown'
  <2>1. Active(r) /\ pc[r] \notin {"wait", "exit"}
    BY <1>5 DEF Preparing, runClone, runSteps, npmDeps, missingJar, notWAR, resolveTomcat,
              installTomcat, prepareWAR, execSteps, Active
  <2>2. cmd = Nil /\ cmd' = Nil /\ act' = act
    BY <1>1, <1>5, <2>1 DEF Preparing, runClone, runSteps, npmDeps, missingJar, notWAR, resolveTomcat,
              installTomcat, prepareWAR, execSteps
  <2>3. \A q \in Requests : q # r => pc'[q] = pc[q] /\ pc[q] \in {"idle", "done", "failed"}
    BY <1>3, <1>5, <2>1 DEF Preparing, runClone, runSteps, npmDeps, missingJar, notWAR, resolveTomcat,
              installTomcat, prepareWAR, execSteps
  <2>4. /\ pc'[r] \in {"work", "reset"} /\ act[r] = "war" => status' \in {"building", "stopped"}
        /\ pc'[r] \notin {"chain", "record", "deploy", "recordmain", "wait", "exit"}
    BY <1>5 DEF Preparing, runClone, runSteps, npmDeps, missingJar, notWAR, resolveTomcat,
              installTomcat, prepareWAR, execSteps, Shown, ActionAt, OfRuns
  <2>5. QED
    BY <2>2, <2>3, <2>4 DEF Shown
<1>6. ASSUME NEW r \in Requests, Starting(r) PROVE Shown'
  <2>1. Active(r) /\ pc[r] \notin {"wait", "exit"} /\ act' = act
    BY <1>6 DEF Starting, resetRun, announceRun, startDep, recordDep, chainStep,
              resetWAR, AtLaunch, launchFails, startMain, recordMain, Active
  <2>2. cmd = Nil
    BY <1>1, <2>1
  <2>3. \A q \in Requests : q # r => pc'[q] = pc[q] /\ pc[q] \in {"idle", "done", "failed"}
    BY <1>3, <1>6, <2>1 DEF Starting, resetRun, announceRun, startDep, recordDep, chainStep,
              resetWAR, launchFails, startMain, recordMain
  <2>4. CASE recordMain(r)
    BY <2>1, <2>3, <2>4, ActorsAssumption DEF recordMain, Shown
  <2>5. CASE ~recordMain(r)
    <3>1. cmd' = Nil /\ pc'[r] \notin {"wait", "exit"}
      BY <1>6, <2>1, <2>2, <2>5 DEF Starting, resetRun, announceRun, startDep, recordDep, chainStep,
              resetWAR, launchFails, startMain
    <3>2. /\ pc'[r] \in {"work", "reset"} /\ act[r] = "war" => status' \in {"building", "stopped"}
          /\ pc'[r] \in {"chain", "record", "deploy", "recordmain"} => status' \in {"building", "stopped"}
      BY <1>6, <2>5 DEF Starting, resetRun, announceRun, startDep, recordDep, chainStep,
              resetWAR, AtLaunch, launchFails, startMain, Shown
    <3>3. QED
      BY <2>1, <2>3, <3>1, <3>2 DEF Shown
  <2>6. QED
    BY <2>4, <2>5
<1>7. ASSUME NEW r \in Requests, Ending(r) PROVE Shown'
  <2>1. CASE waitReturns(r)
    BY <2>1 DEF waitReturns, Shown
  <2>2. CASE mainEnded(r)
    <3>1. Active(r) /\ cmd' = Nil /\ pc'[r] \in {"done", "reap"} /\ act' = act
      BY <2>2 DEF mainEnded, Report, TakeDeps, Active
    <3>2. \A q \in Requests : q # r => pc'[q] = pc[q] /\ pc[q] \in {"idle", "done", "failed"}
      BY <1>3, <2>2, <3>1 DEF mainEnded, TakeDeps
    <3>3. QED
      BY <3>1, <3>2 DEF Shown
  <2>3. CASE reapDep(r)
    BY <2>3 DEF reapDep, Shown
  <2>4. QED
    BY <1>7, <2>1, <2>2, <2>3 DEF Ending
<1>8. ASSUME NEW s \in Stops, Stop(s) PROVE Shown'
  <2>1. \A q \in Requests : pc'[q] = pc[q]
    BY <1>8, ActorsAssumption DEF Stop, stopMain, stopChain, stopNothing, killMain, reapDep
  <2>2. \/ UNCHANGED <<status, stopping, cmd, act>>
        \/ status' = "stopped" /\ stopping' = TRUE /\ UNCHANGED <<cmd, act>>
    BY <1>8 DEF Stop, stopMain, stopChain, stopNothing, killMain, reapDep, Stopped
  <2>3. QED
    BY <1>2, <2>1, <2>2 DEF Shown
<1>9. ASSUME NEW r \in Requests, mainExits(r) PROVE Shown'
  BY <1>2, <1>9 DEF mainExits
<1>10. ASSUME NEW d \in live, depExits(d) PROVE Shown'
  BY <1>2, <1>10 DEF depExits
<1>11. CASE UNCHANGED vars
  BY <1>2, <1>11 DEF vars
<1>12. QED
  BY <1>4, <1>5, <1>6, <1>7, <1>8, <1>9, <1>10, <1>11 DEF Next

LEMMA SerialInvariance == Spec => [](IInv /\ SerialInv)
<1>1. Init => SerialInv
  BY DEF Init, SerialInv, OneAtATime, ActionAt, OfRuns, Kept, Shown, Active, Actors
<1>2. IInv /\ SerialInv /\ [Next]_vars => SerialInv'
  BY SerialStays, StepOneAtATime, StepActionAt, StepKept, StepShown DEF SerialInv, IInv
<1>3. QED
  BY <1>1, <1>2, Invariance, PTL DEF Spec

(* runner.go promises that the services of a chain are reaped "whenever the *)
(* main process ends".  It keeps the promise to users who wait until        *)
(* nothing is in flight: when the goroutine of a run whose last command     *)
(* ended is over, every service it started is dead or in the hands of a     *)
(* Stop, however the Stops interleave with it.                              *)
THEOREM ReapedWhenSerial == Spec => [](users # "dashboard" => ReapedAfterMainEnds)
<1>1. IInv /\ SerialInv => (users # "dashboard" => ReapedAfterMainEnds)
  BY DEF IInv, TypeOK, SerialInv, Serial, ReapedAfterMainEnds, Kept, Held, HeldByStop, AtWork
<1>2. QED
  BY <1>1, SerialInvariance, PTL

-----------------------------------------------------------------------------
(* The lifecycle of the job, step by step.                                  *)

LEMMA StepLifecycle ==
  ASSUME IInv, SerialInv, [Next]_vars
  PROVE  [Lifecycle!Next]_<<IF Serial THEN status ELSE "idle", Serial /\ cmd # Nil>>
<1>0. Serial' = Serial
  BY SerialStays
<1>1. CASE ~Serial
  BY <1>0, <1>1
<1>2. CASE Serial /\ UNCHANGED <<status, cmd>>
  BY <1>0, <1>2
<1> SUFFICES ASSUME Serial, Serial'
             PROVE  Lifecycle!Next \/ UNCHANGED <<status, cmd>>
  BY <1>0, <1>1, <1>2
<1> USE DEF Lifecycle!Next, jobVars, locals, given, worldly, Goto, set, Announce, Fail
(* A request that has no handle yet works or launches. *)
<1>3. ASSUME NEW r \in Requests, Active(r), pc[r] \notin {"wait", "exit"} PROVE cmd = Nil
  BY <1>3 DEF IInv, CmdOwnerWaits, SerialInv, OneAtATime, Active, TypeOK
<1>4. ASSUME cmd = Nil, cmd' = Nil, status' \in {"cloning", "building", "done", "error", "stopped"}
      PROVE  Lifecycle!Next
  BY <1>4 DEF Lifecycle!Work
<1>5. ASSUME NEW r \in Requests, Preparing(r) PROVE Lifecycle!Next \/ UNCHANGED <<status, cmd>>
  <2>1. cmd = Nil
    BY <1>3, <1>5 DEF Preparing, runClone, runSteps, npmDeps, missingJar, notWAR, resolveTomcat,
              installTomcat, prepareWAR, execSteps, Active
  <2>2. cmd' = cmd /\ \/ status' \in {"cloning", "building", "done", "error", "stopped"}
                      \/ status' = status
    BY <1>5 DEF Preparing, runClone, runSteps, npmDeps, missingJar, notWAR, resolveTomcat,
              installTomcat, prepareWAR, execSteps
  <2>3. QED
    BY <1>4, <2>1, <2>2
<1>6. ASSUME NEW r \in Requests, Starting(r) PROVE Lifecycle!Next \/ UNCHANGED <<status, cmd>>
  <2>1. cmd = Nil
    BY <1>3, <1>6 DEF Starting, resetRun, announceRun, startDep, recordDep, chainStep,
              resetWAR, AtLaunch, launchFails, startMain, recordMain, Active
  <2>2. CASE recordMain(r)
    <3>1. status \in {"building", "stopped"}
      BY <2>2 DEF recordMain, SerialInv, Shown
    <3>2. QED
      BY <2>1, <2>2, <3>1, ActorsAssumption DEF recordMain, Lifecycle!Launch
  <2>3. CASE ~recordMain(r)
    <3>1. cmd' = cmd /\ (status' \in {"building", "error"} \/ status' = status)
      BY <1>6, <2>3 DEF Starting, resetRun, announceRun, startDep, recordDep, chainStep,
              resetWAR, launchFails, startMain
    <3>2. QED
      BY <1>4, <2>1, <3>1
  <2>4. QED
    BY <2>2, <2>3
<1>7. ASSUME NEW r \in Requests, mainEnded(r) PROVE Lifecycle!Next
  <2>1. cmd = r /\ cmd # Nil
    BY <1>7, ActorsAssumption DEF mainEnded, SerialInv, Shown
  <2>2. cmd' = Nil /\ status' = Outcome(r)
    BY <1>7 DEF mainEnded, Report
  <2>3. status = "stopped" => Outcome(r) = "stopped"
    BY <2>1 DEF Outcome, SerialInv, Shown
  <2>4. QED
    BY <2>1, <2>2, <2>3 DEF Lifecycle!End, Outcome
<1>8. ASSUME NEW r \in Requests, Ending(r) PROVE Lifecycle!Next \/ UNCHANGED <<status, cmd>>
  BY <1>7, <1>8 DEF Ending, waitReturns, reapDep
<1>9. ASSUME NEW s \in Stops, Stop(s) PROVE Lifecycle!Next \/ UNCHANGED <<status, cmd>>
  <2>1. CASE stopMain(s)
    BY <2>1 DEF stopMain, Stopped, Lifecycle!Stop
  <2>2. CASE stopChain(s)
    BY <1>4, <2>2 DEF stopChain, Stopped
  <2>3. CASE stopNothing(s) \/ killMain(s) \/ reapDep(s)
    BY <2>3 DEF stopNothing, killMain, reapDep
  <2>4. QED
    BY <1>9, <2>1, <2>2, <2>3 DEF Stop
<1>10. ASSUME NEW r \in Requests, Dispatch(r) \/ mainExits(r) PROVE UNCHANGED <<status, cmd>>
  BY <1>10 DEF Dispatch, mainExits
<1>11. ASSUME NEW d \in live, depExits(d) PROVE UNCHANGED <<status, cmd>>
  BY <1>11 DEF depExits
<1>12. CASE UNCHANGED vars
  BY <1>12 DEF vars
<1>13. QED
  BY <1>5, <1>6, <1>8, <1>9, <1>10, <1>11, <1>12 DEF Next

(* The status the dashboard shows follows the process as JobLifecycle       *)
(* promises, for every chain and every number of Stops: "running" only      *)
(* while there is a handle that a Stop can kill, and a Stop is not replaced *)
(* by the error its kill makes of the process.                              *)
THEOREM FollowsLifecycle == Spec => Lifecycle!Safety
<1>1. Init => Lifecycle!Init
  BY DEF Init, Lifecycle!Init
<1>2. IInv /\ SerialInv /\ [Next]_vars
        => [Lifecycle!Next]_<<IF Serial THEN status ELSE "idle", Serial /\ cmd # Nil>>
  BY StepLifecycle
<1>3. QED
  BY <1>1, <1>2, SerialInvariance, PTL DEF Spec, Lifecycle!Safety
=============================================================================
