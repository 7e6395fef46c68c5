------------------------------ MODULE PortsProofs ------------------------------
(* Proofs about Ports: who is killed by freePort, for any catalog.            *)
EXTENDS Ports, TLAPS

(* The search of a job stays in its range, and only a job that is up owns a   *)
(* port as "main": the one it shows.                                          *)
PortInRange ==
  \A j \in Jobs : pc[j] \notin {"idle", "probe", "record", "lost"}
                    => port[j] \in Reach(basePort[j])
HasDep == \A j \in Jobs : pc[j] = "free" => Dep[j] \in Port
MainIsUp == \A j \in Jobs : \A p \in Port : owner[p] = <<j, "main">> => pc[j] = "up" /\ p = port[j]
IInv == TypeOK /\ PortInRange /\ HasDep /\ MainIsUp /\ UpOnShownPort

LEMMA RangeIsPort ==
  /\ \A j \in Jobs : Base[j] \in Port /\ Dep[j] \in Port \cup {0}
  /\ \A b : Reach(b) \subseteq Port
  /\ \A b \in Port : b \in Reach(b)
  BY CatalogAssumption DEF Port, Reach

LEMMA InitInv == Init => IInv
  BY CatalogAssumption, RangeIsPort DEF Init, IInv, TypeOK, PortInRange, HasDep, MainIsUp,
     UpOnShownPort, Free, Foreign, Proc

(* Whose a port can be: every kind of owner is different from the others.     *)
Owners == Proc \cup {Free, Foreign}
LEMMA OwnerKinds ==
  /\ \A j \in Jobs : <<j, "main">> \in Owners /\ <<j, "dep">> \in Owners /\ <<j, "old">> \in Owners
  /\ \A j, k \in Jobs : /\ <<j, "main">> # <<k, "dep">> /\ <<j, "main">> # <<k, "old">>
                        /\ (<<j, "main">> = <<k, "main">> => j = k)
  /\ \A j \in Jobs : <<j, "main">> # Free /\ <<j, "main">> # Foreign
  /\ Free \in Owners /\ Foreign \in Owners
  BY DEF Owners, Proc, Free, Foreign

LEMMA NextInv == IInv /\ [Next]_vars => IInv'
<1> SUFFICES ASSUME IInv, [Next]_vars PROVE IInv'
  OBVIOUS
<1> USE OwnerKinds, RangeIsPort DEF IInv, Goto
<1>type. owner \in [Port -> Owners]
  BY DEF TypeOK, Owners
<1>free. \A procs : /\ Released(procs) \in [Port -> Owners]
                    /\ \A p \in Port : Released(procs)[p] = IF owner[p] \in procs THEN Free ELSE owner[p]
  BY <1>type DEF Released
<1>1. CASE UNCHANGED vars
  BY <1>1 DEF vars, TypeOK, PortInRange, HasDep, MainIsUp, UpOnShownPort
<1>2. CASE foreign
  <2>1. PICK p \in Port, o \in {Free, Foreign} : owner[p] \in {Free, Foreign} /\ owner' = [owner EXCEPT ![p] = o]
    BY <1>2 DEF foreign
  <2>2. TypeOK'
    BY <1>2, <1>type, <2>1 DEF foreign, TypeOK, Owners
  <2>3. (PortInRange /\ HasDep /\ MainIsUp)'
    BY <1>2, <1>type, <2>1 DEF foreign, PortInRange, HasDep, MainIsUp
  <2>4. UpOnShownPort'
    <3>1. SUFFICES ASSUME NEW k \in Jobs, pc[k] = "up" PROVE owner'[port[k]] = <<k, "main">>
      BY <1>2 DEF foreign, UpOnShownPort
    <3>2. owner[port[k]] = <<k, "main">> /\ port[k] \in Port
      BY <3>1 DEF UpOnShownPort, PortInRange
    <3>3. port[k] # p
      BY <2>1, <3>2
    <3> QED BY <1>type, <2>1, <3>2, <3>3
  <2> QED BY <2>2, <2>3, <2>4
<1>3. ASSUME NEW j \in Jobs, Run(j) PROVE IInv'
  <2>1. CASE request(j)
    <3>1. TypeOK'
      <4>1. PICK b \in Port : basePort' = [basePort EXCEPT ![j] = b] /\ try' = [try EXCEPT ![j] = b]
        <5>1. PICK c \in Port \cup {0} :
                /\ basePort' = [basePort EXCEPT ![j] = IF c > 0 THEN c ELSE Base[j]]
                /\ try' = [try EXCEPT ![j] = IF c > 0 THEN c ELSE Base[j]]
          BY <2>1 DEF request
        <5>2. (IF c > 0 THEN c ELSE Base[j]) \in Port
          BY CatalogAssumption DEF Port
        <5> QED BY <5>1, <5>2
      <4>2. /\ basePort' \in [Jobs -> Port] /\ try' \in [Jobs -> Port]
            /\ \A k \in Jobs : try'[k] \in Reach(basePort'[k])
        BY <4>1 DEF TypeOK
      <4>3. live' \in [Jobs -> BOOLEAN]
        <5>1. \A k \in Jobs : (live[k] /\ Backend[k] # j /\ k # j) \in BOOLEAN
          OBVIOUS
        <5> QED BY <2>1, <5>1, Zenon DEF request
      <4> QED BY <4>2, <4>3, <2>1 DEF request, TypeOK
    <3>2. (PortInRange /\ HasDep)'
      BY <2>1 DEF request, PortInRange, HasDep, TypeOK
    <3>3. MainIsUp'
      BY <1>type, <1>free, <2>1 DEF request, MainIsUp, TypeOK
    <3>4. UpOnShownPort'
      BY <1>type, <1>free, <2>1 DEF request, UpOnShownPort, MainIsUp, PortInRange, TypeOK
    <3> QED BY <3>1, <3>2, <3>3, <3>4
  <2>2. CASE probe(j)
    <3>1. TypeOK'
      <4>1. \/ try' = try
            \/ try[j] + 1 \in Reach(basePort[j]) /\ try' = [try EXCEPT ![j] = try[j] + 1]
            \/ try' = [try EXCEPT ![j] = basePort[j]]
        BY <2>2 DEF probe
      <4>2. /\ try' \in [Jobs -> Port] /\ basePort' = basePort
            /\ \A k \in Jobs : try'[k] \in Reach(basePort'[k])
        <5>1. /\ basePort' = basePort /\ basePort[j] \in Reach(basePort[j])
              /\ basePort[j] \in Port /\ try \in [Jobs -> Port]
              /\ \A k \in Jobs : try[k] \in Reach(basePort[k])
          BY <2>2 DEF probe, TypeOK
        <5> QED BY <4>1, <5>1
      <4>3. OthersSettled(j) \in BOOLEAN
        BY DEF OthersSettled
      <4>4. found' = found \/ found' = [found EXCEPT ![j] = OthersSettled(j)]
        BY <2>2 DEF probe
      <4>5. found' \in [Jobs -> BOOLEAN]
        <5> DEFINE b == OthersSettled(j)
        <5> HIDE DEF b
        <5>1. b \in BOOLEAN /\ (found' = found \/ found' = [found EXCEPT ![j] = b])
          BY <4>3, <4>4 DEF b
        <5> QED BY <5>1 DEF TypeOK
      <4> QED BY <4>2, <4>5, <2>2 DEF probe, TypeOK
    <3>2. (PortInRange /\ HasDep)'
      BY <2>2 DEF probe, PortInRange, HasDep, TypeOK
    <3>3. MainIsUp'
      BY <1>type, <1>free, <2>2 DEF probe, MainIsUp, TypeOK
    <3>4. UpOnShownPort'
      BY <1>type, <1>free, <2>2 DEF probe, UpOnShownPort, MainIsUp, PortInRange, TypeOK
    <3> QED BY <3>1, <3>2, <3>3, <3>4
  <2>3. CASE record(j)
    <3>1. TypeOK'
      BY <1>type, <1>free, <2>3 DEF record, TypeOK, Owners
    <3>2. (PortInRange /\ HasDep)'
      BY <2>3 DEF record, PortInRange, HasDep, TypeOK
    <3>3. MainIsUp'
      BY <1>type, <1>free, <2>3 DEF record, MainIsUp, TypeOK
    <3>4. UpOnShownPort'
      BY <1>type, <1>free, <2>3 DEF record, UpOnShownPort, MainIsUp, PortInRange, TypeOK
    <3> QED BY <3>1, <3>2, <3>3, <3>4
  <2>4. CASE freePort(j)
    <3>1. TypeOK'
      BY <1>type, <1>free, <2>4 DEF freePort, Killed, TypeOK, Owners
    <3>2. (PortInRange /\ HasDep)'
      BY <2>4 DEF freePort, Killed, PortInRange, HasDep, TypeOK
    <3>3. MainIsUp'
      <4>1. SUFFICES ASSUME NEW k \in Jobs, NEW p \in Port, owner'[p] = <<k, "main">>
                     PROVE  pc'[k] = "up" /\ p = port[k]
        BY <2>4 DEF freePort, Killed, MainIsUp
      <4>2. owner[p] = <<k, "main">> /\ p # Dep[j]
        <5> DEFINE Deps == {<<l, "dep">> : l \in {l \in Jobs : owner[Dep[j]] = <<l, "main">>}}
        <5>1. owner' = [Released(Deps) EXCEPT ![Dep[j]] = Free]
          BY <2>4 DEF freePort, Killed
        <5>2. /\ Released(Deps) \in [Port -> Owners]
              /\ Released(Deps)[p] = Free \/ Released(Deps)[p] = owner[p]
          <6> HIDE DEF Deps
          <6> QED BY <1>free
        <5> HIDE DEF Deps
        <5>3. p # Dep[j]
          BY <5>1, <5>2, <4>1
        <5>4. owner'[p] = Released(Deps)[p]
          BY <5>1, <5>2, <5>3
        <5> QED BY <5>2, <5>3, <5>4, <4>1
      <4>3. pc[k] = "up" /\ p = port[k]
        BY <4>2 DEF MainIsUp
      <4>4. owner[Dep[j]] # <<k, "main">>
        BY <2>4, <4>2, <4>3 DEF freePort, Killed, HasDep, MainIsUp
      <4> QED BY <2>4, <4>3, <4>4 DEF freePort, Killed, TypeOK
    <3>4. UpOnShownPort'
      BY <1>type, <1>free, <2>4 DEF freePort, Killed, UpOnShownPort, MainIsUp, PortInRange, TypeOK
    <3> QED BY <3>1, <3>2, <3>3, <3>4
  <2>5. CASE startDep(j)
    <3>1. TypeOK'
      BY <1>type, <1>free, <2>5 DEF startDep, TypeOK, Owners
    <3>2. (PortInRange /\ HasDep)'
      BY <2>5 DEF startDep, PortInRange, HasDep, TypeOK
    <3>3. MainIsUp'
      BY <1>type, <1>free, <2>5 DEF startDep, MainIsUp, TypeOK
    <3>4. UpOnShownPort'
      BY <1>type, <1>free, <2>5 DEF startDep, UpOnShownPort, MainIsUp, PortInRange, TypeOK
    <3> QED BY <3>1, <3>2, <3>3, <3>4
  <2>6. CASE depBinds(j)
    <3>1. TypeOK'
      BY <1>type, <1>free, <2>6 DEF depBinds, TypeOK, Owners
    <3>2. (PortInRange /\ HasDep)'
      BY <2>6 DEF depBinds, PortInRange, HasDep, TypeOK
    <3>3. MainIsUp'
      BY <1>type, <1>free, <2>6 DEF depBinds, MainIsUp, TypeOK
    <3>4. UpOnShownPort'
      <4>1. SUFFICES ASSUME NEW k \in Jobs, pc[k] = "up" PROVE owner'[port[k]] = <<k, "main">>
        BY <2>6 DEF depBinds, UpOnShownPort
      <4>2. owner[port[k]] = <<k, "main">> /\ port[k] \in Port
        BY <4>1 DEF UpOnShownPort, PortInRange
      <4>3. owner[Dep[j]] = Free /\ owner' = [owner EXCEPT ![Dep[j]] = <<j, "dep">>]
        BY <2>6 DEF depBinds
      <4> QED BY <1>type, <4>2, <4>3
    <3> QED BY <3>1, <3>2, <3>3, <3>4
  <2>7. CASE waitForPort(j)
    <3>1. TypeOK'
      BY <1>type, <1>free, <2>7 DEF waitForPort, TypeOK, Owners
    <3>2. (PortInRange /\ HasDep)'
      BY <2>7 DEF waitForPort, PortInRange, HasDep, TypeOK
    <3>3. MainIsUp'
      BY <1>type, <1>free, <2>7 DEF waitForPort, MainIsUp, TypeOK
    <3>4. UpOnShownPort'
      BY <1>type, <1>free, <2>7 DEF waitForPort, UpOnShownPort, MainIsUp, PortInRange, TypeOK
    <3> QED BY <3>1, <3>2, <3>3, <3>4
  <2>8. CASE readBackend(j)
    <3>1. TypeOK'
      <4>1. Backend[j] \in Jobs
        BY CatalogAssumption
      <4>2. proxy' \in [Jobs -> Port \cup {0}]
        BY <4>1, <2>8 DEF readBackend, TypeOK
      <4>3. live' \in [Jobs -> BOOLEAN]
        <5>1. Running(Backend[j]) \in BOOLEAN
          BY DEF Running
        <5>2. PICK b \in BOOLEAN : live' = [live EXCEPT ![j] = b] \/ live' = live
          BY <5>1, <2>8, Zenon DEF readBackend
        <5> QED BY <5>2 DEF TypeOK
      <4> QED BY <4>2, <4>3, <2>8 DEF readBackend, TypeOK
    <3>2. (PortInRange /\ HasDep)'
      BY <2>8 DEF readBackend, PortInRange, HasDep, TypeOK
    <3>3. MainIsUp'
      BY <1>type, <1>free, <2>8 DEF readBackend, MainIsUp, TypeOK
    <3>4. UpOnShownPort'
      BY <1>type, <1>free, <2>8 DEF readBackend, UpOnShownPort, MainIsUp, PortInRange, TypeOK
    <3> QED BY <3>1, <3>2, <3>3, <3>4
  <2>9. CASE startMain(j)
    <3>1. TypeOK'
      BY <1>type, <1>free, <2>9 DEF startMain, TypeOK, Owners
    <3>2. (PortInRange /\ HasDep)'
      BY <2>9 DEF startMain, PortInRange, HasDep, TypeOK
    <3>3. MainIsUp'
      BY <1>type, <1>free, <2>9 DEF startMain, MainIsUp, TypeOK
    <3>4. UpOnShownPort'
      BY <1>type, <1>free, <2>9 DEF startMain, UpOnShownPort, MainIsUp, PortInRange, TypeOK
    <3> QED BY <3>1, <3>2, <3>3, <3>4
  <2>10. CASE mainBinds(j)
    <3>1. TypeOK'
      BY <1>type, <1>free, <2>10 DEF mainBinds, TypeOK, Owners
    <3>2. (PortInRange /\ HasDep)'
      BY <2>10 DEF mainBinds, PortInRange, HasDep, TypeOK
    <3>3. MainIsUp'
      BY <1>type, <1>free, <2>10 DEF mainBinds, MainIsUp, TypeOK
    <3>4. UpOnShownPort'
      <4>1. SUFFICES ASSUME NEW k \in Jobs, pc'[k] = "up" PROVE owner'[port[k]] = <<k, "main">>
        BY <2>10 DEF mainBinds, UpOnShownPort
      <4>2. port[j] \in Port /\ owner[port[j]] = Free /\ owner' = [owner EXCEPT ![port[j]] = <<j, "main">>]
        BY <2>10 DEF mainBinds, PortInRange
      <4>3. CASE k = j
        BY <1>type, <4>2, <4>3
      <4>4. CASE k # j
        <5>1. pc[k] = "up"
          BY <2>10, <4>1, <4>4 DEF mainBinds, TypeOK
        <5>2. owner[port[k]] = <<k, "main">> /\ port[k] \in Port
          BY <5>1 DEF UpOnShownPort, PortInRange
        <5>3. port[k] # port[j]
          BY <4>2, <5>2
        <5> QED BY <1>type, <4>2, <5>2, <5>3
      <4> QED BY <4>3, <4>4
    <3> QED BY <3>1, <3>2, <3>3, <3>4
  <2>11. CASE mainLoses(j)
    <3>1. TypeOK'
      BY <1>type, <1>free, <2>11 DEF mainLoses, TypeOK, Owners
    <3>2. (PortInRange /\ HasDep)'
      BY <2>11 DEF mainLoses, PortInRange, HasDep, TypeOK
    <3>3. MainIsUp'
      BY <1>type, <1>free, <2>11 DEF mainLoses, MainIsUp, TypeOK
    <3>4. UpOnShownPort'
      BY <1>type, <1>free, <2>11 DEF mainLoses, UpOnShownPort, MainIsUp, PortInRange, TypeOK
    <3> QED BY <3>1, <3>2, <3>3, <3>4
  <2>12. CASE mainEnds(j)
    <3> DEFINE Gone == Released({<<j, "main">>, <<j, "dep">>})
               Lingers == [p \in Port |-> IF owner[p] \in {<<j, "main">>, <<j, "dep">>}
                                          THEN <<j, "old">> ELSE owner[p]]
    <3>0. owner' = Gone \/ owner' = Lingers
      BY <2>12 DEF mainEnds
    <3>5. \A o \in {Gone, Lingers} :
             /\ o \in [Port -> Owners]
             /\ \A k \in Jobs, p \in Port : o[p] = <<k, "main">> => k # j /\ owner[p] = <<k, "main">>
      <4>1. /\ Gone \in [Port -> Owners]
            /\ \A p \in Port : Gone[p] = IF owner[p] \in {<<j, "main">>, <<j, "dep">>} THEN Free ELSE owner[p]
        <5> DEFINE Ps == {<<j, "main">>, <<j, "dep">>}
        <5> HIDE DEF Ps
        <5>1. /\ Released(Ps) \in [Port -> Owners]
              /\ \A p \in Port : Released(Ps)[p] = IF owner[p] \in Ps THEN Free ELSE owner[p]
          BY <1>free
        <5> QED BY <5>1 DEF Ps
      <4>2. /\ Lingers \in [Port -> Owners]
            /\ \A k \in Jobs, p \in Port : Lingers[p] = <<k, "main">> => k # j /\ owner[p] = <<k, "main">>
        BY <1>type
      <4> HIDE DEF Gone, Lingers
      <4>3. \A k \in Jobs, p \in Port : Gone[p] = <<k, "main">> => k # j /\ owner[p] = <<k, "main">>
        BY <4>1
      <4> QED BY <4>1, <4>2, <4>3
    <3> HIDE DEF Gone, Lingers
    <3>1. TypeOK'
      <4>1. owner' \in [Port -> Owners]
        BY <3>0, <3>5
      <4> QED BY <4>1, <2>12 DEF mainEnds, TypeOK, Owners
    <3>2. (PortInRange /\ HasDep)'
      BY <2>12 DEF mainEnds, PortInRange, HasDep, TypeOK
    <3>3. MainIsUp'
      <4>1. \A k \in Jobs, p \in Port : owner'[p] = <<k, "main">> => k # j /\ owner[p] = <<k, "main">>
        BY <3>0, <3>5
      <4> QED BY <4>1, <2>12 DEF mainEnds, MainIsUp, TypeOK
    <3>4. UpOnShownPort'
      BY <1>type, <1>free, <2>12 DEF mainEnds, UpOnShownPort, MainIsUp, PortInRange, TypeOK
    <3> QED BY <3>1, <3>2, <3>3, <3>4
  <2>13. CASE oldEnds(j)
    <3>1. TypeOK'
      BY <1>type, <1>free, <2>13 DEF oldEnds, TypeOK, Owners
    <3>2. (PortInRange /\ HasDep)'
      BY <2>13 DEF oldEnds, PortInRange, HasDep, TypeOK
    <3>3. MainIsUp'
      <4>1. \A k \in Jobs, p \in Port : owner'[p] = <<k, "main">> => owner[p] = <<k, "main">>
        BY <1>type, <1>free, <2>13 DEF oldEnds
      <4> QED BY <4>1, <2>13 DEF oldEnds, MainIsUp, TypeOK
    <3>4. UpOnShownPort'
      BY <1>type, <1>free, <2>13 DEF oldEnds, UpOnShownPort, MainIsUp, PortInRange, TypeOK
    <3> QED BY <3>1, <3>2, <3>3, <3>4
  <2> QED
    BY <1>3, <2>1, <2>2, <2>3, <2>4, <2>5, <2>6, <2>7, <2>8, <2>9, <2>10, <2>11, <2>12, <2>13 DEF Run
<1> QED
  BY <1>1, <1>2, <1>3 DEF Next

(* Invariance of the inductive invariant. *)
THEOREM Invariance == Spec => []IInv
  BY InitInv, NextInv, PTL DEF Spec

(* Type correctness. *)
THEOREM TypeCorrect == Spec => []TypeOK
  BY Invariance, PTL DEF IInv

(* A job that is up listens on the port it shows, whatever the other jobs and *)
(* other programs do, for any catalog. *)
THEOREM ShownPort == Spec => []UpOnShownPort
  BY Invariance, PTL DEF IInv

(* What freePort kills: a job whose port is a fixed port of the run's target, *)
(* and the catalog leaves no such port in a search that starts at its own.    *)
LEMMA WhoIsKilled ==
  ASSUME IInv, [Next]_vars, NEW j \in Jobs, pc[j] = "up", pc'[j] = "lost"
  PROVE  basePort[j] # Base[j] /\ \E k \in Jobs \ {j} : port[j] = Dep[k]
<1>1. ASSUME NEW k \in Jobs, freePort(k)
      PROVE  basePort[j] # Base[j] /\ k # j /\ port[j] = Dep[k]
  <2>1. k # j /\ Dep[k] \in Port /\ owner[Dep[k]] = <<j, "main">>
    BY <1>1 DEF freePort, Killed, IInv, TypeOK, HasDep
  <2>2. port[j] = Dep[k]
    BY <2>1 DEF IInv, MainIsUp
  <2>3. port[j] \in Reach(basePort[j])
    BY DEF IInv, PortInRange
  <2> QED BY <2>1, <2>2, <2>3, FixedPortsAssumption
<1>2. CASE UNCHANGED vars
  BY <1>2 DEF vars
<1>3. CASE foreign
  BY <1>3 DEF foreign
<1>4. ASSUME NEW k \in Jobs, Run(k), ~freePort(k) PROVE FALSE
  BY <1>4 DEF IInv, TypeOK, Goto, Run, request, probe, record, startDep, depBinds, waitForPort,
     readBackend, startMain, mainBinds, mainLoses, mainEnds, oldEnds
<1> QED
  BY <1>1, <1>2, <1>3, <1>4 DEF Next

(* A run kills the process of another job only if that one was given its port *)
(* by the user and the port is a fixed one of the run's target: MainsSurvive, *)
(* for any number of jobs and any catalog that keeps its fixed ports out of   *)
(* the other targets' own searches. *)
THEOREM MainsSurviveTheorem == Spec => MainsSurvive
<1>1. ASSUME IInv, [Next]_vars
      PROVE  [\A j \in Jobs : pc[j] = "up" /\ pc'[j] = "lost" =>
                basePort[j] # Base[j] /\ \E k \in Jobs \ {j} : port[j] = Dep[k]]_vars
  BY <1>1, WhoIsKilled
<1> QED
  BY <1>1, Invariance, PTL DEF Spec, MainsSurvive

(* What a frontend was told stays true until its backend is run again: a      *)
(* backend that is shown as running has its port, and only a new run, which   *)
(* begins with a request, gives it another one.                               *)
ProxyInv ==
  \A j \in Jobs : live[j] => /\ pc[Backend[j]] \notin {"probe", "record"}
                             /\ proxy[j] = port[Backend[j]]

LEMMA ProxyStep == IInv /\ ProxyInv /\ [Next]_vars => ProxyInv'
<1> SUFFICES ASSUME IInv, ProxyInv, [Next]_vars, NEW k \in Jobs, live'[k]
             PROVE  /\ pc'[Backend[k]] \notin {"probe", "record"}
                    /\ proxy'[k] = port'[Backend[k]]
  BY DEF ProxyInv
<1> DEFINE b == Backend[k]
<1>0. b \in Jobs
  BY CatalogAssumption
<1> HIDE DEF b
<1>old. live[k] => pc[b] \notin {"probe", "record"} /\ proxy[k] = port[b]
  BY DEF ProxyInv, b
<1> SUFFICES pc'[b] \notin {"probe", "record"} /\ proxy'[k] = port'[b]
  BY DEF b
<1> USE DEF IInv, TypeOK, Goto
<1>1. ASSUME UNCHANGED <<live, proxy, port>>,
             pc'[b] \in {"probe", "record"} => pc[b] \in {"probe", "record"}
      PROVE  pc'[b] \notin {"probe", "record"} /\ proxy'[k] = port'[b]
  BY <1>1, <1>old
<1>2. CASE UNCHANGED vars
  BY <1>1, <1>2 DEF vars
<1>3. CASE foreign
  BY <1>1, <1>3 DEF foreign
<1>4. ASSUME NEW j \in Jobs, Run(j)
      PROVE  pc'[b] \notin {"probe", "record"} /\ proxy'[k] = port'[b]
  <2>1. CASE request(j)
    <3>1. live[k] /\ b # j
      BY <2>1 DEF request, b
    <3> QED BY <1>0, <1>old, <2>1, <3>1 DEF request
  <2>2. CASE probe(j)
    <3>1. live' = live /\ proxy' = proxy /\ port' = port
      BY <2>2 DEF probe
    <3>2. pc'[b] \in {"probe", "record"} => pc[b] \in {"probe", "record"}
      BY <1>0, <2>2 DEF probe
    <3> QED BY <1>1, <3>1, <3>2
  <2>3. CASE record(j)
    <3>1. live[k] /\ pc[j] = "record"
      BY <2>3 DEF record
    <3>2. b # j
      BY <1>old, <3>1
    <3> QED BY <1>0, <1>old, <2>3, <3>1, <3>2 DEF record
  <2>4. CASE freePort(j)
    BY <1>0, <1>1, <2>4 DEF freePort, Killed
  <2>5. CASE readBackend(j)
    <3>1. pc[j] = "proxy" /\ pc'[b] \in {pc[b], "start"} /\ port' = port
      BY <1>0, <2>5 DEF readBackend
    <3>2. CASE live'[k] = live[k] /\ proxy'[k] = proxy[k]
      BY <1>old, <3>1, <3>2
    <3>3. CASE ~(live'[k] = live[k] /\ proxy'[k] = proxy[k])
      <4>1. k = j /\ b # j /\ live' = [live EXCEPT ![j] = Running(b)]
        BY <2>5, <3>3 DEF readBackend, b
      <4>2. Running(b)
        BY <4>1
      <4>3. port[b] > 0 /\ pc[b] \in {"starting", "up", "deaf"}
        <5>1. pc[b] \in {"starting", "up", "deaf"}
          BY <4>2 DEF Running
        <5>2. port[b] \in Port
          BY <1>0, <5>1, RangeIsPort DEF PortInRange
        <5>3. port[b] > 0
          BY <5>2, CatalogAssumption DEF Port
        <5> QED BY <5>1, <5>3
      <4>4. proxy'[k] = port[b]
        BY <2>5, <4>1, <4>2, <4>3 DEF readBackend, b
      <4> QED BY <3>1, <4>3, <4>4
    <3> QED BY <3>2, <3>3
  <2>6. CASE startDep(j) \/ depBinds(j) \/ waitForPort(j) \/ startMain(j)
    BY <1>0, <1>1, <2>6 DEF startDep, depBinds, waitForPort, startMain
  <2>7. CASE mainBinds(j) \/ mainLoses(j) \/ mainEnds(j) \/ oldEnds(j)
    <3>1. UNCHANGED <<live, proxy, port>>
      BY <2>7 DEF mainBinds, mainLoses, mainEnds, oldEnds
    <3>2. pc'[b] \in {"probe", "record"} => pc[b] \in {"probe", "record"}
      BY <1>0, <2>7 DEF mainBinds, mainLoses, mainEnds, oldEnds
    <3> QED BY <1>1, <3>1, <3>2
  <2> QED BY <1>4, <2>1, <2>2, <2>3, <2>4, <2>5, <2>6, <2>7 DEF Run
<1> QED BY <1>2, <1>3, <1>4 DEF Next

(* A frontend that was started while its backend ran has the backend's port,  *)
(* for any catalog and whatever the other runs do: ProxyIsLive. *)
THEOREM ProxyTheorem == Spec => []ProxyIsLive
<1>1. Init => ProxyInv
  BY DEF Init, ProxyInv
<1>2. ProxyInv => ProxyIsLive
  BY DEF ProxyInv, ProxyIsLive
<1> QED
  BY <1>1, <1>2, ProxyStep, Invariance, PTL DEF Spec

(* The port a run found, while no other run has been requested since: the     *)
(* others stay where they were, and what they still do is ending or binding a *)
(* service, which reaches it only if the user chose where the search started. *)
Given(j) == IF pc[j] = "record" THEN try[j] ELSE port[j]
May(j, p, o) == \/ o \in {Free, Foreign, <<j, "dep">>}
                \/ /\ basePort[j] # Base[j]
                   /\ \E k \in Jobs : p = Dep[k] /\ o \in {<<k, "dep">>, <<k, "old">>}
FoundInv ==
  \A j \in Jobs : found[j] =>
    /\ pc[j] \in {"record", "free", "dep", "wait", "proxy", "start", "starting"}
    /\ OthersSettled(j)
    /\ May(j, Given(j), owner[Given(j)])

LEMMA GivenInRange ==
  ASSUME IInv, FoundInv, NEW j \in Jobs, found[j]
  PROVE  Given(j) \in Reach(basePort[j])
BY DEF IInv, TypeOK, PortInRange, FoundInv, Given

LEMMA FoundStep == IInv /\ FoundInv /\ [Next]_vars => FoundInv'
<1> SUFFICES ASSUME IInv, FoundInv, [Next]_vars, NEW k \in Jobs, found'[k]
             PROVE  /\ pc'[k] \in {"record", "free", "dep", "wait", "proxy", "start", "starting"}
                    /\ OthersSettled(k)'
                    /\ May(k, Given(k), owner[Given(k)])'
  BY DEF FoundInv
<1> DEFINE Busy    == {"record", "free", "dep", "wait", "proxy", "start", "starting"}
           Settled == {"idle", "up", "deaf", "lost"}
           G       == Given(k)
           Its(o)  == May(k, G, o)
           Goal    == pc'[k] \in Busy /\ OthersSettled(k)' /\ May(k, Given(k), owner[Given(k)])'
<1> SUFFICES Goal
  OBVIOUS
<1> USE DEF IInv, Goto
<1>0. /\ owner \in [Port -> Owners]
      /\ Its(Free) /\ Its(Foreign) /\ Its(<<k, "dep">>)
      /\ \A j \in Jobs : ~Its(<<j, "main">>) /\ (Its(<<j, "dep">>) => j = k \/ Its(<<j, "old">>))
  BY DEF TypeOK, Owners, Proc, Free, Foreign, May
<1>old. found[k] => /\ pc[k] \in Busy /\ \A j \in Jobs \ {k} : pc[j] \in Settled
                    /\ Its(owner[G]) /\ G \in Port /\ G \in Reach(basePort[k])
  BY GivenInRange, RangeIsPort DEF FoundInv, OthersSettled
<1>dep. ASSUME found[k], NEW j \in Jobs, j # k, Dep[j] = G PROVE Its(<<j, "dep">>)
  <2>1. basePort[k] # Base[k]
    BY <1>old, <1>dep, FixedPortsAssumption
  <2> QED BY <1>dep, <2>1 DEF May
(* A step after which the run still has its port, and so do the others.       *)
<1>1. ASSUME found[k], pc'[k] \in Busy, \A j \in Jobs \ {k} : pc'[j] \in Settled,
             Given(k)' = G, basePort' = basePort, Its(owner'[G])
      PROVE  Goal
  BY <1>1 DEF OthersSettled, May
<1> HIDE DEF G, Its
<1>2. ASSUME UNCHANGED <<found, pc, port, try, basePort>>, Its(owner'[G]) PROVE Goal
  <2>1. Given(k)' = G
    BY <1>2 DEF Given, G
  <2> QED BY <1>1, <1>2, <1>old, <2>1
<1>3. ASSUME NEW procs, found[k]
      PROVE  Its(Released(procs)[G])
  BY <1>0, <1>3, <1>old DEF Released
<1>4. CASE UNCHANGED vars
  BY <1>2, <1>4, <1>old DEF vars
<1>5. CASE foreign
  <2>1. found[k]
    BY <1>5 DEF foreign
  <2>2. Its(owner'[G])
    BY <1>0, <1>5, <1>old, <2>1 DEF foreign
  <2> QED BY <1>2, <1>5, <2>2 DEF foreign
<1>6. ASSUME NEW j \in Jobs, Run(j), j # k PROVE Goal
  <2>1. CASE request(j)
    BY <2>1 DEF request
  <2>2. found[k]
    <3>1. CASE probe(j)
      BY <1>6, <3>1 DEF probe, TypeOK
    <3>2. CASE mainBinds(j) \/ mainLoses(j)
      BY <1>6, <3>2 DEF mainBinds, mainLoses, TypeOK
    <3>3. CASE ~(request(j) \/ probe(j) \/ mainBinds(j) \/ mainLoses(j))
      BY <1>6, <3>3 DEF Run, record, freePort, Killed, startDep, depBinds, waitForPort,
         readBackend, startMain, mainEnds, oldEnds
    <3>4. ~request(j)
      BY DEF request
    <3> QED BY <3>1, <3>2, <3>3, <3>4
  <2>3. pc[j] \in Settled
    BY <1>6, <1>old, <2>2
  <2>4. CASE depBinds(j)
    <3>1. owner'[G] = owner[G] \/ (Dep[j] = G /\ owner'[G] = <<j, "dep">>)
      BY <1>0, <1>old, <2>2, <2>4 DEF depBinds
    <3>2. Its(owner'[G])
      BY <1>6, <1>old, <1>dep, <2>2, <3>1
    <3> QED BY <1>2, <2>4, <3>2 DEF depBinds
  <2>5. CASE mainEnds(j)
    <3>1. owner[G] # <<j, "main">> /\ (owner[G] = <<j, "dep">> => Its(<<j, "old">>))
      BY <1>0, <1>6, <1>old, <2>2
    <3>2. Its(owner'[G])
      <4>1. CASE owner' = Released({<<j, "main">>, <<j, "dep">>})
        BY <1>3, <2>2, <4>1
      <4>2. CASE owner' = [p \in Port |-> IF owner[p] \in {<<j, "main">>, <<j, "dep">>} THEN <<j, "old">>
                                          ELSE owner[p]]
        BY <1>old, <2>2, <3>1, <4>2
      <4> QED BY <2>5, <4>1, <4>2 DEF mainEnds
    <3>3. /\ pc'[k] = pc[k] /\ \A l \in Jobs \ {k} : pc'[l] \in Settled
          /\ UNCHANGED <<try, port, basePort>>
      BY <1>6, <1>old, <2>2, <2>5 DEF mainEnds, TypeOK
    <3>4. Given(k)' = G
      BY <3>3 DEF Given, G
    <3> QED BY <1>1, <1>old, <2>2, <3>2, <3>3, <3>4
  <2>6. CASE oldEnds(j)
    <3>1. Its(owner'[G])
      BY <1>3, <2>2, <2>6 DEF oldEnds
    <3> QED BY <1>2, <2>6, <3>1 DEF oldEnds
  <2> QED BY <1>6, <2>1, <2>3, <2>4, <2>5, <2>6 DEF Run, probe, record, freePort, Killed, startDep,
          waitForPort, readBackend, startMain, mainBinds, mainLoses
<1>7. CASE Run(k)
  <2>1. CASE request(k)
    BY <2>1 DEF request
  <2>2. CASE probe(k)
    <3>1. ~found[k]
      BY <1>old, <2>2 DEF probe
    <3>2. /\ owner[try[k]] = Free /\ pc' = [pc EXCEPT ![k] = "record"]
          /\ found' = [found EXCEPT ![k] = OthersSettled(k)]
          /\ UNCHANGED <<try, owner>>
      BY <2>2, <3>1 DEF probe
    <3>3. OthersSettled(k)
      <4> DEFINE s == OthersSettled(k)
      <4>1. found' = [found EXCEPT ![k] = s] /\ found'[k]
        BY <3>2
      <4> HIDE DEF s
      <4>2. s
        BY <4>1 DEF TypeOK
      <4> QED BY <4>2 DEF s
    <3>4. pc'[k] = "record" /\ \A j \in Jobs \ {k} : pc'[j] = pc[j]
      BY <3>2 DEF TypeOK
    <3>5. OthersSettled(k)'
      BY <3>3, <3>4 DEF OthersSettled
    <3>6. Given(k)' = try[k]
      BY <3>2, <3>4 DEF Given
    <3>7. May(k, Given(k), owner[Given(k)])'
      BY <3>2, <3>6 DEF May
    <3> QED BY <3>4, <3>5, <3>7
  <2>3. CASE mainBinds(k) \/ mainLoses(k)
    BY <2>3 DEF mainBinds, mainLoses, TypeOK
  <2>4. CASE mainEnds(k)
    BY <1>old, <2>4 DEF mainEnds
  <2>5. CASE oldEnds(k)
    <3>1. Its(owner'[G])
      BY <1>3, <2>5 DEF oldEnds
    <3> QED BY <1>2, <2>5, <3>1 DEF oldEnds
  <2>6. CASE depBinds(k)
    <3>1. Its(owner'[G])
      BY <1>0, <1>old, <2>6 DEF depBinds
    <3> QED BY <1>2, <2>6, <3>1 DEF depBinds
  <2>7. CASE record(k)
    <3>1. found[k] /\ pc[k] = "record" /\ pc'[k] \in {"free", "proxy"} /\ port'[k] = try[k]
      BY <2>7 DEF record, TypeOK
    <3>2. Given(k)' = G
      BY <3>1 DEF Given, G
    <3>3. \A j \in Jobs \ {k} : pc'[j] \in Settled
      BY <1>old, <2>7, <3>1 DEF record, TypeOK
    <3> QED BY <1>1, <1>old, <2>7, <3>1, <3>2, <3>3 DEF record
  <2>8. CASE freePort(k)
    <3> DEFINE Deps == {<<l, "dep">> : l \in {l \in Jobs : owner[Dep[k]] = <<l, "main">>}}
    <3>1. /\ owner' = [Released(Deps) EXCEPT ![Dep[k]] = Free]
          /\ found[k] /\ pc[k] = "free" /\ UNCHANGED <<port, try, basePort>>
          /\ pc' = [j \in Jobs |-> IF j = k THEN "dep"
                                   ELSE IF owner[Dep[k]] = <<j, "main">> THEN "lost" ELSE pc[j]]
      BY <2>8 DEF freePort, Killed
    <3> HIDE DEF Deps
    <3>2. Its(Released(Deps)[G])
      BY <1>3, <3>1
    <3>3. Its(owner'[G])
      <4>1. Released(Deps) \in [Port -> Owners]
        BY <1>0 DEF Released, Owners
      <4> QED BY <1>0, <1>old, <3>1, <3>2, <4>1
    <3>4. Given(k)' = G
      BY <3>1 DEF Given, G
    <3>5. pc'[k] \in Busy /\ \A j \in Jobs \ {k} : pc'[j] \in Settled
      BY <1>old, <3>1
    <3> QED BY <1>1, <3>1, <3>3, <3>4, <3>5
  <2>9. CASE startDep(k) \/ waitForPort(k) \/ readBackend(k) \/ startMain(k)
    <3>1. /\ pc[k] # "record" /\ pc'[k] \in {"wait", "proxy", "start", "starting"}
          /\ \A j \in Jobs \ {k} : pc'[j] = pc[j]
          /\ UNCHANGED <<found, port, try, basePort, owner>>
      BY <2>9 DEF startDep, waitForPort, readBackend, startMain, TypeOK
    <3>2. Given(k)' = G
      BY <3>1 DEF Given, G
    <3> QED BY <1>1, <1>old, <3>1, <3>2
  <2> QED BY <1>7, <2>1, <2>2, <2>3, <2>4, <2>5, <2>6, <2>7, <2>8, <2>9 DEF Run
<1> QED BY <1>4, <1>5, <1>6, <1>7 DEF Next

LEMMA FoundInvariance == Spec => []FoundInv
<1>1. Init => FoundInv
  BY DEF Init, FoundInv
<1> QED
  BY <1>1, FoundStep, Invariance, PTL DEF Spec

(* Who has the port that a run found free and finds taken at its start.       *)
LEMMA LostTo ==
  ASSUME IInv, FoundInv, [Next]_vars, NEW j \in Jobs, found[j], pc[j] = "starting",
         pc'[j] \in {"lost", "deaf"}
  PROVE  TakenBy(j, port[j])
<1> USE DEF IInv, TypeOK, Goto
<1>1. mainLoses(j)
  <2>1. ~(UNCHANGED vars) /\ ~foreign
    BY DEF vars, foreign
  <2>2. ASSUME NEW k \in Jobs, freePort(k) PROVE FALSE
    <3>1. Dep[k] \in Port /\ owner[Dep[k]] = <<j, "main">>
      BY <2>2 DEF freePort, Killed, HasDep
    <3> QED BY <3>1 DEF MainIsUp
  <2>3. PICK k \in Jobs : Run(k) /\ ~freePort(k)
    BY <2>1, <2>2 DEF Next
  <2>4. k = j
    BY <2>3 DEF Run, request, probe, record, startDep, depBinds, waitForPort, readBackend,
       startMain, mainBinds, mainLoses, mainEnds, oldEnds
  <2> QED BY <2>3, <2>4 DEF Run, request, probe, record, startDep, depBinds, waitForPort,
          readBackend, startMain, mainBinds, mainLoses, mainEnds, oldEnds
<1>2. owner[port[j]] # Free
  BY <1>1 DEF mainLoses
<1>3. May(j, port[j], owner[port[j]])
  BY DEF FoundInv, Given
<1> QED BY <1>2, <1>3 DEF May, TakenBy

(* A run that found a free port, with no other run under way, loses it before *)
(* its start to another program, to a service of its own, or, if the user     *)
(* chose where its search started, to a service of another job:               *)
(* TargetsDoNotCollide, for any number of jobs and any catalog that keeps its *)
(* fixed ports out of the other targets' own searches. *)
THEOREM NoCollision == Spec => TargetsDoNotCollide
<1>1. ASSUME IInv, FoundInv, [Next]_vars
      PROVE  [\A j \in Jobs : found[j] /\ pc[j] = "starting" /\ pc'[j] \in {"lost", "deaf"}
                => TakenBy(j, port[j])]_vars
  BY <1>1, LostTo
<1> QED
  BY <1>1, FoundInvariance, Invariance, PTL DEF Spec, TargetsDoNotCollide
=============================================================================
