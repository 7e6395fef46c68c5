---------------------------- MODULE DBSetupProofs ----------------------------
(***************************************************************************)
(* The MySQL container is never wiped, for any number of calls, projects   *)
(* and layouts.  ensureDockerContainer removes a container on what it read *)
(* of it a command earlier, so the argument is about the lock: between the *)
(* two commands only the holder of dbSetupMu acts on MySQL, and what never *)
(* started holds no schema.                                                *)
(***************************************************************************)
EXTENDS DBSetup, TLAPS

Critical == {"inspect", "status", "exitcode", "rm", "create", "start", "poll", "drop",
             "schema", "user", "import", "config", "unlock"}

Labels == Critical \cup {"idle", "begin", "lock", "redis", "rebuild"}
States == {"absent", "created", "running", "exited", "crashed"}

Typed ==
  /\ pc \in [Calls \X Services -> Labels]
  /\ container \in [Services -> States]

(* Between lock and unlock a call is the one that holds dbSetupMu. *)
Exclusive == \A c \in Calls : pc[Main(c)] \in Critical => dbSetupMu = c

(* A container that never started holds nothing. *)
EmptyUntilStarted == container["mysql"] \in {"absent", "created"} => schemas = {}

(* What is about to be removed has never started; MySQL's exit code is not  *)
(* looked at.                                                               *)
RemovesUnstarted ==
  \A c \in Calls :
    /\ pc[Main(c)] = "rm" => container["mysql"] = "created"
    /\ pc[Main(c)] # "exitcode"

WipeInv == Typed /\ Exclusive /\ EmptyUntilStarted /\ RemovesUnstarted

-----------------------------------------------------------------------------
(* The invariant holds initially. *)
LEMMA WipeInit == Init => WipeInv
<1> SUFFICES ASSUME Init PROVE WipeInv
  OBVIOUS
<1>1. Typed
  <2>1. pc \in [Calls \X Services -> Labels]
    BY DEF Init, Labels
  <2>2. PICK s \in {"absent", "exited"} :
          container = [svc \in Services |-> IF svc = "mysql" THEN s ELSE "absent"]
    BY DEF Init
  <2>3. s \in States /\ "absent" \in States
    BY DEF States
  <2> QED BY <2>1, <2>2, <2>3 DEF Typed
<1>2. \A c \in Calls : pc[Main(c)] = "idle"
  BY DEF Init, Main, Services
<1>3. schemas = {}
  BY DEF Init
<1> QED BY <1>1, <1>2, <1>3 DEF WipeInv, Exclusive, Critical, EmptyUntilStarted, RemovesUnstarted

(* A step of ensureDockerContainer moves one goroutine and its container;   *)
(* only removeContainer touches what is in MySQL.                           *)
LEMMA ContainerStep ==
  ASSUME Typed, NEW g \in Calls \X Services, ensureDockerContainer(g)
  PROVE  /\ \E to \in Labels : pc' = [pc EXCEPT ![g] = to]
         /\ \E state \in States : container' = [container EXCEPT ![g[2]] = state]
         /\ dbSetupMu' = dbSetupMu
         /\ ~removeContainer(g) => schemas' = schemas
<1> USE DEF Typed, Goto, Labels, States, Critical
<1> g[2] \in Services
  BY DEF Services
<1>0. ASSUME container' = container
      PROVE  \E state \in States : container' = [container EXCEPT ![g[2]] = state]
  <2>1. container[g[2]] \in States /\ container' = [container EXCEPT ![g[2]] = container[g[2]]]
    BY <1>0
  <2> QED BY <2>1
<1>1. ASSUME NEW from, Fail(g, from)
      PROVE  /\ \E to \in Labels : pc' = [pc EXCEPT ![g] = to]
             /\ UNCHANGED <<container, dbSetupMu, schemas>>
  <2>1. \E to \in {"unlock", "idle"} : pc' = [pc EXCEPT ![g] = to]
    BY <1>1 DEF Fail, Abort
  <2> QED BY <1>1, <2>1 DEF Fail, Abort, world
<1>2. ASSUME NEW from, NEW to \in Labels, Proceed(g, from, to)
      PROVE  /\ pc' = [pc EXCEPT ![g] = to]
             /\ UNCHANGED <<container, dbSetupMu, schemas>>
  BY <1>2 DEF Proceed, world
<1>3. ASSUME NEW from, NEW to \in Labels, NEW state \in States, Becomes(g, from, to, state)
      PROVE  /\ pc' = [pc EXCEPT ![g] = to]
             /\ container' = [container EXCEPT ![g[2]] = state]
             /\ UNCHANGED <<dbSetupMu, schemas>>
  BY <1>3 DEF Becomes
<1>4. CASE inspect(g)
  BY <1>0, <1>1, <1>2, <1>4 DEF inspect
<1>5. CASE readStatus(g)
  BY <1>0, <1>2, <1>5 DEF readStatus
<1>6. CASE readExitCode(g)
  BY <1>0, <1>2, <1>6 DEF readExitCode
<1>7. CASE removeContainer(g)
  BY <1>0, <1>2, <1>7 DEF removeContainer
<1>8. CASE createFresh(g)
  <2>1. CASE Becomes(g, "create", "poll", "running")
    BY <1>3, <2>1
  <2>2. CASE Fail(g, "create")
    BY <1>0, <1>1, <2>2
  <2>3. CASE /\ container' = [container EXCEPT ![g[2]] = "created"]
             /\ Abort(g, "create")
             /\ UNCHANGED <<schemas, tables>>
    <3>1. \E to \in {"unlock", "idle"} : pc' = [pc EXCEPT ![g] = to]
      BY <2>3 DEF Abort
    <3> QED BY <2>3, <3>1 DEF Abort
  <2> QED BY <1>8, <2>1, <2>2, <2>3 DEF createFresh
<1>9. CASE startStopped(g)
  BY <1>0, <1>1, <1>3, <1>9 DEF startStopped
<1>10. CASE poll(g)
  BY <1>0, <1>1, <1>2, <1>10 DEF poll, Provision
<1> QED BY <1>4, <1>5, <1>6, <1>7, <1>8, <1>9, <1>10 DEF ensureDockerContainer

-----------------------------------------------------------------------------
(* A call's own steps leave the containers alone, keep its main goroutine   *)
(* the only one that moves into or out of the critical section, and add to  *)
(* the schemas only while MySQL runs.                                       *)
LEMMA CallStep ==
  ASSUME WipeInv, NEW c \in Calls, Request(c) \/ Call(c)
  PROVE  WipeInv'
<1> USE DEF WipeInv, Typed, Exclusive, EmptyUntilStarted, RemovesUnstarted, Labels, Critical,
            Main, Services
<1>1. CASE Request(c)
  BY <1>1 DEF Request, Goto, world
<1>2. CASE begin(c)
  BY <1>2 DEF begin, EndCall, Spawn, Goto, world
<1>3. CASE lock(c)
  BY <1>3, FilesAssumption DEF lock, MayEnter, Spawn, world
<1>4. CASE dropSchema(c)
  BY <1>4 DEF dropSchema, Goto
<1>5. CASE createSchema(c)
  BY <1>5 DEF createSchema, Fail, Abort, Goto, Running, world
<1>6. CASE ensureMySQLAppUser(c)
  BY <1>6 DEF ensureMySQLAppUser, Fail, Abort, Proceed, Goto, world
<1>7. CASE importSQLFiles(c)
  BY <1>7 DEF importSQLFiles, TablesAppear, AfterImport, Fail, Abort, Goto, Running, world
<1>8. CASE rewriteProperties(c)
  BY <1>8 DEF rewriteProperties, Fail, Abort, Proceed, Goto, world
<1>9. CASE unlock(c)
  BY <1>9 DEF unlock, Goto, world
<1>10. CASE finish(c)
  BY <1>10 DEF finish, EndCall, Proceed, Goto, world
<1>11. CASE rebuild(c)
  BY <1>11 DEF rebuild, EndCall, Goto, world
<1> QED BY <1>1, <1>2, <1>3, <1>4, <1>5, <1>6, <1>7, <1>8, <1>9, <1>10, <1>11 DEF Call

(* The steps on containers: a side goroutine's concern another container,   *)
(* a main goroutine's are made under the lock.                              *)
LEMMA SideStep ==
  ASSUME WipeInv, NEW g \in Calls \X Services, g[2] # "mysql", ensureDockerContainer(g)
  PROVE  WipeInv' /\ schemas' = schemas
<1> USE DEF WipeInv
<1>1. PICK to \in Labels : pc' = [pc EXCEPT ![g] = to]
  BY ContainerStep
<1>2. PICK state \in States : container' = [container EXCEPT ![g[2]] = state]
  BY ContainerStep
<1>3. dbSetupMu' = dbSetupMu /\ schemas' = schemas
  BY ContainerStep DEF removeContainer, Proceed, world
<1>4. \A d \in Calls : pc'[Main(d)] = pc[Main(d)]
  BY <1>1 DEF Typed, Main, Services
<1>5. container'["mysql"] = container["mysql"]
  BY <1>2 DEF Typed, Services
<1>6. Typed'
  BY <1>1, <1>2 DEF Typed
<1> QED BY <1>3, <1>4, <1>5, <1>6 DEF Exclusive, EmptyUntilStarted, RemovesUnstarted

LEMMA MainStep ==
  ASSUME WipeInv, NEW c \in Calls, ensureDockerContainer(Main(c))
  PROVE  WipeInv' /\ \A s \in schemas : s \in schemas'
<1> DEFINE g == Main(c)
<1>1. g \in Calls \X Services /\ g[2] = "mysql"
  BY DEF Main, Services
<1>2. \A d \in Calls : Main(d) \in Calls \X Services /\ (Main(d) = g => d = c)
  BY DEF Main, Services
<1> HIDE DEF g
<1>3. ensureDockerContainer(g)
  BY DEF g
<1>4. pc[g] \in Critical /\ dbSetupMu = c
  <2>1. pc[g] \in Critical
    BY <1>3 DEF ensureDockerContainer, inspect, readStatus, readExitCode, removeContainer,
         createFresh,
                startStopped, poll, Fail, Abort, Proceed, Becomes, Goto, Critical
  <2> QED BY <2>1 DEF WipeInv, Exclusive, g
<1>5. \A d \in Calls : d # c => pc[Main(d)] \notin Critical
  BY <1>4 DEF WipeInv, Exclusive
<1>6. PICK to \in Labels : pc' = [pc EXCEPT ![g] = to]
  BY <1>1, <1>3, ContainerStep DEF WipeInv
<1>7. PICK state \in States : container' = [container EXCEPT !["mysql"] = state]
  BY <1>1, <1>3, ContainerStep DEF WipeInv
<1>8. dbSetupMu' = dbSetupMu
  BY <1>1, <1>3, ContainerStep DEF WipeInv
<1>9. Typed'
  BY <1>1, <1>6, <1>7 DEF WipeInv, Typed
<1>10. Exclusive'
  BY <1>1, <1>2, <1>4, <1>6, <1>8 DEF WipeInv, Typed, Exclusive
<1>11. \A d \in Calls : d # c => pc'[Main(d)] \notin Critical
  BY <1>2, <1>5, <1>6 DEF WipeInv, Typed
<1>12. CASE removeContainer(g)
  <2>1. pc[g] = "rm" /\ pc'[g] = "create" /\ schemas' \in {{}, schemas}
    BY <1>1, <1>12 DEF removeContainer, Proceed, Goto, WipeInv, Typed, world
  <2>2. schemas = {} /\ schemas' = {}
    BY <2>1 DEF g, WipeInv, RemovesUnstarted, EmptyUntilStarted
  <2>3. container'["mysql"] \in {"absent", "created"}
    BY <1>2, <1>12, <2>1 DEF removeContainer, Proceed, world, g, Main, WipeInv, Typed,
       RemovesUnstarted, Services
  <2> QED BY <1>9, <1>10, <1>11, <2>1, <2>2, <2>3
          DEF WipeInv, RemovesUnstarted, EmptyUntilStarted, Critical, g
<1>13. CASE ~removeContainer(g)
  <2>1. schemas' = schemas
    BY <1>1, <1>3, <1>13, ContainerStep DEF WipeInv
  <2>2. EmptyUntilStarted' /\ (pc'[g] = "rm" => container'["mysql"] = "created")
                           /\ pc'[g] # "exitcode"
    <3> USE <1>1, <2>1 DEF WipeInv, Typed, EmptyUntilStarted, Goto, Services
    <3>1. CASE inspect(g)
      BY <3>1 DEF inspect, Fail, Abort, Proceed, world
    <3>2. CASE readStatus(g)
      BY <3>2 DEF readStatus, RecreateOnCrash, Proceed, world
    <3>3. CASE readExitCode(g)
      BY <3>3 DEF readExitCode, Proceed, RemovesUnstarted, g
    <3>4. CASE createFresh(g)
      BY <3>4 DEF createFresh, Becomes, Fail, Abort, world
    <3>5. CASE startStopped(g)
      BY <3>5 DEF startStopped, Becomes, Fail, Abort, world
    <3>6. CASE poll(g)
      BY <3>6 DEF poll, Provision, Fail, Abort, Proceed, world
    <3> QED BY <1>3, <1>13, <3>1, <3>2, <3>3, <3>4, <3>5, <3>6 DEF ensureDockerContainer
  <2> QED BY <1>9, <1>10, <1>11, <2>1, <2>2 DEF WipeInv, RemovesUnstarted, Critical, g
<1> QED BY <1>12, <1>13

LEMMA WipeStep == WipeInv /\ [Next]_vars => WipeInv'
<1> SUFFICES ASSUME WipeInv, [Next]_vars PROVE WipeInv'
  OBVIOUS
<1>1. CASE UNCHANGED vars
  BY <1>1 DEF vars, world, WipeInv, Typed, Exclusive, EmptyUntilStarted, RemovesUnstarted
<1>2. ASSUME NEW c \in Calls, Request(c) \/ Call(c) PROVE WipeInv'
  BY <1>2, CallStep
<1>3. ASSUME NEW g \in Calls \X Services, ensureDockerContainer(g) PROVE WipeInv'
  <2>1. CASE g[2] # "mysql"
    BY <1>3, <2>1, SideStep
  <2>2. CASE g[2] = "mysql"
    <3>1. g[1] \in Calls /\ g = Main(g[1])
      BY <2>2 DEF Main
    <3> QED BY <1>3, <3>1, MainStep
  <2> QED BY <2>1, <2>2
<1>4. ASSUME NEW svc \in Services, Ends(svc) PROVE WipeInv'
  BY <1>4 DEF Ends, Running, WipeInv, Typed, States, Exclusive, EmptyUntilStarted, RemovesUnstarted
<1> QED BY <1>1, <1>2, <1>3, <1>4 DEF Next

(* No step but the drop a setup makes of its own schema removes a schema:   *)
(* the action property NeverWiped, for every layout and number of calls.    *)
THEOREM DataKept == Spec => NeverWiped
<1> DEFINE Kept == \A s \in schemas \ schemas' :
                     \E c \in Calls : pc[Main(c)] = "drop" /\ Schema(c) = s
<1>1. WipeInv /\ [Next]_vars => [Kept]_vars
  <2> SUFFICES ASSUME WipeInv, Next, NEW s \in schemas, s \notin schemas'
               PROVE  \E c \in Calls : pc[Main(c)] = "drop" /\ Schema(c) = s
    BY DEF vars, world
  <2>1. ASSUME NEW c \in Calls, Request(c) \/ Call(c)
        PROVE  pc[Main(c)] = "drop" /\ Schema(c) = s
    <3>1. CASE dropSchema(c)
      BY <3>1 DEF dropSchema, Goto
    <3>2. CASE ~dropSchema(c)
      BY <2>1, <3>2 DEF Request, Call, begin, lock, createSchema, ensureMySQLAppUser,
         importSQLFiles, TablesAppear, rewriteProperties, unlock, finish, rebuild, EndCall, Fail, Abort,
         Proceed, world
    <3> QED BY <3>1, <3>2
  <2>2. ASSUME NEW g \in Calls \X Services, ensureDockerContainer(g) PROVE FALSE
    <3>1. CASE g[2] # "mysql"
      BY <2>2, <3>1, SideStep
    <3>2. CASE g[2] = "mysql"
      <4>1. g[1] \in Calls /\ g = Main(g[1])
        BY <3>2 DEF Main
      <4> QED BY <2>2, <4>1, MainStep
    <3> QED BY <3>1, <3>2
  <2>3. ASSUME NEW svc \in Services, Ends(svc) PROVE FALSE
    BY <2>3 DEF Ends
  <2> QED BY <2>1, <2>2, <2>3 DEF Next
<1> QED BY <1>1, WipeInit, WipeStep, PTL DEF Spec, NeverWiped

-----------------------------------------------------------------------------
(* Type correctness.  Beyond WipeInv it takes that a call in progress has a *)
(* project, and that tables lie in a schema that is there.                  *)
HasProject == \A c \in Calls : pc[Main(c)] # "idle" => project[c] \in Projects

DataTyped ==
  /\ schemas \in SUBSET Schemas
  /\ tables \in SUBSET (Projects \X (1 .. Files))
  /\ \A t \in tables : Layout[t[1]].schema \in schemas

LocalsTyped ==
  /\ dbSetupMu \in Calls \cup {Nobody}
  /\ imported \in SUBSET Projects
  /\ project \in [Calls -> Projects \cup {Nobody}]
  /\ deploys \in [Calls -> BOOLEAN]
  /\ ok \in [Calls -> BOOLEAN]
  /\ next \in [Calls -> 1 .. Files]

TypeInv == WipeInv /\ HasProject /\ DataTyped /\ LocalsTyped

(* A goroutine of ensureDockerContainer moves only itself; its call goes on *)
(* until it has unlocked, and MySQL loses its schemas with their tables.    *)
LEMMA ContainerTypes ==
  ASSUME TypeInv, NEW g \in Calls \X Services, ensureDockerContainer(g)
  PROVE  HasProject' /\ DataTyped' /\ LocalsTyped'
<1> USE DEF TypeInv
<1>1. PICK to : pc' = [pc EXCEPT ![g] = to]
  BY ContainerStep DEF WipeInv
<1>2. /\ UNCHANGED <<dbSetupMu, imported, project, deploys, next>>
      /\ ok' = ok \/ ok' = [ok EXCEPT ![g[1]] = FALSE]
      /\ UNCHANGED <<schemas, tables>> \/ (schemas' = {} /\ tables' = {})
      /\ pc[g] # "idle"
  <2> USE DEF Goto, Proceed, Fail, Abort, Becomes, world, locals
  <2>1. CASE inspect(g) \/ readStatus(g) \/ readExitCode(g)
    BY <2>1 DEF inspect, readStatus, readExitCode
  <2>2. CASE removeContainer(g)
    <3>1. CASE Proceed(g, "rm", "create")
      BY <3>1
    <3>2. CASE /\ Goto(g, "rm", "create")
               /\ schemas' = IF g[2] = "mysql" THEN {} ELSE schemas
               /\ tables'  = IF g[2] = "mysql" THEN {} ELSE tables
               /\ UNCHANGED <<dbSetupMu, imported, locals>>
      BY <3>2
    <3> QED BY <2>2, <3>1, <3>2 DEF removeContainer
  <2>3. CASE createFresh(g) \/ startStopped(g) \/ poll(g)
    BY <2>3 DEF createFresh, startStopped, poll
  <2> QED BY <2>1, <2>2, <2>3 DEF ensureDockerContainer
<1>3. HasProject'
  BY <1>1, <1>2 DEF HasProject, Main, WipeInv, Typed
<1>4. DataTyped'
  BY <1>2 DEF DataTyped
<1>5. LocalsTyped'
  BY <1>2 DEF LocalsTyped
<1> QED BY <1>3, <1>4, <1>5

LEMMA CallTypes ==
  ASSUME TypeInv, NEW c \in Calls, Request(c) \/ Call(c)
  PROVE  HasProject' /\ DataTyped' /\ LocalsTyped'
<1> USE DEF TypeInv
<1>0. pc \in [Calls \X Services -> Labels] /\ \A d \in Calls : Main(d) \in Calls \X Services
  BY DEF WipeInv, Typed, Main, Services
<1>1. CASE Request(c)
  <2>1. PICK q \in Projects, d \in BOOLEAN :
          /\ \E to : pc' = [pc EXCEPT ![Main(c)] = to]
          /\ project' = [project EXCEPT ![c] = q]
          /\ deploys' = [deploys EXCEPT ![c] = d]
    BY <1>1 DEF Request, Goto
  <2>2. HasProject'
    BY <1>0, <2>1 DEF HasProject, Main, LocalsTyped
  <2> QED BY <1>1, <2>1, <2>2 DEF Request, world, DataTyped, LocalsTyped
<1>2. ASSUME NEW from, EndCall(c, from) PROVE HasProject' /\ DataTyped' /\ LocalsTyped'
  <2>1. HasProject'
    BY <1>0, <1>2 DEF EndCall, Goto, HasProject, Main, LocalsTyped
  <2>2. DataTyped'
    BY <1>2 DEF EndCall, world, DataTyped
  <2>3. LocalsTyped'
    BY <1>2, FilesAssumption DEF EndCall, LocalsTyped
  <2> QED BY <2>1, <2>2, <2>3
<1>3. ASSUME pc[Main(c)] # "idle", \A d \in Calls : d # c => pc'[Main(d)] = pc[Main(d)],
             UNCHANGED project
      PROVE  HasProject'
  BY <1>3 DEF HasProject
<1>4. ASSUME NEW from, NEW to, from # "idle", Goto(Main(c), from, to), UNCHANGED project
      PROVE  HasProject'
  <2>1. \A d \in Calls : d # c => pc'[Main(d)] = pc[Main(d)]
    BY <1>0, <1>4 DEF Goto, Main
  <2> QED BY <1>3, <1>4, <2>1 DEF Goto
<1>5. ASSUME NEW svc \in Sides, NEW from, NEW to, from # "idle", Spawn(c, svc, from, to),
             UNCHANGED project
      PROVE  HasProject'
  <2>1. \A d \in Calls : d # c => pc'[Main(d)] = pc[Main(d)]
    BY <1>0, <1>5 DEF Spawn, Main, Sides, Services
  <2> QED BY <1>3, <1>5, <2>1 DEF Spawn
<1>6. CASE begin(c)
  <2>1. CASE EndCall(c, "begin")
    BY <1>2, <2>1
  <2>2. CASE Spawn(c, "redis", "begin", "lock") /\ UNCHANGED <<world, dbSetupMu, imported, locals>>
    BY <1>5, <2>2 DEF Sides, Services, world, locals, DataTyped, LocalsTyped
  <2> QED BY <1>6, <2>1, <2>2 DEF begin
<1>7. CASE lock(c)
  <2>1. HasProject'
    BY <1>5, <1>7 DEF lock, Sides, Services, locals
  <2> QED BY <1>7, <2>1 DEF lock, world, locals, DataTyped, LocalsTyped
<1>8. CASE dropSchema(c) \/ createSchema(c) \/ importSQLFiles(c)
  <2>1. project[c] \in Projects /\ Schema(c) \in Schemas
    BY <1>8 DEF dropSchema, createSchema, importSQLFiles, Fail, Abort, Goto, HasProject, Schema, Schemas
  <2>2. CASE dropSchema(c)
    <3>1. HasProject'
      BY <1>4, <2>2 DEF dropSchema, locals
    <3>2. DataTyped'
      BY <2>2 DEF dropSchema, DataTyped
    <3> QED BY <2>2, <3>1, <3>2 DEF dropSchema, locals, LocalsTyped
  <2>3. CASE createSchema(c)
    <3>1. HasProject'
      BY <1>4, <2>3 DEF createSchema, Fail, Abort, locals
    <3>2. DataTyped'
      BY <2>1, <2>3 DEF createSchema, Fail, world, DataTyped
    <3> QED BY <2>3, <3>1, <3>2 DEF createSchema, Fail, Abort, Main, locals, LocalsTyped
  <2>4. CASE importSQLFiles(c)
    <3>1. HasProject'
      BY <1>4, <2>4 DEF importSQLFiles, Abort
    <3>2. next[c] \in 1 .. Files
      BY DEF LocalsTyped
    <3>3. DataTyped'
      <4>1. CASE TablesAppear(c)
        BY <2>1, <3>2, <4>1 DEF TablesAppear, DataTyped, Schema
      <4>2. CASE UNCHANGED world
        BY <4>2 DEF world, DataTyped
      <4> QED BY <2>4, <4>1, <4>2 DEF importSQLFiles
    <3>4. LocalsTyped'
      <4>1. CASE Abort(Main(c), "import")
        BY <4>1 DEF Abort, Main, LocalsTyped
      <4>2. CASE ~Abort(Main(c), "import")
        <5>1. /\ imported' \in {imported, imported \cup {project[c]}}
              /\ next' = next \/ (next[c] # Files /\ next' = [next EXCEPT ![c] = @ + 1])
              /\ UNCHANGED <<dbSetupMu, project, deploys, ok>>
          BY <2>4, <4>2 DEF importSQLFiles, IsLast
        <5>2. next' \in [Calls -> 1 .. Files]
          BY <3>2, <5>1, FilesAssumption DEF LocalsTyped
        <5> QED BY <2>1, <5>1, <5>2 DEF LocalsTyped
      <4> QED BY <4>1, <4>2
    <3> QED BY <3>1, <3>3, <3>4
  <2> QED BY <1>8, <2>2, <2>3, <2>4
<1>9. CASE ensureMySQLAppUser(c) \/ rewriteProperties(c)
  <2>1. HasProject'
    BY <1>4, <1>9 DEF ensureMySQLAppUser, rewriteProperties, Proceed, Fail, Abort, locals
  <2>2. DataTyped'
    BY <1>9 DEF ensureMySQLAppUser, rewriteProperties, Proceed, Fail, world, DataTyped
  <2>3. LocalsTyped'
    BY <1>9 DEF ensureMySQLAppUser, rewriteProperties, Proceed, Fail, Abort, Main, locals, LocalsTyped
  <2> QED BY <2>1, <2>2, <2>3
<1>10. CASE unlock(c)
  <2>1. HasProject'
    BY <1>4, <1>10 DEF unlock, locals
  <2> QED BY <1>10, <2>1 DEF unlock, world, locals, DataTyped, LocalsTyped
<1>11. CASE finish(c)
  <2>1. CASE Proceed(Main(c), "redis", "rebuild")
    <3>1. HasProject'
      BY <1>4, <2>1 DEF Proceed, locals
    <3> QED BY <2>1, <3>1 DEF Proceed, world, locals, DataTyped, LocalsTyped
  <2> QED BY <1>2, <1>11, <2>1 DEF finish
<1>12. CASE rebuild(c)
  BY <1>2, <1>12 DEF rebuild
<1> QED BY <1>1, <1>6, <1>7, <1>8, <1>9, <1>10, <1>11, <1>12 DEF Call

LEMMA TypesHold == Spec => []TypeInv
<1>1. Init => TypeInv
  <2> SUFFICES ASSUME Init PROVE TypeInv
    OBVIOUS
  <2>1. HasProject
    BY DEF Init, HasProject, Main, Services
  <2>2. DataTyped /\ LocalsTyped
    BY FilesAssumption DEF Init, DataTyped, LocalsTyped
  <2> QED BY <2>1, <2>2, WipeInit DEF TypeInv
<1>2. TypeInv /\ [Next]_vars => TypeInv'
  <2> SUFFICES ASSUME TypeInv, [Next]_vars PROVE HasProject' /\ DataTyped' /\ LocalsTyped'
    BY WipeStep DEF TypeInv
  <2>1. CASE UNCHANGED vars
    BY <2>1 DEF vars, world, locals, TypeInv, HasProject, DataTyped, LocalsTyped
  <2>2. ASSUME NEW svc \in Services, Ends(svc) PROVE HasProject' /\ DataTyped' /\ LocalsTyped'
    BY <2>2 DEF Ends, locals, TypeInv, HasProject, DataTyped, LocalsTyped
  <2> QED BY <2>1, <2>2, ContainerTypes, CallTypes DEF Next
<1> QED BY <1>1, <1>2, PTL DEF Spec

(* Every variable keeps its type, for any layouts, scripts and number of    *)
(* calls; in particular no table is ever left outside a schema, whatever    *)
(* drops, removals and imports do.                                          *)
THEOREM TypeCorrect == Spec => []TypeOK
<1>1. TypeInv => TypeOK
  BY DEF TypeInv, WipeInv, Typed, States, Labels, Critical, DataTyped, LocalsTyped, TypeOK
<1> QED BY <1>1, TypesHold, PTL

-----------------------------------------------------------------------------
(* The scripts of a call in its import.  Those before `next` have their     *)
(* tables, and `next` is the first script until the import begins: "user"   *)
(* comes before it for all kinds but "self".                                *)
Fresh ==
  \A c \in Calls :
    (\/ pc[Main(c)] \notin {"user", "import", "config", "unlock", "redis", "rebuild"}
     \/ pc[Main(c)] = "user" /\ Kind(c) # "self")
      => next[c] = 1

Loaded ==
  \A c \in Calls : pc[Main(c)] = "import"
    => \A f \in 1 .. Files : f < next[c] => <<project[c], f>> \in tables

ImportInv == Fresh /\ Loaded

LEMMA ImportInit == Init => ImportInv
BY DEF Init, ImportInv, Fresh, Loaded, Main, Services

(* A step of one call, if the others are where they were and it is the one  *)
(* that holds dbSetupMu or leaves the tables alone. *)
LEMMA ImportOf ==
  ASSUME TypeInv, ImportInv, NEW c \in Calls,
         \A d \in Calls \ {c} : pc'[Main(d)] = pc[Main(d)]
                                /\ project'[d] = project[d] /\ next'[d] = next[d],
         pc[Main(c)] \in Critical \/ tables' = tables,
         (\/ pc'[Main(c)] \notin {"user", "import", "config", "unlock", "redis", "rebuild"}
          \/ pc'[Main(c)] = "user" /\ Kind(c)' # "self") => next'[c] = 1,
         pc'[Main(c)] = "import"
           => \A f \in 1 .. Files : f < next'[c] => <<project'[c], f>> \in tables'
  PROVE  ImportInv'
<1>1. Fresh'
  <2> SUFFICES ASSUME NEW d \in Calls, d # c,
                      \/ pc'[Main(d)] \notin {"user", "import", "config", "unlock", "redis", "rebuild"}
                      \/ pc'[Main(d)] = "user" /\ Kind(d)' # "self"
               PROVE  next'[d] = 1
    BY DEF Fresh
  <2>1. Kind(d)' = Kind(d)
    BY DEF Kind
  <2> QED BY <2>1 DEF ImportInv, Fresh
<1>2. Loaded'
  <2> SUFFICES ASSUME NEW d \in Calls, d # c, pc'[Main(d)] = "import",
                      NEW f \in 1 .. Files, f < next'[d]
               PROVE  <<project'[d], f>> \in tables'
    BY DEF Loaded
  <2>1. pc[Main(d)] = "import"
    OBVIOUS
  <2>2. pc[Main(c)] \notin Critical
    BY <2>1 DEF TypeInv, WipeInv, Exclusive, Critical
  <2> QED BY <2>1, <2>2 DEF ImportInv, Loaded
<1> QED BY <1>1, <1>2 DEF ImportInv

LEMMA ImportContainer ==
  ASSUME TypeInv, ImportInv, NEW g \in Calls \X Services, ensureDockerContainer(g)
  PROVE  ImportInv'
<1> USE DEF TypeInv, WipeInv
<1>1. PICK to \in Labels : pc' = [pc EXCEPT ![g] = to]
  BY ContainerStep
<1>2. UNCHANGED <<project, next>>
  BY DEF ensureDockerContainer, inspect, readStatus, readExitCode, removeContainer, createFresh,
     startStopped, poll, Becomes, Proceed, Fail, Abort, world, locals
<1>3. CASE g[2] # "mysql"
  <2>1. \A d \in Calls : pc'[Main(d)] = pc[Main(d)]
    BY <1>1, <1>3 DEF Typed, Main, Services
  <2>2. tables' = tables
    BY <1>3 DEF ensureDockerContainer, inspect, readStatus, readExitCode, removeContainer,
       createFresh, startStopped, poll, Becomes, Proceed, Fail, world
  <2>3. \A d \in Calls : Kind(d)' = Kind(d)
    BY <1>2 DEF Kind
  <2> QED BY <1>2, <2>1, <2>2, <2>3 DEF ImportInv, Fresh, Loaded
<1>4. ASSUME NEW c \in Calls, g = Main(c) PROVE ImportInv'
  <2>1. pc[g] \in {"inspect", "status", "exitcode", "rm", "create", "start", "poll"}
    BY DEF ensureDockerContainer, inspect, readStatus, readExitCode, removeContainer, createFresh,
       startStopped, poll, Becomes, Proceed, Fail, Abort, Goto
  <2>2. pc'[g] # "user"
    <3> USE <1>4 DEF Goto, Proceed, Fail, Abort, Becomes, Typed
    <3>1. CASE inspect(g) \/ readStatus(g) \/ readExitCode(g) \/ removeContainer(g)
      BY <3>1 DEF inspect, readStatus, readExitCode, removeContainer
    <3>2. CASE createFresh(g) \/ startStopped(g)
      BY <3>2 DEF createFresh, startStopped
    <3>3. CASE poll(g)
      BY <3>3 DEF poll, Provision
    <3> QED BY <3>1, <3>2, <3>3 DEF ensureDockerContainer
  <2>3. next[c] = 1
    BY <1>4, <2>1 DEF ImportInv, Fresh
  <2>4. \A d \in Calls \ {c} : pc'[Main(d)] = pc[Main(d)]
    BY <1>1, <1>4 DEF Typed, Main, Services
  <2>5. pc[Main(c)] \in Critical
    BY <1>4, <2>1 DEF Critical
  <2> QED BY <1>2, <1>4, <2>2, <2>3, <2>4, <2>5, ImportOf
<1> QED
  <2>1. g[2] = "mysql" => g[1] \in Calls /\ g = Main(g[1])
    BY DEF Main
  <2> QED BY <1>3, <1>4, <2>1

LEMMA ImportCall ==
  ASSUME TypeInv, ImportInv, NEW c \in Calls, Request(c) \/ Call(c)
  PROVE  ImportInv'
<1> USE DEF TypeInv, LocalsTyped, Goto
<1>0. /\ pc \in [Calls \X Services -> Labels]
      /\ \A d \in Calls : Main(d) \in Calls \X Services
      /\ \A d \in Calls \ {c} : Main(d) # Main(c)
      /\ \A d \in Calls, svc \in Sides : Main(d) # <<c, svc>>
  BY DEF WipeInv, Typed, Main, Services, Sides
<1>1. ASSUME NEW from, EndCall(c, from) PROVE ImportInv'
  <2>1. /\ \A d \in Calls \ {c} : pc'[Main(d)] = pc[Main(d)]
                                  /\ project'[d] = project[d] /\ next'[d] = next[d]
        /\ tables' = tables /\ pc'[Main(c)] = "idle" /\ next'[c] = 1
    BY <1>0, <1>1 DEF EndCall, world
  <2> QED BY <2>1, ImportOf
<1>2. ASSUME NEW to \in {"unlock", "redis", "rebuild", "config"}, pc' = [pc EXCEPT ![Main(c)] = to],
             UNCHANGED project, \A d \in Calls \ {c} : next'[d] = next[d],
             pc[Main(c)] \in Critical \/ tables' = tables
      PROVE  ImportInv'
  <2>1. \A d \in Calls \ {c} : pc'[Main(d)] = pc[Main(d)]
    BY <1>0, <1>2
  <2>2. pc'[Main(c)] = to
    BY <1>0, <1>2
  <2> QED BY <1>2, <2>1, <2>2, ImportOf
<1>3. ASSUME NEW to, pc' = [pc EXCEPT ![Main(c)] = to], UNCHANGED <<project, next>>, next[c] = 1,
             pc[Main(c)] \in Critical \/ tables' = tables
      PROVE  ImportInv'
  <2>1. \A d \in Calls \ {c} : pc'[Main(d)] = pc[Main(d)]
    BY <1>0, <1>3
  <2> QED BY <1>3, <2>1, ImportOf
<1>4. ASSUME NEW from, Fail(Main(c), from) \/ Abort(Main(c), from), from \in Critical PROVE ImportInv'
  BY <1>2, <1>4 DEF Fail, Abort, Main
<1>5. CASE Request(c)
  <2>1. /\ \A d \in Calls \ {c} : pc'[Main(d)] = pc[Main(d)]
                                  /\ project'[d] = project[d] /\ next'[d] = next[d]
        /\ tables' = tables /\ pc[Main(c)] = "idle" /\ pc'[Main(c)] \in {"lock", "begin"}
        /\ next' = next
    BY <1>0, <1>5 DEF Request, world
  <2>2. next'[c] = 1
    BY <2>1 DEF ImportInv, Fresh
  <2> QED BY <2>1, <2>2, ImportOf
<1>6. CASE begin(c)
  <2>1. CASE EndCall(c, "begin")
    BY <1>1, <2>1
  <2>2. CASE Spawn(c, "redis", "begin", "lock") /\ UNCHANGED <<world, dbSetupMu, imported, locals>>
    <3>1. /\ \A d \in Calls \ {c} : pc'[Main(d)] = pc[Main(d)]
          /\ pc[Main(c)] = "begin" /\ pc'[Main(c)] = "lock"
      BY <1>0, <2>2 DEF Spawn, Sides, Services, Main
    <3>2. next[c] = 1
      BY <3>1 DEF ImportInv, Fresh
    <3> QED BY <2>2, <3>1, <3>2, ImportOf DEF world, locals
  <2> QED BY <1>6, <2>1, <2>2 DEF begin
<1>7. CASE lock(c)
  <2>1. /\ \A d \in Calls \ {c} : pc'[Main(d)] = pc[Main(d)]
        /\ pc[Main(c)] = "lock" /\ pc'[Main(c)] = "inspect"
    BY <1>0, <1>7 DEF lock, Spawn, Sides, Services, Main
  <2>2. next[c] = 1
    BY <2>1 DEF ImportInv, Fresh
  <2> QED BY <1>7, <2>1, <2>2, ImportOf DEF lock, world, locals
<1>8. CASE dropSchema(c)
  <2>1. pc[Main(c)] = "drop" /\ next[c] = 1
    BY <1>8 DEF dropSchema, ImportInv, Fresh
  <2> QED BY <1>3, <1>8, <2>1 DEF dropSchema, locals, Critical
<1>9. CASE createSchema(c)
  <2>1. pc[Main(c)] = "schema" /\ next[c] = 1
    BY <1>9 DEF createSchema, Fail, Abort, ImportInv, Fresh
  <2> QED BY <1>3, <1>4, <1>9, <2>1 DEF createSchema, locals, Critical
<1>10. CASE ensureMySQLAppUser(c)
  <2>1. CASE Fail(Main(c), "user")
    BY <1>4, <2>1 DEF Critical
  <2>2. CASE Kind(c) = "self" /\ Proceed(Main(c), "user", "unlock")
    BY <1>2, <2>2 DEF Proceed, world, locals
  <2>3. CASE Kind(c) # "self" /\ Proceed(Main(c), "user", "import")
    <3>1. next[c] = 1
      BY <2>3 DEF Proceed, ImportInv, Fresh
    <3> QED BY <1>3, <2>3, <3>1 DEF Proceed, world, locals
  <2> QED BY <1>10, <2>1, <2>2, <2>3 DEF ensureMySQLAppUser
<1>11. CASE importSQLFiles(c)
  <2>1. CASE Abort(Main(c), "import")
    BY <1>4, <2>1 DEF Critical
  <2>2. CASE ~Abort(Main(c), "import")
    <3>1. /\ pc[Main(c)] = "import" /\ UNCHANGED project
          /\ pc' = [pc EXCEPT ![Main(c)] = IF IsLast(next[c]) THEN AfterImport(c) ELSE "import"]
          /\ tables' = tables \cup {<<project[c], next[c]>>}
          /\ next' = IF IsLast(next[c]) THEN next ELSE [next EXCEPT ![c] = @ + 1]
      BY <1>11, <2>2 DEF importSQLFiles, TablesAppear
    <3>2. \A d \in Calls \ {c} : pc'[Main(d)] = pc[Main(d)] /\ next'[d] = next[d]
      BY <1>0, <3>1
    <3>3. pc[Main(c)] \in Critical
      BY <3>1 DEF Critical
    <3>4. CASE IsLast(next[c])
      <4>1. CASE Kind(c) = "self"
        <5>1. pc'[Main(c)] = "user" /\ Kind(c)' = "self"
          BY <1>0, <3>1, <3>4, <4>1 DEF AfterImport, Kind
        <5> QED BY <3>1, <3>2, <3>3, <5>1, ImportOf
      <4>2. CASE Kind(c) # "self"
        BY <1>2, <3>1, <3>2, <3>3, <3>4, <4>2 DEF AfterImport
      <4> QED BY <4>1, <4>2
    <3>5. CASE ~IsLast(next[c])
      <4>1. pc'[Main(c)] = "import" /\ next'[c] = next[c] + 1 /\ next[c] \in 1 .. Files
        BY <1>0, <3>1, <3>5
      <4>2. \A f \in 1 .. Files : f < next'[c] => <<project'[c], f>> \in tables'
        <5> TAKE f \in 1 .. Files
        <5> HAVE f < next'[c]
        <5>1. CASE f = next[c]
          BY <3>1, <5>1
        <5>2. CASE f # next[c]
          BY <3>1, <4>1, <5>2, FilesAssumption DEF ImportInv, Loaded
        <5> QED BY <5>1, <5>2
      <4> QED BY <3>1, <3>2, <3>3, <4>1, <4>2, ImportOf
    <3> QED BY <3>4, <3>5
  <2> QED BY <2>1, <2>2
<1>12. CASE rewriteProperties(c)
  <2>1. CASE Proceed(Main(c), "config", "unlock")
    BY <1>2, <2>1 DEF Proceed, world, locals
  <2>2. CASE Fail(Main(c), "config")
    BY <1>4, <2>2 DEF Critical
  <2> QED BY <1>12, <2>1, <2>2 DEF rewriteProperties
<1>13. CASE unlock(c)
  BY <1>2, <1>13 DEF unlock, world, locals
<1>14. CASE finish(c)
  <2>1. CASE Proceed(Main(c), "redis", "rebuild")
    BY <1>2, <2>1 DEF Proceed, world, locals
  <2> QED BY <1>1, <1>14, <2>1 DEF finish
<1>15. CASE rebuild(c)
  BY <1>1, <1>15 DEF rebuild
<1> QED BY <1>5, <1>6, <1>7, <1>8, <1>9, <1>10, <1>11, <1>12, <1>13, <1>14, <1>15 DEF Call

(* A setup that gets through its import without an error leaves every       *)
(* script of its project in MySQL, whatever other calls and containers do   *)
(* in the meantime: the action property NoScriptMissing, for every layout,  *)
(* number of scripts and number of calls. *)
THEOREM ImportComplete == Spec => NoScriptMissing
<1> DEFINE Complete == \A c \in Calls :
                         (pc[Main(c)] = "import" /\ pc'[Main(c)] # "import" /\ ok'[c])
                           => Scripts(project[c]) \subseteq tables'
<1>1. TypeInv /\ ImportInv /\ [Next]_vars => ImportInv'
  <2> SUFFICES ASSUME TypeInv, ImportInv, [Next]_vars PROVE ImportInv'
    OBVIOUS
  <2>1. CASE UNCHANGED vars
    BY <2>1 DEF vars, world, locals, ImportInv, Fresh, Loaded, Kind
  <2>2. ASSUME NEW svc \in Services, Ends(svc) PROVE ImportInv'
    BY <2>2 DEF Ends, locals, ImportInv, Fresh, Loaded, Kind
  <2> QED BY <2>1, <2>2, ImportContainer, ImportCall DEF Next
<1>2. TypeInv /\ ImportInv /\ [Next]_vars => [Complete]_vars
  <2> SUFFICES ASSUME TypeInv, ImportInv, Next, NEW c \in Calls, pc[Main(c)] = "import",
                      pc'[Main(c)] # "import", ok'[c]
               PROVE  Scripts(project[c]) \subseteq tables'
    OBVIOUS
  <2>0. /\ pc \in [Calls \X Services -> Labels]
        /\ Main(c) \in Calls \X Services
        /\ \A d \in Calls, svc \in Sides : Main(c) # <<d, svc>>
        /\ \A d \in Calls : Main(d) = Main(c) => d = c
    BY DEF TypeInv, WipeInv, Typed, Main, Services, Sides
  <2>1. ASSUME NEW svc \in Services, Ends(svc) PROVE FALSE
    BY <2>1 DEF Ends
  <2>2. ASSUME NEW g \in Calls \X Services, ensureDockerContainer(g) PROVE FALSE
    <3>1. \E to \in Labels : pc' = [pc EXCEPT ![g] = to]
      BY <2>2, ContainerStep DEF TypeInv, WipeInv
    <3>2. g = Main(c)
      BY <2>0, <3>1
    <3> QED BY <2>2, <3>2 DEF ensureDockerContainer, inspect, readStatus, readExitCode,
            removeContainer, createFresh, startStopped, poll, Becomes, Proceed, Fail, Abort, Goto
  <2>3. PICK d \in Calls : Request(d) \/ Call(d)
    BY <2>1, <2>2 DEF Next
  <2>4. d = c
    <3>1. pc'[Main(c)] = pc[Main(c)] \/ d = c
      BY <2>0, <2>3 DEF Request, Call, begin, lock, dropSchema, createSchema, ensureMySQLAppUser,
         importSQLFiles, rewriteProperties, unlock, finish, rebuild, Spawn, EndCall, Proceed, Fail,
         Abort, Goto, Sides, Services
    <3> QED BY <3>1
  <2>5. importSQLFiles(c)
    BY <2>3, <2>4 DEF Request, Call, begin, lock, dropSchema, createSchema, ensureMySQLAppUser,
       rewriteProperties, unlock, finish, rebuild, Spawn, EndCall, Proceed, Fail, Abort, Goto
  <2>6. ~Abort(Main(c), "import")
    BY DEF Abort, Main, TypeInv, LocalsTyped
  <2>7. next[c] = Files /\ tables' = tables \cup {<<project[c], next[c]>>}
    BY <2>0, <2>5, <2>6 DEF importSQLFiles, TablesAppear, IsLast, Goto
  <2>8. ASSUME NEW f \in 1 .. Files PROVE <<project[c], f>> \in tables'
    <3>1. CASE f = Files
      BY <2>7, <3>1
    <3>2. CASE f # Files
      BY <2>7, <2>8, <3>2, FilesAssumption DEF ImportInv, Loaded
    <3> QED BY <3>1, <3>2
  <2> QED BY <2>8 DEF Scripts
<1> QED BY <1>1, <1>2, ImportInit, TypesHold, PTL DEF Spec, NoScriptMissing

=============================================================================
