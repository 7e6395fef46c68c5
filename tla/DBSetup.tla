------------------------------- MODULE DBSetup -------------------------------
(***************************************************************************)
(* The databases of the targets: SetupDB and RunWAR start the shared       *)
(* containers (MySQL for all, Redis and RabbitMQ for some), make the       *)
(* project's schema in MySQL and import its scripts, all of it under       *)
(* dbSetupMu except Redis.                                                 *)
(*                                                                         *)
(* A call has up to three goroutines, named after the container each       *)
(* starts: <<c, "mysql">> is the one that runs setupDB or runWAR.  Every   *)
(* docker command is one step.  The status the job shows meanwhile is left *)
(* out: nothing here reads it.                                             *)
(***************************************************************************)
EXTENDS Integers

CONSTANTS
  Calls,    \* concurrent SetupDB and RunWAR calls
  Projects, \* projects with a database
  Layout,   \* what each project needs: kind, schema, side containers
  Files,    \* the number of scripts of a project
  Nobody    \* no call, no project

Services == {"mysql", "redis", "rabbit"}
Sides    == Services \ {"mysql"}
Kinds    == {"war", "script", "compose", "self", "bootprops"}

(* "self" is a compose project whose scripts create their own databases; *)
(* only the compose kinds come with side containers.                     *)
ASSUME LayoutAssumption ==
  \A p \in Projects :
    /\ Layout[p].kind \in Kinds
    /\ Layout[p].sides \in SUBSET Sides
    /\ "redis" \in Layout[p].sides => Layout[p].kind \in {"compose", "self"}
    /\ "rabbit" \in Layout[p].sides => Layout[p].kind = "self"
ASSUME FilesAssumption == Files \in Nat \ {0} /\ Nobody \notin Calls \cup Projects

Schemas    == {Layout[p].schema : p \in Projects}
Scripts(p) == {p} \X (1 .. Files)

VARIABLES
  container, \* the state Docker reports of each container
  schemas,   \* the schemas in MySQL
  tables,    \* the scripts that have left tables in them
  dbSetupMu, \* the call that holds dbSetupMu
  imported,  \* history: the "script" projects whose import was once complete
  pc,        \* where each goroutine is
  project,   \* the project of each call
  deploys,   \* whether the call is a RunWAR
  ok,        \* the local err: no step of the call has failed
  next       \* the script the call imports next

world  == <<container, schemas, tables>>
locals == <<project, deploys, ok, next>>
vars   == <<world, dbSetupMu, imported, pc, locals>>

TypeOK ==
  /\ container \in [Services -> {"absent", "created", "running", "exited", "crashed"}]
  /\ schemas \in SUBSET Schemas
  /\ tables \in SUBSET (Projects \X (1 .. Files))
  /\ \A t \in tables : Layout[t[1]].schema \in schemas
  /\ dbSetupMu \in Calls \cup {Nobody}
  /\ imported \in SUBSET Projects
  /\ pc \in [Calls \X Services ->
               {"idle", "begin", "lock", "inspect", "status", "exitcode", "rm", "create",
                "start", "poll", "drop", "schema", "user", "import", "config", "unlock",
                "redis", "rebuild"}]
  /\ project \in [Calls -> Projects \cup {Nobody}]
  /\ deploys \in [Calls -> BOOLEAN]
  /\ ok \in [Calls -> BOOLEAN]
  /\ next \in [Calls -> 1 .. Files]

(* The MySQL container may be there from an earlier session. *)
Init ==
  /\ \E s \in {"absent", "exited"} :
       container = [svc \in Services |-> IF svc = "mysql" THEN s ELSE "absent"]
  /\ schemas = {} /\ tables = {}
  /\ dbSetupMu = Nobody
  /\ imported = {}
  /\ pc = [g \in Calls \X Services |-> "idle"]
  /\ project = [c \in Calls |-> Nobody]
  /\ deploys = [c \in Calls |-> FALSE]
  /\ ok = [c \in Calls |-> TRUE]
  /\ next = [c \in Calls |-> 1]

-----------------------------------------------------------------------------
(* Steps of control.                                                        *)

Main(c)   == <<c, "mysql">>
Kind(c)   == Layout[project[c]].kind
Schema(c) == Layout[project[c]].schema

Goto(g, from, to) == pc[g] = from /\ pc' = [pc EXCEPT ![g] = to]
Proceed(g, from, to) ==
  /\ Goto(g, from, to)
  /\ UNCHANGED <<world, dbSetupMu, imported, locals>>

(* A failed step of the main goroutine ends the setup, which still waits    *)
(* for RabbitMQ and unlocks; one of a side goroutine is only logged.        *)
Abort(g, from) ==
  /\ Goto(g, from, IF g[2] = "mysql" THEN "unlock" ELSE "idle")
  /\ ok' = IF g[2] = "mysql" THEN [ok EXCEPT ![g[1]] = FALSE] ELSE ok
  /\ UNCHANGED <<dbSetupMu, imported, project, deploys, next>>
Fail(g, from) == Abort(g, from) /\ UNCHANGED world

Running(svc) == container[svc] = "running"

-----------------------------------------------------------------------------
(* ensureDockerContainer.                                                   *)

Becomes(g, from, to, state) ==
  /\ Goto(g, from, to)
  /\ container' = [container EXCEPT ![g[2]] = state]
  /\ UNCHANGED <<schemas, tables, dbSetupMu, imported, locals>>

(* Docker itself, and the port of a container that does not run. *)
inspect(g) ==
  \/ Fail(g, "inspect")
  \/ Proceed(g, "inspect", IF Running(g[2]) THEN "poll" ELSE "status")

(* Variant for the checks: MySQL is replaced after a crash like the others. *)
RecreateOnCrash_All(svc) == svc \in Services
RecreateOnCrash(svc)     == svc # "mysql"
readStatus(g) ==
  Proceed(g, "status",
          IF container[g[2]] = "absent" THEN "create"
          ELSE IF container[g[2]] = "created" THEN "rm"
          ELSE IF RecreateOnCrash(g[2]) THEN "exitcode" ELSE "start")
readExitCode(g) ==
  Proceed(g, "exitcode", IF container[g[2]] \in {"absent", "crashed"} THEN "rm" ELSE "start")

(* docker rm -f -v takes the data with it; nobody looks whether it works.   *)
removeContainer(g) ==
  \/ /\ Goto(g, "rm", "create")
     /\ container' = [container EXCEPT ![g[2]] = "absent"]
     /\ schemas' = IF g[2] = "mysql" THEN {} ELSE schemas
     /\ tables'  = IF g[2] = "mysql" THEN {} ELSE tables
     /\ UNCHANGED <<dbSetupMu, imported, locals>>
  \/ Proceed(g, "rm", "create")

(* docker run fails on a name that is taken, or without the image; when it  *)
(* cannot bind the port it leaves the container behind.                     *)
createFresh(g) ==
  \/ container[g[2]] = "absent" /\ Becomes(g, "create", "poll", "running")
  \/ /\ container[g[2]] = "absent"
     /\ container' = [container EXCEPT ![g[2]] = "created"]
     /\ Abort(g, "create")
     /\ UNCHANGED <<schemas, tables>>
  \/ Fail(g, "create")
startStopped(g) ==
  \/ container[g[2]] # "absent" /\ Becomes(g, "start", "poll", "running")
  \/ Fail(g, "start")

(* Until it answers, or the time is up.  What follows for MySQL depends on  *)
(* the project: the "script" layout shares its schema and keeps it, "self"  *)
(* makes its own.                                                           *)
Provision(c) ==
  IF Kind(c) = "self" THEN "import" ELSE IF Kind(c) = "script" THEN "schema" ELSE "drop"
poll(g) ==
  \/ Running(g[2]) /\ Proceed(g, "poll", IF g[2] = "mysql" THEN Provision(g[1]) ELSE "idle")
  \/ Fail(g, "poll")

ensureDockerContainer(g) ==
  \/ inspect(g) \/ readStatus(g) \/ readExitCode(g) \/ removeContainer(g)
  \/ createFresh(g) \/ startStopped(g) \/ poll(g)

-----------------------------------------------------------------------------
(* A call: SetupDB, or the part of RunWAR that provides the database.       *)

Request(c) ==
  /\ \E p \in Projects, d \in BOOLEAN :
       /\ d => Layout[p].kind \in {"war", "script"}
       /\ Goto(Main(c), "idle", IF d THEN "lock" ELSE "begin")
       /\ project' = [project EXCEPT ![c] = p]
       /\ deploys' = [deploys EXCEPT ![c] = d]
  /\ UNCHANGED <<world, dbSetupMu, imported, ok, next>>

(* The goroutine of a side container starts next to the main one. *)
Spawn(c, svc, from, to) ==
  /\ pc[Main(c)] = from
  /\ pc' = IF svc \in Layout[project[c]].sides
           THEN [pc EXCEPT ![Main(c)] = to, ![<<c, svc>>] = "inspect"]
           ELSE [pc EXCEPT ![Main(c)] = to]

EndCall(c, from) ==
  /\ Goto(Main(c), from, "idle")
  /\ project' = [project EXCEPT ![c] = Nobody]
  /\ deploys' = [deploys EXCEPT ![c] = FALSE]
  /\ ok' = [ok EXCEPT ![c] = TRUE]
  /\ next' = [next EXCEPT ![c] = 1]
  /\ UNCHANGED <<world, dbSetupMu, imported>>

(* The project may turn out to need no database, or not to be there. *)
begin(c) ==
  \/ EndCall(c, "begin")
  \/ Spawn(c, "redis", "begin", "lock") /\ UNCHANGED <<world, dbSetupMu, imported, locals>>

(* Variant for the checks: the bootprops setup does not take dbSetupMu. *)
MayEnter_NotBootProps(c) == dbSetupMu = Nobody \/ Kind(c) = "bootprops"
MayEnter(c)              == dbSetupMu = Nobody
lock(c) ==
  /\ Spawn(c, "rabbit", "lock", "inspect")
  /\ MayEnter(c)
  /\ dbSetupMu' = c
  /\ UNCHANGED <<world, imported, locals>>

(* dropCreateSchema, whose drop may fail unnoticed, and the CREATE of       *)
(* setupScriptDatabase.                                                     *)
dropSchema(c) ==
  /\ Goto(Main(c), "drop", "schema")
  /\ \/ /\ Running("mysql")
        /\ schemas' = schemas \ {Schema(c)}
        /\ tables' = {t \in tables : Layout[t[1]].schema # Schema(c)}
     \/ UNCHANGED <<schemas, tables>>
  /\ UNCHANGED <<container, dbSetupMu, imported, locals>>
createSchema(c) ==
  \/ /\ Running("mysql")
     /\ Goto(Main(c), "schema", IF Kind(c) = "bootprops" THEN "import" ELSE "user")
     /\ schemas' = schemas \cup {Schema(c)}
     /\ UNCHANGED <<container, tables, dbSetupMu, imported, locals>>
  \/ Fail(Main(c), "schema")
ensureMySQLAppUser(c) ==
  \/ /\ pc[Main(c)] = "user"
     /\ Running("mysql") \/ Kind(c) = "self" \* which may name no user
     /\ Proceed(Main(c), "user", IF Kind(c) = "self" THEN "unlock" ELSE "import")
  \/ Fail(Main(c), "user")

(* One script after the other, up to one that fails.  A script that meets   *)
(* tables of its own ("already exists") counts as imported all the same.    *)
IsLast(f)      == f = Files
AfterImport(c) ==
  IF Kind(c) = "self" THEN "user"
  ELSE IF Kind(c) \in {"war", "bootprops"} THEN "config" ELSE "unlock"
TablesAppear(c) ==
  /\ Running("mysql")
  /\ Kind(c) = "self" \/ Schema(c) \in schemas
  /\ schemas' = schemas \cup {Schema(c)}
  /\ tables' = tables \cup {<<project[c], next[c]>>}
  /\ UNCHANGED container
importSQLFiles(c) ==
  \/ /\ pc[Main(c)] = "import"
     /\ TablesAppear(c)
     /\ Goto(Main(c), "import", IF IsLast(next[c]) THEN AfterImport(c) ELSE "import")
     /\ imported' = IF IsLast(next[c]) /\ Kind(c) = "script"
                    THEN imported \cup {project[c]} ELSE imported
     /\ next' = IF IsLast(next[c]) THEN next ELSE [next EXCEPT ![c] = @ + 1]
     /\ UNCHANGED <<dbSetupMu, project, deploys, ok>>
  \/ Abort(Main(c), "import") /\ (TablesAppear(c) \/ UNCHANGED world)

(* updateAllGlobalsProperties reports nothing, the rewrite of               *)
(* application.properties may fail.                                         *)
rewriteProperties(c) ==
  \/ Proceed(Main(c), "config", "unlock")
  \/ Fail(Main(c), "config") /\ Kind(c) = "bootprops"

unlock(c) ==
  /\ pc[<<c, "rabbit">>] = "idle"
  /\ Goto(Main(c), "unlock", "redis")
  /\ dbSetupMu' = Nobody
  /\ UNCHANGED <<world, imported, locals>>

(* Only SetupDB of a war layout that worked rebuilds the project. *)
finish(c) ==
  /\ pc[Main(c)] = "redis" /\ pc[<<c, "redis">>] = "idle"
  /\ IF ~deploys[c] /\ ok[c] /\ Kind(c) = "war"
     THEN Proceed(Main(c), "redis", "rebuild")
     ELSE EndCall(c, "redis")
rebuild(c) == EndCall(c, "rebuild")

Call(c) ==
  \/ begin(c) \/ lock(c)
  \/ dropSchema(c) \/ createSchema(c) \/ ensureMySQLAppUser(c) \/ importSQLFiles(c)
  \/ rewriteProperties(c) \/ unlock(c) \/ finish(c) \/ rebuild(c)

(* A container ends or is stopped by the user. *)
Ends(svc) ==
  /\ Running(svc)
  /\ \E s \in {"exited", "crashed"} : container' = [container EXCEPT ![svc] = s]
  /\ UNCHANGED <<schemas, tables, dbSetupMu, imported, pc, locals>>

Next ==
  \/ \E c \in Calls : Request(c) \/ Call(c)
  \/ \E g \in Calls \X Services : ensureDockerContainer(g)
  \/ \E svc \in Services : Ends(svc)

Spec == Init /\ [][Next]_vars

-----------------------------------------------------------------------------
(* Properties.                                                              *)

(* The data in the MySQL container is never wiped (ensureMySQLContainer,    *)
(* "must never be wiped automatically"): a schema goes only because a setup *)
(* drops its own, although ensureDockerContainer removes containers it saw  *)
(* as never started, whose state may have changed since. *)
NeverWiped ==
  [][\A s \in schemas \ schemas' :
       \E c \in Calls : pc[Main(c)] = "drop" /\ Schema(c) = s]_vars

(* When a setup has got through its import, every script of the project has *)
(* tables in the schema, whichever other setups run against that schema:    *)
(* none of them drops it in between (dbSetupMu). *)
NoScriptMissing ==
  [][\A c \in Calls :
       (pc[Main(c)] = "import" /\ pc'[Main(c)] # "import" /\ ok'[c])
         => Scripts(project[c]) \subseteq tables']_vars

(* What setupScriptDatabase is written for: "com" is shared and a drop      *)
(* would destroy its data, so what a script project imported stays. *)
SharedDataSurvives ==
  \A p \in imported : Layout[p].kind = "script" => Scripts(p) \subseteq tables

=============================================================================
