--------------------------------- MODULE Ports ---------------------------------
(***************************************************************************)
(* The ports of the jobs: which one a run is given (findAvailablePort),    *)
(* the fixed ports of the dependency services (freePort, waitForPort), the *)
(* port a frontend is told for its backend, and the moment, later, when    *)
(* the process really takes its port.  Runs of different jobs overlap in   *)
(* any way; each job has one run at a time, as the dashboard's buttons     *)
(* allow (JobRunner is about runs of one job that overlap).                *)
(***************************************************************************)
EXTENDS Integers, FiniteSets

CONSTANTS
  Jobs,
  Base,     \* Base[j]: target.Port, where a run starts its search unless it was given a port
  Dep,      \* Dep[j]: the fixed port of a service of its chain, or 0
  Backend,  \* Backend[j]: target.BackendID, or j itself
  Range,    \* how many ports findAvailablePort tries
  MaxPort   \* the highest port (65535)

Port == 1 .. MaxPort

ASSUME CatalogAssumption ==
  /\ Base \in [Jobs -> Port] /\ Dep \in [Jobs -> Port \cup {0}]
  /\ Backend \in [Jobs -> Jobs]
  /\ Range \in Nat \ {0} /\ MaxPort \in Nat

(* The ports that a search from b tries. *)
Reach(b) == {p \in Port : b <= p /\ p < b + Range}

(* The catalog's fixed ports (8888, 8761, 19003 .. 19006, 8889, 8762, 8001) *)
(* lie outside the searches that the other targets make from their own      *)
(* ports of the catalog (8090 .. 8096, 5173, 19000, 3000).  Four of msa's    *)
(* lie in its own search, and a port given by the user may be anywhere.     *)
ASSUME FixedPortsAssumption ==
  \A j, k \in Jobs : j # k => Dep[k] \notin Reach(Base[j])

VARIABLES
  owner,   \* who listens on each port
  pc,
  basePort, \* where the last run of each job started its search
  try,     \* the port a run is trying
  found,   \* history: it could be bound, and no other run is under way since
  port,    \* job.port
  proxy,   \* the backend port a frontend was started with, 0 for none
  live     \* history: it was read from a running backend, which still is that run

vars == <<owner, pc, basePort, try, found, port, proxy, live>>

Free    == <<"nobody", "free">>
Foreign == <<"nobody", "foreign">>
(* An "old" process was told to stop and has not ended. *)
Proc    == Jobs \X {"main", "dep", "old"}

TypeOK ==
  /\ owner \in [Port -> Proc \cup {Free, Foreign}]
  /\ pc \in [Jobs -> {"idle", "probe", "record", "free", "dep", "wait", "proxy", "start",
                      "starting", "up", "deaf", "lost"}]
  /\ basePort \in [Jobs -> Port]
  /\ try \in [Jobs -> Port] /\ \A j \in Jobs : try[j] \in Reach(basePort[j])
  /\ found \in [Jobs -> BOOLEAN]
  /\ port \in [Jobs -> Port \cup {0}]
  /\ proxy \in [Jobs -> Port \cup {0}]
  /\ live \in [Jobs -> BOOLEAN]

Init ==
  /\ owner = [p \in Port |-> Free]
  /\ pc = [j \in Jobs |-> "idle"]
  /\ basePort = Base
  /\ try = Base
  /\ found = [j \in Jobs |-> FALSE]
  /\ port = [j \in Jobs |-> 0]
  /\ proxy = [j \in Jobs |-> 0]
  /\ live = [j \in Jobs |-> FALSE]

Goto(j, from, to) == pc[j] = from /\ pc' = [pc EXCEPT ![j] = to]
Released(procs) == [p \in Port |-> IF owner[p] \in procs THEN Free ELSE owner[p]]

(* What the dashboard shows as running: set when the process was started. *)
Running(j) == pc[j] \in {"starting", "up", "deaf"}
OthersSettled(j) == \A k \in Jobs \ {j} : pc[k] \in {"idle", "up", "deaf", "lost"}

-----------------------------------------------------------------------------
(* A run: its port.                                                         *)

(* The run starts its search at the port the user gave, any one there is,   *)
(* or at that of the catalog.                                               *)
request(j) ==
  /\ pc[j] \in {"idle", "lost"}
  /\ pc' = [pc EXCEPT ![j] = "probe"]
  /\ \E customPort \in Port \cup {0} :
       LET b == IF customPort > 0 THEN customPort ELSE Base[j] IN
       basePort' = [basePort EXCEPT ![j] = b] /\ try' = [try EXCEPT ![j] = b]
  /\ live' = [k \in Jobs |-> live[k] /\ Backend[k] # j /\ k # j]
  /\ found' = [k \in Jobs |-> FALSE]
  /\ UNCHANGED <<owner, port, proxy>>

(* Variant for the checks: the port asked for is taken without a look. *)
probe_Trusts(j) ==
  /\ Goto(j, "probe", "record")
  /\ found' = [found EXCEPT ![j] = OthersSettled(j)]
  /\ UNCHANGED <<owner, basePort, try, port, proxy, live>>

(* findAvailablePort: the first port that can be bound, or the one asked    *)
(* for when none of them can; above the highest port none can.  The probe   *)
(* is closed again.                                                         *)
probe(j) ==
  /\ pc[j] = "probe"
  /\ \/ /\ owner[try[j]] = Free
        /\ pc' = [pc EXCEPT ![j] = "record"]
        /\ found' = [found EXCEPT ![j] = OthersSettled(j)]
        /\ UNCHANGED try
     \/ /\ owner[try[j]] # Free /\ try[j] + 1 \in Reach(basePort[j])
        /\ try' = [try EXCEPT ![j] = @ + 1]
        /\ UNCHANGED <<pc, found>>
     \/ /\ owner[try[j]] # Free /\ try[j] + 1 \notin Reach(basePort[j])
        /\ try' = [try EXCEPT ![j] = basePort[j]]
        /\ pc' = [pc EXCEPT ![j] = "record"]
        /\ UNCHANGED found
  /\ UNCHANGED <<owner, basePort, port, proxy, live>>

record(j) ==
  /\ Goto(j, "record", IF Dep[j] > 0 THEN "free" ELSE "proxy")
  /\ port' = [port EXCEPT ![j] = try[j]]
  /\ try' = [try EXCEPT ![j] = basePort[j]]
  /\ UNCHANGED <<owner, basePort, found, proxy, live>>

-----------------------------------------------------------------------------
(* A run: the service with a fixed port.                                    *)

(* kill -9 to whoever listens on p; a run whose process it was is lost. *)
Killed(j, p) ==
  /\ pc[j] = "free"
  /\ pc' = [k \in Jobs |-> IF k = j THEN "dep" ELSE IF owner[p] = <<k, "main">> THEN "lost" ELSE pc[k]]
  /\ owner' = [Released({<<k, "dep">> : k \in {k \in Jobs : owner[p] = <<k, "main">>}})
                 EXCEPT ![p] = Free]
  /\ UNCHANGED <<basePort, try, found, port, proxy, live>>

(* Variant for the checks: the port of the run is freed, not the service's. *)
freePort_Own(j) == Killed(j, port[j])

(* freePort kills whoever listens there. *)
freePort(j) == Killed(j, Dep[j])

startDep(j) ==
  /\ Goto(j, "dep", "wait")
  /\ UNCHANGED <<owner, basePort, try, found, port, proxy, live>>

(* The service takes its port, soon or late, or finds it taken and ends. *)
depBinds(j) ==
  /\ Dep[j] > 0
  /\ pc[j] \in {"wait", "proxy", "start", "starting", "up", "deaf"}
  /\ owner[Dep[j]] = Free
  /\ owner' = [owner EXCEPT ![Dep[j]] = <<j, "dep">>]
  /\ UNCHANGED <<pc, basePort, try, found, port, proxy, live>>

(* waitForPort: somebody listens there, or the time is up. *)
waitForPort(j) ==
  /\ Goto(j, "wait", "proxy")
  /\ UNCHANGED <<owner, basePort, try, found, port, proxy, live>>

-----------------------------------------------------------------------------
(* A run: its process.                                                      *)

(* Variant for the checks: the backend is always looked for on its default. *)
readBackend_Default(j) ==
  /\ Goto(j, "proxy", "start")
  /\ IF Backend[j] = j THEN UNCHANGED <<proxy, live>>
     ELSE /\ live' = [live EXCEPT ![j] = Running(Backend[j])]
          /\ proxy' = [proxy EXCEPT ![j] = Base[Backend[j]]]
  /\ UNCHANGED <<owner, basePort, try, found, port>>

(* A frontend is told the port of its backend when that is shown as         *)
(* running, and the backend's default otherwise.                            *)
readBackend(j) ==
  /\ Goto(j, "proxy", "start")
  /\ IF Backend[j] = j THEN UNCHANGED <<proxy, live>>
     ELSE LET b == Backend[j] IN
          /\ live' = [live EXCEPT ![j] = Running(b)]
          /\ proxy' = [proxy EXCEPT ![j] = IF Running(b) /\ port[b] > 0 THEN port[b] ELSE Base[b]]
  /\ UNCHANGED <<owner, basePort, try, found, port>>

startMain(j) ==
  /\ Goto(j, "start", "starting")
  /\ UNCHANGED <<owner, basePort, try, found, port, proxy, live>>

(* Variant for the checks: the process is given the port that was asked for. *)
mainBinds_Asked(j) ==
  /\ Goto(j, "starting", "up")
  /\ owner[basePort[j]] = Free
  /\ owner' = [owner EXCEPT ![basePort[j]] = <<j, "main">>]
  /\ found' = [found EXCEPT ![j] = FALSE]
  /\ UNCHANGED <<basePort, try, port, proxy, live>>

(* The process takes the port it was given in --port or PORT, SERVER_PORT,  *)
(* server.xml.  If it cannot, it ends and the services are reaped, or, as   *)
(* Tomcat does, it goes on without a port.                                  *)
mainBinds(j) ==
  /\ Goto(j, "starting", "up")
  /\ owner[port[j]] = Free
  /\ owner' = [owner EXCEPT ![port[j]] = <<j, "main">>]
  /\ found' = [found EXCEPT ![j] = FALSE]
  /\ UNCHANGED <<basePort, try, port, proxy, live>>

mainLoses(j) ==
  /\ pc[j] = "starting"
  /\ owner[port[j]] # Free
  /\ \/ pc' = [pc EXCEPT ![j] = "lost"] /\ owner' = Released({<<j, "dep">>})
     \/ pc' = [pc EXCEPT ![j] = "deaf"] /\ UNCHANGED owner
  /\ found' = [found EXCEPT ![j] = FALSE]
  /\ UNCHANGED <<basePort, try, port, proxy, live>>

(* A crash, or a Stop: the services end with it.  After a Stop they all may *)
(* keep their ports for a while, although the job can be run again.         *)
mainEnds(j) ==
  /\ pc[j] \in {"up", "deaf"}
  /\ pc' = [pc EXCEPT ![j] = "idle"]
  /\ \/ owner' = Released({<<j, "main">>, <<j, "dep">>})
     \/ owner' = [p \in Port |-> IF owner[p] \in {<<j, "main">>, <<j, "dep">>} THEN <<j, "old">>
                                 ELSE owner[p]]
  /\ UNCHANGED <<basePort, try, found, port, proxy, live>>

oldEnds(j) ==
  /\ \E p \in Port : owner[p] = <<j, "old">>
  /\ owner' = Released({<<j, "old">>})
  /\ UNCHANGED <<pc, basePort, try, found, port, proxy, live>>

(* Other programs. *)
foreign ==
  /\ \E p \in Port : \/ owner[p] = Free /\ owner' = [owner EXCEPT ![p] = Foreign]
                     \/ owner[p] = Foreign /\ owner' = [owner EXCEPT ![p] = Free]
  /\ UNCHANGED <<pc, basePort, try, found, port, proxy, live>>

-----------------------------------------------------------------------------
Run(j) == request(j) \/ probe(j) \/ record(j) \/ freePort(j) \/ startDep(j) \/ depBinds(j)
          \/ waitForPort(j) \/ readBackend(j) \/ startMain(j) \/ mainBinds(j) \/ mainLoses(j)
          \/ mainEnds(j) \/ oldEnds(j)
Next == foreign \/ \E j \in Jobs : Run(j)

Spec == Init /\ [][Next]_vars

-----------------------------------------------------------------------------
(* Properties.                                                              *)

(* freePort kills whoever listens on the fixed port of a service.  However  *)
(* the runs overlap, the main process it finds there is one that was given  *)
(* a port by the user and ended up on that fixed port: a job that runs from *)
(* the catalog's port is never killed by the run of another.                *)
MainsSurvive ==
  [][\A j \in Jobs : pc[j] = "up" /\ pc'[j] = "lost" =>
       basePort[j] # Base[j] /\ \E k \in Jobs \ {j} : port[j] = Dep[k]]_vars

(* A job that is up listens on the port it shows, and two of them never     *)
(* show the same one.                                                       *)
UpOnShownPort ==
  \A j \in Jobs : pc[j] = "up" => owner[port[j]] = <<j, "main">>

(* A frontend that was started while its backend ran has the backend's      *)
(* port, as long as the backend is not run again.                           *)
ProxyIsLive == \A j \in Jobs : live[j] => proxy[j] = port[Backend[j]]

(* README.md 22: the ports are assigned "so that targets do not collide".   *)
(* A run that found a free port while no other run was between its search   *)
(* and its start, and finds it taken at its start, lost it to another       *)
(* program, to its own service, or, if the user chose where its search      *)
(* started, to a service of another job, stopped or not; never to another   *)
(* job's main process.                                                      *)
(* Runs that are started together may be given the same port.               *)
TakenBy(j, p) == \/ owner[p] = Foreign
                 \/ owner[p] = <<j, "dep">>
                 \/ /\ basePort[j] # Base[j]
                    /\ \E k \in Jobs : p = Dep[k] /\ owner[p] \in {<<k, "dep">>, <<k, "old">>}
TargetsDoNotCollide ==
  [][\A j \in Jobs : found[j] /\ pc[j] = "starting" /\ pc'[j] \in {"lost", "deaf"}
       => TakenBy(j, port[j])]_vars
=============================================================================
