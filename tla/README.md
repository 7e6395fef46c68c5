# A TLA+ model of egovframe-launcher

The launcher is a local Go server with a web dashboard. It clones, builds and
runs the eGovFrame templates of its catalog, deploys WAR projects to Tomcat,
provisions databases in Docker, and streams logs to the browser. Almost
everything it does happens in goroutines that nobody waits for, over state
guarded by several small mutexes, and around processes, files and containers
that other programs change too. That is what these modules are about.

Paths below are relative to `src/launcher/`; `runner.go` is
`internal/runner/runner.go`.

## Inventory

| Component | Code | State | Operations | Interacts with |
|---|---|---|---|---|
| Job lifecycle | `runner.go`, `process_*.go` | per target a `job`: status, err, stopping, cmd, depCmds; the processes themselves | `DoWithOptions`, `DoWithPort`, `RunWAR`, `Stop`; the goroutines `runClone`, `runSteps`, `runLongWithPort`, `runWAR`, `exec` | HTTP server starts it, dashboard polls `State`, writes to the log buffer |
| Settings | `internal/persist`, `Runner.workspace/skipTests/javaHome`, `internal/server` | `persist.current`, the JSON file, the Runner's copies | `Load`, `Save`, `Update`, `New`, `UseWorkspace`, the settings form | read at the start of every request; written by the form and by Tomcat installations |
| Log buffer, event streams | `internal/logbuf`, `handleEvents` | the bounded lines, the subscribers' channels | `Append`, `Subscribe`, `Snapshot`, `cancel` | written by every process's output, read by browsers |
| RSP-managed jobs | `runner.go` (`SetupRSP`, `Stop`), `rsp_client.go` | per job port, openPath, rspManaged; `conf/server.xml`; the one shared Tomcat | `setupRSP`, `syncRSPJobsPort`, `stopAllRSPManagedJobs`, `rspStopServer` | VS Code's RSP backend over TCP, catalina scripts |
| Databases, containers | `runner.go` (`SetupDB`, `setup*Database`, `ensureDockerContainer`) | `dbSetupMu`, three containers, the schemas in MySQL | `SetupDB`, the database part of `RunWAR` | Docker commands |
| HTTP server | `internal/server` | none of its own | dispatches actions, serves settings, streams | everything above |
| Dashboard client | `web/app.js` | the last polled view | buttons gated by status, settings form | HTTP server |
| Startup | `main.go` | none | loads settings, `-workspace` | settings |
| Process output | `runner.go` (`pipeOutput` and its callers) | the system's pipe, the `io.Pipe`, the scanner | `Start`, copy, scan, `Wait`, the function `pipeOutput` returns | every process of a job; the log buffer |
| Tomcat installation | `runner.go` (`runWAR`, `setupRSP`, `autoInstallTomcat`, `unzip`) | the files of `targetHome`, archives, `TomcatPath` | find or download an archive, verify, extract, save the path | settings; WAR runs and RSP setups |
| RSP client protocol | `rsp_client.go` | one connection per function: `nextID`, the stream of messages | `dialRSP`, `send`, `call`, `waitState` | RSP |
| Ports | `runner.go` (`findAvailablePort`, `freePort`, `waitForPort`), catalog | `job.port`; the ports of the machine | probe, kill, wait, the port a frontend gets for its backend | jobs, other programs |
| Sources and their patches | `runner.go` (`runClone`, `patch*`), `handleTargets` | directories below the workspace, `needsDBCache` | clone, clean, patch, poll | settings (the workspace), git |
| Catalog | `internal/catalog` | constant data | lookups | all |
| JDK detection, VS Code and browser launching | `*_darwin.go`, `*_windows.go` | none | I/O | settings |

What is hard in each, and what makes it correct:

- **Jobs.** No request is refused because the job is busy, `Stop` only marks the
  job and kills: the goroutine of the run finishes later, when another run may
  have begun. A run starts detached dependency services one after the other.
  Correct means: `Stop` never acts on a dead run's handle, a service has one
  owner that kills it, no service outlives its run, the status shows what happens.
- **Settings.** One logical setting lives in four places (form, Runner,
  `persist.current`, file). Correct means that they agree when nothing is being
  saved, that a save does not undo another, that a restart brings back what was saved.
- **Log.** `Append` sends to channels outside its lock while streams come and
  go. Correct means no gap, per-process order, no blocked writer, and no repetition
  but of what is appended while a stream begins.
- **Shared Tomcat.** One Tomcat, many jobs, each with its mutex. Correct means
  that the jobs agree on its address and are released together.
- **Databases.** Docker state is read by one command and acted on by another;
  several projects share a container, some a schema. Correct means that nothing
  is wiped but what a setup means to replace, and that an import is not
  interleaved with another setup's drop.
- **Process output.** Three goroutines and two pipes stand between a process and
  the log, and the order in which they give up decides what is lost and whether
  anybody waits for ever. Correct means that the log is a beginning of the output, all of it
  when the status is reported, and that the run goes on.
- **Tomcat installation.** A directory with a script counts as installed, and several
  goroutines may extract into it. Correct means that nobody goes on without a Tomcat,
  and that only an interrupted extraction leaves half of one.
- **RSP client.** Replies and notifications come in one stream, late or never.
  Correct means that a result is the result of its own request, that "confirmed" is news,
  that no error is taken for an answer, and that every function returns.
- **Ports.** A port is looked for long before it is taken, from the catalog's port or
  from any the user gives. Correct means that what is shown is what a running job listens
  on, and that runs from the catalog's ports do not kill each other.
- **Sources.** git, the disk and the launcher fail at any moment, a git goes on when
  its launcher is gone, and the form may change the workspace meanwhile. Correct means that
  complete sources are lost only on request, that no addition is made twice, and that "completed"
  means patched sources wherever nothing escaped the code.

`PROJECT.json` lists the hazards one by one, at their lines, with the property
that covers each or the reason why none does.

## Modules

| Module | Models |
|---|---|
| `JobRunner` | one job that RSP does not manage: all requests and `Stop` calls on it, and its processes |
| `JobLifecycle` | what the dashboard may rely on about a job: the abstract specification `JobRunner` implements |
| `ConfigStore` | settings: `persist`, the file, the Runner's copies, the form, installers, restarts |
| `LogBuf` | the log buffer with its subscribers and `handleEvents` |
| `RspJobs` | the jobs on the shared Tomcat: `setupRSP` and `Stop` of a managed job |
| `DBSetup` | containers, schemas and imports under `dbSetupMu` |
| `OutputPipe` | the output of one process: pipes, copier, scanner, waiter |
| `TomcatInstall` | which Tomcat is used, and its installation |
| `RspClient` | the JSON-RPC client against an RSP that owes it nothing |
| `Ports` | the ports of jobs that run at the same time |
| `Sources` | the source directories: clones, patches, what polls remember of them |
| `MC...` | small instances: catalog shapes, ports, layouts, symmetry |
| `RspProofs` | theorems about `RspJobs` and `RspClient` |
| `FilesProofs` | theorems about `TomcatInstall` and `Sources` |
| other `...Proofs` | theorems about the module of that name |

Conventions. A step is one critical section, one file access, one process start,
exit or kill, or one command to Docker, RSP or catalina: what the scheduler or
another program can separate in the code is separate in the model. `pc` says
where each goroutine is. Operators carry the names of the functions and
variables they stand for. An operator named `X_Something` before an operator `X`
is a variant of `X` with a plausible mistake in it. It is used by nothing: the
`mutants` of `PROJECT.json` put it in the place of `X` to show that a property
notices. `RspClient` and `Sources` are extended by proof modules that extend another
component too, so their names of that kind have a prefix: `RCSpec`, `RCTypeOK`, `SrcSpec`,
`SrcTypeOK`.

### JobRunner

`Requests` are accepted actions, each one goroutine; `Stops` are `Stop` calls.
`status`, `err`, `stopping`, `cmd`, `depCmds` are the fields of `job`, and
`live` the processes that exist. `<<r, 0>>` is the last command of request `r`,
`<<r, i>>` the i-th service of its chain. The steps of `runLongWithPort` are
`npmDeps`, `missingJar`, `resetRun` (the critical section at 1280-1292),
`announceRun`, `startDep`/`recordDep`/`chainStep` for the chain,
`startMain`/`recordMain`, `waitReturns`, `mainEnded` (the section at 1396-1410)
and `reapDep`; `runWAR` has `resolveTomcat`, `installTomcat`, `prepareWAR`,
`resetWAR` and the same last steps. `Stop` is `stopMain` + `killMain`, `stopChain`
+ `reapDep`, or `stopNothing`. The commands that run through `exec` are one step:
their process is in no field of the job, so no other goroutine can touch it.
`freePort` kills what holds a port, and clients of it: `Freed` allows any such set.

`Discipline` says, for each target, who may send requests; `users` is the choice
of a behaviour. `"api"`: anybody, at any time, as the server allows. `"dashboard"`:
the buttons are enabled by the status. `"serial"`: a user who waits until nothing
is in flight. The properties that hold only for some of them say so.

### ConfigStore

`current`/`holder` are `persist.current` and its mutex; `file`/`readable` the
file, cut short while `WriteFile` runs; `runner` the three fields that `New`
copies; `form` what a browser submits. A form goes through `setRunner` and an
`Update` for each of workspace, skipTests and (when given) javaHome, then a last
`Update` with everything, as `handleSaveConfig` does; an installer does one
`Update`. `updateRead` and `saveBegin`/`saveEnd` are the two critical sections of
an `Update`. `saveFails` is a disk that refuses. `Restart` may come between any
two steps. `refused` is history.

### LogBuf

Lines are numbered in the order of the critical sections of `Append`; `author`
and `dropped` are history. `safeSend` is one send of the loop after the unlock, to
any of the copied channels, which may be closed (recovered panic) or full
(dropped). Streams subscribe, take the snapshot, receive, and may vanish. `since` is
history: how many lines there were when a stream subscribed.

### RspJobs

`Setups` and `Stops` are goroutines that can be used again and again, so the model has
no bound on the number of calls, only on how many overlap. What
the configuration holds (a port or none, a Tomcat path or none), what other
programs do with the ports, whether builds, RSP calls and catalina work: all are
choices. `conf` is the port in `server.xml`, `tomcat` the port that is really
served. `mu`/`todo` are an iteration of `forEachRSPManagedJob`, which holds `r.mu`
throughout and each job's mutex for its visit. A `Stop` leaves a goroutine
(`notices`) that tells RSP to stop, at any later time. `Discipline` as above, with
`"oneSetup"`: setups follow one another and `Stop` calls come at any time. Here
it is one value, since the properties with it hold for all of a run's behaviours.

### DBSetup

`<<c, svc>>` is the goroutine of call `c` that looks after container `svc`; the
MySQL one runs `setupDB` itself. `inspect`, `readStatus`, `readExitCode`,
`removeContainer`, `createFresh`, `startStopped`, `poll` are the commands of
`ensureDockerContainer`; containers end on their own in between. Then come
`dropSchema`, `createSchema`, `ensureMySQLAppUser`, `importSQLFiles` in the order
of the project's kind (`Layout`), under `dbSetupMu`. `tables` are the scripts that
have left tables behind. Calls repeat without bound.

### OutputPipe

A line is its number and a kind: does it fit the scanner's buffer or not. `pipe` is
the system's pipe, which holds `PipeSize` lines and then stops the process. `held`
is what the copier of os/exec is writing into the `io.Pipe`, which has no buffer
(`handOver` needs both sides), `token` what the scanner has read. `wgDone` and `closeOutR`
are the deferred calls of the scanner's goroutine in the order they run, `closeOutW` and
`wgWait` the function `pipeOutput` returns. `Start` leads to `wait` for `exec` and
for the last command of a run, to `detached` for the services of a chain. `heir` is a
descendant that keeps the output open.

### TomcatInstall

`home` is the list of the installed files, in the order of the archive; `Script` is the place
of the catalina script. `begin` and `statScript` are the beginnings of `runWAR` and
`setupRSP`; `check`, `findZip`, `verify`, `download`, `hash`, `openFile`, `closeFile`,
`extracted` are the steps of `autoInstallTomcat` and `unzip`, `save` what their callers do
with the path. Each may fail, and `Kill` ends the launcher at any step. The user
configures or removes a Tomcat between two uses, and copies archives in at any time.
This refines the installer of `ConfigStore`, which is one `Update` there.

### RspClient

`Script` gives the calls and waits of the three functions, and which of their errors
are returned. `late` is the deadline of the current call or wait, `broken` a stream
that a deadline left in the middle of a message. RSP takes requests in any order,
answers before or after their effect or never, tells every open connection of the server's
states, sends other things (`noise`), and may exit. `taken` and `stale` are history.

### Ports

`owner` says who listens where. A run begins at the catalog's port or at any port the
user gives (`basePort`), probes (`probe`), records, frees and waits for
the fixed port of its service, reads its backend's port, and starts a process which
takes the port at some later moment (`mainBinds`), or finds it taken (`mainLoses`) and ends or
goes on without. `foreign` are other programs; `"old"` processes were told to stop and
still listen. `found` and `live` are history. `freePort` kills the process that
listens; that lsof also lists the clients of the port is in `JobRunner` (`Freed`).
`FixedPortsAssumption` is a fact of the catalog: no target's search from its own port of the
catalog contains a fixed port of another target. It says nothing of ports given by the user.

### Sources

`tree` is what is on disk in a directory (`partial`: git was killed or is at
work), `marks` how often the launcher's additions are in its files, `torn` a file that
was cut off while it was patched. The steps of `runClone` are `look`, `remove`, `mkdir`,
`startGit` (in the workspace of that moment), `gitEnds`, `patch`/`write`, `forget`; those of
`handleTargets` are `stat`, `load`, `walk`, `store`. Whatever cannot be read or written is passed
over in silence, as in the code: `look` takes such a directory for a missing one, `patch` and
`write` leave the file, `walk` answers no. `SetWorkspace` is the settings form.
`Crash` loses the memory and keeps the disk. A git has a process group of its own, so it may go
on (`stray`) while the next launcher polls and clones, and ends at any time (`strayEnds`): it
completes the sources, takes back what is there, or is killed. `doubtful`, the `doubt` of
a poll and `disturbed` of a Clone are history.

## Runs

| Run | Question | Bounds |
|---|---|---|
| `job_runs` | Who owns the handle and the services, whatever interleaves? And does a job that is used one request at a time keep its promises (refinement of `JobLifecycle`, a Stop terminates the run)? | 2 requests, 1 Stop, four shapes of target |
| `job_dashboard` | Is waiting for the buttons enough? (no) | 2 requests, 1 Stop, a target with two services |
| `config_settings` | Do saved settings stay in force through disk errors and restarts? | 2 forms, 1 installer, 1 restart, two values of each setting |
| `log_fanout` | What is kept, what does a client see and in which order, does `Append` return? | 2 writers, 1 stream, capacity 2, channel 2, 4 lines |
| `rsp_shared` | Do the jobs on the shared Tomcat agree, and go down together? | 2 jobs, 1 setup and 1 Stop at a time (any number in sequence), 2 ports |
| `db_provision` | Is data wiped, or dropped in the middle of an import? | 2 calls at a time (any number in sequence), 3 projects, 2 scripts each |
| `db_shared` | Does the shared schema keep its data? (no) | 2 calls, 2 projects of one schema |
| `pipe_output` | What of a process's output is logged, when, and does the run go on? | 4 lines, a pipe of 2 |
| `rsp_calls` | What do a result, a confirmation and a return without an error mean, and does every function return? | one connection at a time (any number in sequence), 2 messages unread |
| `tomcat_use` | Where do WAR runs and setups go on, what do they save, what is left behind? | 2 WAR runs and 1 setup at a time (any number in sequence), 3 files, the script first |
| `ports_pair` | Is the shown port the real one, and do runs leave each other alone? | a frontend and its backend, any number of runs from any port, searches of 2 ports that overlap, 3 ports |
| `sources_clone` | What does a completed Clone mean, when are sources lost, what is remembered? | 1 target, 2 workspaces, 3 Clones, 1 poll at a time, 2 ends of the launcher |

Why these are enough to be interesting. In `job_runs` two runs of one job overlap
in every way, with a Stop; the chain has services on fixed and random
ports, so `freePort` meets the other run's service. The behaviours of all users are
followed for the WAR and the mixed shape, those of a user who waits for all four.
In `config_settings` a form has values distinct from the defaults and from the other
form, an installer competes for `tomcatPath`, and the restart comes at each
step. In `log_fanout` the buffer and the channel both overflow (four lines, two
places) while two writers interleave. Each stream has its own channel and no
stream sees another's, so one is representative. In `rsp_shared` a job is set up again
while the other is being released. In `db_provision` two of the three projects share a
schema and the third, which makes its own, brings a side container. In `pipe_output`
four lines fill the pipe, the copier, the scanner and leave one that waits, and a line that does
not fit may come at each place. In `rsp_calls` an inbox of two holds a late
reply and a notification in both orders, and six calls follow one another. A connection
shares nothing with another but RSP's state, which changes on its own anyway: one at a
time is representative. In `tomcat_use` the script is the first of three files, as in the
real archive where `bin` precedes `lib`, so every extraction has a long phase in which it looks
installed. In `ports_pair` the searches overlap as in the catalog (8093 and 8094),
the backend's service has a port inside the backend's own search, as those of msa do (19003 in
19000 .. 19099), and both are run again and again from any of the ports, the fixed one included. In
`sources_clone` three Clones are one that is interrupted, one that meets what is left
and one that cleans, in two directories, beside the gits of two earlier launchers.

The bounds, by name: `MaxRestarts` (ConfigStore), `MaxLines` (LogBuf, OutputPipe),
`PipeSize` (OutputPipe), `InboxSize` (RspClient), `Files` (TomcatInstall), `MaxPort`
(Ports), `MaxClones` and `MaxCrashes` (Sources), and the sizes of the constant sets. Two
more bounds of `RspClient` are in its guards: a message of kind `noise` comes only when nothing else is
unread, and RSP is started again only when no connection is open.
`CHECK_DEADLOCK FALSE` is set for the job, settings, log and output runs because their
requests, forms, lines and processes are finite and the system then rightly stops; all other
runs check deadlock. Symmetry is used only in runs without liveness properties.

### What the properties say

- `CmdOwnerWaits`, `OneReaper`, `OnlyResetForgets` (any interleaving): the
  handle in `job.cmd` is never that of a finished run; a service is killed by one
  goroutine only; the only place that loses track of a living service is the
  reset of a later run.
- `ReapedAfterMainEnds`, `ImplementsLifecycle`, `StopTerminates` (one request at a
  time; the first is claimed for users of the buttons too, where it fails): a run
  leaves none of its services, the status
  follows `JobLifecycle`, and after a Stop every process of the run dies.
- `FileIsCurrent`, `RunnerFollowsConfig`, `SavedSettingsSurvive`,
  `PartialUpdate`: the copies of the settings agree, on disk and after a restart.
- `KeepsLatest`, `NoGap`, `WriterOrder`, `NeverBlocks`: the log
  kept is the end of the log written; a stream gets all of it except for lines its own full
  channel dropped; and in the order of each writer and once, the snapshot included, except for
  lines appended between its `Subscribe` and its `Snapshot`, which are in the snapshot and
  come again.
- `ManagedHasAddress`, `OneAddress`, `StopReleasesAll`: a job is managed exactly
  while it has an address; running jobs agree on the port; a Stop leaves none behind.
- `NeverWiped`, `NoScriptMissing`: a schema goes only by a setup's own drop; a
  finished import has every script there.
- `LogsArePrefix`, `ReportIsTrue`, `RunGoesOn`, `EventuallyLogged`: the log is a beginning of the output; when a run reports its end, it is
  all there; closing the pipes never turns a success into a failure; nobody waits for ever,
  and a service nobody waits for is logged too.
- `ReadyHasScript`, `SettledIsWhole`, `SavedIsInstalled`: a WAR run
  has a Tomcat; installations that overlap make a whole one unless one is cut off;
  the saved path is that of a directory with a script.
- `OwnReply`, `ConfirmedIsNews`, `SuccessIsAnswered`, `AlwaysReturns`: no call takes
  the reply of another; a confirmed state came after the request; a function
  that returns without an error had its own publish answered without one, which is not to say that
  RSP published anything; no RSP keeps a function for ever.
- `UpOnShownPort`, `TargetsDoNotCollide`, `ProxyIsLive`, `MainsSurvive`: a job that is up has the
  port it shows; a run that looked alone loses its port to another program or to a service of its
  own (if the user chose the port, of another job), never to another job's process; a frontend
  started while its backend runs is sent to it; `freePort` kills another job's process only
  if the user put that one on the service's port.
- `SourcesSurvive`, `DoneMeansReady`, `PatchedOnce`, `NeedsDBKnown`:
  what a Clone may destroy, what its success means when nothing escaped it, and that the memory
  of a directory's database is right after polls that nothing overlapped.

Limits that are part of the statements, not of the checks:
`OneAddress` needs setups that do not overlap. With two overlapping setups of
different jobs, which the per-job buttons allow, it fails: the job recorded first
is not yet "running" when `syncRSPJobsPort` skips it. `FileIsCurrent` and
`SavedSettingsSurvive` except a disk that refused a write, and the second also
saves that the process died in: a kill inside `WriteFile` leaves a file that does
not parse, and the launcher starts from the zero configuration. `RunnerFollowsConfig`,
`SavedSettingsSurvive` and `PartialUpdate` are checked for writers that do not overlap.
The conditions of the other properties are the observations below.

### Fairness

`JobRunner`: weak fairness of each request's `waitReturns`, `mainEnded`, `reapDep`
and of each Stop's `killMain`, `reapDep`. These are goroutines that are runnable
once enabled, and `job.mu` is held for a few assignments only. Nothing makes a user
send a request, a build end or a healthy service exit. `LogBuf`: weak fairness of
the writers, whose sends never wait (`select` with `default`); none of the streams.
`OutputPipe`: weak fairness of the copier, of the scanner, and of the waiter after
`Start`: goroutines again. Nothing makes a process write, exit or let go of its output.
`RspClient`: weak fairness of each client's steps and of its deadline (`SetReadDeadline`, so
time passes); none of RSP, not even of its replies. The other modules state safety only.

## Findings

The two runs that answer "no" each contradict a comment of the code;
`PROJECT.json` quotes both sides.

1. `job_dashboard`: Stop, then Run before the first run's goroutine woke up: the
   reset drops `depCmds` and the services of the first run are orphaned.
2. `db_shared`: the MSA stack's setup drops schema `com`, which the
   common-components setup takes care not to drop for the stack's sake.

## Observations

Behaviours that are in the models and that the properties are stated around: each is
reachable, and dropping the condition named makes TLC show it.

- A Stop during the chain kills what was started; the chain goes on, and the flag it
  leaves makes a later crash look like a Stop (`runner.go:1704`;
  `ReapedAfterMainEnds` speaks of a run after its main process ended).
- `persist.Update` reads and saves in two critical sections (`persist.go:74`), so overlapping
  updates lose a field (`Serial`). Saving the settings form in a
  `-workspace` session persists that directory (`server.go:268`).
- A line appended between a stream's `Subscribe` and its `Snapshot` is sent twice, the
  second time perhaps after newer lines of the snapshot (`server.go:157-170`; `Overlap`).
- A setup with a new port while the Tomcat runs on its old one records a port
  nothing listens on (`runner.go:2300`; `OneAddress` is agreement, not truth).
- A line longer than the scanner's buffer ends the log of that process, and fails
  a process that succeeds (`runner.go:1645`; `Fitting`, `Flawless`). A command that does not start
  leaves its scanner waiting for ever (`StartFails`).
- `call` throws away a STOPPED that comes before its reply, so `rspStopServer` may
  wait its whole deadline for it and fail (`rsp_client.go:147`; `AlwaysReturns`
  promises an end, not a success).
- `rspDeployAndStart` uses a guessed handle when RSP lists none for the server
  (`rsp_client.go:277-286`), and neither it nor `rspPublish` looks at the status a publish returns
  (`rsp_client.go:342-347`): both may report success although nothing was published.
  `SuccessIsAnswered` speaks of answers without an error only.
- The writes to RSP (`rsp_client.go:66-70`, `132-133`) have no deadline. They are modelled as
  returning: an RSP that takes nothing from its socket until that is full would hold the
  function past any deadline.
- A directory whose extraction was cut off has its script and counts as
  installed from then on (`runner.go:1960`; `broken`). `setupRSP` goes on with any
  configured directory, with or without a script (`runner.go:2239`; `WarRuns`).
- Two runs that are started together may be given one port (`runner.go:1563`;
  `OthersSettled`). A frontend started while its backend does not run keeps the default
  port even if the backend then gets another (`runner.go:1363`; `live`). In the catalog
  the last process of the MSA stack is searched for from 19000 on, and its services have
  the fixed ports 19003 to 19006: if 19000 to 19002 are taken, the search settles on
  a port that a service of the same run takes first (`runner.go:1283`; the second disjunct of `TakenBy`).
- The dashboard lets the user give a run any port from 1024 on (`app.js:390-441`,
  `runner.go:1280-1282`), also a fixed port of another target. The run of that target then kills
  it (`runner.go:1301`; the exception of `MainsSurvive`), or its service takes the port first.
- An answer about the database computed while a Clone is under way is stored after
  the Clone has invalidated it (`runner.go:2503`), and a git that outlives its launcher
  changes the answer without a Clone, so the comment "the answer only changes on (re-)clone"
  (`runner.go:2490`) is too strong (`doubtful`). An answer found while a file could not be
  read is remembered as well.
- A Clone whose workspace is changed meanwhile clones into the new one and patches the old
  (`runner.go:1442`; the condition of `DoneMeansReady`). "clone completed" is reported though a
  file could not be read or written (`runner.go:981` to `1085`), and over sources a git of
  an earlier launcher completes or takes back at that moment (`disturbed`). A file that was cut
  off is not told from a good one (`torn`).

## Proofs

The theorems hold for every value of the constants that satisfies the named
assumptions of the modules (disjoint sets of goroutines, non-empty bounds, typed
constants), and for every discipline but where this list says otherwise. The exceptions are
the conditions under which the runs check the same properties, since they fail without them:
requests of a job that follow one another (`users`), settings writers that do not overlap
(`Serial`), setups that follow one another (`Discipline`). The two
assumptions of `Ports` that say something about the program are facts of its catalog
(`FixedPortsAssumption`: the catalog's own searches avoid the fixed ports of other targets);
the port a user gives is unrestricted.

- `JobRunnerProofs`: `TypeCorrect`, `CmdIsOwned`, `ReapedOnce`, `NeverForgotten`
  (`OnlyResetForgets`), from the inductive
  `IInv == TypeOK /\ RecordIndex /\ CmdOwnerWaits /\ PassedAll /\ OneReaper /\ ReapHeld`
  (`Invariance`). `ReapHeld` says that only a goroutine that kills services holds
  any, so those it takes out of `depCmds` are not forgotten. `OneReaper` is not inductive alone: a service could be recorded
  twice. `PassedAll` says that every recorded service lies before its run's index, so
  the one `recordDep` adds is new to the list and to every reaper; `RecordIndex` keeps that
  index inside the chain, whose length never changes (`TargetStays`).
  `ReapedWhenSerial` (`ReapedAfterMainEnds`) and `FollowsLifecycle` are about requests that
  follow one another, and rest on `SerialInv`: one request is in flight (`OneAtATime`), every
  living service is held by a Stop, by its run or by a run that failed (`Kept`), and the status
  goes with the handle (`Shown`). The property is claimed of the buttons' users as well; of them
  `job_dashboard` refutes it, so the theorem leaves them out. `FollowsLifecycle` is the
  safety half of `ImplementsLifecycle`: every step of the job is a step of `JobLifecycle` or a
  stutter. That a Stop sticks is the conjunct of `Shown` on `stopping`, the flag the exit section reads.
- `ConfigStoreProofs`: `FileFollowsCurrent` (`FileIsCurrent`), also for overlapping
  writers and any number of restarts. The strengthening `HolderWrites` says that the
  holder of the lock is the one writer inside `Save` and that it writes what it put
  into `current`. `TypeCorrect` needs `StageOrder`: a writer is at a stage of
  its own, and a form in progress has a workspace, so the Runner never gets an empty one.
  Under `Serial`, `UpdatesArePartial` (`PartialUpdate`), `RunnerAgrees` (`RunnerFollowsConfig`)
  and `SettingsSurvive` (`SavedSettingsSurvive`): nobody changes `current` between the two
  sections of an `Update` (`FreshCopy`); `InProgress` says field by field how far a form has come in the
  Runner and in `current`, which is what a restart in its middle leaves; `StaysInForce` that a form
  that was stored stays so, also through restarts, since `New` prefers what is saved.
- `LogBufProofs`: `LatestKept` (`KeepsLatest`), from the lemma `TrimIsSuffix` on
  what the trim returns; `TypeCorrect`, with `SendsOwn` (the line a writer sends is one it
  appended); `OrderOfEachWriter` (`WriterOrder`, the snapshot included) from `OrderInv`: the lines a stream was
  handed and those that wait for it are sorted for each writer (`Sorted`), and lie below
  the line that writer is about to send it (`SentBefore`). The second part is what a step of
  `safeSend` rests on, and it holds since a writer copies the subscribers with each `Append`. The snapshot is a range of
  the log that ends where it was taken, and the channel holds only lines appended
  after the subscription (`Fresh`): what lies in both is the exception.
  `NothingMissed` (`NoGap`) rests on `Subscribed`: a stream is among the subscribers from before its
  snapshot until its cancel, so every `Append` that the snapshot did not see copies its channel
  (`SnapshotCovers`, `SendCovers`), and only its own cancel closes it.
- `RspProofs`, on `RspJobs`: `AddressTheorem` (`ManagedHasAddress`), even for overlapping
  setups. `AddressInv` types ports and flags; `HasJob` says that a goroutine that
  has begun has a job, so `Stop` reads an existing job's port. The step that matters
  is `syncJob`, which looks at the flag in the section that writes the port. `TypeCorrect`
  adds the types of the control to these two. `SweepReleases` (`StopReleasesAll`), for any
  discipline: what a sweep has visited is released, or is being managed again by a setup that
  waits for `r.mu` (`Swept`). `AddressShared` (`OneAddress`), for setups that follow one
  another: `ShareInv` carries the address from the job that is set up (`Recorded`) to the jobs
  already visited (`Reached`) and to all (`Informed`, `Agreed`); that this job itself is not
  running meanwhile (`Halted`) is why the jobs still agree before.
- `RspProofs`, on `RspClient`: `ClientTypeCorrect`, `RepliesMatch` (`OwnReply`),
  `ConfirmationsAreNews` (`ConfirmedIsNews`), `AnsweredTheorem` (`SuccessIsAnswered`), for
  any number of connections and unread messages. `Counted` bounds the request numbers by the
  line of the script, so a number is used once on a connection. `Wire` says that nothing
  is answered that was not sent and handled, and that the inbox keeps the order of RSP's
  work; `Awaits` that only the answer of the request in hand has its number; `Newer` that whatever
  a wait will read was reported after its start or stop was handled; `Story` what has been
  confirmed by each line. `ReplySound` and `StateSound` are the steps that matter.
- `FilesProofs`, on `TomcatInstall`: `WarHasScript`, `ArchivesRemoved` and `PathIsInstalled` from
  `IInv == TypeOK /\ InArchive /\ ScriptKept /\ ReadyHasScript`; `ScriptKept` says that
  whoever is past the script's place, or about to save, finds it there. `Completeness`
  (`SettledIsWhole`) needs `Progress`: of the files a goroutine has passed none is
  absent (`PassedIsThere`), a file that is cut short is being written by somebody unless an
  extraction was cut off (`CutIsWritten`), and a gap lies ahead of somebody (`GapIsAhead`). It is
  the argument why extractions that truncate each other's files end in a whole Tomcat.
- `FilesProofs`, on `Sources`: `SourcesTypes`, `AddedOnce` (`PatchedOnce`), `CloneDelivers`
  (`DoneMeansReady`), `AnswerIsKnown` (`NeedsDBKnown`) and `WholeSourcesSurvive`
  (`SourcesSurvive`), for any targets, workspaces, polls, Clones and crashes. `SourcesInv`: a Clone works in
  directories of its own target and, unless it was disturbed, knows the tree it left (`CloneInv`),
  additions are in trees that exist and at most once (`Patched`), a wrong "no" is doubtful or its
  Clone is about to forget it, and while a stray git works every "no" is doubtful (`Remembered`);
  an answer about sources nobody has been at work on is right until it is stored
  (`PollInv`). `LocalKeeps` is the frame: a Clone of one target moves nothing of another's;
  `StrayKeeps` is the step of a git of an earlier launcher.
- `PortsProofs`: `ShownPort` (`UpOnShownPort`) and `MainsSurviveTheorem`
  (`MainsSurvive`), from `TypeOK`, `PortInRange`, `HasDep`, `MainIsUp` and
  `UpOnShownPort`. The second follows as a main process listens on a port of the search it was
  given, and the searches of the catalog avoid the fixed ports of others. `ProxyTheorem`
  (`ProxyIsLive`): `ProxyInv` says that the backend has not begun
  another run. `NoCollision` (`TargetsDoNotCollide`) rests on `FoundInv`: the others cannot reach
  the port that was found while they stay where they are, but for the services the property names.
- `OutputPipeProofs`: `TypeCorrect`, `PrefixLogged` (`LogsArePrefix`) and `TrueReport`
  (`ReportIsTrue`) from `PipeInv`. Its parts follow the lines: `InFlight` gives the numbers
  of those in the pipe, with the copier and with the scanner; `Flow` counts them: while the scanner
  reads, they and the log are the output, and it stops only at a line that does not fit (`Stuck`) or when
  all is logged and nobody can write; `CopyOver` says that the copier fails in the first case
  only, which is why closing the pipes makes no error of a success.
- `DBSetupProofs`: `DataKept` (`NeverWiped`). `WipeInv`: calls between `lock` and
  `unlock` hold `dbSetupMu` (`Exclusive`), a MySQL container that never started
  holds nothing (`EmptyUntilStarted`), and one about to be removed has never started
  (`RemovesUnstarted`). Without the first, the status a call read could be stale when it removes.
  `TypeCorrect` adds that a call in progress has a project (`HasProject`) and that no table
  is left outside a schema. `ImportComplete` (`NoScriptMissing`): a call that imports has the
  tables of every script before its next one (`Loaded`), which begins at the first (`Fresh`).
  That no other setup drops them meanwhile is `Exclusive` again (`ImportOf`).

Only model-checked: the liveness properties `StopTerminates`, `NeverBlocks`, `RunGoesOn`,
`EventuallyLogged`, `AlwaysReturns` and the fairness half of `ImplementsLifecycle`, which are out of the
prover's reach. Every invariant and every action property that a passing run checks is
stated by a theorem. The other way round, the type invariants of all
modules are proved, and only the runs `rsp_calls` and `sources_clone` repeat theirs.
`NoArchiveLeft` (`ArchivesRemoved`: only a kill leaves a downloaded archive behind) is
proved and in no run.

## Not modelled

JDK detection, browser and VS Code launching (I/O), release scripts. Of the catalog, its texts and
accounts. The content of lines, files and messages; process identifiers (a kill
reaches the process meant, or nothing); a `tomcat` action on a job RSP manages; the
detection of a project's layout, which is a constant of `DBSetup`; whether a script's tables are complete; clients of a port that `freePort` kills with
the listener (in `JobRunner` only);
where in a file a patch goes, and `patchServerXML`; a second service with a fixed port in one
chain of `Ports`; the executable bits and the content of Tomcat's files.

## Plan

Order so far: jobs (the core), settings, log, the shared Tomcat, databases; then
process output, Tomcat installation, RSP client, ports and sources. Next:

1. `RspJobs` with a tomcat action on a managed job (`cmd` and `rspManaged` both set).
2. Pure helpers with a reference definition: `extractRedisBlock`, the order of SQL files,
   `patchServerXML`'s ports.

Proofs left: what `OneAddress` and `ReapedAfterMainEnds` become for users of the buttons (which
orphans, which stale addresses are possible) has no statement yet. `StopTerminates` could be reduced to a
proved invariant (who still has to kill what) and the fairness of single steps.
