------------------------------ MODULE ConfigStore ------------------------------
(***************************************************************************)
(* The user's settings: the copy package persist keeps under its mutex,    *)
(* the JSON file it rewrites, the fields of the Runner that shadow them,   *)
(* and those who change them: the handler of the dashboard's settings form *)
(* and the goroutines that save the path of a Tomcat they installed.  The  *)
(* launcher may be killed at any moment and started again.                 *)
(*                                                                         *)
(* VSCodePath and RSPTomcatPort are left out: only the form writes them,   *)
(* in the same Update and the same way as TomcatPath.                      *)
(***************************************************************************)
EXTENDS Naturals

CONSTANTS
  Forms,            \* submissions of the settings form
  Installers,       \* runWAR and setupRSP goroutines that installed a Tomcat
  Workspaces,       \* directories
  Homes,            \* JDK homes
  Tomcats,          \* Tomcat homes
  DefaultWorkspace, \* the default of -workspace
  FlagWorkspace,    \* the value of an explicit -workspace
  DefaultHome,      \* what defaultJavaHome finds
  InstalledTomcat,  \* what autoInstallTomcat returns
  Unset,            \* the empty string
  Serial,           \* TRUE: writers of the settings do not overlap
  MaxRestarts       \* bound: restarts of the launcher

ASSUME WritersAssumption ==
  /\ Forms \cap Installers = {} /\ Unset \notin Forms \cup Installers
  /\ Serial \in BOOLEAN
  /\ MaxRestarts \in Nat
ASSUME ValuesAssumption ==
  /\ {DefaultWorkspace, FlagWorkspace} \subseteq Workspaces
  /\ DefaultHome \in Homes \cup {Unset}
  /\ InstalledTomcat \in Tomcats
  /\ Unset \notin Workspaces \cup Homes \cup Tomcats

Writers == Forms \cup Installers
NoWriter == Unset

Config == [workspace : Workspaces \cup {Unset}, skipTests : BOOLEAN,
           javaHome : Homes \cup {Unset}, tomcatPath : Tomcats \cup {Unset}]

(* The zero value of persist.Config. *)
Zero == [workspace |-> Unset, skipTests |-> FALSE, javaHome |-> Unset, tomcatPath |-> Unset]

VARIABLES
  current,  \* persist.current
  readable, \* FALSE when the file is missing or cut short
  file,     \* the content of a readable file
  holder,   \* who is inside Save, holding persist.mu
  runner,   \* Runner.workspace, skipTests and javaHome
  form,     \* the settings each form submits
  edit,     \* the field the user changed in each form
  copy,     \* the local cfg of the Update each writer is in
  stage,    \* which of its updates a writer is at
  pc,
  refused,  \* history: the disk has refused a write
  restarts

vars == <<current, readable, file, holder, runner, form, edit, copy, stage, pc, refused, restarts>>

Fields == {"workspace", "skipTests", "javaHome", "tomcatPath"}

TypeOK ==
  /\ current \in Config
  /\ readable \in BOOLEAN
  /\ file \in Config
  /\ holder \in Writers \cup {NoWriter}
  /\ runner \in [workspace : Workspaces, skipTests : BOOLEAN, javaHome : Homes \cup {Unset}]
  /\ form \in [Forms -> Config]
  /\ edit \in [Forms -> Fields]
  /\ copy \in [Writers -> Config]
  /\ stage \in [Writers -> {"workspace", "skipTests", "javaHome", "all", "tomcat"}]
  /\ pc \in [Writers -> {"idle", "form", "set", "read", "save", "write",
                         "done", "rejected", "lost"}]
  /\ refused \in BOOLEAN
  /\ restarts \in 0 .. MaxRestarts

-----------------------------------------------------------------------------
(* Start of the launcher: Load, New and, with an explicit flag, UseWorkspace. *)

Loaded == IF readable THEN file ELSE Zero

HasSaved(c) == c.javaHome # Unset \/ c.workspace # Unset

(* Variant for the checks: the default of -workspace overrides the saved one. *)
NewRunner_DefaultWins(c, explicit) ==
  [ workspace |-> IF explicit THEN FlagWorkspace ELSE DefaultWorkspace,
    skipTests |-> HasSaved(c) => c.skipTests,
    javaHome  |-> IF c.javaHome # Unset THEN c.javaHome ELSE DefaultHome ]

NewRunner(c, explicit) ==
  [ workspace |-> IF explicit THEN FlagWorkspace
                  ELSE IF c.workspace # Unset THEN c.workspace ELSE DefaultWorkspace,
    skipTests |-> HasSaved(c) => c.skipTests,
    javaHome  |-> IF c.javaHome # Unset THEN c.javaHome ELSE DefaultHome ]

Init ==
  /\ readable = FALSE
  /\ file = Zero
  /\ current = Zero
  /\ holder = NoWriter
  /\ \E explicit \in BOOLEAN : runner = NewRunner(Zero, explicit)
  /\ form = [f \in Forms |-> Zero]
  /\ edit = [f \in Forms |-> "workspace"]
  /\ copy = [w \in Writers |-> Zero]
  /\ stage = [w \in Writers |-> IF w \in Forms THEN "workspace" ELSE "tomcat"]
  /\ pc = [w \in Writers |-> "idle"]
  /\ refused = FALSE
  /\ restarts = 0

InFlight(w) == pc[w] \in {"set", "read", "save", "write"}
MayStart == Serial => \A w \in Writers : ~InFlight(w)

(* The process dies, whatever its goroutines are doing, and is started      *)
(* again: a file cut short by an interrupted WriteFile does not parse.      *)
Restart ==
  /\ restarts < MaxRestarts
  /\ restarts' = restarts + 1
  /\ current' = Loaded
  /\ \E explicit \in BOOLEAN : runner' = NewRunner(Loaded, explicit)
  /\ holder' = NoWriter
  /\ pc' = [w \in Writers |-> IF InFlight(w) THEN "lost" ELSE pc[w]]
  /\ UNCHANGED <<readable, file, form, edit, copy, stage, refused>>

-----------------------------------------------------------------------------
(* The settings form.                                                       *)

Values(field) ==
  CASE field = "workspace"  -> Workspaces \cup {Unset}
    [] field = "skipTests"  -> BOOLEAN
    [] field = "javaHome"   -> Homes
    [] field = "tomcatPath" -> Tomcats \cup {Unset}

(* handleGetConfig fills the form, the user changes one field. *)
loadForm(f) ==
  /\ pc[f] = "idle"
  /\ pc' = [pc EXCEPT ![f] = "form"]
  /\ \E field \in Fields : \E v \in Values(field) :
       /\ edit' = [edit EXCEPT ![f] = field]
       /\ form' = [form EXCEPT ![f] =
            [[workspace |-> runner.workspace, skipTests |-> runner.skipTests,
              javaHome |-> runner.javaHome, tomcatPath |-> current.tomcatPath]
             EXCEPT ![field] = v]]
  /\ UNCHANGED <<current, readable, file, holder, runner, copy, stage, refused, restarts>>

(* handleSaveConfig begins. *)
submitForm(f) ==
  /\ pc[f] = "form"
  /\ MayStart
  /\ pc' = [pc EXCEPT ![f] = IF form[f].workspace = Unset THEN "rejected" ELSE "set"]
  /\ UNCHANGED <<current, readable, file, holder, runner, form, edit, copy, stage, refused,
                 restarts>>

(* Variant for the checks: only the workspace reaches the Runner. *)
setRunner_WorkspaceOnly(f) ==
  /\ pc[f] = "set"
  /\ pc' = [pc EXCEPT ![f] = "read"]
  /\ runner' = [runner EXCEPT !.workspace = form[f].workspace]
  /\ UNCHANGED <<current, readable, file, holder, form, edit, copy, stage, refused, restarts>>

(* SetWorkspace, SetSkipTests and SetJavaHome first change the Runner. *)
setRunner(f) ==
  /\ pc[f] = "set"
  /\ pc' = [pc EXCEPT ![f] = "read"]
  /\ runner' = [runner EXCEPT ![stage[f]] = form[f][stage[f]]]
  /\ UNCHANGED <<current, readable, file, holder, form, edit, copy, stage, refused, restarts>>

(* The updates of a form, in their order; the Runner's fields each have     *)
(* one, the last one writes the whole form.                                 *)
NextStage(f) ==
  CASE stage[f] = "workspace" -> "skipTests"
    [] stage[f] = "skipTests" /\ form[f].javaHome # Unset -> "javaHome"
    [] OTHER -> "all"

Finished(w) == stage[w] \in {"all", "tomcat"}

Advance(w) ==
  IF Finished(w)
    THEN pc' = [pc EXCEPT ![w] = "done"] /\ UNCHANGED stage
    ELSE /\ stage' = [stage EXCEPT ![w] = NextStage(w)]
         /\ pc' = [pc EXCEPT ![w] = IF NextStage(w) = "all" THEN "read" ELSE "set"]

-----------------------------------------------------------------------------
(* The mutators handed to persist.Update.                                   *)

(* Variant for the checks: an installer saves a config of its own. *)
Mutated_FromZero(w, c) ==
  IF stage[w] = "tomcat" THEN [Zero EXCEPT !.tomcatPath = InstalledTomcat] ELSE form[w]

Mutated(w, c) ==
  CASE stage[w] = "tomcat" -> [c EXCEPT !.tomcatPath = InstalledTomcat]
    [] stage[w] = "all" ->
         [form[w] EXCEPT !.javaHome = IF @ = Unset THEN c.javaHome ELSE @]
    [] OTHER -> [c EXCEPT ![stage[w]] = form[w][stage[w]]]

(* The fields a mutator assigns. *)
Assigned(w) ==
  CASE stage[w] = "tomcat" -> {"tomcatPath"}
    [] stage[w] = "all"    -> Fields
    [] OTHER               -> {stage[w]}

(* A Tomcat was installed and its path is about to be saved. *)
startInstaller(i) ==
  /\ pc[i] = "idle"
  /\ MayStart
  /\ pc' = [pc EXCEPT ![i] = "read"]
  /\ UNCHANGED <<current, readable, file, holder, runner, form, edit, copy, stage, refused,
                 restarts>>

(* Update copies current under the lock and releases it. *)
updateRead(w) ==
  /\ pc[w] = "read"
  /\ holder = NoWriter
  /\ copy' = [copy EXCEPT ![w] = Mutated(w, current)]
  /\ pc' = [pc EXCEPT ![w] = "save"]
  /\ UNCHANGED <<current, readable, file, holder, runner, form, edit, stage, refused, restarts>>

(* Variant for the checks: the lock is not kept while the file is written.  *)
saveBegin_Unlocks(w) ==
  /\ pc[w] = "save"
  /\ holder = NoWriter
  /\ current' = copy[w]
  /\ readable' = FALSE
  /\ file' = Zero
  /\ pc' = [pc EXCEPT ![w] = "write"]
  /\ UNCHANGED <<holder, runner, form, edit, copy, stage, refused, restarts>>

(* Save takes the lock, replaces current and WriteFile truncates the file.  *)
saveBegin(w) ==
  /\ pc[w] = "save"
  /\ holder = NoWriter
  /\ holder' = w
  /\ current' = copy[w]
  /\ readable' = FALSE
  /\ file' = Zero
  /\ pc' = [pc EXCEPT ![w] = "write"]
  /\ UNCHANGED <<runner, form, edit, copy, stage, refused, restarts>>

(* The bytes are written and the lock is released. *)
saveEnd(w) ==
  /\ pc[w] = "write"
  /\ holder' = NoWriter
  /\ readable' = TRUE
  /\ file' = copy[w]
  /\ Advance(w)
  /\ UNCHANGED <<current, runner, form, edit, copy, refused, restarts>>

(* WriteFile fails: the file cannot be opened and keeps its content, or it  *)
(* stays cut short.  The error is dropped by every caller of Update.        *)
saveFails(w) ==
  /\ \/ /\ pc[w] = "save"
        /\ holder = NoWriter
        /\ current' = copy[w]
     \/ /\ pc[w] = "write" \* readable is FALSE already
        /\ UNCHANGED current
  /\ holder' = NoWriter
  /\ refused' = TRUE
  /\ Advance(w)
  /\ UNCHANGED <<readable, file, runner, form, edit, copy, restarts>>

-----------------------------------------------------------------------------
Next ==
  \/ Restart
  \/ \E f \in Forms : loadForm(f) \/ submitForm(f) \/ setRunner(f)
  \/ \E i \in Installers : startInstaller(i)
  \/ \E w \in Writers : updateRead(w) \/ saveBegin(w) \/ saveEnd(w) \/ saveFails(w)

Spec == Init /\ [][Next]_vars

-----------------------------------------------------------------------------
(* Properties.                                                              *)

(* Save keeps persist.mu until the bytes are written, so whoever finds the  *)
(* lock free finds on disk what Load returns, after a restart too, unless   *)
(* the disk has refused a write.                                            *)
FileIsCurrent == ~refused /\ holder = NoWriter => current = Loaded

(* persist.go: Update "applies a partial update": it leaves the settings    *)
(* that its mutator does not assign as they are.                            *)
PartialUpdate ==
  [][ \A w \in Writers : holder = NoWriter /\ holder' = w =>
        \A field \in Fields \ Assigned(w) : current'[field] = current[field] ]_vars

Quiet == \A w \in Writers : ~InFlight(w)

(* When no save is under way the Runner works with the saved settings: the  *)
(* workspace may be overridden for the session, and a config with neither   *)
(* a workspace nor a JDK counts as unsaved for skipTests.                   *)
RunnerFollowsConfig ==
  Quiet =>
    /\ current.workspace \in {Unset, runner.workspace} \/ runner.workspace = FlagWorkspace
    /\ current.javaHome \in {Unset, runner.javaHome}
    /\ HasSaved(current) => current.skipTests = runner.skipTests

(* A form whose handler returned stays in force, on disk and, across        *)
(* restarts that interrupt no save, in the Runner, until another form is    *)
(* submitted, unless the disk has refused a write.                          *)
SavedSettingsSurvive ==
  \A f \in Forms :
    /\ ~refused
    /\ pc[f] = "done" /\ \A g \in Forms \ {f} : pc[g] \in {"idle", "form", "rejected"}
    /\ \A i \in Installers : pc[i] \in {"idle", "done"}
    =>
      /\ readable
      /\ file.workspace = form[f].workspace
      /\ file.skipTests = form[f].skipTests
      /\ runner.workspace \in {form[f].workspace, FlagWorkspace}
      /\ runner.skipTests = form[f].skipTests
      /\ form[f].javaHome # Unset => {form[f].javaHome} = {file.javaHome, runner.javaHome}
=============================================================================
