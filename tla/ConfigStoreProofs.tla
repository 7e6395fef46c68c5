--------------------------- MODULE ConfigStoreProofs ---------------------------
(* Theorems about ConfigStore, for every set of writers and of values. *)
EXTENDS ConfigStore, TLAPS

(* Only the writer that holds persist.mu is inside Save, and the cfg it is  *)
(* writing is what current became when it entered.                          *)
HolderWrites ==
  /\ \A w \in Writers : pc[w] = "write" <=> holder = w
  /\ holder # NoWriter => current = copy[holder]

Pcs == {"idle", "form", "set", "read", "save", "write", "done", "rejected", "lost"}

FileInv ==
  /\ pc \in [Writers -> Pcs]
  /\ holder \in Writers \cup {NoWriter}
  /\ HolderWrites
  /\ FileIsCurrent

LEMMA NoWriterIsNobody ==
  NoWriter \notin Writers /\ Forms \subseteq Writers /\ Installers \subseteq Writers
BY WritersAssumption DEF NoWriter, Writers

LEMMA StepFile == FileInv /\ [Next]_vars => FileInv'
<1> SUFFICES ASSUME FileInv, [Next]_vars PROVE FileInv'
  OBVIOUS
<1> USE NoWriterIsNobody DEF FileInv, HolderWrites, FileIsCurrent, Pcs
<1>1. CASE UNCHANGED vars
  BY <1>1 DEF vars, Loaded
<1>2. CASE Restart
  <2>1. /\ holder' = NoWriter /\ current' = Loaded
        /\ UNCHANGED <<readable, file>>
        /\ pc' = [w \in Writers |-> IF InFlight(w) THEN "lost" ELSE pc[w]]
    BY <1>2 DEF Restart
  <2>2. \A w \in Writers : pc'[w] \in Pcs /\ pc'[w] # "write"
    BY <2>1 DEF InFlight
  <2>3. QED
    BY <2>1, <2>2 DEF Loaded
<1>3. ASSUME NEW f \in Forms, loadForm(f) \/ submitForm(f) \/ setRunner(f) PROVE FileInv'
  BY <1>3 DEF loadForm, submitForm, setRunner, Loaded
<1>4. ASSUME NEW i \in Installers, startInstaller(i) PROVE FileInv'
  BY <1>4 DEF startInstaller, Loaded
<1>5. ASSUME NEW w \in Writers, updateRead(w) PROVE FileInv'
  BY <1>5 DEF updateRead, Loaded
<1>6. ASSUME NEW w \in Writers, saveBegin(w) PROVE FileInv'
  BY <1>6 DEF saveBegin
<1>7. ASSUME NEW w \in Writers, saveEnd(w) PROVE FileInv'
  <2>1. /\ holder = w /\ holder' = NoWriter /\ current' = current /\ current = copy[w]
        /\ readable' = TRUE /\ file' = copy[w]
    BY <1>7 DEF saveEnd
  <2>2. pc' \in [Writers -> Pcs] /\ \A v \in Writers : pc'[v] # "write"
    BY <1>7, <2>1 DEF saveEnd, Advance
  <2>3. QED
    BY <2>1, <2>2 DEF Loaded
<1>8. ASSUME NEW w \in Writers, saveFails(w) PROVE FileInv'
  <2>1. /\ refused' = TRUE /\ holder' = NoWriter
        /\ (pc[w] = "save" /\ holder = NoWriter) \/ pc[w] = "write"
    BY <1>8 DEF saveFails
  <2>2. pc' \in [Writers -> Pcs] /\ \A v \in Writers : pc'[v] # "write"
    BY <1>8, <2>1 DEF saveFails, Advance
  <2>3. QED
    BY <2>1, <2>2
<1>9. QED
  BY <1>1, <1>2, <1>3, <1>4, <1>5, <1>6, <1>7, <1>8 DEF Next

LEMMA FileInvariance == Spec => []FileInv
<1>1. Init => FileInv
  BY NoWriterIsNobody DEF Init, FileInv, HolderWrites, FileIsCurrent, Loaded, Pcs
<1>2. FileInv /\ [Next]_vars => FileInv'
  BY StepFile
<1>3. QED
  BY <1>1, <1>2, PTL DEF Spec

(* Whoever finds persist.mu free finds on disk what Load returns, whatever  *)
(* updates overlap and whenever the launcher is killed, as long as no write *)
(* was refused: Save holds the lock from the assignment to the last byte.    *)
THEOREM FileFollowsCurrent == Spec => []FileIsCurrent
BY FileInvariance, PTL DEF FileInv

-----------------------------------------------------------------------------
(* Types.  The Runner never works in the empty workspace: a form that has   *)
(* none is rejected, and what the Runner takes from a form is the field of  *)
(* the form's stage.                                                        *)

FormStages == {"workspace", "skipTests", "javaHome"}

StageOrder ==
  /\ \A i \in Installers : stage[i] = "tomcat" /\ pc[i] \notin {"form", "set"}
  /\ \A f \in Forms :
       /\ stage[f] \in FormStages \cup {"all"}
       /\ pc[f] \in {"idle", "form"} => stage[f] = "workspace"
       /\ pc[f] = "set" => stage[f] \in FormStages
       /\ InFlight(f) => form[f].workspace # Unset

TypeInv == TypeOK /\ StageOrder

LEMMA ConfigsTyped ==
  ASSUME NEW c \in Config, NEW explicit \in BOOLEAN
  PROVE  /\ Zero \in Config
         /\ NewRunner(c, explicit)
              \in [workspace : Workspaces, skipTests : BOOLEAN, javaHome : Homes \cup {Unset}]
<1>1. Zero \in Config
  BY DEF Zero, Config
<1>2. HasSaved(c) \in BOOLEAN /\ (HasSaved(c) => c.skipTests) \in BOOLEAN
  BY DEF HasSaved
<1> QED BY <1>1, <1>2, ValuesAssumption DEF NewRunner, Config

LEMMA MutatedTyped ==
  ASSUME TypeInv, NEW w \in Writers
  PROVE  Mutated(w, current) \in Config
<1> USE ValuesAssumption, NoWriterIsNobody DEF TypeInv, TypeOK, StageOrder, FormStages
<1>1. current \in Config
  OBVIOUS
<1>2. CASE w \in Installers
  BY <1>1, <1>2 DEF Mutated, Config
<1>3. CASE w \in Forms
  <2>1. form[w] \in Config
    BY <1>3
  <2>2. CASE stage[w] = "all"
    BY <1>1, <2>1, <2>2 DEF Mutated, Config
  <2>3. CASE stage[w] = "workspace"
    BY <1>1, <2>1, <2>3 DEF Mutated, Config
  <2>4. CASE stage[w] = "skipTests"
    BY <1>1, <2>1, <2>4 DEF Mutated, Config
  <2>5. CASE stage[w] = "javaHome"
    BY <1>1, <2>1, <2>5 DEF Mutated, Config
  <2> QED BY <1>3, <2>2, <2>3, <2>4, <2>5
<1> QED BY <1>2, <1>3 DEF Writers

(* An Update that ended moves its writer to the next stage. *)
LEMMA AdvanceTyped ==
  ASSUME TypeInv, NEW w \in Writers, pc[w] \in {"save", "write"}, Advance(w), form' = form
  PROVE  /\ stage' \in [Writers -> FormStages \cup {"all", "tomcat"}]
         /\ pc' \in [Writers -> Pcs]
         /\ StageOrder'
<1> USE NoWriterIsNobody DEF TypeInv, TypeOK, StageOrder, FormStages, Pcs, InFlight
<1>1. CASE Finished(w)
  <2>1. pc' = [pc EXCEPT ![w] = "done"] /\ stage' = stage
    BY <1>1 DEF Advance
  <2> QED BY <2>1
<1>2. CASE ~Finished(w)
  <2>1. w \in Forms /\ stage[w] \in FormStages /\ form[w].workspace # Unset
    BY <1>2 DEF Finished, Writers
  <2>2. NextStage(w) \in {"skipTests", "javaHome", "all"}
    BY <2>1 DEF NextStage
  <2>3. /\ stage' = [stage EXCEPT ![w] = NextStage(w)]
        /\ pc' = [pc EXCEPT ![w] = IF NextStage(w) = "all" THEN "read" ELSE "set"]
    BY <1>2 DEF Advance
  <2> HIDE DEF NextStage
  <2> QED BY <2>1, <2>2, <2>3
<1> QED BY <1>1, <1>2

LEMMA StepForm ==
  ASSUME TypeInv, NEW f \in Forms, loadForm(f) \/ submitForm(f) \/ setRunner(f)
  PROVE  TypeInv'
<1> USE NoWriterIsNobody, ValuesAssumption DEF TypeInv, TypeOK, StageOrder, FormStages, InFlight
<1>1. CASE loadForm(f)
  <2> DEFINE Filled == [workspace |-> runner.workspace, skipTests |-> runner.skipTests,
                        javaHome |-> runner.javaHome, tomcatPath |-> current.tomcatPath]
  <2>1. PICK field \in Fields :
          \E v \in Values(field) : /\ edit' = [edit EXCEPT ![f] = field]
                                   /\ form' = [form EXCEPT ![f] = [Filled EXCEPT ![field] = v]]
    BY <1>1 DEF loadForm
  <2>2. PICK v \in Values(field) : /\ edit' = [edit EXCEPT ![f] = field]
                                  /\ form' = [form EXCEPT ![f] = [Filled EXCEPT ![field] = v]]
    BY <2>1
  <2>3. [Filled EXCEPT ![field] = v] \in Config
    <3>1. current.tomcatPath \in Tomcats \cup {Unset}
      BY DEF Config
    <3>2. CASE field = "workspace"
      BY <3>1, <3>2 DEF Values, Config
    <3>3. CASE field = "skipTests"
      BY <3>1, <3>3 DEF Values, Config
    <3>4. CASE field = "javaHome"
      BY <3>1, <3>4 DEF Values, Config
    <3>5. CASE field = "tomcatPath"
      BY <3>1, <3>5 DEF Values, Config
    <3> QED BY <3>2, <3>3, <3>4, <3>5 DEF Fields
  <2>4. form' \in [Forms -> Config] /\ \A g \in Forms : g # f => form'[g] = form[g]
    BY <2>2, <2>3
  <2> HIDE DEF Filled
  <2> QED BY <1>1, <2>2, <2>4 DEF loadForm
<1>2. CASE submitForm(f)
  BY <1>2 DEF submitForm
<1>3. CASE setRunner(f)
  <2>1. pc[f] = "set" /\ stage[f] \in FormStages /\ form[f] \in Config /\ form[f].workspace # Unset
    BY <1>3 DEF setRunner
  <2>2. runner' = [runner EXCEPT ![stage[f]] = form[f][stage[f]]]
    BY <1>3 DEF setRunner
  <2>3. runner' \in [workspace : Workspaces, skipTests : BOOLEAN, javaHome : Homes \cup {Unset}]
    <3>1. CASE stage[f] = "workspace"
      BY <2>1, <2>2, <3>1 DEF Config
    <3>2. CASE stage[f] = "skipTests"
      BY <2>1, <2>2, <3>2 DEF Config
    <3>3. CASE stage[f] = "javaHome"
      BY <2>1, <2>2, <3>3 DEF Config
    <3> QED BY <2>1, <3>1, <3>2, <3>3
  <2> QED BY <1>3, <2>3 DEF setRunner
<1> QED BY <1>1, <1>2, <1>3

LEMMA StepWriter ==
  ASSUME TypeInv, NEW w \in Writers, updateRead(w) \/ saveBegin(w) \/ saveEnd(w) \/ saveFails(w)
  PROVE  TypeInv'
<1> USE NoWriterIsNobody DEF TypeInv, TypeOK
<1>1. CASE updateRead(w)
  <2>1. Mutated(w, current) \in Config
    BY MutatedTyped
  <2>2. copy' \in [Writers -> Config]
    BY <1>1, <2>1 DEF updateRead
  <2> QED BY <1>1, <2>2 DEF updateRead, StageOrder, FormStages, InFlight
<1>2. CASE saveBegin(w)
  <2>1. Zero \in Config
    BY ConfigsTyped
  <2> QED BY <1>2, <2>1 DEF saveBegin, StageOrder, FormStages, InFlight
<1>3. CASE saveEnd(w)
  <2>1. /\ stage' \in [Writers -> FormStages \cup {"all", "tomcat"}]
        /\ pc' \in [Writers -> Pcs] /\ StageOrder'
    BY <1>3, AdvanceTyped DEF saveEnd
  <2> QED BY <1>3, <2>1 DEF saveEnd, Pcs, FormStages
<1>4. CASE saveFails(w)
  <2>1. pc[w] \in {"save", "write"} /\ Advance(w) /\ form' = form /\ current' \in Config
    BY <1>4 DEF saveFails
  <2>2. /\ stage' \in [Writers -> FormStages \cup {"all", "tomcat"}]
        /\ pc' \in [Writers -> Pcs] /\ StageOrder'
    BY <2>1, AdvanceTyped
  <2> QED BY <1>4, <2>1, <2>2 DEF saveFails, Pcs, FormStages
<1> QED BY <1>1, <1>2, <1>3, <1>4

LEMMA StepTypes == TypeInv /\ [Next]_vars => TypeInv'
<1> SUFFICES ASSUME TypeInv, [Next]_vars PROVE TypeInv'
  OBVIOUS
<1>1. CASE UNCHANGED vars
  BY <1>1 DEF vars, TypeInv, TypeOK, StageOrder, InFlight
<1>2. CASE Restart
  <2>1. Loaded \in Config
    BY ConfigsTyped DEF Loaded, TypeInv, TypeOK
  <2>2. PICK explicit \in BOOLEAN : runner' = NewRunner(Loaded, explicit)
    BY <1>2 DEF Restart
  <2>3. runner' \in [workspace : Workspaces, skipTests : BOOLEAN, javaHome : Homes \cup {Unset}]
    BY <2>1, <2>2, ConfigsTyped
  <2>4. restarts' \in 0 .. MaxRestarts
    BY <1>2, WritersAssumption DEF Restart, TypeInv, TypeOK
  <2>5. pc' = [w \in Writers |-> IF InFlight(w) THEN "lost" ELSE pc[w]] /\ UNCHANGED <<stage, form>>
    BY <1>2 DEF Restart
  <2>6. StageOrder'
    BY <2>5, NoWriterIsNobody DEF TypeInv, TypeOK, StageOrder, InFlight
  <2> QED BY <1>2, <2>1, <2>3, <2>4, <2>5, <2>6 DEF Restart, TypeInv, TypeOK
<1>3. ASSUME NEW f \in Forms, loadForm(f) \/ submitForm(f) \/ setRunner(f) PROVE TypeInv'
  BY <1>3, StepForm
<1>4. ASSUME NEW i \in Installers, startInstaller(i) PROVE TypeInv'
  BY <1>4, NoWriterIsNobody, WritersAssumption
     DEF startInstaller, TypeInv, TypeOK, StageOrder, FormStages, InFlight, Writers
<1>5. ASSUME NEW w \in Writers, updateRead(w) \/ saveBegin(w) \/ saveEnd(w) \/ saveFails(w)
      PROVE  TypeInv'
  BY <1>5, StepWriter
<1> QED BY <1>1, <1>2, <1>3, <1>4, <1>5 DEF Next

LEMMA TypesHold == Spec => []TypeInv
<1>1. Init => TypeInv
  <2> SUFFICES ASSUME Init PROVE TypeInv
    OBVIOUS
  <2>1. Zero \in Config
    BY ConfigsTyped, NoWriterIsNobody DEF Zero, Config
  <2>2. PICK explicit \in BOOLEAN : runner = NewRunner(Zero, explicit)
    BY DEF Init
  <2>3. runner \in [workspace : Workspaces, skipTests : BOOLEAN, javaHome : Homes \cup {Unset}]
    BY <2>1, <2>2, ConfigsTyped
  <2>4. \A w \in Writers : pc[w] = "idle" /\ stage[w] = IF w \in Forms THEN "workspace" ELSE "tomcat"
    BY DEF Init
  <2>5. StageOrder
    BY <2>4, NoWriterIsNobody, WritersAssumption DEF StageOrder, FormStages, InFlight
  <2>6. /\ stage \in [Writers -> {"workspace", "skipTests", "javaHome", "all", "tomcat"}]
        /\ pc \in [Writers -> {"idle", "form", "set", "read", "save", "write",
                               "done", "rejected", "lost"}]
    BY DEF Init
  <2>7. form \in [Forms -> Config] /\ copy \in [Writers -> Config] /\ edit \in [Forms -> Fields]
    BY <2>1 DEF Init, Fields
  <2>8. /\ current \in Config /\ readable \in BOOLEAN /\ file \in Config
        /\ holder \in Writers \cup {NoWriter} /\ refused \in BOOLEAN
    BY <2>1 DEF Init
  <2>9. restarts \in 0 .. MaxRestarts
    BY WritersAssumption DEF Init
  <2> QED BY <2>3, <2>5, <2>6, <2>7, <2>8, <2>9 DEF TypeInv, TypeOK
<1>2. TypeInv /\ [Next]_vars => TypeInv'
  BY StepTypes
<1>3. QED
  BY <1>1, <1>2, PTL DEF Spec

(* Type correctness, for any writers, values and restarts; in particular    *)
(* the Runner's workspace is never empty.                                   *)
THEOREM TypeCorrect == Spec => []TypeOK
BY TypesHold, PTL DEF TypeInv

-----------------------------------------------------------------------------
(* Writers that do not overlap.                                             *)

(* One writer at a time, and nobody changes current between the copy an     *)
(* Update takes and the Save that stores it.                                *)
OneWriter == \A v, w \in Writers : InFlight(v) /\ InFlight(w) => v = w
FreshCopy == \A w \in Writers : pc[w] = "save" => copy[w] = Mutated(w, current)

(* How far the form in flight has come: the Runner takes a field before the *)
(* Update of that field stores it.                                          *)
Progress(f) ==
  /\ ~(stage[f] = "workspace" /\ pc[f] = "set") => runner.workspace = form[f].workspace
  /\ stage[f] # "workspace" \/ pc[f] = "write" => current.workspace = form[f].workspace
  /\ stage[f] \in {"javaHome", "all"} \/ (stage[f] = "skipTests" /\ pc[f] # "set")
       => runner.skipTests = form[f].skipTests
  /\ stage[f] \in {"javaHome", "all"} \/ (stage[f] = "skipTests" /\ pc[f] = "write")
       => current.skipTests = form[f].skipTests
  /\ form[f].javaHome # Unset /\ (stage[f] = "all" \/ (stage[f] = "javaHome" /\ pc[f] # "set"))
       => runner.javaHome = form[f].javaHome
  /\ form[f].javaHome # Unset /\ (stage[f] = "all" \/ (stage[f] = "javaHome" /\ pc[f] = "write"))
       => current.javaHome = form[f].javaHome
  /\ stage[f] = "javaHome" => form[f].javaHome # Unset
  /\ stage[f] # "javaHome" \/ pc[f] \in {"set", "write"}
       => current.javaHome \in {Unset, runner.javaHome}
InProgress == \A f \in Forms : InFlight(f) => Progress(f)

(* What RunnerFollowsConfig says of a quiet moment. *)
Follows ==
  /\ current.workspace \in {Unset, runner.workspace} \/ runner.workspace = FlagWorkspace
  /\ current.javaHome \in {Unset, runner.javaHome}
  /\ HasSaved(current) => current.skipTests = runner.skipTests
FollowsAtRest == (\A f \in Forms : ~InFlight(f)) => Follows

(* A form that was stored is in force: in current, and so on disk whenever  *)
(* persist.mu is free, and in the Runner.                                   *)
LastForm(f) ==
  /\ pc[f] = "done" /\ \A g \in Forms \ {f} : pc[g] \in {"idle", "form", "rejected"}
  /\ \A i \in Installers : pc[i] # "lost"
InForce(f) ==
  /\ current.workspace = form[f].workspace
  /\ current.skipTests = form[f].skipTests
  /\ form[f].javaHome # Unset => {form[f].javaHome} = {current.javaHome, runner.javaHome}
  /\ runner.workspace \in {form[f].workspace, FlagWorkspace}
  /\ runner.skipTests = form[f].skipTests
StaysInForce == \A f \in Forms : ~refused /\ LastForm(f) => InForce(f)
DoneHasWorkspace == \A f \in Forms : pc[f] = "done" => form[f].workspace # Unset

(* What holds of a configuration c that the current stage of f has stored.  *)
Written(f, c) ==
  /\ c.workspace = form[f].workspace /\ runner.workspace = form[f].workspace
  /\ stage[f] # "workspace" =>
       c.skipTests = form[f].skipTests /\ runner.skipTests = form[f].skipTests
  /\ stage[f] \in {"javaHome", "all"} /\ form[f].javaHome # Unset =>
       c.javaHome = form[f].javaHome /\ runner.javaHome = form[f].javaHome
  /\ stage[f] = "javaHome" => form[f].javaHome # Unset
  /\ c.javaHome \in {Unset, runner.javaHome}

SerialInv ==
  /\ OneWriter /\ FreshCopy /\ InProgress /\ FollowsAtRest
  /\ DoneHasWorkspace /\ StaysInForce

LEMMA ProgressWrites ==
  ASSUME TypeInv, NEW f \in Forms, Progress(f), pc[f] \in {"save", "write"}
  PROVE  /\ pc[f] = "write" => Written(f, current)
         /\ pc[f] = "save" => Written(f, Mutated(f, current))
<1> USE NoWriterIsNobody, ValuesAssumption DEF TypeInv, TypeOK, StageOrder, FormStages
<1>1. pc[f] = "write" => Written(f, current)
  BY DEF Progress, Written
<1>2. ASSUME pc[f] = "save" PROVE Written(f, Mutated(f, current))
  <2>1. current \in Config /\ form[f] \in Config
    OBVIOUS
  <2>2. CASE stage[f] = "workspace"
    BY <1>2, <2>1, <2>2 DEF Progress, Written, Mutated, Config
  <2>3. CASE stage[f] = "skipTests"
    BY <1>2, <2>1, <2>3 DEF Progress, Written, Mutated, Config
  <2>4. CASE stage[f] = "javaHome"
    BY <1>2, <2>1, <2>4 DEF Progress, Written, Mutated, Config
  <2>5. CASE stage[f] = "all"
    BY <1>2, <2>1, <2>5 DEF Progress, Written, Mutated, Config
  <2>6. QED
    BY <2>2, <2>3, <2>4, <2>5
<1>3. QED
  BY <1>1, <1>2

LEMMA WrittenFollows ==
  ASSUME NEW f \in Forms, Written(f, current), stage[f] = "all"
  PROVE  Follows
BY DEF Written, Follows

(* The next stage of a form begins where the last one ended. *)
LEMMA AdvanceProgress ==
  ASSUME TypeInv, NEW f \in Forms, pc[f] \in {"save", "write"}, Advance(f),
         UNCHANGED <<form, runner>>, Written(f, current')
  PROVE  /\ stage[f] = "all" => pc'[f] = "done" /\ stage'[f] = "all"
         /\ stage[f] # "all" => InFlight(f)' /\ Progress(f)'
<1> USE NoWriterIsNobody DEF TypeInv, TypeOK, StageOrder, FormStages
<1>1. CASE stage[f] = "all"
  BY <1>1 DEF Advance, Finished
<1>2. CASE stage[f] # "all"
  <2>1. /\ stage'[f] = NextStage(f)
        /\ pc'[f] = IF NextStage(f) = "all" THEN "read" ELSE "set"
    BY <1>2 DEF Advance, Finished
  <2>2. CASE stage[f] = "workspace"
    <3>1. NextStage(f) = "skipTests"
      BY <2>2 DEF NextStage
    <3>2. QED
      BY <2>1, <2>2, <3>1 DEF Written, Progress, InFlight
  <2>3. CASE stage[f] = "skipTests" /\ form[f].javaHome # Unset
    <3>1. NextStage(f) = "javaHome"
      BY <2>3 DEF NextStage
    <3>2. QED
      BY <2>1, <2>3, <3>1 DEF Written, Progress, InFlight
  <2>4. CASE stage[f] = "skipTests" /\ form[f].javaHome = Unset
    <3>1. NextStage(f) = "all"
      BY <2>4 DEF NextStage
    <3>2. QED
      BY <2>1, <2>4, <3>1 DEF Written, Progress, InFlight
  <2>5. CASE stage[f] = "javaHome"
    <3>1. NextStage(f) = "all"
      BY <2>5 DEF NextStage
    <3>2. QED
      BY <2>1, <2>5, <3>1 DEF Written, Progress, InFlight
  <2>6. QED
    BY <1>2, <2>2, <2>3, <2>4, <2>5
<1>3. QED
  BY <1>1, <1>2

(* An installer stores the settings it found, its Tomcat apart. *)
LEMMA InstallerKeeps ==
  ASSUME TypeInv, FreshCopy, NEW i \in Installers, pc[i] = "save"
  PROVE  \A field \in {"workspace", "skipTests", "javaHome"} : copy[i][field] = current[field]
<1>1. copy[i] = [current EXCEPT !.tomcatPath = InstalledTomcat]
  BY NoWriterIsNobody DEF FreshCopy, Mutated, TypeInv, StageOrder
<1>2. current \in Config
  BY DEF TypeInv, TypeOK
<1>3. QED
  BY <1>1, <1>2 DEF Config

LEMMA StepOneWriter ==
  ASSUME Serial, TypeInv, OneWriter, [Next]_vars PROVE OneWriter'
<1> USE NoWriterIsNobody DEF TypeInv, TypeOK, InFlight
<1>1. ASSUME \A w \in Writers : InFlight(w)' => InFlight(w) PROVE OneWriter'
  BY <1>1 DEF OneWriter
<1>2. CASE UNCHANGED vars
  BY <1>1, <1>2 DEF vars
<1>3. CASE Restart
  BY <1>1, <1>3 DEF Restart
<1>4. ASSUME NEW f \in Forms, loadForm(f) \/ setRunner(f) PROVE OneWriter'
  BY <1>1, <1>4 DEF loadForm, setRunner
<1>5. ASSUME NEW f \in Forms, submitForm(f) PROVE OneWriter'
  BY <1>5 DEF submitForm, MayStart, OneWriter
<1>6. ASSUME NEW i \in Installers, startInstaller(i) PROVE OneWriter'
  BY <1>6 DEF startInstaller, MayStart, OneWriter
<1>7. ASSUME NEW w \in Writers, updateRead(w) \/ saveBegin(w) PROVE OneWriter'
  BY <1>1, <1>7 DEF updateRead, saveBegin
<1>8. ASSUME NEW w \in Writers, saveEnd(w) \/ saveFails(w) PROVE OneWriter'
  BY <1>1, <1>8 DEF saveEnd, saveFails, Advance
<1>9. QED
  BY <1>2, <1>3, <1>4, <1>5, <1>6, <1>7, <1>8 DEF Next

LEMMA StepFreshCopy ==
  ASSUME TypeInv, OneWriter, FreshCopy, [Next]_vars PROVE FreshCopy'
<1> SUFFICES ASSUME NEW v \in Writers, pc'[v] = "save"
             PROVE  copy'[v] = Mutated(v, current)'
  BY DEF FreshCopy
<1> USE NoWriterIsNobody DEF TypeInv, TypeOK
<1>1. ASSUME pc[v] = "save", copy'[v] = copy[v], UNCHANGED <<current, stage>>,
             v \in Forms => form'[v] = form[v]
      PROVE  copy'[v] = Mutated(v, current)'
  <2>1. copy[v] = Mutated(v, current)
    BY <1>1 DEF FreshCopy
  <2>2. CASE v \in Forms
    BY <1>1, <2>1, <2>2 DEF Mutated
  <2>3. CASE v \in Installers
    BY <1>1, <2>1, <2>3 DEF Mutated, StageOrder
  <2>4. QED
    BY <2>2, <2>3 DEF Writers
<1>2. CASE UNCHANGED vars
  BY <1>1, <1>2 DEF vars
<1>3. CASE Restart
  BY <1>3 DEF Restart, InFlight
<1>4. ASSUME NEW f \in Forms, loadForm(f) PROVE copy'[v] = Mutated(v, current)'
  <2>1. v # f /\ pc[v] = "save" /\ UNCHANGED <<current, stage, copy>>
    BY <1>4 DEF loadForm
  <2>2. v \in Forms => form'[v] = form[v]
    BY <1>4, <2>1 DEF loadForm
  <2>3. QED
    BY <1>1, <2>1, <2>2
<1>5. ASSUME NEW f \in Forms, submitForm(f) \/ setRunner(f) PROVE copy'[v] = Mutated(v, current)'
  BY <1>1, <1>5 DEF submitForm, setRunner
<1>6. ASSUME NEW i \in Installers, startInstaller(i) PROVE copy'[v] = Mutated(v, current)'
  BY <1>1, <1>6 DEF startInstaller
<1>7. ASSUME NEW w \in Writers, updateRead(w) PROVE copy'[v] = Mutated(v, current)'
  <2>1. CASE v = w
    BY <1>7, <2>1 DEF updateRead, Mutated
  <2>2. CASE v # w
    BY <1>1, <1>7, <2>2 DEF updateRead
  <2>3. QED
    BY <2>1, <2>2
(* A Save is the only one under way, so no copy waits for it to end. *)
<1>8. ASSUME NEW w \in Writers, saveBegin(w) \/ saveEnd(w) \/ saveFails(w) PROVE FALSE
  <2>1. pc[w] \in {"save", "write"} /\ pc'[w] # "save"
    BY <1>8 DEF saveBegin, saveEnd, saveFails, Advance
  <2>2. v # w /\ pc[v] = "save"
    BY <1>8, <2>1 DEF saveBegin, saveEnd, saveFails, Advance
  <2>3. QED
    BY <2>1, <2>2 DEF OneWriter, InFlight
<1>9. QED
  BY <1>2, <1>3, <1>4, <1>5, <1>6, <1>7, <1>8 DEF Next

LEMMA StepInProgress ==
  ASSUME Serial, TypeInv, OneWriter, FreshCopy, InProgress, FollowsAtRest, [Next]_vars
  PROVE  InProgress'
<1> SUFFICES ASSUME NEW f \in Forms, InFlight(f)' PROVE Progress(f)'
  BY DEF InProgress
<1> USE NoWriterIsNobody DEF TypeInv, TypeOK
<1>1. ASSUME InFlight(f), UNCHANGED <<current, runner>>,
             form'[f] = form[f], stage'[f] = stage[f],
             pc'[f] = pc[f] \/ (pc[f] = "read" /\ pc'[f] = "save")
      PROVE  Progress(f)'
  BY <1>1 DEF InProgress, Progress
(* Writers other than f are not in flight. *)
<1>2. ASSUME NEW w \in Writers, w # f, InFlight(w), InFlight(f) PROVE FALSE
  BY <1>2 DEF OneWriter
<1>3. CASE UNCHANGED vars
  BY <1>1, <1>3 DEF vars, InFlight
<1>4. CASE Restart
  BY <1>4 DEF Restart, InFlight
<1>5. ASSUME NEW g \in Forms, loadForm(g) PROVE Progress(f)'
  <2>1. f # g /\ InFlight(f) /\ pc'[f] = pc[f] /\ UNCHANGED <<current, runner, stage>>
    BY <1>5 DEF loadForm, InFlight
  <2>2. form'[f] = form[f]
    BY <1>5, <2>1 DEF loadForm
  <2>3. QED
    BY <1>1, <2>1, <2>2
<1>6. ASSUME NEW g \in Forms, submitForm(g) PROVE Progress(f)'
  <2>1. (\A h \in Forms : ~InFlight(h)) /\ UNCHANGED <<current, runner, stage, form>>
    BY <1>6 DEF submitForm, MayStart
  <2>2. f = g /\ pc'[f] = "set" /\ stage[f] = "workspace"
    BY <1>6, <2>1 DEF submitForm, StageOrder, InFlight
  <2>3. QED
    BY <2>1, <2>2 DEF FollowsAtRest, Follows, Progress
<1>7. ASSUME NEW g \in Forms, setRunner(g) PROVE Progress(f)'
  <2>1. /\ pc[g] = "set" /\ pc' = [pc EXCEPT ![g] = "read"]
        /\ runner' = [runner EXCEPT ![stage[g]] = form[g][stage[g]]]
        /\ UNCHANGED <<current, form, stage>>
    BY <1>7 DEF setRunner
  <2>2. InFlight(f) /\ InFlight(g)
    BY <2>1 DEF InFlight
  <2>3. f = g
    BY <1>2, <2>2
  <2>4. Progress(f) /\ stage[f] \in FormStages
    BY <2>1, <2>2, <2>3 DEF InProgress, StageOrder
  <2>5. CASE stage[f] = "workspace"
    BY <2>1, <2>3, <2>4, <2>5 DEF Progress
  <2>6. CASE stage[f] = "skipTests"
    BY <2>1, <2>3, <2>4, <2>6 DEF Progress
  <2>7. CASE stage[f] = "javaHome"
    BY <2>1, <2>3, <2>4, <2>7 DEF Progress
  <2>8. QED
    BY <2>4, <2>5, <2>6, <2>7 DEF FormStages
<1>8. ASSUME NEW i \in Installers, startInstaller(i) PROVE Progress(f)'
  BY <1>1, <1>8, WritersAssumption DEF startInstaller, InFlight
<1>9. ASSUME NEW w \in Writers, updateRead(w) PROVE Progress(f)'
  BY <1>1, <1>9 DEF updateRead, InFlight
<1>10. ASSUME NEW w \in Writers, saveBegin(w) PROVE Progress(f)'
  <2>1. /\ pc[w] = "save" /\ pc' = [pc EXCEPT ![w] = "write"]
        /\ current' = copy[w] /\ UNCHANGED <<form, stage, runner>>
    BY <1>10 DEF saveBegin
  <2>2. w = f
    BY <1>2, <2>1 DEF InFlight
  <2>3. Progress(f)
    BY <2>1, <2>2 DEF InProgress, InFlight
  <2>4. Written(f, current')
    BY <2>1, <2>2, <2>3, ProgressWrites DEF FreshCopy
  <2>5. stage[f] \in FormStages \cup {"all"}
    BY DEF StageOrder
  <2>6. QED
    BY <2>1, <2>2, <2>4, <2>5 DEF Written, Progress, FormStages
<1>11. ASSUME NEW w \in Writers, saveEnd(w) \/ saveFails(w) PROVE Progress(f)'
  <2>1. /\ pc[w] \in {"save", "write"} /\ Advance(w) /\ UNCHANGED <<form, runner>>
        /\ current' = IF pc[w] = "save" THEN copy[w] ELSE current
    BY <1>11 DEF saveEnd, saveFails
  <2>2. w = f
    <3>1. InFlight(w)
      BY <2>1 DEF InFlight
    <3>2. w # f => pc'[f] = pc[f]
      BY <2>1 DEF Advance
    <3>3. QED
      BY <1>2, <3>1, <3>2 DEF InFlight
  <2>3. Progress(f)
    BY <2>1, <2>2 DEF InProgress, InFlight
  <2>4. Written(f, current')
    BY <2>1, <2>2, <2>3, ProgressWrites DEF FreshCopy
  <2>5. QED
    BY <2>1, <2>2, <2>4, AdvanceProgress DEF InFlight
<1>12. QED
  BY <1>3, <1>4, <1>5, <1>6, <1>7, <1>8, <1>9, <1>10, <1>11 DEF Next

(* New gives the Runner what Load returned, an explicit workspace apart. *)
LEMMA NewRunnerFollows ==
  ASSUME NEW c \in Config, NEW explicit \in BOOLEAN, NEW r, r = NewRunner(c, explicit)
  PROVE  /\ c.workspace \in {Unset, r.workspace} \/ r.workspace = FlagWorkspace
         /\ c.javaHome \in {Unset, r.javaHome}
         /\ HasSaved(c) => c.skipTests = r.skipTests
<1>1. c.skipTests \in BOOLEAN
  BY DEF Config
<1>2. HasSaved(c) => r.skipTests = c.skipTests
  BY <1>1 DEF NewRunner, HasSaved
<1>3. QED
  BY <1>2 DEF NewRunner

LEMMA StepFollows ==
  ASSUME TypeInv, OneWriter, FreshCopy, InProgress, FollowsAtRest, [Next]_vars
  PROVE  FollowsAtRest'
<1> SUFFICES ASSUME \A f \in Forms : ~InFlight(f)' PROVE Follows'
  BY DEF FollowsAtRest
<1> USE NoWriterIsNobody DEF TypeInv, TypeOK
<1>1. ASSUME \A f \in Forms : ~InFlight(f), runner' = runner, HasSaved(current)' = HasSaved(current),
             \A field \in {"workspace", "skipTests", "javaHome"} : current'[field] = current[field]
      PROVE  Follows'
  BY <1>1 DEF FollowsAtRest, Follows
<1>2. CASE UNCHANGED vars
  BY <1>1, <1>2 DEF vars, InFlight
<1>3. CASE Restart
  <2>1. Loaded \in Config
    BY ConfigsTyped DEF Loaded
  <2>2. PICK explicit \in BOOLEAN : runner' = NewRunner(Loaded, explicit) /\ current' = Loaded
    BY <1>3 DEF Restart
  <2>3. QED
    BY <2>1, <2>2, NewRunnerFollows DEF Follows
<1>4. ASSUME NEW f \in Forms, loadForm(f) \/ submitForm(f) PROVE Follows'
  <2>1. UNCHANGED <<current, runner>> /\ \A g \in Forms : InFlight(g) => InFlight(g)'
    BY <1>4 DEF loadForm, submitForm, InFlight
  <2>2. QED
    BY <1>1, <2>1
<1>5. ASSUME NEW f \in Forms, setRunner(f) PROVE FALSE
  BY <1>5 DEF setRunner, InFlight
<1>6. ASSUME NEW i \in Installers, startInstaller(i) PROVE Follows'
  <2>1. UNCHANGED <<current, runner>> /\ \A g \in Forms : InFlight(g) => InFlight(g)'
    BY <1>6 DEF startInstaller, InFlight
  <2>2. QED
    BY <1>1, <2>1
<1>7. ASSUME NEW w \in Writers, updateRead(w) PROVE Follows'
  <2>1. UNCHANGED <<current, runner>> /\ \A g \in Forms : InFlight(g) => InFlight(g)'
    BY <1>7 DEF updateRead, InFlight
  <2>2. QED
    BY <1>1, <2>1
<1>8. ASSUME NEW w \in Writers, saveBegin(w) \/ saveEnd(w) \/ saveFails(w) PROVE Follows'
  <2>1. /\ pc[w] \in {"save", "write"} /\ UNCHANGED <<form, runner>>
        /\ current' = IF pc[w] = "save" THEN copy[w] ELSE current
    BY <1>8 DEF saveBegin, saveEnd, saveFails
  <2>2. CASE w \in Installers
    <3>1. \A f \in Forms : ~InFlight(f)
      BY <2>1, <2>2, WritersAssumption DEF OneWriter, InFlight
    <3>2. \A field \in {"workspace", "skipTests", "javaHome"} : current'[field] = current[field]
      BY <2>1, <2>2, InstallerKeeps
    <3>3. HasSaved(current)' = HasSaved(current)
      BY <3>2 DEF HasSaved
    <3>4. QED
      BY <1>1, <2>1, <3>1, <3>2, <3>3
  <2>3. CASE w \in Forms
    <3>1. Advance(w)
      BY <1>8, <2>3 DEF saveBegin, saveEnd, saveFails, InFlight
    <3>2. Written(w, current')
      BY <2>1, <2>3, ProgressWrites DEF InProgress, InFlight, FreshCopy
    <3>3. stage[w] = "all"
      BY <2>1, <2>3, <3>1, <3>2, AdvanceProgress
    <3>4. QED
      BY <2>1, <3>2, <3>3 DEF Written, Follows
  <2>4. QED
    BY <2>2, <2>3 DEF Writers
<1>9. QED
  BY <1>2, <1>3, <1>4, <1>5, <1>6, <1>7, <1>8 DEF Next

LEMMA StepDone == TypeInv /\ DoneHasWorkspace /\ [Next]_vars => DoneHasWorkspace'
<1> SUFFICES ASSUME TypeInv, DoneHasWorkspace, [Next]_vars, NEW f \in Forms, pc'[f] = "done"
             PROVE  form'[f].workspace # Unset
  BY DEF DoneHasWorkspace
<1> USE NoWriterIsNobody DEF TypeInv, TypeOK
<1>1. ASSUME pc[f] = "done" \/ InFlight(f), form'[f] = form[f] PROVE form'[f].workspace # Unset
  BY <1>1 DEF DoneHasWorkspace, StageOrder
<1>2. CASE UNCHANGED vars
  BY <1>1, <1>2 DEF vars
<1>3. CASE Restart
  BY <1>1, <1>3 DEF Restart
<1>4. ASSUME NEW g \in Forms, loadForm(g) PROVE form'[f].workspace # Unset
  BY <1>1, <1>4 DEF loadForm
<1>5. ASSUME NEW g \in Forms, submitForm(g) \/ setRunner(g) PROVE form'[f].workspace # Unset
  BY <1>1, <1>5 DEF submitForm, setRunner
<1>6. ASSUME NEW i \in Installers, startInstaller(i) PROVE form'[f].workspace # Unset
  BY <1>1, <1>6 DEF startInstaller
<1>7. ASSUME NEW w \in Writers, updateRead(w) \/ saveBegin(w) PROVE form'[f].workspace # Unset
  BY <1>1, <1>7 DEF updateRead, saveBegin
<1>8. ASSUME NEW w \in Writers, saveEnd(w) \/ saveFails(w) PROVE form'[f].workspace # Unset
  BY <1>1, <1>8 DEF saveEnd, saveFails, Advance, InFlight
<1>9. QED
  BY <1>2, <1>3, <1>4, <1>5, <1>6, <1>7, <1>8 DEF Next

LEMMA StepInForce ==
  ASSUME FileInv, TypeInv, OneWriter, FreshCopy, InProgress, DoneHasWorkspace, StaysInForce,
         [Next]_vars
  PROVE  StaysInForce'
<1> SUFFICES ASSUME NEW f \in Forms, ~refused', LastForm(f)' PROVE InForce(f)'
  BY DEF StaysInForce
<1> USE NoWriterIsNobody DEF TypeInv, TypeOK
<1>1. ASSUME ~refused, LastForm(f), runner' = runner, form'[f] = form[f],
             \A field \in {"workspace", "skipTests", "javaHome"} : current'[field] = current[field]
      PROVE  InForce(f)'
  BY <1>1 DEF StaysInForce, InForce
<1>2. CASE UNCHANGED vars
  BY <1>1, <1>2 DEF vars, LastForm
(* A restart that makes no installer lost interrupts no Save.               *)
<1>3. CASE Restart
  <2>1. /\ pc' = [w \in Writers |-> IF InFlight(w) THEN "lost" ELSE pc[w]]
        /\ refused' = refused /\ form' = form /\ current' = Loaded
    BY <1>3 DEF Restart
  <2>2. LastForm(f) /\ \A w \in Writers : ~InFlight(w)
    <3>1. \A i \in Installers : ~InFlight(i) /\ pc[i] # "lost"
      BY <2>1 DEF LastForm
    <3>2. \A g \in Forms : ~InFlight(g) /\ pc'[g] = pc[g]
      BY <2>1 DEF LastForm
    <3>3. QED
      BY <3>1, <3>2 DEF LastForm, Writers
  <2>3. holder = NoWriter
    BY <2>2 DEF FileInv, HolderWrites, InFlight
  <2>4. current = Loaded /\ InForce(f)
    BY <2>1, <2>2, <2>3 DEF FileInv, FileIsCurrent, StaysInForce
  <2>5. form[f].workspace # Unset
    BY <2>2 DEF DoneHasWorkspace, LastForm
  <2>6. PICK explicit \in BOOLEAN : runner' = NewRunner(current, explicit)
    BY <1>3, <2>4 DEF Restart
  <2>7. current.skipTests \in BOOLEAN /\ HasSaved(current)
    BY <2>4, <2>5 DEF Config, InForce, HasSaved
  <2>8. runner'.skipTests = current.skipTests
    BY <2>6, <2>7 DEF NewRunner
  <2>9. runner'.workspace \in {current.workspace, FlagWorkspace}
    BY <2>4, <2>5, <2>6 DEF NewRunner, InForce
  <2>10. current.javaHome # Unset => runner'.javaHome = current.javaHome
    BY <2>6 DEF NewRunner
  <2>11. QED
    BY <2>1, <2>4, <2>8, <2>9, <2>10 DEF InForce
<1>4. ASSUME NEW g \in Forms, loadForm(g) PROVE InForce(f)'
  <2>1. LastForm(f) /\ f # g /\ UNCHANGED <<current, runner, refused>>
    BY <1>4, WritersAssumption DEF loadForm, LastForm
  <2>2. form'[f] = form[f]
    BY <1>4, <2>1 DEF loadForm
  <2>3. QED
    BY <1>1, <2>1, <2>2
<1>5. ASSUME NEW g \in Forms, submitForm(g) PROVE InForce(f)'
  <2>1. LastForm(f) /\ UNCHANGED <<current, runner, form, refused>>
    BY <1>5, WritersAssumption DEF submitForm, LastForm
  <2>2. QED
    BY <1>1, <2>1
<1>6. ASSUME NEW g \in Forms, setRunner(g) PROVE FALSE
  BY <1>6 DEF setRunner, LastForm
<1>7. ASSUME NEW i \in Installers, startInstaller(i) PROVE InForce(f)'
  <2>1. LastForm(f) /\ UNCHANGED <<current, runner, form, refused>>
    BY <1>7, WritersAssumption DEF startInstaller, LastForm
  <2>2. QED
    BY <1>1, <2>1
<1>8. ASSUME NEW i \in Installers, updateRead(i) \/ saveBegin(i) \/ saveEnd(i) \/ saveFails(i)
      PROVE  InForce(f)'
  <2>1. /\ UNCHANGED <<form, runner>> /\ pc[i] # "lost"
        /\ pc' = [pc EXCEPT ![i] = pc'[i]]
        /\ current' = current \/ (pc[i] = "save" /\ current' = copy[i])
    BY <1>8 DEF updateRead, saveBegin, saveEnd, saveFails, Advance
  <2>2. LastForm(f) /\ ~refused
    BY <1>8, <2>1, WritersAssumption DEF LastForm, updateRead, saveBegin, saveEnd, saveFails
  <2>3. \A field \in {"workspace", "skipTests", "javaHome"} : current'[field] = current[field]
    BY <2>1, InstallerKeeps
  <2>4. QED
    BY <1>1, <2>1, <2>2, <2>3
<1>9. ASSUME NEW g \in Forms, updateRead(g) \/ saveBegin(g) PROVE FALSE
  BY <1>9 DEF updateRead, saveBegin, LastForm
<1>10. ASSUME NEW g \in Forms, saveEnd(g) PROVE InForce(f)'
  <2>1. pc[g] = "write" /\ Advance(g) /\ UNCHANGED <<form, runner, current>>
    BY <1>10 DEF saveEnd
  <2>2. g = f
    BY <2>1 DEF Advance, LastForm
  <2>3. Written(f, current')
    BY <2>1, <2>2, ProgressWrites DEF InProgress, InFlight
  <2>4. stage[f] = "all"
    <3>1. pc'[f] = "done"
      BY DEF LastForm
    <3>2. QED
      BY <2>1, <2>2, <2>3, <3>1, AdvanceProgress DEF InFlight
  <2>5. QED
    BY <2>1, <2>3, <2>4 DEF Written, InForce
<1>11. ASSUME NEW g \in Forms, saveFails(g) PROVE FALSE
  BY <1>11 DEF saveFails
<1>12. QED
  BY <1>2, <1>3, <1>4, <1>5, <1>6, <1>7, <1>8, <1>9, <1>10, <1>11 DEF Next, Writers

LEMMA SerialInvariance == ASSUME Serial PROVE Spec => [](FileInv /\ TypeInv /\ SerialInv)
<1>1. Init => SerialInv
  <2> SUFFICES ASSUME Init PROVE SerialInv
    OBVIOUS
  <2>1. \A w \in Writers : pc[w] = "idle"
    BY DEF Init
  <2>2. Zero \in Config /\ current = Zero
    BY NoWriterIsNobody, ConfigsTyped DEF Init, Zero, Config
  <2>3. PICK explicit \in BOOLEAN : runner = NewRunner(Zero, explicit)
    BY DEF Init
  <2>4. Follows
    BY <2>2, <2>3, NewRunnerFollows DEF Follows
  <2>5. QED
    BY <2>1, <2>4, NoWriterIsNobody DEF SerialInv, OneWriter, FreshCopy, InProgress, FollowsAtRest,
       DoneHasWorkspace, StaysInForce, LastForm, InFlight
<1>2. FileInv /\ TypeInv /\ SerialInv /\ [Next]_vars => SerialInv'
  BY StepOneWriter, StepFreshCopy, StepInProgress, StepFollows, StepDone, StepInForce
     DEF SerialInv
<1>3. QED
  BY <1>1, <1>2, FileInvariance, TypesHold, PTL DEF Spec

(* persist.go: Update "applies a partial update".  It does as long as       *)
(* updates do not overlap: a Save changes only the fields its mutator       *)
(* assigns, whoever saved before and however often the launcher restarts.   *)
THEOREM UpdatesArePartial == ASSUME Serial PROVE Spec => PartialUpdate
<1>1. ASSUME FileInv, TypeInv, SerialInv, [Next]_vars,
             NEW w \in Writers, holder = NoWriter, holder' = w,
             NEW field \in Fields \ Assigned(w)
      PROVE  current'[field] = current[field]
  <2> USE NoWriterIsNobody DEF TypeInv, TypeOK
  <2>1. pc[w] = "save" /\ current' = copy[w]
    BY <1>1 DEF Next, vars, Restart, loadForm, submitForm, setRunner, startInstaller, updateRead,
                saveBegin, saveEnd, saveFails
  <2>2. current' = Mutated(w, current) /\ current \in Config
    BY <1>1, <2>1 DEF SerialInv, FreshCopy
  <2>3. CASE stage[w] = "tomcat"
    BY <1>1, <2>2, <2>3 DEF Mutated, Assigned, Config, Fields
  <2>4. CASE stage[w] # "all" /\ stage[w] # "tomcat"
    BY <1>1, <2>2, <2>4 DEF Mutated, Assigned, Config, Fields
  <2>5. CASE stage[w] = "all"
    BY <1>1, <2>5 DEF Assigned
  <2>6. QED
    BY <2>3, <2>4, <2>5
<1>2. FileInv /\ TypeInv /\ SerialInv /\ [Next]_vars =>
        [ \A w \in Writers : holder = NoWriter /\ holder' = w =>
            \A field \in Fields \ Assigned(w) : current'[field] = current[field] ]_vars
  BY <1>1
<1>3. QED
  BY <1>2, SerialInvariance, PTL DEF Spec, PartialUpdate

(* Between saves the Runner works with the saved settings: the fields New   *)
(* copied at the start and those the settings form changed since are the    *)
(* ones persist would load.                                                 *)
THEOREM RunnerAgrees == ASSUME Serial PROVE Spec => []RunnerFollowsConfig
<1>1. SerialInv => RunnerFollowsConfig
  BY NoWriterIsNobody DEF SerialInv, FollowsAtRest, Follows, RunnerFollowsConfig, Quiet
<1>2. QED
  BY <1>1, SerialInvariance, PTL

(* What the user saved last is what the launcher works with, on disk and    *)
(* after any number of restarts that interrupt no save, whatever Tomcats    *)
(* were installed in the meantime.                                          *)
THEOREM SettingsSurvive == ASSUME Serial PROVE Spec => []SavedSettingsSurvive
<1>1. ASSUME FileInv, TypeInv, SerialInv, NEW f \in Forms, ~refused, pc[f] = "done",
             \A g \in Forms \ {f} : pc[g] \in {"idle", "form", "rejected"},
             \A i \in Installers : pc[i] \in {"idle", "done"}
      PROVE  /\ readable
             /\ file.workspace = form[f].workspace
             /\ file.skipTests = form[f].skipTests
             /\ runner.workspace \in {form[f].workspace, FlagWorkspace}
             /\ runner.skipTests = form[f].skipTests
             /\ form[f].javaHome # Unset => {form[f].javaHome} = {file.javaHome, runner.javaHome}
  <2>1. InForce(f) /\ form[f].workspace # Unset
    BY <1>1 DEF SerialInv, StaysInForce, LastForm, DoneHasWorkspace
  <2>2. holder = NoWriter
    BY <1>1 DEF FileInv, HolderWrites, Writers
  <2>3. current = Loaded
    BY <1>1, <2>2 DEF FileInv, FileIsCurrent
  <2>4. readable /\ current = file
    BY <1>1, <2>1, <2>3 DEF Loaded, Zero, InForce, TypeInv, TypeOK
  <2>5. QED
    BY <2>1, <2>4 DEF InForce
<1>2. FileInv /\ TypeInv /\ SerialInv => SavedSettingsSurvive
  BY <1>1 DEF SavedSettingsSurvive
<1>3. QED
  BY <1>2, SerialInvariance, PTL
=============================================================================
