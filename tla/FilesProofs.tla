----------------------------- MODULE FilesProofs -----------------------------
(***************************************************************************)
(* Theorems about the files the launcher puts on disk: TomcatInstall, for   *)
(* any number of goroutines and files, in any order and with the launcher   *)
(* killed at any moment; and Sources (second part), for any targets,        *)
(* workspaces and polls.                                                   *)
(***************************************************************************)
EXTENDS TomcatInstall, Sources, TLAPS

(* An extraction begins with the first file and stays in the archive. *)
InArchive ==
  \A u \in Users :
    /\ pc[u] = "write" => at[u] <= Files
    /\ pc[u] \in {"idle", "stat", "check", "findZip", "verify", "download", "hash"} => at[u] = 1

(* Once a goroutine is past the script, or takes it for installed, the      *)
(* script exists: it is created by the extraction, and removed only when    *)
(* no goroutine is at work.                                                 *)
PastScript(u) == \/ pc[u] \in {"extract", "write"} /\ at[u] > Script
                 \/ pc[u] = "write" /\ at[u] = Script
                 \/ pc[u] = "save"
ScriptKept == \A u \in Users : PastScript(u) => home[Script] # "absent"

IInv == TypeOK /\ InArchive /\ ScriptKept /\ ReadyHasScript

LEMMA InitIInv == Init => IInv
<1> SUFFICES ASSUME Init PROVE IInv
  OBVIOUS
<1> USE FilesAssumption DEF Init
<1>1. TypeOK
  <2>1. 1 \in 1 .. Files + 1
    OBVIOUS
  <2> QED BY <2>1 DEF TypeOK, Homes, File
<1>2. \A u \in Users : pc[u] = "idle"
  OBVIOUS
<1>3. InArchive /\ ScriptKept
  BY <1>2 DEF InArchive, ScriptKept, PastScript
<1>4. ReadyHasScript
  BY <1>2 DEF ReadyHasScript, Users
<1> QED BY <1>1, <1>3, <1>4 DEF IInv

(* The steps of the user and a kill. *)
LEMMA OutsideStep ==
  ASSUME IInv, Configure \/ RemoveHome \/ PlaceArchive \/ Kill \/ UNCHANGED vars
  PROVE  IInv'
<1> USE FilesAssumption DEF IInv
<1>1. CASE Configure \/ RemoveHome \/ Kill
  <2>1. TypeOK'
    <3>1. 1 \in 1 .. Files + 1
      OBVIOUS
    <3>2. CASE Kill
      <4>1. (litter \in BOOLEAN /\ killed \in BOOLEAN /\ broken \in BOOLEAN)'
        BY <3>2 DEF Kill
      <4> QED BY <3>1, <3>2, <4>1 DEF TypeOK, Homes, Kill
    <3> QED BY <1>1, <3>1, <3>2 DEF TypeOK, Homes, File, Configure, RemoveHome
  <2>2. \A u \in Users : pc'[u] = "idle" /\ at'[u] = 1
    BY <1>1 DEF Configure, RemoveHome, Kill, Quiet, InArchive
  <2>3. (InArchive /\ ScriptKept)'
    BY <2>2 DEF InArchive, ScriptKept, PastScript
  <2>4. ReadyHasScript'
    BY <2>2 DEF ReadyHasScript, Users
  <2> QED BY <2>1, <2>3, <2>4
<1>2. CASE PlaceArchive \/ UNCHANGED vars
  <2>1. TypeOK'
    BY <1>2 DEF TypeOK, Homes, File, PlaceArchive, vars
  <2>2. UNCHANGED <<home, otherGood, pc, use, at>>
    BY <1>2 DEF PlaceArchive, vars
  <2> QED BY <2>1, <2>2 DEF InArchive, ScriptKept, PastScript, ReadyHasScript, HasScript
<1> QED BY <1>1, <1>2

(* The steps of a goroutine before and after the extraction. *)
LEMMA PlainStep ==
  ASSUME IInv, NEW u \in Users,
         \/ begin(u) \/ statScript(u) \/ check(u) \/ findZip(u) \/ verify(u) \/ download(u)
         \/ hash(u) \/ extractFails(u) \/ extracted(u) \/ save(u) \/ finish(u)
  PROVE  IInv'
<1> USE FilesAssumption DEF IInv, Goto, Fail
<1>1. UNCHANGED <<home, otherGood>>
  BY DEF begin, statScript, check, findZip, verify, download, hash, extractFails, extracted, save, finish
<1>2. TypeOK'
  <2>1. CASE begin(u) \/ statScript(u) \/ check(u) \/ findZip(u)
    BY <2>1 DEF TypeOK, Homes, File, begin, statScript, check, findZip
  <2>2. CASE verify(u) \/ download(u) \/ hash(u)
    BY <2>2 DEF TypeOK, Homes, File, verify, download, hash
  <2>3. CASE extractFails(u) \/ extracted(u) \/ save(u) \/ finish(u)
    <3>1. 1 \in 1 .. Files + 1
      OBVIOUS
    <3> QED BY <2>3, <3>1 DEF TypeOK, Homes, File, extractFails, extracted, save, finish
  <2> QED BY <2>1, <2>2, <2>3
<1>3. \A v \in Users \ {u} : pc'[v] = pc[v] /\ at'[v] = at[v] /\ use'[v] = use[v]
  BY DEF TypeOK, begin, statScript, check, findZip, verify, download, hash, extractFails, extracted, save, finish
<1>4. InArchive'
  <2>1. pc'[u] # "write"
    BY DEF TypeOK, begin, statScript, check, findZip, verify, download, hash, extractFails, extracted, save, finish
  <2>2. pc'[u] \in {"idle", "stat", "check", "findZip", "verify", "download", "hash"} => at'[u] = 1
    BY DEF TypeOK, InArchive, begin, statScript, check, findZip, verify, download, hash, extractFails,
           extracted, save, finish
  <2> QED BY <1>3, <2>1, <2>2 DEF InArchive
<1>5. PastScript(u)' => home[Script] # "absent"
  <2>1. CASE check(u)
    BY <2>1 DEF check, PastScript, HasScript, TypeOK
  <2>2. CASE extracted(u)
    BY <2>2 DEF extracted, PastScript, ScriptKept, TypeOK, File
  <2>3. CASE verify(u) \/ hash(u)
    BY <2>3 DEF verify, hash, PastScript, TypeOK, InArchive
  <2>4. CASE begin(u) \/ statScript(u) \/ findZip(u) \/ download(u) \/ extractFails(u) \/ save(u) \/ finish(u)
    BY <2>4 DEF begin, statScript, findZip, download, extractFails, save, finish, PastScript, TypeOK
  <2> QED BY <2>1, <2>2, <2>3, <2>4
<1>6. ScriptKept'
  BY <1>1, <1>3, <1>5 DEF ScriptKept, PastScript
<1>7. pc'[u] = "ready" /\ u \in WarRuns => HasScript(use'[u])
  <2>1. CASE statScript(u)
    BY <2>1 DEF statScript, TypeOK
  <2>2. CASE save(u)
    BY <2>2 DEF save, TypeOK, ScriptKept, PastScript, HasScript
  <2>3. CASE begin(u)
    BY <2>3 DEF begin, TypeOK
  <2>4. CASE check(u) \/ findZip(u) \/ verify(u) \/ download(u) \/ hash(u) \/ extractFails(u) \/ extracted(u) \/ finish(u)
    BY <2>4 DEF check, findZip, verify, download, hash, extractFails, extracted, finish, TypeOK
  <2> QED BY <2>1, <2>2, <2>3, <2>4
<1>8. ReadyHasScript'
  BY <1>1, <1>3, <1>7 DEF ReadyHasScript, HasScript, Users
<1> QED BY <1>2, <1>4, <1>6, <1>8

(* The steps that write files: nothing that was there becomes absent. *)
LEMMA FileStep ==
  ASSUME IInv, NEW u \in Users, openFile(u) \/ closeFile(u)
  PROVE  IInv'
<1> USE FilesAssumption DEF IInv, Goto
<1>1. at[u] \in File
  BY DEF TypeOK, InArchive, File, openFile, closeFile
<1>2. TypeOK'
  <2>1. CASE openFile(u)
    BY <1>1, <2>1 DEF TypeOK, openFile
  <2>2. CASE closeFile(u)
    <3>1. at[u] + 1 \in 1 .. Files + 1
      BY <1>1 DEF File
    <3>2. home' \in [File -> {"absent", "cut", "whole"}] /\ at' \in [Users -> 1 .. Files + 1]
      BY <1>1, <2>2, <3>1 DEF TypeOK, closeFile
    <3> QED BY <2>2, <3>2 DEF TypeOK, closeFile
  <2> QED BY <2>1, <2>2
<1>3. /\ \A f \in File : home[f] # "absent" => home'[f] # "absent"
      /\ openFile(u) => home'[at[u]] # "absent"
  BY <1>1 DEF TypeOK, openFile, closeFile
<1>4. UNCHANGED <<otherGood, use>> /\ \A v \in Users \ {u} : pc'[v] = pc[v] /\ at'[v] = at[v]
  BY DEF TypeOK, openFile, closeFile
<1>5. Script \in File
  BY DEF File
<1>6. InArchive'
  BY <1>1, <1>4 DEF TypeOK, InArchive, File, openFile, closeFile
<1>7. PastScript(u)' => home'[Script] # "absent"
  <2>1. CASE openFile(u)
    BY <1>1, <1>3, <1>5, <2>1 DEF TypeOK, ScriptKept, PastScript, openFile
  <2>2. CASE closeFile(u)
    <3>1. pc[u] = "write" /\ pc'[u] = "extract" /\ at'[u] = at[u] + 1
      BY <2>2 DEF TypeOK, closeFile
    <3>2. PastScript(u)' => at[u] >= Script
      BY <1>1, <3>1 DEF PastScript, File
    <3>3. at[u] >= Script => PastScript(u)
      BY <1>1, <3>1 DEF PastScript, File
    <3> QED BY <1>3, <1>5, <3>2, <3>3 DEF ScriptKept
  <2> QED BY <2>1, <2>2
<1>8. ScriptKept'
  BY <1>3, <1>4, <1>5, <1>7 DEF ScriptKept, PastScript
<1>9. ReadyHasScript'
  <2>1. pc'[u] # "ready"
    BY DEF TypeOK, openFile, closeFile
  <2>2. \A h \in Homes : HasScript(h) => HasScript(h)'
    BY <1>3, <1>4, <1>5 DEF HasScript
  <2> QED BY <1>4, <2>1, <2>2 DEF ReadyHasScript, Users, TypeOK
<1> QED BY <1>2, <1>6, <1>8, <1>9

THEOREM Invariance == Spec => []IInv
<1>1. IInv /\ [Next]_vars => IInv'
  BY OutsideStep, PlainStep, FileStep DEF Next, Step
<1> QED BY InitIInv, <1>1, PTL DEF Spec

(* Type correctness of TomcatInstall: in particular the extraction stays    *)
(* inside the archive and each archive on the disk has an owner.            *)
THEOREM TypeCorrect == Spec => []TypeOK
BY Invariance, PTL DEF IInv

(* Whatever a WAR run goes on with has a script: the look runWAR takes at   *)
(* the configured directory is enough, however many installations overlap   *)
(* and whatever was interrupted before.                                     *)
THEOREM WarHasScript == Spec => []ReadyHasScript
BY Invariance, PTL DEF IInv

(* The path of the installed Tomcat is saved only while its script exists:  *)
(* a saved path never names a directory nothing was extracted to.           *)
THEOREM PathIsInstalled == Spec => SavedIsInstalled
<1>1. IInv /\ [Next]_vars => (saved' = "auto" /\ saved # "auto" => home[Script] # "absent")
  <2> SUFFICES ASSUME IInv, [Next]_vars, saved' = "auto", saved # "auto"
               PROVE  home[Script] # "absent"
    OBVIOUS
  <2>1. ~ (Configure \/ RemoveHome \/ PlaceArchive \/ Kill \/ UNCHANGED vars)
    BY DEF Configure, RemoveHome, PlaceArchive, Kill, vars
  <2>2. \A u \in Users : Step(u) => save(u)
    BY DEF Step, begin, statScript, check, findZip, verify, download, hash, openFile, closeFile,
           extractFails, extracted, finish
  <2>3. PICK u \in Users : save(u)
    BY <2>1, <2>2 DEF Next
  <2> QED BY <2>3 DEF IInv, ScriptKept, PastScript, save, Goto
<1>2. IInv /\ [Next]_vars => [saved' = "auto" /\ saved # "auto" => home[Script] # "absent"]_vars
  BY <1>1
<1> QED BY Invariance, <1>2, PTL DEF Spec, SavedIsInstalled

-----------------------------------------------------------------------------
(* Why what is installed is complete.  Files are created in order, so what  *)
(* a goroutine has passed is there; unless an extraction was cut off, a     *)
(* file that is not whole has a writer, and a file that is missing while    *)
(* another is there lies ahead of somebody.                                 *)
PassedIsThere ==
  \A u \in Users : Extracting(u) =>
    \A f \in File : f < at[u] \/ (pc[u] = "write" /\ f = at[u]) => home[f] # "absent"
CutIsWritten ==
  ~broken => \A f \in File : home[f] = "cut" => \E u \in Users : pc[u] = "write" /\ at[u] = f
GapIsAhead ==
  ~broken => \A f, g \in File : home[f] = "absent" /\ home[g] # "absent" =>
               \E u \in Users : Extracting(u) /\ at[u] <= f
Progress == PassedIsThere /\ CutIsWritten /\ GapIsAhead

LEMMA ProgressOutside ==
  ASSUME IInv, Progress, Configure \/ RemoveHome \/ PlaceArchive \/ Kill \/ UNCHANGED vars
  PROVE  Progress'
<1>1. CASE Configure \/ PlaceArchive \/ UNCHANGED vars
  <2>1. UNCHANGED <<home, pc, at, broken>>
    BY <1>1 DEF Configure, PlaceArchive, vars
  <2> QED BY <2>1 DEF Progress, PassedIsThere, CutIsWritten, GapIsAhead, Extracting
<1>2. CASE RemoveHome
  <2>1. \A u \in Users : ~Extracting(u)'
    BY <1>2 DEF RemoveHome, Quiet, Extracting
  <2>2. \A f \in File : home'[f] = "absent"
    BY <1>2 DEF RemoveHome
  <2> QED BY <2>1, <2>2 DEF Progress, PassedIsThere, CutIsWritten, GapIsAhead
<1>3. CASE Kill
  <2>1. \A u \in Users : ~Extracting(u)'
    BY <1>3 DEF Kill, Extracting
  <2>2. ~broken' => ~broken /\ \A u \in Users : ~Extracting(u)
    BY <1>3 DEF Kill, Extracting
  <2>3. home' = home
    BY <1>3 DEF Kill
  <2> QED BY <2>1, <2>2, <2>3 DEF Progress, PassedIsThere, CutIsWritten, GapIsAhead, Extracting
<1> QED BY <1>1, <1>2, <1>3

LEMMA ProgressPlain ==
  ASSUME IInv, Progress, NEW u \in Users,
         \/ begin(u) \/ statScript(u) \/ check(u) \/ findZip(u) \/ verify(u) \/ download(u)
         \/ hash(u) \/ extractFails(u) \/ extracted(u) \/ save(u) \/ finish(u)
  PROVE  Progress'
<1> USE FilesAssumption DEF IInv, Goto, Fail, Extracting
<1>1. home' = home /\ \A v \in Users \ {u} : pc'[v] = pc[v] /\ at'[v] = at[v]
  BY DEF TypeOK, begin, statScript, check, findZip, verify, download, hash, extractFails, extracted, save, finish
<1>2. CASE extractFails(u)
  <2>1. broken' = TRUE /\ ~Extracting(u)'
    BY <1>2 DEF extractFails, TypeOK
  <2> QED BY <1>1, <2>1 DEF Progress, PassedIsThere, CutIsWritten, GapIsAhead
<1>3. CASE extracted(u)
  <2>1. broken' = broken /\ ~Extracting(u)' /\ pc[u] = "extract" /\ at[u] > Files
    BY <1>3 DEF extracted, TypeOK
  <2>2. \A f \in File : ~ (at[u] <= f)
    BY <2>1 DEF TypeOK, File
  <2> QED BY <1>1, <2>1, <2>2 DEF Progress, PassedIsThere, CutIsWritten, GapIsAhead
<1>4. CASE ~extractFails(u) /\ ~extracted(u)
  <2>1. broken' = broken /\ ~Extracting(u) /\ pc'[u] # "write"
    BY <1>4 DEF begin, statScript, check, findZip, verify, download, hash, save, finish, TypeOK
  <2>2. Extracting(u)' => at'[u] = 1
    BY <1>4 DEF begin, statScript, check, findZip, verify, download, hash, save, finish, TypeOK, InArchive
  <2>3. PassedIsThere'
    BY <1>1, <2>1, <2>2 DEF Progress, PassedIsThere, File
  <2> QED BY <1>1, <2>1, <2>3 DEF Progress, CutIsWritten, GapIsAhead
<1> QED BY <1>2, <1>3, <1>4

LEMMA ProgressFile ==
  ASSUME IInv, Progress, NEW u \in Users, openFile(u) \/ closeFile(u)
  PROVE  Progress'
<1> USE FilesAssumption DEF IInv, Goto, Extracting
<1>1. at[u] \in File /\ broken' = broken /\ \A v \in Users \ {u} : pc'[v] = pc[v] /\ at'[v] = at[v]
  BY DEF TypeOK, InArchive, File, openFile, closeFile
<1>2. \A v \in Users : at[v] \in Int
  BY DEF TypeOK
<1>3. CASE openFile(u)
  <2>1. pc[u] = "extract" /\ pc'[u] = "write" /\ at' = at /\ home' = [home EXCEPT ![at[u]] = "cut"]
    BY <1>3 DEF openFile, TypeOK
  <2>2. home'[at[u]] = "cut" /\ \A f \in File \ {at[u]} : home'[f] = home[f]
    BY <1>1, <2>1 DEF TypeOK
  <2>3. PassedIsThere'
    BY <1>1, <1>2, <2>1, <2>2 DEF Progress, PassedIsThere
  <2>4. CutIsWritten'
    BY <1>1, <2>1, <2>2 DEF Progress, CutIsWritten
  <2>5. GapIsAhead'
    <3> SUFFICES ASSUME ~broken, NEW f \in File, NEW g \in File,
                        home'[f] = "absent", home'[g] # "absent"
                 PROVE  \E v \in Users : Extracting(v)' /\ at'[v] <= f
      BY <1>1 DEF GapIsAhead
    <3>1. f # at[u] /\ home[f] = "absent"
      BY <2>2
    <3>2. ~ (f < at[u])
      BY <2>1, <3>1 DEF Progress, PassedIsThere
    <3>3. at[u] <= f
      BY <1>1, <1>2, <3>2 DEF File
    <3> QED BY <2>1, <3>3
  <2> QED BY <2>3, <2>4, <2>5 DEF Progress
<1>4. CASE closeFile(u)
  <2>1. pc[u] = "write" /\ pc'[u] = "extract" /\ at'[u] = at[u] + 1 /\ home[at[u]] # "absent"
    BY <1>1, <1>4 DEF closeFile, TypeOK, Progress, PassedIsThere
  <2>2. \A f \in File : (home'[f] = "absent") <=> (home[f] = "absent")
    BY <1>1, <1>4, <2>1 DEF closeFile, TypeOK
  <2>3. PassedIsThere'
    <3> SUFFICES ASSUME NEW v \in Users, Extracting(v)', NEW f \in File,
                        f < at'[v] \/ (pc'[v] = "write" /\ f = at'[v])
                 PROVE  home[f] # "absent"
      BY <2>2 DEF PassedIsThere
    <3>1. CASE v = u
      <4>1. f < at[u] \/ f = at[u]
        BY <1>1, <2>1, <3>1 DEF File
      <4> QED BY <2>1, <4>1 DEF Progress, PassedIsThere
    <3>2. CASE v # u
      BY <1>1, <3>2 DEF Progress, PassedIsThere
    <3> QED BY <3>1, <3>2
  <2>4. CutIsWritten'
    <3> SUFFICES ASSUME ~broken, NEW f \in File, home'[f] = "cut"
                 PROVE  \E v \in Users : pc'[v] = "write" /\ at'[v] = f
      BY <1>1 DEF CutIsWritten
    <3>1. CASE f # at[u]
      <4>1. home[f] = "cut"
        BY <1>4, <3>1 DEF closeFile, TypeOK
      <4>2. PICK v \in Users : pc[v] = "write" /\ at[v] = f
        BY <4>1 DEF Progress, CutIsWritten
      <4> QED BY <1>1, <3>1, <4>2
    <3>2. CASE f = at[u]
      <4>1. Writing(at[u]) # {u}
        BY <1>1, <1>4, <3>2 DEF closeFile, TypeOK
      <4>2. u \in Writing(at[u])
        BY <2>1 DEF Writing
      <4>3. PICK v \in Writing(at[u]) : v # u
        BY <4>1, <4>2
      <4> QED BY <1>1, <3>2, <4>3 DEF Writing
    <3> QED BY <3>1, <3>2
  <2>5. GapIsAhead'
    <3> SUFFICES ASSUME ~broken, NEW f \in File, NEW g \in File,
                        home[f] = "absent", home[g] # "absent"
                 PROVE  \E v \in Users : Extracting(v)' /\ at'[v] <= f
      BY <1>1, <2>2 DEF GapIsAhead
    <3>1. PICK v \in Users : Extracting(v) /\ at[v] <= f
      BY DEF Progress, GapIsAhead
    <3>2. CASE v = u
      <4>1. at[u] # f
        BY <2>1
      <4>2. at'[u] <= f
        BY <1>1, <2>1, <3>1, <3>2, <4>1 DEF File
      <4> QED BY <2>1, <4>2
    <3>3. CASE v # u
      BY <1>1, <3>1, <3>3
    <3> QED BY <3>2, <3>3
  <2> QED BY <2>3, <2>4, <2>5 DEF Progress
<1> QED BY <1>3, <1>4

(* Once no extraction is under way, what has a script is complete, unless   *)
(* one was cut off: for any number of installations into one directory.     *)
THEOREM Completeness == Spec => []SettledIsWhole
<1>1. Init => Progress
  BY DEF Init, Progress, PassedIsThere, CutIsWritten, GapIsAhead, Extracting
<1>2. IInv /\ Progress /\ [Next]_vars => Progress'
  BY ProgressOutside, ProgressPlain, ProgressFile DEF Next, Step
<1>3. IInv /\ Progress => SettledIsWhole
  <2> SUFFICES ASSUME IInv, Progress, HasScript("auto"), ~broken,
                      \A u \in Users : ~Extracting(u), NEW f \in File
               PROVE  home[f] = "whole"
    BY DEF SettledIsWhole, Whole
  <2>1. Script \in File /\ home[Script] # "absent"
    BY FilesAssumption DEF HasScript, File
  <2>2. home[f] # "absent"
    BY <2>1 DEF Progress, GapIsAhead
  <2>3. home[f] # "cut"
    BY DEF Progress, CutIsWritten, Extracting
  <2> QED BY <2>2, <2>3 DEF IInv, TypeOK
<1> QED BY Invariance, <1>1, <1>2, <1>3, PTL DEF Spec

(* Only a kill leaves an archive behind: every error removes the one that   *)
(* its goroutine has downloaded.                                            *)
THEOREM ArchivesRemoved == Spec => []NoArchiveLeft
<1>1. Init => NoArchiveLeft
  BY DEF Init, NoArchiveLeft
<1>2. ASSUME TypeOK, NoArchiveLeft, [Next]_vars PROVE NoArchiveLeft'
  <2>1. CASE Configure \/ RemoveHome \/ PlaceArchive \/ UNCHANGED vars
    BY <1>2, <2>1 DEF NoArchiveLeft, Configure, RemoveHome, PlaceArchive, vars
  <2>2. CASE Kill
    <3>1. litter' => killed'
      <4>1. (litter \/ temp # {}) => (killed \/ temp # {})
        BY <1>2 DEF NoArchiveLeft
      <4>2. litter' <=> (litter \/ temp # {})
        BY <2>2 DEF Kill
      <4>3. killed' <=> (killed \/ temp # {})
        BY <2>2 DEF Kill
      <4> QED BY <4>1, <4>2, <4>3
    <3> QED BY <2>2, <3>1 DEF NoArchiveLeft, Kill
  <2>3. ASSUME NEW u \in Users, Step(u) PROVE NoArchiveLeft'
    <3>1. litter' = litter /\ killed' = killed
      BY <2>3 DEF Step, begin, statScript, check, findZip, verify, download, hash, openFile,
                  closeFile, extractFails, extracted, save, finish, Fail
    <3>2. temp' \subseteq temp \cup {u} /\ \A v \in Users \ {u} : pc'[v] = pc[v]
      BY <1>2, <2>3 DEF TypeOK, Step, begin, statScript, check, findZip, verify, download, hash,
                  openFile, closeFile, extractFails, extracted, save, finish, Fail, Goto
    <3>3. u \in temp' => pc'[u] \in {"hash", "extract", "write"}
      <4> USE <1>2 DEF TypeOK, NoArchiveLeft, Goto, Fail
      <4>1. CASE begin(u) \/ statScript(u) \/ check(u) \/ findZip(u)
        BY <4>1 DEF begin, statScript, check, findZip
      <4>2. CASE verify(u) \/ download(u) \/ hash(u)
        BY <4>2 DEF verify, download, hash
      <4>3. CASE openFile(u) \/ closeFile(u)
        BY <4>3 DEF openFile, closeFile
      <4>4. CASE extractFails(u) \/ extracted(u) \/ save(u) \/ finish(u)
        BY <4>4 DEF extractFails, extracted, save, finish
      <4> QED BY <2>3, <4>1, <4>2, <4>3, <4>4 DEF Step
    <3>4. \A v \in temp' : v \in Users
      BY <1>2, <3>2 DEF TypeOK
    <3> QED BY <1>2, <3>1, <3>2, <3>3, <3>4 DEF NoArchiveLeft
  <2> QED BY <1>2, <2>1, <2>2, <2>3 DEF Next
<1> QED BY TypeCorrect, <1>1, <1>2, PTL DEF Spec

-----------------------------------------------------------------------------
(* Sources.                                                                 *)

(* The types of a Clone and of a poll in progress, and of what they share.   *)
CloneStage == {"idle", "look", "remove", "mkdir", "start", "git", "patch", "write", "forget"}
CloneState == [pc : CloneStage, dir : Dirs \cup {<<>>}, at : Dirs \cup {<<>>}, clean : BOOLEAN,
               disturbed : BOOLEAN]
PollState  == [pc : {"idle", "load", "walk", "store"}, dir : Dirs \cup {<<>>},
               answer : {"none", "yes", "no"}, doubt : BOOLEAN]

Shape ==
  /\ workspace \in Workspaces
  /\ tree \in [Dirs -> {"absent", "empty", "partial", "whole"}]
  /\ marks \in [Dirs -> Nat] /\ torn \in [Dirs -> BOOLEAN]
  /\ cache \in [Dirs -> {"none", "yes", "no"}] /\ doubtful \in [Dirs -> BOOLEAN]
  /\ clone \in [Targets -> CloneState] /\ poll \in [Polls -> PollState]
  /\ stray \subseteq Dirs

Own(t) == Workspaces \X {t}

(* A Clone works in directories of its target, and knows what it left       *)
(* there, unless it was disturbed.  Its git is the only one to complete     *)
(* what it works on.                                                        *)
CloneInv(t) ==
  /\ clone[t].pc # "idle" => clone[t].dir \in Own(t)
  /\ clone[t].pc = "remove" => clone[t].clean
  /\ clone[t].pc = "git" => /\ clone[t].at \in Own(t) /\ tree[clone[t].at] # "whole"
                            /\ clone[t].at # clone[t].dir => doubtful[clone[t].at]
  /\ clone[t].pc = "write" => marks[clone[t].dir] = 0
  /\ clone[t].pc \in {"patch", "write", "forget"} /\ clone[t].at \in {<<>>, clone[t].dir}
       /\ ~clone[t].disturbed => Exists(clone[t].dir)
  /\ clone[t].pc = "forget" /\ tree[clone[t].dir] = "whole" /\ ~torn[clone[t].dir]
       /\ ~clone[t].disturbed => marks[clone[t].dir] = 1

(* Additions are in files that exist, at most once. *)
Patched(d) == (marks[d] > 0 \/ torn[d] => Exists(d)) /\ marks[d] <= 1

(* A "no" that is wrong is a doubtful one, or about to be forgotten; while   *)
(* a git of an earlier launcher is at work, every "no" is doubtful.          *)
Remembered(d) ==
  /\ d[2] \in HasDB /\ tree[d] = "whole" /\ cache[d] = "no" /\ ~doubtful[d] =>
       clone[d[2]].dir = d /\ clone[d[2]].pc \in {"patch", "write", "forget"}
  /\ d \in stray /\ cache[d] = "no" => doubtful[d]

(* An answer about sources nobody has been at work on is right. *)
PollInv(p) ==
  /\ poll[p].pc # "idle" => poll[p].dir \in Dirs
  /\ poll[p].pc = "store" => poll[p].answer \in {"yes", "no"}
  /\ poll[p].pc = "store" /\ ~poll[p].doubt =>
       /\ ~AtWork(poll[p].dir)
       /\ poll[p].answer = "no" => ~ (poll[p].dir[2] \in HasDB /\ tree[poll[p].dir] = "whole")

SourcesInv ==
  /\ Shape
  /\ \A t \in Targets : CloneInv(t)
  /\ \A d \in Dirs : Patched(d) /\ Remembered(d)
  /\ \A p \in Polls : PollInv(p)

(* A Clone of t leaves the other Clones and their directories alone. *)
Local(t) ==
  /\ \A u \in Targets : u # t => clone'[u] = clone[u]
  /\ \A d \in Dirs : d[2] # t => /\ tree'[d] = tree[d] /\ marks'[d] = marks[d] /\ torn'[d] = torn[d]
                                 /\ cache'[d] = cache[d] /\ doubtful'[d] = doubtful[d]
  /\ stray' = stray

LEMMA OwnDirs ==
  ASSUME NEW t \in Targets, NEW d \in Own(t)
  PROVE  d \in Dirs /\ d[2] = t
BY DEF Own, Dirs

LEMMA DirOf ==
  ASSUME NEW d \in Dirs
  PROVE  d[2] \in Targets /\ d \in Own(d[2])
BY DEF Own, Dirs

LEMMA LocalKeeps ==
  ASSUME SourcesInv, Shape', NEW t \in Targets, Local(t),
         CloneInv(t)', \A d \in Own(t) : Patched(d)' /\ Remembered(d)',
         \A p \in Polls : PollInv(p)'
  PROVE  SourcesInv'
<1>1. ASSUME NEW u \in Targets, u # t
      PROVE  CloneInv(u)'
  <2>1. clone'[u] = clone[u] /\ CloneInv(u)
    BY <1>1 DEF Local, SourcesInv
  <2>2. ASSUME NEW d \in Own(u)
        PROVE  /\ tree'[d] = tree[d] /\ marks'[d] = marks[d] /\ torn'[d] = torn[d]
               /\ doubtful'[d] = doubtful[d]
    BY <1>1, <2>2, OwnDirs DEF Local
  <2> QED BY <2>1, <2>2 DEF CloneInv, Exists
<1>2. ASSUME NEW d \in Dirs, d[2] # t
      PROVE  Patched(d)' /\ Remembered(d)'
  <2>1. Patched(d) /\ Remembered(d) /\ clone'[d[2]] = clone[d[2]]
    BY <1>2, DirOf DEF SourcesInv, Local
  <2> QED BY <1>2, <2>1 DEF Local, Patched, Remembered, Exists
<1>3. \A d \in Dirs : d[2] = t => d \in Own(t)
  BY DirOf
<1> QED BY <1>1, <1>2, <1>3 DEF SourcesInv

(* While a Clone of t is under way, no poll holds an undoubted answer about t. *)
LEMMA PollsKept ==
  ASSUME SourcesInv, NEW t \in Targets, clone[t].pc # "idle", poll' = poll, Local(t)
  PROVE  \A p \in Polls : PollInv(p)'
<1> SUFFICES ASSUME NEW p \in Polls PROVE PollInv(p)'
  OBVIOUS
<1>1. PollInv(p)
  BY DEF SourcesInv
<1>2. CASE poll[p].pc = "store" /\ ~poll[p].doubt
  <2>1. PICK d \in Dirs : d = poll[p].dir
    BY <1>1, <1>2 DEF PollInv
  <2>2. ~AtWork(d) /\ d[2] \in Targets
    BY <1>1, <1>2, <2>1, DirOf DEF PollInv
  <2>3. d[2] # t
    BY <2>2 DEF AtWork
  <2>4. clone'[d[2]] = clone[d[2]] /\ tree'[d] = tree[d] /\ stray' = stray
    BY <2>2, <2>3 DEF Local
  <2>5. ~AtWork(d)'
    BY <2>2, <2>4 DEF AtWork
  <2> QED BY <1>1, <1>2, <2>1, <2>4, <2>5 DEF PollInv
<1>3. CASE ~ (poll[p].pc = "store" /\ ~poll[p].doubt)
  BY <1>1, <1>3 DEF PollInv
<1> QED BY <1>2, <1>3

(* What the helpers do to one record. *)
LEMMA Moved ==
  ASSUME Shape, NEW t \in Targets, NEW to \in CloneStage, clone' = [clone EXCEPT ![t].pc = to]
  PROVE  /\ clone' \in [Targets -> CloneState]
         /\ clone'[t].pc = to /\ clone'[t].dir = clone[t].dir
         /\ clone'[t].at = clone[t].at /\ clone'[t].clean = clone[t].clean
         /\ clone'[t].disturbed = clone[t].disturbed
         /\ \A u \in Targets : u # t => clone'[u] = clone[u]
<1>1. clone[t] \in CloneState /\ DOMAIN clone = Targets
  BY DEF Shape
<1> QED BY <1>1 DEF Shape, CloneState

LEMMA Over ==
  ASSUME Shape, NEW t \in Targets, End(t)
  PROVE  /\ clone' \in [Targets -> CloneState] /\ clone'[t].pc = "idle"
         /\ \A u \in Targets : u # t => clone'[u] = clone[u]
<1>1. Idle \in CloneState /\ Idle.pc = "idle"
  BY DEF Idle, CloneState, CloneStage
<1> QED BY <1>1 DEF Shape, End

LEMMA Became ==
  ASSUME Shape, NEW d \in Dirs, NEW state \in {"absent", "empty", "partial", "whole"}, Becomes(d, state)
  PROVE  /\ tree' \in [Dirs -> {"absent", "empty", "partial", "whole"}]
         /\ marks' \in [Dirs -> Nat] /\ torn' \in [Dirs -> BOOLEAN]
         /\ tree'[d] = state /\ marks'[d] = 0 /\ ~torn'[d]
         /\ \A e \in Dirs : e # d => tree'[e] = tree[e] /\ marks'[e] = marks[e] /\ torn'[e] = torn[e]
BY DEF Shape, Becomes

-----------------------------------------------------------------------------
(* The steps of a Clone.                                                    *)

LEMMA RequestKeeps ==
  ASSUME SourcesInv, NEW t \in Targets, NEW clean \in BOOLEAN, request(t, clean)
  PROVE  SourcesInv'
<1> DEFINE k == [Idle EXCEPT !.pc = "look", !.dir = <<workspace, t>>, !.clean = clean]
<1>1. /\ clone' = [clone EXCEPT ![t] = k] /\ clone[t].pc = "idle"
      /\ UNCHANGED <<workspace, tree, marks, torn, cache, doubtful, stray>>
  BY DEF request, disk
<1>2. k \in CloneState /\ k.pc = "look" /\ k.dir \in Own(t)
  BY DEF Idle, CloneState, CloneStage, Dirs, Own, SourcesInv, Shape
<1> HIDE DEF k
<1>3. /\ clone' \in [Targets -> CloneState] /\ clone'[t] = k
      /\ \A u \in Targets : u # t => clone'[u] = clone[u]
  BY <1>1, <1>2 DEF SourcesInv, Shape
<1>4. ASSUME NEW p \in Polls
      PROVE  /\ poll'[p] \in PollState /\ poll'[p].pc = poll[p].pc /\ poll'[p].dir = poll[p].dir
             /\ poll'[p].answer = poll[p].answer /\ (~poll'[p].doubt => ~poll[p].doubt)
             /\ poll[p].pc = "store" /\ poll[p].dir[2] = t => poll'[p].doubt
  <2> DEFINE b == poll[p].doubt \/ (poll[p].pc = "store" /\ poll[p].dir[2] = t)
  <2>0. b \in BOOLEAN /\ (~b => ~poll[p].doubt) /\ (poll[p].pc = "store" /\ poll[p].dir[2] = t => b)
    OBVIOUS
  <2>1. poll'[p] = [poll[p] EXCEPT !.doubt = b]
    BY DEF request
  <2> HIDE DEF b
  <2>2. poll[p] \in PollState
    BY DEF SourcesInv, Shape
  <2> QED BY <2>0, <2>1, <2>2 DEF PollState
<1>5. poll' \in [Polls -> PollState]
  <2>1. poll' = [p \in Polls |-> poll'[p]]
    BY DEF request
  <2> QED BY <1>4, <2>1
<1>6. ASSUME NEW p \in Polls
      PROVE  PollInv(p)'
  <2>1. PollInv(p)
    BY DEF SourcesInv
  <2>2. CASE poll'[p].pc = "store" /\ ~poll'[p].doubt
    <3>1. PICK d \in Dirs : d = poll[p].dir
      BY <1>4, <2>1, <2>2 DEF PollInv
    <3>2. ~AtWork(d) /\ d[2] # t /\ d[2] \in Targets
      BY <1>4, <2>1, <2>2, <3>1, DirOf DEF PollInv
    <3>3. ~AtWork(d)'
      BY <1>1, <1>3, <3>2 DEF AtWork
    <3> QED BY <1>1, <1>4, <2>1, <2>2, <3>1, <3>3 DEF PollInv
  <2>3. CASE ~ (poll'[p].pc = "store" /\ ~poll'[p].doubt)
    BY <1>4, <2>1, <2>3 DEF PollInv
  <2> QED BY <2>2, <2>3
<1>7. CloneInv(t)'
  BY <1>2, <1>3 DEF CloneInv
<1>8. \A d \in Own(t) : Patched(d)' /\ Remembered(d)'
  <2> SUFFICES ASSUME NEW d \in Own(t) PROVE Patched(d)' /\ Remembered(d)'
    OBVIOUS
  <2>1. Patched(d) /\ Remembered(d) /\ d[2] = t
    BY OwnDirs DEF SourcesInv
  <2> QED BY <1>1, <2>1 DEF Patched, Remembered, Exists
<1>9. Local(t)
  BY <1>1, <1>3 DEF Local
<1>10. Shape'
  BY <1>1, <1>3, <1>5 DEF SourcesInv, Shape
<1> QED BY <1>6, <1>7, <1>8, <1>9, <1>10, LocalKeeps

(* A step that leaves the disk and the cache alone. *)
LEMMA QuietKeeps ==
  ASSUME SourcesInv, NEW t \in Targets, clone[t].pc # "idle",
         UNCHANGED <<workspace, tree, marks, torn, cache, doubtful, stray, poll>>,
         clone' \in [Targets -> CloneState], \A u \in Targets : u # t => clone'[u] = clone[u],
         CloneInv(t)', \A d \in Own(t) : Remembered(d)'
  PROVE  SourcesInv'
<1>1. \A d \in Own(t) : Patched(d)'
  BY OwnDirs DEF SourcesInv, Patched, Exists
<1>2. Local(t)
  BY DEF Local
<1>3. Shape'
  BY DEF SourcesInv, Shape
<1>4. \A p \in Polls : PollInv(p)'
  BY <1>2, PollsKept
<1> QED BY <1>1, <1>2, <1>3, <1>4, LocalKeeps

LEMMA LookKeeps ==
  ASSUME SourcesInv, NEW t \in Targets, look(t)
  PROVE  SourcesInv'
<1>0. Shape /\ CloneInv(t)
  BY DEF SourcesInv
<1>1. PICK to \in {"remove", "patch", "mkdir"} :
        /\ clone[t].pc = "look" /\ clone' = [clone EXCEPT ![t].pc = to]
        /\ (to = "remove" => clone[t].clean) /\ (to = "patch" => Exists(clone[t].dir))
  BY DEF look, CloneGoes
<1>2. UNCHANGED <<workspace, tree, marks, torn, cache, doubtful, stray, poll>>
  BY DEF look, disk
<1>3. to \in CloneStage
  BY DEF CloneStage
<1>4. /\ clone' \in [Targets -> CloneState]
      /\ clone'[t].pc = to /\ clone'[t].dir = clone[t].dir
      /\ clone'[t].at = clone[t].at /\ clone'[t].clean = clone[t].clean
      /\ \A u \in Targets : u # t => clone'[u] = clone[u]
  BY <1>0, <1>1, <1>3, Moved
<1>5. CloneInv(t)'
  BY <1>0, <1>1, <1>2, <1>4 DEF CloneInv, Exists
<1>6. \A d \in Own(t) : Remembered(d)'
  <2> SUFFICES ASSUME NEW d \in Own(t) PROVE Remembered(d)'
    OBVIOUS
  <2>1. Remembered(d) /\ d[2] = t
    BY OwnDirs DEF SourcesInv
  <2> QED BY <1>1, <1>2, <2>1 DEF Remembered
<1> QED BY <1>1, <1>2, <1>4, <1>5, <1>6, QuietKeeps

(* A step that leaves a directory in a state that is not whole, or as it    *)
(* was, at a stage that forgets nothing.                                    *)
LEMMA DiskKeeps ==
  ASSUME SourcesInv, NEW t \in Targets, clone[t].pc # "idle", NEW d \in Own(t),
         UNCHANGED <<workspace, cache, stray, poll>>,
         tree' \in [Dirs -> {"absent", "empty", "partial", "whole"}],
         marks' \in [Dirs -> Nat], torn' \in [Dirs -> BOOLEAN], doubtful' \in [Dirs -> BOOLEAN],
         clone' \in [Targets -> CloneState], \A u \in Targets : u # t => clone'[u] = clone[u],
         \A e \in Dirs : e # d => /\ tree'[e] = tree[e] /\ marks'[e] = marks[e] /\ torn'[e] = torn[e]
                                  /\ doubtful'[e] = doubtful[e],
         Patched(d)', Remembered(d)', CloneInv(t)',
         \A e \in Own(t) : e # d => Remembered(e)'
  PROVE  SourcesInv'
<1>1. ASSUME NEW e \in Own(t), e # d PROVE Patched(e)'
  <2>1. e \in Dirs /\ Patched(e)
    BY OwnDirs DEF SourcesInv
  <2> QED BY <1>1, <2>1 DEF Patched, Exists
<1>2. Local(t)
  BY OwnDirs DEF Local
<1>3. Shape'
  BY DEF SourcesInv, Shape
<1>4. \A p \in Polls : PollInv(p)'
  BY <1>2, PollsKept
<1> QED BY <1>1, <1>2, <1>3, <1>4, LocalKeeps

LEMMA RemoveKeeps ==
  ASSUME SourcesInv, NEW t \in Targets, remove(t)
  PROVE  SourcesInv'
<1>0. Shape /\ CloneInv(t)
  BY DEF SourcesInv
<1>d. PICK d \in Own(t) : d = clone[t].dir
  BY <1>0 DEF remove, CloneGoes, CloneInv
<1>1. /\ clone[t].pc = "remove" /\ clone' = [clone EXCEPT ![t].pc = "mkdir"] /\ d \in Dirs
      /\ UNCHANGED <<workspace, cache, doubtful, stray, poll>>
  BY OwnDirs DEF remove, CloneGoes
<1>2. /\ clone' \in [Targets -> CloneState]
      /\ clone'[t].pc = "mkdir" /\ clone'[t].dir = clone[t].dir
      /\ \A u \in Targets : u # t => clone'[u] = clone[u]
  <2>1. "mkdir" \in CloneStage
    BY DEF CloneStage
  <2> QED BY <1>0, <1>1, <2>1, Moved
<1>3. CloneInv(t)'
  BY <1>d, <1>1, <1>2 DEF CloneInv
<1>4. \A e \in Own(t) : Patched(e) /\ Remembered(e) /\ e[2] = t /\ e \in Dirs
  BY OwnDirs DEF SourcesInv
<1>5. /\ tree' \in [Dirs -> {"absent", "empty", "partial", "whole"}]
      /\ marks' \in [Dirs -> Nat] /\ torn' \in [Dirs -> BOOLEAN]
      /\ \A e \in Dirs : e # d => tree'[e] = tree[e] /\ marks'[e] = marks[e] /\ torn'[e] = torn[e]
      /\ Patched(d)' /\ (tree'[d] = "whole" => tree[d] = "whole")
  <2>1. CASE Becomes(d, "absent")
    <3>1. /\ tree' \in [Dirs -> {"absent", "empty", "partial", "whole"}]
          /\ marks' \in [Dirs -> Nat] /\ torn' \in [Dirs -> BOOLEAN]
          /\ tree'[d] = "absent" /\ marks'[d] = 0 /\ ~torn'[d]
          /\ \A e \in Dirs : e # d => tree'[e] = tree[e] /\ marks'[e] = marks[e] /\ torn'[e] = torn[e]
      BY <1>0, <1>1, <2>1, Became
    <3>2. Patched(d)'
      BY <3>1 DEF Patched
    <3> QED BY <3>1, <3>2
  <2>2. CASE Exists(d) /\ tree' = [tree EXCEPT ![d] = "partial"] /\ UNCHANGED <<marks, torn>>
    <3>1. tree'[d] = "partial" /\ \A e \in Dirs : e # d => tree'[e] = tree[e]
      BY <1>0, <1>1, <2>2 DEF Shape
    <3>2. Patched(d)'
      BY <1>1, <1>4, <2>2, <3>1 DEF Patched, Exists
    <3> QED BY <1>0, <2>2, <3>1, <3>2 DEF Shape
  <2>3. CASE UNCHANGED disk
    <3>1. tree' = tree /\ marks' = marks /\ torn' = torn
      BY <2>3 DEF disk
    <3>2. Patched(d)'
      BY <1>1, <1>4, <3>1 DEF Patched, Exists
    <3> QED BY <1>0, <3>1, <3>2 DEF Shape
  <2> QED BY <1>d, <2>1, <2>2, <2>3 DEF remove
<1>6. \A e \in Own(t) : Remembered(e)'
  <2> SUFFICES ASSUME NEW e \in Own(t) PROVE Remembered(e)'
    OBVIOUS
  <2>1. tree'[e] = "whole" => tree[e] = "whole"
    BY <1>4, <1>5
  <2> QED BY <1>1, <1>4, <2>1 DEF Remembered
<1>7. doubtful' \in [Dirs -> BOOLEAN] /\ \A e \in Dirs : doubtful'[e] = doubtful[e]
  BY <1>0, <1>1 DEF Shape
<1> QED BY <1>1, <1>2, <1>3, <1>5, <1>6, <1>7, DiskKeeps

LEMMA MkdirKeeps ==
  ASSUME SourcesInv, NEW t \in Targets, mkdir(t)
  PROVE  SourcesInv'
<1>0. Shape /\ CloneInv(t)
  BY DEF SourcesInv
<1>d. PICK d \in Own(t) : d = clone[t].dir
  BY <1>0 DEF mkdir, CloneInv
<1>1. /\ clone[t].pc = "mkdir" /\ d \in Dirs
      /\ UNCHANGED <<workspace, cache, doubtful, stray, poll>>
  BY OwnDirs DEF mkdir
<1>2. /\ clone' \in [Targets -> CloneState]
      /\ clone'[t].pc \in {"start", "idle"} /\ (clone'[t].pc = "start" => clone'[t].dir = clone[t].dir)
      /\ \A u \in Targets : u # t => clone'[u] = clone[u]
  <2>1. "start" \in CloneStage
    BY DEF CloneStage
  <2>2. clone' = [clone EXCEPT ![t].pc = "start"] \/ End(t)
    BY DEF mkdir
  <2>3. CASE clone' = [clone EXCEPT ![t].pc = "start"]
    BY <1>0, <2>1, <2>3, Moved
  <2>4. CASE End(t)
    BY <1>0, <2>4, Over
  <2> QED BY <2>2, <2>3, <2>4
<1>3. CloneInv(t)'
  BY <1>d, <1>1, <1>2 DEF CloneInv
<1>4. \A e \in Own(t) : Patched(e) /\ Remembered(e) /\ e[2] = t /\ e \in Dirs
  BY OwnDirs DEF SourcesInv
<1>5. /\ tree' \in [Dirs -> {"absent", "empty", "partial", "whole"}]
      /\ marks' \in [Dirs -> Nat] /\ torn' \in [Dirs -> BOOLEAN]
      /\ \A e \in Dirs : e # d => tree'[e] = tree[e] /\ marks'[e] = marks[e] /\ torn'[e] = torn[e]
      /\ Patched(d)' /\ (tree'[d] = "whole" => tree[d] = "whole")
  <2>1. CASE Becomes(d, "empty")
    <3>1. /\ tree' \in [Dirs -> {"absent", "empty", "partial", "whole"}]
          /\ marks' \in [Dirs -> Nat] /\ torn' \in [Dirs -> BOOLEAN]
          /\ tree'[d] = "empty" /\ marks'[d] = 0 /\ ~torn'[d]
          /\ \A e \in Dirs : e # d => tree'[e] = tree[e] /\ marks'[e] = marks[e] /\ torn'[e] = torn[e]
      BY <1>0, <1>1, <2>1, Became
    <3>2. Patched(d)'
      BY <3>1 DEF Patched
    <3> QED BY <3>1, <3>2
  <2>3. CASE UNCHANGED disk
    <3>1. tree' = tree /\ marks' = marks /\ torn' = torn
      BY <2>3 DEF disk
    <3>2. Patched(d)'
      BY <1>1, <1>4, <3>1 DEF Patched, Exists
    <3> QED BY <1>0, <3>1, <3>2 DEF Shape
  <2> QED BY <1>d, <2>1, <2>3 DEF mkdir
<1>6. \A e \in Own(t) : Remembered(e)'
  <2> SUFFICES ASSUME NEW e \in Own(t) PROVE Remembered(e)'
    OBVIOUS
  <2>1. tree'[e] = "whole" => tree[e] = "whole"
    BY <1>4, <1>5
  <2> QED BY <1>1, <1>4, <2>1 DEF Remembered
<1>7. doubtful' \in [Dirs -> BOOLEAN] /\ \A e \in Dirs : doubtful'[e] = doubtful[e]
  BY <1>0, <1>1 DEF Shape
<1> QED BY <1>1, <1>2, <1>3, <1>5, <1>6, <1>7, DiskKeeps

(* Before it patches, a Clone has no wrong answer to account for. *)
LEMMA NothingOwed ==
  ASSUME SourcesInv, NEW t \in Targets, clone[t].pc \notin {"patch", "write", "forget"},
         NEW e \in Own(t)
  PROVE  ~ (e[2] \in HasDB /\ tree[e] = "whole" /\ cache[e] = "no" /\ ~doubtful[e])
BY OwnDirs DEF SourcesInv, Remembered

(* A Clone that gives up. *)
LEMMA GivesUp ==
  ASSUME SourcesInv, NEW t \in Targets, clone[t].pc \notin {"idle", "patch", "write", "forget"}, End(t),
         UNCHANGED <<workspace, tree, marks, torn, cache, doubtful, stray, poll>>
  PROVE  SourcesInv'
<1>1. /\ clone' \in [Targets -> CloneState] /\ clone'[t].pc = "idle"
      /\ \A u \in Targets : u # t => clone'[u] = clone[u]
  BY Over DEF SourcesInv
<1>2. CloneInv(t)'
  BY <1>1 DEF CloneInv
<1>3. \A e \in Own(t) : Remembered(e)'
  BY NothingOwed, OwnDirs DEF SourcesInv, Remembered
<1> QED BY <1>1, <1>2, <1>3, QuietKeeps

LEMMA StartGitKeeps ==
  ASSUME SourcesInv, NEW t \in Targets, startGit(t)
  PROVE  SourcesInv'
<1>0. Shape /\ CloneInv(t) /\ clone[t].pc = "start" /\ UNCHANGED <<workspace, cache, stray, poll>>
  BY DEF SourcesInv, startGit
<1>1. PICK d \in Own(t) : d = <<workspace, t>>
  BY <1>0 DEF Shape, Own
<1>2. d \in Dirs
  BY OwnDirs
<1>3. CASE End(t) /\ UNCHANGED <<disk, doubtful>>
  BY <1>0, <1>3, GivesUp DEF disk
<1>4. CASE ~ (End(t) /\ UNCHANGED <<disk, doubtful>>)
  <2> DEFINE other == doubtful[d] \/ d # clone[t].dir
  <2>0. other \in BOOLEAN /\ (d # clone[t].dir => other) /\ (doubtful[d] => other)
    OBVIOUS
  <2>1. /\ clone' = [clone EXCEPT ![t].pc = "git", ![t].at = d]
        /\ Becomes(d, "partial")
        /\ doubtful' = [doubtful EXCEPT ![d] = other]
    BY <1>1, <1>4 DEF startGit
  <2> HIDE DEF other
  <2>2. /\ clone' \in [Targets -> CloneState]
        /\ clone'[t].pc = "git" /\ clone'[t].dir = clone[t].dir /\ clone'[t].at = d
        /\ \A u \in Targets : u # t => clone'[u] = clone[u]
    <3>1. clone[t] \in CloneState /\ DOMAIN clone = Targets /\ "git" \in CloneStage
      BY <1>0 DEF Shape, CloneStage
    <3> QED BY <1>0, <1>2, <2>1, <3>1 DEF Shape, CloneState
  <2>3. /\ tree' \in [Dirs -> {"absent", "empty", "partial", "whole"}]
        /\ marks' \in [Dirs -> Nat] /\ torn' \in [Dirs -> BOOLEAN]
        /\ tree'[d] = "partial" /\ marks'[d] = 0 /\ ~torn'[d]
        /\ \A e \in Dirs : e # d => tree'[e] = tree[e] /\ marks'[e] = marks[e] /\ torn'[e] = torn[e]
    BY <1>0, <1>2, <2>1, Became
  <2>4. /\ doubtful' \in [Dirs -> BOOLEAN] /\ (d # clone[t].dir => doubtful'[d])
        /\ doubtful[d] => doubtful'[d]
        /\ \A e \in Dirs : e # d => doubtful'[e] = doubtful[e]
    BY <1>0, <1>2, <2>0, <2>1 DEF Shape
  <2>5. CloneInv(t)'
    BY <1>0, <2>2, <2>3, <2>4 DEF CloneInv
  <2>6. \A e \in Own(t) : Remembered(e)
    BY OwnDirs DEF SourcesInv
  <2>7. Patched(d)' /\ Remembered(d)'
    BY <1>0, <2>3, <2>4, <2>6 DEF Patched, Remembered
  <2>8. \A e \in Own(t) : e # d => Remembered(e)'
    BY <1>0, <2>3, <2>4, <2>6, NothingOwed, OwnDirs DEF Remembered
  <2> QED BY <1>0, <2>2, <2>3, <2>4, <2>5, <2>7, <2>8, DiskKeeps
<1> QED BY <1>3, <1>4

LEMMA GitEndsKeeps ==
  ASSUME SourcesInv, NEW t \in Targets, gitEnds(t)
  PROVE  SourcesInv'
<1>0. Shape /\ CloneInv(t) /\ clone[t].pc = "git" /\ UNCHANGED <<workspace, cache, doubtful, stray, poll>>
  BY DEF SourcesInv, gitEnds
<1>1. PICK d \in Own(t) : d = clone[t].at
  BY <1>0 DEF CloneInv
<1>2. /\ d \in Dirs /\ d # <<>> /\ d[2] = t
      /\ \A e \in Own(t) : Remembered(e)
  BY OwnDirs DEF Own, SourcesInv
<1>3. CASE End(t) /\ UNCHANGED disk
  BY <1>0, <1>3, GivesUp DEF disk
<1>4. ASSUME NEW state \in {"whole", "empty"}, Becomes(d, state),
             clone' \in [Targets -> CloneState], \A u \in Targets : u # t => clone'[u] = clone[u],
             state = "whole" => /\ clone'[t].pc = "patch" /\ clone'[t].dir = clone[t].dir
                                /\ clone'[t].at = d,
             state = "empty" => clone'[t].pc = "idle"
      PROVE  SourcesInv'
  <2>1. /\ tree' \in [Dirs -> {"absent", "empty", "partial", "whole"}]
        /\ marks' \in [Dirs -> Nat] /\ torn' \in [Dirs -> BOOLEAN]
        /\ tree'[d] = state /\ marks'[d] = 0 /\ ~torn'[d]
        /\ \A e \in Dirs : e # d => tree'[e] = tree[e] /\ marks'[e] = marks[e] /\ torn'[e] = torn[e]
    BY <1>0, <1>2, <1>4, Became
  <2>2. CloneInv(t)'
    <3>1. CASE state = "whole"
      <4>1. clone'[t].dir \in Own(t)
        BY <1>0, <1>4, <3>1 DEF CloneInv
      <4>2. clone'[t].at \in {<<>>, clone'[t].dir} => tree'[clone'[t].dir] = "whole"
        BY <1>2, <1>4, <2>1, <3>1
      <4> QED BY <1>4, <3>1, <4>1, <4>2 DEF CloneInv, Exists
    <3>2. CASE state = "empty"
      BY <1>4, <3>2 DEF CloneInv
    <3> QED BY <3>1, <3>2
  <2>3. Patched(d)'
    BY <2>1 DEF Patched
  <2>4. Remembered(d)'
    <3>1. d # clone[t].dir => doubtful[d]
      BY <1>0, <1>1 DEF CloneInv
    <3> QED BY <1>0, <1>2, <1>4, <2>1, <3>1 DEF Remembered
  <2>5. \A e \in Own(t) : e # d => Remembered(e)'
    BY <1>0, <1>2, <2>1, NothingOwed, OwnDirs DEF Remembered
  <2>6. doubtful' \in [Dirs -> BOOLEAN] /\ \A e \in Dirs : doubtful'[e] = doubtful[e]
    BY <1>0 DEF Shape
  <2> QED BY <1>0, <1>4, <2>1, <2>2, <2>3, <2>4, <2>5, <2>6, DiskKeeps
<1>5. CASE clone' = [clone EXCEPT ![t].pc = "patch"] /\ Becomes(d, "whole")
  <2>1. "patch" \in CloneStage
    BY DEF CloneStage
  <2> QED BY <1>0, <1>1, <1>4, <1>5, <2>1, Moved
<1>6. CASE End(t) /\ Becomes(d, "empty")
  BY <1>0, <1>4, <1>6, Over
<1> QED BY <1>1, <1>3, <1>5, <1>6 DEF gitEnds

(* A Clone goes from its patches on to the end, with what it knows then. *)
LEMMA PatchesKeep ==
  ASSUME SourcesInv, NEW t \in Targets, clone[t].pc \in {"patch", "write"},
         NEW d \in Own(t), d = clone[t].dir, UNCHANGED <<workspace, cache, doubtful, stray, poll>>,
         NEW to \in {"write", "forget"}, NEW upset \in BOOLEAN,
         clone' = [clone EXCEPT ![t].pc = to, ![t].disturbed = upset],
         clone[t].disturbed => upset,
         tree' \in [Dirs -> {"absent", "empty", "partial", "whole"}],
         marks' \in [Dirs -> Nat], torn' \in [Dirs -> BOOLEAN],
         \A e \in Dirs : e # d => tree'[e] = tree[e] /\ marks'[e] = marks[e] /\ torn'[e] = torn[e],
         (tree'[d] = "whole") <=> (tree[d] = "whole"), Exists(d) => Exists(d)',
         Patched(d)',
         to = "write" => marks'[d] = 0,
         to = "forget" /\ tree[d] = "whole" /\ ~torn'[d] /\ ~upset => marks'[d] = 1
  PROVE  SourcesInv'
<1>0. Shape /\ CloneInv(t) /\ d \in Dirs /\ d[2] = t
  BY OwnDirs DEF SourcesInv
<1>1. /\ clone' \in [Targets -> CloneState]
      /\ clone'[t].pc = to /\ clone'[t].dir = d /\ clone'[t].at = clone[t].at
      /\ clone'[t].disturbed = upset
      /\ \A u \in Targets : u # t => clone'[u] = clone[u]
  <2>1. clone[t] \in CloneState /\ DOMAIN clone = Targets /\ to \in CloneStage
    BY <1>0 DEF Shape, CloneStage
  <2> QED BY <1>0, <2>1 DEF Shape, CloneState
<1>2. CloneInv(t)'
  BY <1>0, <1>1 DEF CloneInv
<1>3. \A e \in Own(t) : Remembered(e)'
  <2> SUFFICES ASSUME NEW e \in Own(t) PROVE Remembered(e)'
    OBVIOUS
  <2>1. Remembered(e) /\ e[2] = t /\ ((tree'[e] = "whole") <=> (tree[e] = "whole"))
    BY OwnDirs DEF SourcesInv
  <2> QED BY <1>1, <2>1 DEF Remembered
<1>4. doubtful' \in [Dirs -> BOOLEAN] /\ \A e \in Dirs : doubtful'[e] = doubtful[e]
  BY <1>0 DEF Shape
<1> QED BY <1>0, <1>1, <1>2, <1>3, <1>4, DiskKeeps

LEMMA PatchKeeps ==
  ASSUME SourcesInv, NEW t \in Targets, patch(t) \/ write(t)
  PROVE  SourcesInv'
<1>0. /\ Shape /\ CloneInv(t) /\ clone[t].pc \in {"patch", "write"}
      /\ UNCHANGED <<workspace, cache, doubtful, stray, poll>>
  BY DEF SourcesInv, patch, write
<1>1. PICK d \in Own(t) : d = clone[t].dir
  BY <1>0 DEF CloneInv
<1>2. d \in Dirs /\ Patched(d) /\ marks[d] \in Nat /\ clone[t] \in CloneState
  BY <1>0, OwnDirs DEF SourcesInv, Shape
<1>3. clone[t].disturbed \in BOOLEAN
  BY <1>2 DEF CloneState
<1> DEFINE b == clone[t].disturbed
<1>4. \A to \in {"write", "forget"} :
        clone' = [clone EXCEPT ![t].pc = to] => clone' = [clone EXCEPT ![t].pc = to, ![t].disturbed = b]
  <2>1. clone \in [Targets -> CloneState]
    BY <1>0 DEF Shape
  <2> QED BY <2>1 DEF CloneState
<1> HIDE DEF b
<1>5. CASE patch(t)
  <2>1. tree' = tree /\ marks' = marks /\ torn' = torn
    BY <1>5 DEF patch, disk
  <2>2. Patched(d)' /\ (Exists(d) => Exists(d)')
    BY <1>2, <2>1 DEF Patched, Exists
  <2>3. CASE MayNeedPatch(d) /\ clone' = [clone EXCEPT ![t].pc = "write"]
    <3>1. marks'[d] = 0
      BY <2>1, <2>3 DEF MayNeedPatch
    <3>2. clone' = [clone EXCEPT ![t].pc = "write", ![t].disturbed = b]
      BY <1>4, <2>3
    <3> QED BY <1>0, <1>1, <1>3, <2>1, <2>2, <3>1, <3>2, PatchesKeep DEF b, Shape
  <2>4. CASE /\ tree[d] = "whole" /\ ~torn[d] => ~MayNeedPatch(d)
             /\ clone' = [clone EXCEPT ![t].pc = "forget"]
    <3>1. tree[d] = "whole" /\ ~torn[d] => marks[d] = 1
      BY <1>2, <2>4 DEF MayNeedPatch, Exists, Patched
    <3>2. clone' = [clone EXCEPT ![t].pc = "forget", ![t].disturbed = b]
      BY <1>4, <2>4
    <3> QED BY <1>0, <1>1, <1>3, <2>1, <2>2, <3>1, <3>2, PatchesKeep DEF b, Shape
  <2>5. CASE clone' = [clone EXCEPT ![t].pc = "forget", ![t].disturbed = TRUE]
    BY <1>0, <1>1, <2>1, <2>2, <2>5, PatchesKeep DEF Shape
  <2> QED BY <1>1, <1>5, <2>3, <2>4, <2>5 DEF patch
<1>6. CASE write(t)
  <2>1. clone[t].pc = "write" /\ marks[d] = 0
    BY <1>0, <1>1, <1>6 DEF write, CloneInv
  <2>2. CASE UNCHANGED disk /\ clone' = [clone EXCEPT ![t].pc = "forget", ![t].disturbed = TRUE]
    <3>1. tree' = tree /\ marks' = marks /\ torn' = torn
      BY <2>2 DEF disk
    <3>2. Patched(d)' /\ (Exists(d) => Exists(d)')
      BY <1>2, <3>1 DEF Patched, Exists
    <3> QED BY <1>0, <1>1, <2>2, <3>1, <3>2, PatchesKeep DEF Shape
  <2>3. CASE /\ tree[d] # "absent"
             /\ tree' = [tree EXCEPT ![d] = IF @ = "empty" THEN "partial" ELSE @]
    <3>1. /\ tree' \in [Dirs -> {"absent", "empty", "partial", "whole"}]
          /\ \A e \in Dirs : e # d => tree'[e] = tree[e]
          /\ tree'[d] \in {"partial", "whole"} /\ ((tree'[d] = "whole") <=> (tree[d] = "whole"))
      BY <1>0, <1>2, <2>3 DEF Shape
    <3>2. Exists(d)'
      BY <3>1 DEF Exists
    <3>3. CASE /\ marks' = [marks EXCEPT ![d] = @ + 1] /\ UNCHANGED torn
               /\ clone' = [clone EXCEPT ![t].pc = "forget"]
      <4>1. /\ marks' \in [Dirs -> Nat] /\ torn' \in [Dirs -> BOOLEAN] /\ marks'[d] = 1
            /\ \A e \in Dirs : e # d => marks'[e] = marks[e] /\ torn'[e] = torn[e]
        BY <1>0, <1>2, <2>1, <3>3 DEF Shape
      <4>2. Patched(d)'
        BY <3>2, <4>1 DEF Patched
      <4>3. clone' = [clone EXCEPT ![t].pc = "forget", ![t].disturbed = b]
        BY <1>4, <3>3
      <4> QED BY <1>0, <1>1, <1>3, <3>1, <3>2, <4>1, <4>2, <4>3, PatchesKeep DEF b
    <3>4. CASE /\ torn' = [torn EXCEPT ![d] = TRUE] /\ UNCHANGED marks
               /\ clone' = [clone EXCEPT ![t].pc = "forget", ![t].disturbed = TRUE]
      <4>1. /\ marks' \in [Dirs -> Nat] /\ torn' \in [Dirs -> BOOLEAN] /\ marks'[d] = 0
            /\ \A e \in Dirs : e # d => marks'[e] = marks[e] /\ torn'[e] = torn[e]
        BY <1>0, <1>2, <2>1, <3>4 DEF Shape
      <4>2. Patched(d)'
        BY <3>2, <4>1 DEF Patched
      <4> QED BY <1>0, <1>1, <3>1, <3>2, <3>4, <4>1, <4>2, PatchesKeep
    <3> QED BY <1>1, <1>6, <2>2, <2>3, <3>3, <3>4 DEF write
  <2> QED BY <1>1, <1>6, <2>2, <2>3 DEF write
<1> QED BY <1>5, <1>6

LEMMA ForgetKeeps ==
  ASSUME SourcesInv, NEW t \in Targets, forget(t)
  PROVE  SourcesInv'
<1>0. /\ Shape /\ CloneInv(t) /\ clone[t].pc = "forget" /\ End(t)
      /\ UNCHANGED <<workspace, tree, marks, torn, stray, poll>>
  BY DEF SourcesInv, forget, disk
<1>1. PICK d \in Own(t) : d = clone[t].dir
  BY <1>0 DEF CloneInv
<1>2. d \in Dirs
  BY OwnDirs
<1>3. /\ cache' \in [Dirs -> {"none", "yes", "no"}] /\ doubtful' \in [Dirs -> BOOLEAN]
      /\ cache'[d] = "none"
      /\ \A e \in Dirs : e # d => cache'[e] = cache[e] /\ doubtful'[e] = doubtful[e]
  BY <1>0, <1>1, <1>2 DEF forget, Shape
<1>4. /\ clone' \in [Targets -> CloneState] /\ clone'[t].pc = "idle"
      /\ \A u \in Targets : u # t => clone'[u] = clone[u]
  BY <1>0, Over
<1>5. CloneInv(t)'
  BY <1>4 DEF CloneInv
<1>6. \A e \in Own(t) : Patched(e)' /\ Remembered(e)'
  <2> SUFFICES ASSUME NEW e \in Own(t) PROVE Patched(e)' /\ Remembered(e)'
    OBVIOUS
  <2>1. e \in Dirs /\ e[2] = t /\ Patched(e) /\ Remembered(e)
    BY OwnDirs DEF SourcesInv
  <2>2. Patched(e)'
    BY <1>0, <2>1 DEF Patched, Exists
  <2>3. Remembered(e)'
    BY <1>0, <1>1, <1>3, <2>1 DEF Remembered
  <2> QED BY <2>2, <2>3
<1>7. Local(t)
  BY <1>0, <1>1, <1>3, <1>4, OwnDirs DEF Local
<1>8. Shape'
  BY <1>0, <1>3, <1>4 DEF Shape
<1>9. \A p \in Polls : PollInv(p)'
  BY <1>0, <1>7, PollsKept
<1> QED BY <1>5, <1>6, <1>7, <1>8, <1>9, LocalKeeps

LEMMA CloneKeeps ==
  ASSUME SourcesInv, NEW t \in Targets, Clone(t)
  PROVE  SourcesInv'
BY RequestKeeps, LookKeeps, RemoveKeeps, MkdirKeeps, StartGitKeeps, GitEndsKeeps, PatchKeeps,
   ForgetKeeps DEF Clone

-----------------------------------------------------------------------------
(* The steps of a poll, of the settings form and of the launcher.           *)

(* A poll that stores nothing. *)
LEMMA AsksKeeps ==
  ASSUME SourcesInv, UNCHANGED <<workspace, tree, marks, torn, cache, doubtful, clone, stray>>,
         poll' \in [Polls -> PollState], \A p \in Polls : PollInv(p)'
  PROVE  SourcesInv'
<1>1. Shape'
  BY DEF SourcesInv, Shape
<1>2. \A t \in Targets : CloneInv(t)'
  BY DEF SourcesInv, CloneInv, Exists
<1>3. \A d \in Dirs : Patched(d)' /\ Remembered(d)'
  BY DEF SourcesInv, Patched, Remembered, Exists
<1> QED BY <1>1, <1>2, <1>3 DEF SourcesInv

LEMMA NoPollTyped == NoPoll \in PollState /\ NoPoll.pc = "idle"
BY DEF NoPoll, PollState

LEMMA StoreKeeps ==
  ASSUME SourcesInv, NEW p \in Polls, store(p)
  PROVE  SourcesInv'
<1> DEFINE q == poll[p]
<1>0. /\ Shape /\ PollInv(p) /\ q \in PollState /\ q.pc = "store"
      /\ UNCHANGED <<workspace, tree, marks, torn, clone, stray>>
  BY DEF SourcesInv, store, disk, Shape
<1>1. PICK d \in Dirs : d = poll[p].dir
  BY <1>0 DEF PollInv
<1>2. q.answer \in {"yes", "no"} /\ q.doubt \in BOOLEAN
  BY <1>0 DEF PollInv, PollState
<1>3. /\ cache' = [cache EXCEPT ![d] = q.answer] /\ doubtful' = [doubtful EXCEPT ![d] = q.doubt]
      /\ poll' = [poll EXCEPT ![p] = NoPoll]
  BY <1>1 DEF store
<1>4. ~q.doubt => ~AtWork(d) /\ (q.answer = "no" => ~ (d[2] \in HasDB /\ tree[d] = "whole"))
  BY <1>0, <1>1 DEF PollInv
<1> HIDE DEF q
<1>5. /\ cache' \in [Dirs -> {"none", "yes", "no"}] /\ doubtful' \in [Dirs -> BOOLEAN]
      /\ cache'[d] = q.answer /\ doubtful'[d] = q.doubt
      /\ \A e \in Dirs : e # d => cache'[e] = cache[e] /\ doubtful'[e] = doubtful[e]
  BY <1>0, <1>2, <1>3 DEF Shape
<1>6. poll' \in [Polls -> PollState] /\ poll'[p].pc = "idle"
      /\ \A r \in Polls : r # p => poll'[r] = poll[r]
  BY <1>0, <1>3, NoPollTyped DEF Shape
<1>7. Shape'
  BY <1>0, <1>5, <1>6 DEF Shape
<1>8. ASSUME NEW t \in Targets PROVE CloneInv(t)'
  <2>1. CloneInv(t)
    BY DEF SourcesInv
  <2>2. clone[t].pc = "git" => AtWork(clone[t].at) /\ clone[t].at \in Dirs
    BY <2>1, OwnDirs DEF AtWork, CloneInv
  <2>3. clone[t].pc = "git" => (doubtful[clone[t].at] => doubtful'[clone[t].at])
    BY <1>4, <1>5, <2>2
  <2> QED BY <1>0, <2>1, <2>3 DEF CloneInv, Exists
<1>9. ASSUME NEW e \in Dirs PROVE Patched(e)' /\ Remembered(e)'
  <2>1. Patched(e) /\ Remembered(e)
    BY DEF SourcesInv
  <2>2. Patched(e)'
    BY <1>0, <2>1 DEF Patched, Exists
  <2>3. Remembered(e)'
    <3>1. e = d /\ ~q.doubt => e \notin stray
      BY <1>4 DEF AtWork
    <3> QED BY <1>0, <1>4, <1>5, <2>1, <3>1 DEF Remembered
  <2> QED BY <2>2, <2>3
<1>10. ASSUME NEW r \in Polls PROVE PollInv(r)'
  <2>1. PollInv(r)
    BY DEF SourcesInv
  <2>2. CASE r = p
    BY <1>6, <2>2 DEF PollInv
  <2>3. CASE r # p
    <3>1. poll'[r] = poll[r]
      BY <1>6, <2>3
    <3> QED BY <1>0, <2>1, <3>1 DEF PollInv, AtWork
  <2> QED BY <2>2, <2>3
<1> QED BY <1>7, <1>8, <1>9, <1>10 DEF SourcesInv

LEMMA PollKeeps ==
  ASSUME SourcesInv, NEW p \in Polls, Poll(p)
  PROVE  SourcesInv'
<1>0. /\ Shape /\ PollInv(p) /\ poll[p] \in PollState
      /\ \A r \in Polls : PollInv(r)
  BY DEF SourcesInv, Shape
<1>1. ASSUME NEW q \in PollState, poll' = [poll EXCEPT ![p] = q],
             UNCHANGED <<workspace, disk, cache, doubtful, clone, stray>>,
             q.pc # "idle" => q.dir \in Dirs,
             q.pc = "store" =>
               /\ q.answer \in {"yes", "no"}
               /\ ~q.doubt => ~AtWork(q.dir) /\ (q.answer = "no" => ~ (q.dir[2] \in HasDB /\ tree[q.dir] = "whole"))
      PROVE  SourcesInv'
  <2>1. /\ poll' \in [Polls -> PollState] /\ poll'[p] = q
        /\ \A r \in Polls : r # p => poll'[r] = poll[r]
    BY <1>0, <1>1 DEF Shape
  <2>2. ASSUME NEW r \in Polls PROVE PollInv(r)'
    <3>1. CASE r = p
      BY <1>1, <2>1, <3>1 DEF PollInv, AtWork, disk
    <3>2. CASE r # p
      <4>1. poll'[r] = poll[r] /\ PollInv(r)
        BY <1>0, <2>1, <3>2
      <4> QED BY <1>1, <4>1 DEF PollInv, AtWork, disk
    <3> QED BY <3>1, <3>2
  <2> QED BY <1>1, <2>1, <2>2, AsksKeeps DEF disk
<1>2. ASSUME NEW t \in Targets, stat(p, t)
      PROVE  SourcesInv'
  <2>1. PICK w \in Workspaces : poll' = [poll EXCEPT ![p] = [NoPoll EXCEPT !.pc = "load", !.dir = <<w, t>>]]
    BY <1>2 DEF stat
  <2> DEFINE q == [NoPoll EXCEPT !.pc = "load", !.dir = <<w, t>>]
  <2>2. q \in PollState /\ q.pc = "load" /\ q.dir \in Dirs
    BY DEF NoPoll, PollState, Dirs
  <2>3. poll' = [poll EXCEPT ![p] = q]
    BY <2>1
  <2> HIDE DEF q
  <2> QED BY <1>1, <1>2, <2>2, <2>3 DEF stat
<1>3. CASE load(p)
  <2> DEFINE q == IF cache[poll[p].dir] # "none" THEN NoPoll ELSE [poll[p] EXCEPT !.pc = "walk"]
  <2>1. poll' = [poll EXCEPT ![p] = q] /\ poll[p].pc = "load"
    BY <1>3 DEF load
  <2>2. q \in PollState /\ q.pc \in {"idle", "walk"} /\ (q.pc = "walk" => q.dir = poll[p].dir)
    <3>1. CASE cache[poll[p].dir] # "none"
      BY <3>1, NoPollTyped
    <3>2. CASE cache[poll[p].dir] = "none"
      BY <1>0, <3>2 DEF PollState
    <3> QED BY <3>1, <3>2
  <2> HIDE DEF q
  <2> QED BY <1>0, <1>1, <1>3, <2>1, <2>2 DEF load, PollInv
<1>4. CASE walk(p)
  <2> DEFINE d == poll[p].dir
  <2>1. PICK answer \in {"yes", "no"}, doubt \in BOOLEAN :
          /\ poll' = [poll EXCEPT ![p] = [@ EXCEPT !.pc = "store", !.answer = answer, !.doubt = doubt]]
          /\ ~doubt => ~AtWork(d) /\ answer \in Detected(d)
    <3> DEFINE b == AtWork(d)
    <3>1. b \in BOOLEAN /\ (~b => ~AtWork(d))
      BY DEF AtWork
    <3>2. \/ poll' = [poll EXCEPT ![p] = [@ EXCEPT !.pc = "store", !.answer = "no", !.doubt = TRUE]]
          \/ \E answer \in Detected(d) :
               poll' = [poll EXCEPT ![p] = [@ EXCEPT !.pc = "store", !.answer = answer, !.doubt = b]]
      BY <1>4 DEF walk
    <3> HIDE DEF b
    <3>3. Detected(d) \subseteq {"yes", "no"}
      BY DEF Detected
    <3> QED BY <3>1, <3>2, <3>3
  <2> DEFINE q == [poll[p] EXCEPT !.pc = "store", !.answer = answer, !.doubt = doubt]
  <2>2. poll' = [poll EXCEPT ![p] = q] /\ poll[p].pc = "walk"
    BY <1>4, <2>1 DEF walk
  <2>3. /\ q \in PollState /\ q.pc = "store" /\ q.dir = d /\ q.answer = answer
        /\ q.doubt = doubt
    BY <1>0 DEF PollState
  <2>4. answer = "no" /\ answer \in Detected(d) => ~ (d[2] \in HasDB /\ tree[d] = "whole")
    BY DEF Detected
  <2> HIDE DEF q
  <2>5. q.dir \in Dirs
    BY <1>0, <2>2, <2>3 DEF PollInv
  <2>6. ~q.doubt => ~AtWork(q.dir) /\ (q.answer = "no" => ~ (q.dir[2] \in HasDB /\ tree[q.dir] = "whole"))
    BY <2>1, <2>3, <2>4
  <2> QED BY <1>1, <1>4, <2>2, <2>3, <2>5, <2>6 DEF walk
<1> QED BY <1>2, <1>3, <1>4, StoreKeeps DEF Poll

LEMMA WorkspaceKeeps ==
  ASSUME SourcesInv, NEW w \in Workspaces, SetWorkspace(w)
  PROVE  SourcesInv'
<1>1. workspace' = w /\ UNCHANGED <<tree, marks, torn, cache, doubtful, clone, stray, poll>>
  BY DEF SetWorkspace, disk
<1>2. Shape'
  BY <1>1 DEF SourcesInv, Shape
<1>3. \A t \in Targets : CloneInv(t)'
  BY <1>1 DEF SourcesInv, CloneInv, Exists
<1>4. \A d \in Dirs : Patched(d)' /\ Remembered(d)'
  BY <1>1 DEF SourcesInv, Patched, Remembered, Exists
<1>5. \A p \in Polls : PollInv(p)'
  BY <1>1 DEF SourcesInv, PollInv, AtWork
<1> QED BY <1>2, <1>3, <1>4, <1>5 DEF SourcesInv

LEMMA CrashKeeps ==
  ASSUME SourcesInv, Crash
  PROVE  SourcesInv'
<1>0. Shape /\ UNCHANGED <<workspace, tree>> /\ \A t \in Targets : CloneInv(t)
  BY DEF SourcesInv, Crash
<1>1. /\ cache' = [d \in Dirs |-> "none"] /\ doubtful' = [d \in Dirs |-> FALSE]
      /\ clone' = [t \in Targets |-> Idle] /\ poll' = [p \in Polls |-> NoPoll]
  BY DEF Crash
<1> DEFINE BeingPatched == {clone[t].dir : t \in {u \in Targets : clone[u].pc = "write" /\ Exists(clone[u].dir)}}
<1>2. PICK cut \in SUBSET BeingPatched, done \in SUBSET BeingPatched :
        /\ torn' = [d \in Dirs |-> torn[d] \/ d \in cut]
        /\ marks' = [d \in Dirs |-> IF d \in done \ cut THEN marks[d] + 1 ELSE marks[d]]
  BY DEF Crash
<1>3. \A d \in BeingPatched : marks[d] = 0 /\ Exists(d)
  BY <1>0 DEF CloneInv
<1> HIDE DEF BeingPatched
<1>4. stray' \subseteq Dirs
  <2>1. \A t \in Targets : clone[t].pc = "git" => clone[t].at \in Dirs
    BY <1>0, OwnDirs DEF CloneInv
  <2> QED BY <1>0, <2>1 DEF Crash, Shape
<1>5. Idle \in CloneState /\ Idle.pc = "idle"
  BY DEF Idle, CloneState, CloneStage
<1>6. torn' \in [Dirs -> BOOLEAN] /\ \A d \in Dirs : torn'[d] => torn[d] \/ d \in BeingPatched
  <2> DEFINE b(d) == torn[d] \/ d \in cut
  <2>1. \A d \in Dirs : b(d) \in BOOLEAN /\ (b(d) => torn[d] \/ d \in BeingPatched)
    BY <1>0 DEF Shape
  <2>2. torn' = [d \in Dirs |-> b(d)]
    BY <1>2
  <2> HIDE DEF b
  <2> QED BY <2>1, <2>2
<1>7. marks' \in [Dirs -> Nat] /\ \A d \in Dirs : marks'[d] = marks[d] \/ (d \in BeingPatched /\ marks'[d] = 1)
  BY <1>0, <1>2, <1>3 DEF Shape
<1>8. Shape'
  BY <1>0, <1>1, <1>4, <1>5, <1>6, <1>7, NoPollTyped DEF Shape
<1>9. \A t \in Targets : CloneInv(t)'
  BY <1>1, <1>5 DEF CloneInv
<1>10. \A d \in Dirs : Patched(d)' /\ Remembered(d)'
  <2> SUFFICES ASSUME NEW d \in Dirs PROVE Patched(d)' /\ Remembered(d)'
    OBVIOUS
  <2>1. Patched(d)
    BY DEF SourcesInv
  <2>2. Patched(d)'
    BY <1>0, <1>3, <1>6, <1>7, <2>1 DEF Patched, Exists
  <2> QED BY <1>1, <2>2 DEF Remembered
<1>11. \A p \in Polls : PollInv(p)'
  BY <1>1, NoPollTyped DEF PollInv
<1> QED BY <1>8, <1>9, <1>10, <1>11 DEF SourcesInv

LEMMA StrayKeeps ==
  ASSUME SourcesInv, NEW d \in Dirs, strayEnds(d)
  PROVE  SourcesInv'
<1>0. Shape /\ d \in stray /\ stray' = stray \ {d} /\ UNCHANGED <<workspace, cache, doubtful, poll>>
  BY DEF SourcesInv, strayEnds
<1>1. Patched(d) /\ Remembered(d)
  BY DEF SourcesInv
<1>2. /\ tree' \in [Dirs -> {"absent", "empty", "partial", "whole"}]
      /\ marks' \in [Dirs -> Nat] /\ torn' \in [Dirs -> BOOLEAN]
      /\ \A e \in Dirs : e # d => tree'[e] = tree[e] /\ marks'[e] = marks[e] /\ torn'[e] = torn[e]
      /\ Patched(d)' /\ marks'[d] \in {0, marks[d]}
      /\ \/ tree'[d] # "whole" \/ tree[d] = "whole"
         \/ ~ \E t \in Targets : clone[t].pc = "git" /\ clone[t].at = d
  <2>1. CASE \/ Becomes(d, "empty")
             \/ Becomes(d, "whole") /\ ~ \E t \in Targets : clone[t].pc = "git" /\ clone[t].at = d
    <3>1. /\ tree' \in [Dirs -> {"absent", "empty", "partial", "whole"}]
          /\ marks' \in [Dirs -> Nat] /\ torn' \in [Dirs -> BOOLEAN]
          /\ marks'[d] = 0 /\ ~torn'[d]
          /\ \A e \in Dirs : e # d => tree'[e] = tree[e] /\ marks'[e] = marks[e] /\ torn'[e] = torn[e]
          /\ \/ tree'[d] = "empty"
             \/ ~ \E t \in Targets : clone[t].pc = "git" /\ clone[t].at = d
      BY <1>0, <2>1, Became
    <3>2. Patched(d)'
      BY <3>1 DEF Patched
    <3> QED BY <3>1, <3>2
  <2>2. CASE /\ tree[d] = "partial" /\ tree' = [tree EXCEPT ![d] = "whole"] /\ UNCHANGED <<marks, torn>>
             /\ ~ \E t \in Targets : clone[t].pc = "git" /\ clone[t].at = d
    <3>1. /\ tree' \in [Dirs -> {"absent", "empty", "partial", "whole"}] /\ tree'[d] = "whole"
          /\ \A e \in Dirs : e # d => tree'[e] = tree[e]
      BY <1>0, <2>2 DEF Shape
    <3>2. Patched(d)'
      BY <1>1, <2>2, <3>1 DEF Patched, Exists
    <3> QED BY <1>0, <2>2, <3>1, <3>2 DEF Shape
  <2>3. CASE UNCHANGED disk
    <3>1. tree' = tree /\ marks' = marks /\ torn' = torn
      BY <2>3 DEF disk
    <3>2. Patched(d)'
      BY <1>1, <3>1 DEF Patched, Exists
    <3> QED BY <1>0, <3>1, <3>2 DEF Shape
  <2> QED BY <2>1, <2>2, <2>3 DEF strayEnds
<1>3. /\ clone' \in [Targets -> CloneState]
      /\ \A t \in Targets :
           /\ clone'[t].pc = clone[t].pc /\ clone'[t].dir = clone[t].dir
           /\ clone'[t].at = clone[t].at /\ clone'[t].clean = clone[t].clean
           /\ clone[t].disturbed => clone'[t].disturbed
           /\ clone[t].pc \notin {"idle", "look"} /\ clone[t].dir = d => clone'[t].disturbed
  <2> DEFINE f == [t \in Targets |->
                     clone[t].disturbed \/ (clone[t].pc \notin {"idle", "look"} /\ clone[t].dir = d)]
  <2>1. \A t \in Targets : clone[t].disturbed \in BOOLEAN
    BY <1>0 DEF Shape, CloneState
  <2>2. /\ f \in [Targets -> BOOLEAN]
        /\ \A t \in Targets :
             /\ clone[t].disturbed => f[t]
             /\ clone[t].pc \notin {"idle", "look"} /\ clone[t].dir = d => f[t]
    BY <2>1, Zenon
  <2>3. clone' = [t \in Targets |-> [clone[t] EXCEPT !.disturbed = f[t]]]
    BY Zenon DEF strayEnds
  <2> HIDE DEF f
  <2>4. \A t \in Targets : clone[t] \in CloneState /\ f[t] \in BOOLEAN
    BY <1>0, <2>2 DEF Shape
  <2>5. \A t \in Targets :
          /\ [clone[t] EXCEPT !.disturbed = f[t]] \in CloneState
          /\ clone'[t] = [clone[t] EXCEPT !.disturbed = f[t]]
    BY <2>3, <2>4 DEF CloneState
  <2>6. clone' \in [Targets -> CloneState]
    BY <2>3, <2>5
  <2> QED BY <2>2, <2>4, <2>5, <2>6 DEF CloneState
<1>4. Shape'
  BY <1>0, <1>2, <1>3 DEF Shape
<1>5. ASSUME NEW t \in Targets PROVE CloneInv(t)'
  <2>1. CloneInv(t)
    BY DEF SourcesInv
  <2>2. clone[t].pc # "idle" => clone[t].dir \in Dirs
    BY <2>1, OwnDirs DEF CloneInv
  <2>3. clone[t].pc = "git" => clone[t].at \in Dirs /\ tree'[clone[t].at] # "whole"
    BY <1>2, <2>1, OwnDirs DEF CloneInv
  <2>4. clone[t].pc = "write" => marks'[clone[t].dir] = 0
    BY <1>2, <2>1, <2>2 DEF CloneInv
  <2>5. CASE clone[t].dir = d
    BY <1>0, <1>3, <2>1, <2>3, <2>4, <2>5 DEF CloneInv
  <2>6. CASE clone[t].dir # d
    BY <1>0, <1>2, <1>3, <2>1, <2>2, <2>3, <2>4, <2>6 DEF CloneInv, Exists
  <2> QED BY <2>5, <2>6
<1>6. ASSUME NEW e \in Dirs PROVE Patched(e)' /\ Remembered(e)'
  <2>1. Patched(e) /\ Remembered(e) /\ e[2] \in Targets
    BY DirOf DEF SourcesInv
  <2>2. Patched(e)'
    BY <1>2, <2>1 DEF Patched, Exists
  <2>3. Remembered(e)'
    BY <1>0, <1>2, <1>3, <2>1 DEF Remembered
  <2> QED BY <2>2, <2>3
<1>7. ASSUME NEW p \in Polls PROVE PollInv(p)'
  <2>1. PollInv(p)
    BY DEF SourcesInv
  <2>2. CASE poll[p].pc = "store" /\ ~poll[p].doubt
    <3>1. PICK e \in Dirs : e = poll[p].dir
      BY <2>1, <2>2 DEF PollInv
    <3>2. ~AtWork(e) /\ e[2] \in Targets
      BY <2>1, <2>2, <3>1, DirOf DEF PollInv
    <3>3. e # d
      BY <1>0, <3>2 DEF AtWork
    <3>4. ~AtWork(e)' /\ tree'[e] = tree[e]
      BY <1>0, <1>2, <1>3, <3>2, <3>3 DEF AtWork
    <3> QED BY <1>0, <2>1, <2>2, <3>1, <3>4 DEF PollInv
  <2>3. CASE ~ (poll[p].pc = "store" /\ ~poll[p].doubt)
    BY <1>0, <2>1, <2>3 DEF PollInv
  <2> QED BY <2>2, <2>3
<1> QED BY <1>4, <1>5, <1>6, <1>7 DEF SourcesInv

(* The inductive invariant of Sources, through any Clones, polls, changes of *)
(* the workspace, ends of the launcher and gits that outlive it.             *)
THEOREM SourcesInvariance == SrcSpec => []SourcesInv
<1>1. SrcInit => SourcesInv
  <2> SUFFICES ASSUME SrcInit PROVE SourcesInv
    OBVIOUS
  <2>1. Idle \in CloneState /\ Idle.pc = "idle"
    BY DEF Idle, CloneState, CloneStage
  <2>2. Shape
    BY <2>1, NoPollTyped DEF SrcInit, Shape
  <2>3. \A t \in Targets : CloneInv(t)
    BY <2>1 DEF SrcInit, CloneInv
  <2>4. \A d \in Dirs : Patched(d) /\ Remembered(d)
    BY DEF SrcInit, Patched, Remembered
  <2>5. \A p \in Polls : PollInv(p)
    BY NoPollTyped DEF SrcInit, PollInv
  <2> QED BY <2>2, <2>3, <2>4, <2>5 DEF SourcesInv
<1>2. SourcesInv /\ [SrcNext]_srcVars => SourcesInv'
  <2> SUFFICES ASSUME SourcesInv, [SrcNext]_srcVars PROVE SourcesInv'
    OBVIOUS
  <2>1. CASE UNCHANGED srcVars
    <3>1. poll' \in [Polls -> PollState] /\ \A p \in Polls : PollInv(p)'
      BY <2>1 DEF srcVars, disk, SourcesInv, Shape, PollInv, AtWork
    <3> QED BY <2>1, <3>1, AsksKeeps DEF srcVars, disk
  <2> QED BY <2>1, CloneKeeps, PollKeeps, WorkspaceKeeps, CrashKeeps, StrayKeeps DEF SrcNext
<1> QED BY <1>1, <1>2, PTL DEF SrcSpec

(* Its type invariant: in particular git runs in a directory of its target. *)
THEOREM SourcesTypes == SrcSpec => []SrcTypeOK
<1>1. SourcesInv => SrcTypeOK
  BY OwnDirs DEF SourcesInv, Shape, SrcTypeOK, Patched, Exists, CloneInv, CloneState, CloneStage, PollState
<1> QED BY <1>1, SourcesInvariance, PTL

(* The launcher's additions are in a file at most once (runner.go 1018):     *)
(* PatchedOnce. *)
THEOREM AddedOnce == SrcSpec => []PatchedOnce
<1>1. SourcesInv => PatchedOnce
  BY DEF SourcesInv, Patched, PatchedOnce
<1> QED BY <1>1, SourcesInvariance, PTL

(* A Clone that reports success, all of whose files could be read and        *)
(* written and that no git of an earlier launcher disturbed, leaves sources, *)
(* patched if they are whole and were never cut off (runClone):              *)
(* DoneMeansReady. *)
THEOREM CloneDelivers == SrcSpec => []DoneMeansReady
<1>1. SourcesInv => DoneMeansReady
  BY DEF SourcesInv, CloneInv, DoneMeansReady
<1> QED BY <1>1, SourcesInvariance, PTL

(* A project with a database is remembered as one without only on account of *)
(* a poll during which a Clone, or a git of an earlier launcher, was at work *)
(* on its sources, or they could not be read (runner.go 2490): NeedsDBKnown. *)
THEOREM AnswerIsKnown == SrcSpec => []NeedsDBKnown
<1>1. SourcesInv => NeedsDBKnown
  BY DirOf DEF SourcesInv, Remembered, NeedsDBKnown, AtWork
<1> QED BY <1>1, SourcesInvariance, PTL

LEMMA StepSurvives ==
  ASSUME SourcesInv, [SrcNext]_srcVars, NEW d \in Dirs, tree[d] = "whole", tree'[d] # "whole"
  PROVE  \/ \E t \in Targets : clone[t].clean /\ clone[t].dir = d /\ clone[t].pc = "remove"
         \/ d \in stray /\ d \notin stray'
<1>0. Shape
  BY DEF SourcesInv
<1>1. ASSUME NEW t \in Targets, NEW e \in Dirs, NEW state, Becomes(e, state), tree[e] # "whole"
      PROVE  FALSE
  BY <1>0, <1>1 DEF Becomes, Shape
<1>2. ASSUME NEW t \in Targets, remove(t)
      PROVE  clone[t].clean /\ clone[t].dir = d /\ clone[t].pc = "remove"
  <2>1. clone[t].pc = "remove" /\ clone[t].clean /\ clone[t].dir \in Dirs
    BY <1>2, OwnDirs DEF remove, CloneGoes, SourcesInv, CloneInv
  <2>2. clone[t].dir = d
    BY <1>0, <1>2, <2>1 DEF remove, Becomes, disk, Shape
  <2> QED BY <2>1, <2>2
<1>3. ASSUME NEW t \in Targets, mkdir(t)
      PROVE  FALSE
  <2>1. clone[t].dir \in Dirs
    BY <1>3, OwnDirs DEF mkdir, SourcesInv, CloneInv
  <2> QED BY <1>0, <1>1, <1>3, <2>1 DEF mkdir, disk
<1>4. ASSUME NEW t \in Targets, startGit(t)
      PROVE  FALSE
  <2>1. <<workspace, t>> \in Dirs
    BY <1>0 DEF Shape, Dirs
  <2> QED BY <1>0, <1>1, <1>4, <2>1 DEF startGit, disk
<1>5. ASSUME NEW t \in Targets, gitEnds(t)
      PROVE  FALSE
  <2>1. clone[t].at \in Dirs /\ tree[clone[t].at] # "whole"
    BY <1>5, OwnDirs DEF gitEnds, SourcesInv, CloneInv
  <2> QED BY <1>0, <1>1, <1>5, <2>1 DEF gitEnds, disk
<1>w. ASSUME NEW t \in Targets, write(t)
      PROVE  FALSE
  <2>1. clone[t].dir \in Dirs
    BY <1>w, OwnDirs DEF write, SourcesInv, CloneInv
  <2> QED BY <1>0, <1>w, <2>1 DEF write, disk, Shape
<1>6. ASSUME NEW t \in Targets, Clone(t), ~remove(t)
      PROVE  FALSE
  <2>1. ASSUME UNCHANGED tree PROVE FALSE
    BY <2>1
  <2> QED BY <1>3, <1>4, <1>5, <1>w, <1>6, <2>1
          DEF Clone, request, look, patch, forget, disk
<1>7. ~ UNCHANGED tree
  OBVIOUS
<1>8. ~ ((\E p \in Polls : Poll(p)) \/ (\E w \in Workspaces : SetWorkspace(w)) \/ UNCHANGED srcVars)
  BY <1>7 DEF Poll, stat, load, walk, store, SetWorkspace, srcVars, disk
<1>9. ~ Crash
  BY <1>7 DEF Crash
<1>10. ASSUME NEW e \in Dirs, strayEnds(e)
       PROVE  d \in stray /\ d \notin stray'
  <2>1. e \in stray /\ stray' = stray \ {e}
    BY <1>10 DEF strayEnds
  <2>2. e # d => tree'[d] = tree[d]
    BY <1>0, <1>10 DEF strayEnds, Becomes, disk, Shape
  <2> QED BY <2>1, <2>2
<1> QED BY <1>2, <1>6, <1>8, <1>9, <1>10 DEF SrcNext

(* Whole sources are lost only in a Clone that was asked to clean, in the    *)
(* directory it was asked for (runClone), or to a git of an earlier launcher *)
(* that ends where it worked: SourcesSurvive. *)
THEOREM WholeSourcesSurvive == SrcSpec => SourcesSurvive
<1>1. ASSUME SourcesInv, [SrcNext]_srcVars
      PROVE  [\A d \in Dirs : tree[d] = "whole" /\ tree'[d] # "whole" =>
                \/ \E t \in Targets : clone[t].clean /\ clone[t].dir = d /\ clone[t].pc = "remove"
                \/ d \in stray /\ d \notin stray']_srcVars
  BY <1>1, StepSurvives
<1> QED BY <1>1, SourcesInvariance, PTL DEF SrcSpec, SourcesSurvive
=============================================================================
