------------------------------ MODULE OutputPipe ------------------------------
(***************************************************************************)
(* How the output of one process reaches the log of its job: pipeOutput    *)
(* and the code around it in exec, runLongWithPort and runWAR.             *)
(*                                                                         *)
(* The process writes lines into a pipe of the system; a goroutine of      *)
(* os/exec (the copier) writes what it reads there to outW; the scanner,   *)
(* at the other end of the io.Pipe, appends each line to the log.  The     *)
(* goroutine that started the process (the waiter) waits for it and calls  *)
(* the function pipeOutput returned.  A dependency service has no waiter.  *)
(*                                                                         *)
(* A line is its number; output[i] says whether line i fits the scanner.   *)
(***************************************************************************)
EXTENDS Integers, Sequences, SequencesExt

CONSTANTS
  PipeSize,  \* lines the system's pipe holds
  MaxLines   \* bound: lines ever written

ASSUME BoundsAssumption == PipeSize \in Nat \ {0} /\ MaxLines \in Nat

VARIABLES
  process,   \* the process: new, running, exited
  success,   \* whether it exited with 0
  heir,      \* a descendant holds its output open
  output,    \* history: the kind of each line written
  pipe,      \* the lines in the system's pipe
  pc,        \* of the waiter, the copier and the scanner
  held,      \* the line the copier is writing to outW
  token,     \* the line the scanner has read
  outR, outW,\* whether the ends of the io.Pipe are open
  copyErr,   \* the copier's error, which Wait reports
  err,       \* what the waiter got from Wait
  logs       \* what was appended to the log

vars == <<process, success, heir, output, pipe, pc, held, token, outR, outW, copyErr, err, logs>>

Line == 1 .. MaxLines
Written == Len(output)

TypeOK ==
  /\ process \in {"new", "running", "exited"}
  /\ success \in BOOLEAN /\ heir \in BOOLEAN
  /\ output \in Seq({"short", "long"}) /\ Written <= MaxLines
  /\ pipe \in Seq(Line) /\ Len(pipe) <= PipeSize
  /\ pc \in [waiter : {"start", "wait", "close", "drain", "returned", "failed", "detached"},
             copier : {"none", "read", "write", "gone"},
             scanner : {"read", "scan", "stopped", "counted", "ended"}]
  /\ held \in Line \cup {0} /\ token \in Line \cup {0}
  /\ outR \in BOOLEAN /\ outW \in BOOLEAN
  /\ copyErr \in BOOLEAN /\ err \in BOOLEAN
  /\ logs \in Seq(Line)

(* pipeOutput has run: the scanner waits for the first line. *)
Init ==
  /\ process = "new" /\ success = FALSE /\ heir = FALSE
  /\ output = <<>> /\ pipe = <<>> /\ logs = <<>>
  /\ pc = [waiter |-> "start", copier |-> "none", scanner |-> "read"]
  /\ held = 0 /\ token = 0
  /\ outR = TRUE /\ outW = TRUE
  /\ copyErr = FALSE /\ err = FALSE

Goto(who, from, to) == pc[who] = from /\ pc' = [pc EXCEPT ![who] = to]

-----------------------------------------------------------------------------
(* The process and its descendants.                                         *)

Writes == process = "running" \/ heir

(* A line goes into the pipe while its reader is there; later it is lost    *)
(* and the process gets an error, from which it may die (Exit) or not.      *)
WriteLine ==
  /\ Writes
  /\ Written < MaxLines
  /\ pc.copier # "gone" => Len(pipe) < PipeSize
  /\ \E kind \in {"short", "long"} : output' = Append(output, kind)
  /\ pipe' = IF pc.copier = "gone" THEN pipe ELSE Append(pipe, Written + 1)
  /\ UNCHANGED <<process, success, heir, pc, held, token, outR, outW, copyErr, err, logs>>

Fork ==
  /\ process = "running" /\ ~heir
  /\ heir' = TRUE
  /\ UNCHANGED <<process, success, output, pipe, pc, held, token, outR, outW, copyErr, err, logs>>

HeirEnds ==
  /\ heir
  /\ heir' = FALSE
  /\ UNCHANGED <<process, success, output, pipe, pc, held, token, outR, outW, copyErr, err, logs>>

Exit ==
  /\ process = "running"
  /\ process' = "exited"
  /\ success' \in BOOLEAN
  /\ UNCHANGED <<heir, output, pipe, pc, held, token, outR, outW, copyErr, err, logs>>

-----------------------------------------------------------------------------
(* The goroutine of os/exec that copies the output into outW.               *)

copyRead ==
  /\ pipe # <<>>
  /\ Goto("copier", "read", "write")
  /\ held' = Head(pipe)
  /\ pipe' = Tail(pipe)
  /\ UNCHANGED <<process, success, heir, output, token, outR, outW, copyErr, err, logs>>

(* The io.Pipe has no buffer: a line is handed over when the scanner reads. *)
handOver ==
  /\ outR /\ outW
  /\ pc.copier = "write" /\ pc.scanner = "read"
  /\ pc' = [pc EXCEPT !.copier = "read", !.scanner = "scan"]
  /\ token' = held
  /\ held' = 0
  /\ UNCHANGED <<process, success, heir, output, pipe, outR, outW, copyErr, err, logs>>

(* An end is closed: the copier gives up, and closes its end of the pipe.   *)
copyFails ==
  /\ ~outR \/ ~outW
  /\ Goto("copier", "write", "gone")
  /\ copyErr' = TRUE
  /\ held' = 0
  /\ pipe' = <<>>
  /\ UNCHANGED <<process, success, heir, output, token, outR, outW, err, logs>>

(* The end of the output: nobody can write any more. *)
copyEnds ==
  /\ ~Writes
  /\ pipe = <<>>
  /\ Goto("copier", "read", "gone")
  /\ UNCHANGED <<process, success, heir, output, pipe, held, token, outR, outW, copyErr, err, logs>>

-----------------------------------------------------------------------------
(* The scanner of pipeOutput.                                               *)

(* Variants for the checks: a line that does not fit is skipped; one line   *)
(* is read instead of all.                                                  *)
scan_SkipsLong ==
  /\ Goto("scanner", "scan", "read")
  /\ logs' = IF output[token] = "long" THEN logs ELSE Append(logs, token)
  /\ token' = 0
  /\ UNCHANGED <<process, success, heir, output, pipe, held, outR, outW, copyErr, err>>
scan_Once ==
  /\ Goto("scanner", "scan", "stopped")
  /\ logs' = IF output[token] = "long" THEN logs ELSE Append(logs, token)
  /\ token' = 0
  /\ UNCHANGED <<process, success, heir, output, pipe, held, outR, outW, copyErr, err>>

(* A line longer than the scanner's buffer ends the loop. *)
scan ==
  /\ Goto("scanner", "scan", IF output[token] = "long" THEN "stopped" ELSE "read")
  /\ logs' = IF output[token] = "long" THEN logs ELSE Append(logs, token)
  /\ token' = 0
  /\ UNCHANGED <<process, success, heir, output, pipe, held, outR, outW, copyErr, err>>

scanEnds ==
  /\ ~outW
  /\ Goto("scanner", "read", "stopped")
  /\ UNCHANGED <<process, success, heir, output, pipe, held, token, outR, outW, copyErr, err, logs>>

(* Its deferred calls, the last one first: wg.Done, then outR.Close. *)
wgDone ==
  /\ Goto("scanner", "stopped", "counted")
  /\ UNCHANGED <<process, success, heir, output, pipe, held, token, outR, outW, copyErr, err, logs>>

(* Variant for the checks: the deferred Close is missing. *)
closeOutR_Never ==
  /\ Goto("scanner", "counted", "ended")
  /\ UNCHANGED <<process, success, heir, output, pipe, held, token, outR, outW, copyErr, err, logs>>

closeOutR ==
  /\ Goto("scanner", "counted", "ended")
  /\ outR' = FALSE
  /\ UNCHANGED <<process, success, heir, output, pipe, held, token, outW, copyErr, err, logs>>

-----------------------------------------------------------------------------
(* The goroutine that runs the command.                                     *)

(* The services of a chain are started by a goroutine that does not wait    *)
(* for them.                                                                *)
Start ==
  /\ pc.waiter = "start"
  /\ process' = "running"
  /\ \E next \in {"wait", "detached"} : pc' = [pc EXCEPT !.waiter = next, !.copier = "read"]
  /\ UNCHANGED <<success, heir, output, pipe, held, token, outR, outW, copyErr, err, logs>>

(* The command cannot be started: the callers return, and nobody closes the *)
(* io.Pipe: the scanner waits for ever.                                     *)
StartFails ==
  /\ Goto("waiter", "start", "failed")
  /\ UNCHANGED <<process, success, heir, output, pipe, held, token, outR, outW, copyErr, err, logs>>

(* Variant for the checks: the copier is not waited for. *)
Wait_ProcessOnly ==
  /\ process = "exited"
  /\ Goto("waiter", "wait", "close")
  /\ err' = (~success \/ copyErr)
  /\ UNCHANGED <<process, success, heir, output, pipe, held, token, outR, outW, copyErr, logs>>

(* cmd.Wait: the process, then the copier.  The copier's error is reported  *)
(* for a process that succeeded.                                            *)
Wait ==
  /\ process = "exited" /\ pc.copier = "gone"
  /\ Goto("waiter", "wait", "close")
  /\ err' = (~success \/ copyErr)
  /\ UNCHANGED <<process, success, heir, output, pipe, held, token, outR, outW, copyErr, logs>>

(* The function pipeOutput returned: it closes outW and waits for wg. *)
closeOutW ==
  /\ Goto("waiter", "close", "drain")
  /\ outW' = FALSE
  /\ UNCHANGED <<process, success, heir, output, pipe, held, token, outR, copyErr, err, logs>>

wgWait ==
  /\ pc.scanner \in {"counted", "ended"}
  /\ Goto("waiter", "drain", "returned")
  /\ UNCHANGED <<process, success, heir, output, pipe, held, token, outR, outW, copyErr, err, logs>>

-----------------------------------------------------------------------------
Copier  == copyRead \/ handOver \/ copyFails \/ copyEnds
Scanner == scan \/ scanEnds \/ wgDone \/ closeOutR
Waiter  == Start \/ StartFails \/ Wait \/ closeOutW \/ wgWait
Next == WriteLine \/ Fork \/ HeirEnds \/ Exit \/ Copier \/ Scanner \/ Waiter

(* The goroutines are scheduled.  Nothing makes a process exit or write. *)
Fairness ==
  /\ WF_vars(Copier)
  /\ WF_vars(Scanner)
  /\ WF_vars(Wait \/ closeOutW \/ wgWait)

Spec == Init /\ [][Next]_vars /\ Fairness

-----------------------------------------------------------------------------
(* Properties.                                                              *)

(* The lines that precede the first one that does not fit. *)
Fitting == {i \in 1 .. Written : \A j \in 1 .. i : output[j] = "short"}
Flawless == Fitting = 1 .. Written

(* The log is at any time a beginning of the output: nothing is reordered,  *)
(* repeated or left out in the middle, and what follows a line that does    *)
(* not fit is not shown (runner.go, pipeOutput).                            *)
LogsArePrefix == /\ Len(logs) <= Written
                 /\ \A i \in 1 .. Len(logs) : logs[i] = i /\ i \in Fitting

(* runner.go 1629: "Wait before closing outW": once the run's goroutine     *)
(* goes on to report the status, the log holds every line up to the first   *)
(* one that does not fit, also those a process wrote just before it died;   *)
(* and a command whose lines all fit is reported as failed exactly when it  *)
(* failed: the order of the closes loses nothing and makes no error.        *)
ReportIsTrue ==
  pc.waiter = "returned" =>
    /\ \A i \in Fitting : i \in 1 .. Len(logs)
    /\ Flawless => err = ~success

(* Once the process and whoever inherited its output have ended, the        *)
(* goroutine of the run goes on, even if the scanner stopped early.         *)
RunGoesOn == (process = "exited" /\ ~heir /\ pc.waiter = "wait") ~> pc.waiter = "returned"

(* Every line a process writes is logged sooner or later, while it runs,    *)
(* whether or not anybody waits for it (dependency services).               *)
EventuallyLogged == \A i \in Line : (i \in Fitting) ~> (i <= Len(logs))
=============================================================================
