--------------------------- MODULE OutputPipeProofs ---------------------------
(***************************************************************************)
(* What is logged and reported of a process, for any size of the pipe and  *)
(* any number of lines.                                                    *)
(*                                                                         *)
(* The argument follows the lines in flight: while the scanner reads, the  *)
(* log, the scanner's line, the copier's line and the pipe are together    *)
(* the output, in order.  The scanner stops only at a line that does not   *)
(* fit (Stuck), or when everything written is logged; the copier fails     *)
(* only in the first case.                                                 *)
(***************************************************************************)
EXTENDS OutputPipe, TLAPS

(* The line after the last one logged does not fit. *)
Stuck == Len(logs) < Written /\ output[Len(logs) + 1] = "long"

Begun ==
  /\ pc.waiter \in {"start", "failed"} <=> pc.copier = "none"
  /\ process = "new" <=> pc.copier = "none"
  /\ pc.copier = "none" => ~heir /\ output = <<>> /\ pipe = <<>>

(* Which ends are closed, and what the waiter has seen. *)
Ends ==
  /\ outR <=> pc.scanner # "ended"
  /\ outW <=> pc.waiter \notin {"drain", "returned"}
  /\ pc.waiter \in {"close", "drain", "returned"} =>
       process = "exited" /\ pc.copier = "gone" /\ err = (~success \/ copyErr)
  /\ pc.waiter = "returned" => pc.scanner \in {"counted", "ended"}

CopyOver ==
  /\ pc.copier = "gone" => pipe = <<>> /\ (copyErr \/ ~Writes)
  /\ copyErr => pc.copier = "gone" /\ pc.scanner = "ended" /\ Stuck

(* The numbers of the lines in flight. *)
InFlight ==
  /\ pc.copier = "write" => held = Written - Len(pipe)
  /\ \A i \in 1 .. Len(pipe) : pipe[i] = Written - Len(pipe) + i
  /\ pc.scanner = "scan" => token = Len(logs) + 1

InHands == (IF pc.scanner = "scan" THEN 1 ELSE 0) + (IF pc.copier = "write" THEN 1 ELSE 0)

Flow ==
  IF pc.scanner \in {"read", "scan"}
  THEN Len(logs) + InHands + Len(pipe) = Written
  ELSE Stuck \/ (Len(logs) = Written /\ ~outW /\ ~Writes)

Logged == /\ Len(logs) <= Written
          /\ \A i \in 1 .. Len(logs) : logs[i] = i /\ output[i] = "short"

Control == Begun /\ Ends /\ CopyOver
Lines   == InFlight /\ Flow /\ Logged
PipeInv == TypeOK /\ Control /\ Lines

LEMMA PipeInit == Init => PipeInv
<1> SUFFICES ASSUME Init PROVE PipeInv
  OBVIOUS
<1>1. TypeOK
  <2>1. Len(<<>>) = 0 /\ 0 <= MaxLines /\ 0 <= PipeSize
    BY BoundsAssumption
  <2>2. pc \in [waiter : {"start", "wait", "close", "drain", "returned", "failed", "detached"},
               copier : {"none", "read", "write", "gone"},
               scanner : {"read", "scan", "stopped", "counted", "ended"}]
    BY DEF Init
  <2>3. pipe \in Seq(Line) /\ Len(pipe) <= PipeSize /\ logs \in Seq(Line)
    BY <2>1 DEF Init
  <2>4. output \in Seq({"short", "long"}) /\ Len(output) <= MaxLines
    BY <2>1 DEF Init
  <2> QED BY <2>2, <2>3, <2>4 DEF Init, TypeOK, Written
<1>2. Control
  BY DEF Init, Control, Begun, Ends, CopyOver
<1>3. Lines
  BY DEF Init, Lines, InFlight, Flow, InHands, Logged, Written
<1> QED BY <1>1, <1>2, <1>3 DEF PipeInv

-----------------------------------------------------------------------------
(* The process writes, forks or ends. *)
LEMMA WriteStep ==
  ASSUME PipeInv, WriteLine
  PROVE  PipeInv'
<1> USE BoundsAssumption DEF PipeInv, Control, Lines, Written
<1>1. PICK kind \in {"short", "long"} : output' = Append(output, kind)
  BY DEF WriteLine
<1>2. /\ output' \in Seq({"short", "long"}) /\ Len(output') = Len(output) + 1
      /\ \A i \in 1 .. Len(output) : output'[i] = output[i]
      /\ Len(output') <= MaxLines /\ Len(output) \in Nat /\ Len(output') \in Line
  BY <1>1 DEF TypeOK, WriteLine, Line
<1>3. Writes /\ Writes' /\ pc.copier # "none"
  BY DEF WriteLine, Writes, Begun, TypeOK
<1>4. UNCHANGED <<process, success, heir, pc, held, token, outR, outW, copyErr, err, logs>>
  BY DEF WriteLine
<1>5. Len(logs) \in Nat /\ Len(logs) <= Len(output) /\ (Stuck => Stuck')
  BY <1>1, <1>2, <1>4 DEF Stuck, Logged, TypeOK
<1>6. CASE pc.copier = "gone"
  <2>1. pipe' = pipe /\ pipe = <<>> /\ Stuck /\ pc.scanner = "ended"
    BY <1>3, <1>6 DEF WriteLine, CopyOver
  <2>2. TypeOK'
    BY <1>2, <1>4, <2>1 DEF TypeOK
  <2>3. Control'
    BY <1>3, <1>4, <1>5, <1>6, <2>1 DEF Begun, Ends, CopyOver
  <2>4. Lines'
    BY <1>2, <1>4, <1>5, <1>6, <2>1 DEF InFlight, Flow, Logged
  <2> QED BY <2>2, <2>3, <2>4
<1>7. CASE pc.copier # "gone"
  <2>1. pipe' = Append(pipe, Len(output) + 1) /\ Len(pipe) < PipeSize
    BY <1>7 DEF WriteLine
  <2>2. /\ pipe' \in Seq(Line) /\ Len(pipe') = Len(pipe) + 1 /\ Len(pipe) \in Nat
        /\ pipe'[Len(pipe) + 1] = Len(output) + 1
        /\ \A i \in 1 .. Len(pipe) : pipe'[i] = pipe[i]
    BY <1>2, <2>1 DEF TypeOK
  <2>3. TypeOK'
    BY <1>2, <1>4, <2>1, <2>2 DEF TypeOK
  <2>4. Control'
    BY <1>3, <1>4, <1>5, <1>7 DEF Begun, Ends, CopyOver
  <2>5. InFlight'
    BY <1>2, <1>4, <1>7, <2>2 DEF InFlight
  <2>6. Flow'
    BY <1>2, <1>3, <1>4, <1>5, <2>2 DEF Flow, InHands
  <2>7. Logged'
    BY <1>2, <1>4, <1>5 DEF Logged
  <2> QED BY <2>3, <2>4, <2>5, <2>6, <2>7
<1> QED BY <1>6, <1>7

(* The steps that touch neither the lines nor the goroutines. *)
LEMMA ProcessStep ==
  ASSUME PipeInv, Fork \/ HeirEnds \/ Exit
  PROVE  PipeInv'
<1> USE DEF PipeInv, Control, Lines
<1>1. /\ UNCHANGED <<output, pipe, pc, held, token, outR, outW, copyErr, err, logs>>
      /\ Writes' => Writes
      /\ process' # process => process = "running"
      /\ success' # success => process = "running"
      /\ heir' # heir => process # "new"
      /\ process' \in {"new", "running", "exited"} /\ success' \in BOOLEAN /\ heir' \in BOOLEAN
      /\ process' = process \/ process' = "exited"
  BY DEF Fork, HeirEnds, Exit, Writes, TypeOK, Begun
<1>2. TypeOK'
  BY <1>1 DEF TypeOK, Written
<1>3. Control'
  BY <1>1 DEF Begun, Ends, CopyOver, Stuck, Written
<1>4. Lines'
  BY <1>1 DEF InFlight, Flow, InHands, Logged, Stuck, Written
<1> QED BY <1>2, <1>3, <1>4

-----------------------------------------------------------------------------
(* The copier. *)
LEMMA CopyStep ==
  ASSUME PipeInv, Copier
  PROVE  PipeInv'
<1> USE BoundsAssumption DEF PipeInv, Control, Lines, Goto
<1>0. /\ Len(pipe) \in Nat /\ Len(logs) \in Nat /\ Written \in Nat
      /\ pc.copier = "none" => pc.waiter \in {"start", "failed"}
  BY DEF TypeOK, Begun, Written
<1>1. CASE copyRead
  <2>1. /\ pc.copier = "read" /\ pc' = [pc EXCEPT !["copier"] = "write"]
        /\ held' = Head(pipe) /\ pipe' = Tail(pipe) /\ pipe # <<>>
        /\ UNCHANGED <<process, success, heir, output, token, outR, outW, copyErr, err, logs>>
    BY <1>1 DEF copyRead
  <2>2. /\ Head(pipe) = pipe[1] /\ Head(pipe) \in Line /\ Len(pipe) > 0
        /\ Tail(pipe) \in Seq(Line) /\ Len(Tail(pipe)) = Len(pipe) - 1
        /\ \A i \in 1 .. Len(Tail(pipe)) : Tail(pipe)[i] = pipe[i + 1]
    BY <2>1 DEF TypeOK
  <2>3. /\ pc'.copier = "write" /\ pc'.waiter = pc.waiter /\ pc'.scanner = pc.scanner
    BY <2>1 DEF TypeOK
  <2>4. TypeOK'
    BY <1>0, <2>1, <2>2 DEF TypeOK, Written
  <2>5. Control'
    BY <2>1, <2>3 DEF Begun, Ends, CopyOver
  <2>6. InFlight'
    BY <1>0, <2>1, <2>2, <2>3 DEF InFlight, Written
  <2>7. Flow' /\ Logged'
    BY <1>0, <2>1, <2>2, <2>3 DEF Flow, InHands, Logged, Stuck, Writes, Written
  <2> QED BY <2>4, <2>5, <2>6, <2>7
<1>2. CASE handOver
  <2>1. /\ pc.copier = "write" /\ pc.scanner = "read" /\ outR /\ outW
        /\ pc' = [pc EXCEPT !.copier = "read", !.scanner = "scan"]
        /\ token' = held /\ held' = 0
        /\ UNCHANGED <<process, success, heir, output, pipe, outR, outW, copyErr, err, logs>>
    BY <1>2 DEF handOver
  <2>2. /\ pc'.copier = "read" /\ pc'.waiter = pc.waiter /\ pc'.scanner = "scan"
    BY <2>1 DEF TypeOK
  <2>3. TypeOK'
    BY <2>1 DEF TypeOK, Written
  <2>4. Control'
    BY <2>1, <2>2 DEF Begun, Ends, CopyOver
  <2>5. InFlight' /\ Flow'
    BY <1>0, <2>1, <2>2 DEF InFlight, Flow, InHands, Written
  <2>6. Logged'
    BY <2>1 DEF Logged, Written
  <2> QED BY <2>3, <2>4, <2>5, <2>6
<1>3. CASE copyFails
  <2>1. /\ pc.copier = "write" /\ pc' = [pc EXCEPT !["copier"] = "gone"] /\ (~outR \/ ~outW)
        /\ copyErr' = TRUE /\ held' = 0 /\ pipe' = <<>>
        /\ UNCHANGED <<process, success, heir, output, token, outR, outW, err, logs>>
    BY <1>3 DEF copyFails
  <2>2. /\ pc'.copier = "gone" /\ pc'.waiter = pc.waiter /\ pc'.scanner = pc.scanner
    BY <2>1 DEF TypeOK
  <2>3. outW /\ ~outR /\ pc.scanner = "ended" /\ Stuck
    BY <2>1 DEF Ends, Flow
  <2>4. TypeOK'
    BY <2>1 DEF TypeOK, Written
  <2>5. Control' /\ Stuck'
    BY <2>1, <2>2, <2>3 DEF Begun, Ends, CopyOver, Stuck, Written
  <2>6. Lines'
    BY <2>1, <2>2, <2>3, <2>5 DEF InFlight, Flow, Logged, Written
  <2> QED BY <2>4, <2>5, <2>6
<1>4. CASE copyEnds
  <2>1. /\ pc.copier = "read" /\ pc' = [pc EXCEPT !["copier"] = "gone"] /\ ~Writes /\ pipe = <<>>
        /\ UNCHANGED <<process, success, heir, output, pipe, held, token, outR, outW, copyErr, err, logs>>
    BY <1>4 DEF copyEnds
  <2>2. /\ pc'.copier = "gone" /\ pc'.waiter = pc.waiter /\ pc'.scanner = pc.scanner
    BY <2>1 DEF TypeOK
  <2>3. TypeOK'
    BY <2>1 DEF TypeOK, Written
  <2>4. Control'
    BY <2>1, <2>2 DEF Begun, Ends, CopyOver, Writes
  <2>5. Lines'
    BY <2>1, <2>2 DEF InFlight, Flow, InHands, Logged, Stuck, Writes, Written
  <2> QED BY <2>3, <2>4, <2>5
<1> QED BY <1>1, <1>2, <1>3, <1>4 DEF Copier

-----------------------------------------------------------------------------
(* The scanner. *)
LEMMA ScanStep ==
  ASSUME PipeInv, Scanner
  PROVE  PipeInv'
<1> USE BoundsAssumption DEF PipeInv, Control, Lines, Goto
<1>0. Len(pipe) \in Nat /\ Len(logs) \in Nat /\ Written \in Nat
  BY DEF TypeOK, Written
<1>1. CASE scan
  <2>1. /\ pc.scanner = "scan" /\ token' = 0
        /\ UNCHANGED <<process, success, heir, output, pipe, held, outR, outW, copyErr, err>>
    BY <1>1 DEF scan
  <2>2. /\ token = Len(logs) + 1 /\ token <= Written /\ token \in Line
        /\ output[token] \in {"short", "long"} /\ ~copyErr
    BY <1>0, <2>1 DEF InFlight, Flow, InHands, CopyOver, TypeOK, Written, Line
  <2>3. CASE output[token] = "long"
    <3>1. pc' = [pc EXCEPT !["scanner"] = "stopped"] /\ logs' = logs
      BY <1>1, <2>3 DEF scan
    <3>2. /\ pc'.scanner = "stopped" /\ pc'.waiter = pc.waiter /\ pc'.copier = pc.copier
      BY <3>1 DEF TypeOK
    <3>3. Stuck'
      BY <1>0, <2>1, <2>2, <2>3, <3>1 DEF Stuck, Written
    <3>4. TypeOK'
      BY <2>1, <3>1 DEF TypeOK, Written
    <3>5. Control'
      BY <2>1, <2>2, <3>2 DEF Begun, Ends, CopyOver, Writes
    <3>6. Lines'
      BY <2>1, <3>1, <3>2, <3>3 DEF InFlight, Flow, Logged, Written
    <3> QED BY <3>4, <3>5, <3>6
  <2>4. CASE output[token] = "short"
    <3>1. pc' = [pc EXCEPT !["scanner"] = "read"] /\ logs' = Append(logs, token)
      BY <1>1, <2>4 DEF scan
    <3>2. /\ pc'.scanner = "read" /\ pc'.waiter = pc.waiter /\ pc'.copier = pc.copier
      BY <3>1 DEF TypeOK
    <3>3. /\ logs' \in Seq(Line) /\ Len(logs') = Len(logs) + 1 /\ logs'[Len(logs) + 1] = token
          /\ \A i \in 1 .. Len(logs) : logs'[i] = logs[i]
      BY <2>2, <3>1 DEF TypeOK
    <3>4. TypeOK'
      BY <2>1, <3>1, <3>3 DEF TypeOK, Written
    <3>5. Control'
      BY <2>1, <2>2, <3>2 DEF Begun, Ends, CopyOver, Writes
    <3>6. InFlight' /\ Flow'
      BY <1>0, <2>1, <3>2, <3>3 DEF InFlight, Flow, InHands, Written
    <3>7. Logged'
      BY <1>0, <2>1, <2>2, <2>4, <3>3 DEF Logged, Written
    <3> QED BY <3>4, <3>5, <3>6, <3>7
  <2> QED BY <2>2, <2>3, <2>4
<1>2. CASE scanEnds
  <2>1. /\ pc.scanner = "read" /\ pc' = [pc EXCEPT !["scanner"] = "stopped"] /\ ~outW
        /\ UNCHANGED <<process, success, heir, output, pipe, held, token, outR, outW, copyErr, err, logs>>
    BY <1>2 DEF scanEnds
  <2>2. /\ pc'.scanner = "stopped" /\ pc'.waiter = pc.waiter /\ pc'.copier = pc.copier
    BY <2>1 DEF TypeOK
  <2>3. pc.copier = "gone" /\ ~copyErr /\ pipe = <<>> /\ ~Writes
    BY <2>1 DEF Ends, CopyOver, TypeOK
  <2>4. Len(logs) = Written
    BY <1>0, <2>1, <2>3 DEF Flow, InHands
  <2>5. TypeOK'
    BY <2>1 DEF TypeOK, Written
  <2>6. pc.waiter \in {"drain", "returned"} /\ pc.waiter # "returned"
    BY <2>1 DEF Ends
  <2>7. Control'
    BY <2>1, <2>2, <2>3, <2>6 DEF Begun, Ends, CopyOver, Writes
  <2>8. Lines'
    BY <2>1, <2>2, <2>3, <2>4 DEF InFlight, Flow, Logged, Writes, Written
  <2> QED BY <2>5, <2>7, <2>8
<1>3. CASE wgDone \/ closeOutR
  <2>1. /\ pc.scanner \in {"stopped", "counted"} /\ pc'.scanner \in {"counted", "ended"}
        /\ pc.scanner = "counted" => pc'.scanner = "ended"
        /\ pc' = [pc EXCEPT !["scanner"] = pc'.scanner]
        /\ UNCHANGED <<process, success, heir, output, pipe, held, token, outW, copyErr, err, logs>>
        /\ outR' \in BOOLEAN /\ (outR' <=> pc'.scanner # "ended")
    BY <1>3 DEF wgDone, closeOutR, Ends, TypeOK
  <2>2. /\ pc'.waiter = pc.waiter /\ pc'.copier = pc.copier /\ ~copyErr
    BY <2>1 DEF TypeOK, CopyOver
  <2>3. TypeOK'
    BY <2>1 DEF TypeOK, Written
  <2>4. Control'
    BY <2>1, <2>2 DEF Begun, Ends, CopyOver, Writes
  <2>5. Lines'
    BY <2>1, <2>2 DEF InFlight, Flow, Logged, Stuck, Writes, Written
  <2> QED BY <2>3, <2>4, <2>5
<1> QED BY <1>1, <1>2, <1>3 DEF Scanner

-----------------------------------------------------------------------------
(* The goroutine that runs the command. *)
LEMMA WaitStep ==
  ASSUME PipeInv, Waiter
  PROVE  PipeInv'
<1> USE DEF PipeInv, Control, Lines, Goto
<1>1. CASE Start
  <2>1. PICK next \in {"wait", "detached"} :
          pc' = [pc EXCEPT !.waiter = next, !.copier = "read"]
    BY <1>1 DEF Start
  <2>2. /\ pc.waiter = "start" /\ process' = "running" /\ pc.copier = "none"
        /\ UNCHANGED <<success, heir, output, pipe, held, token, outR, outW, copyErr, err, logs>>
    BY <1>1 DEF Start, Begun
  <2>3. /\ pc'.waiter = next /\ pc'.copier = "read" /\ pc'.scanner = pc.scanner
    BY <2>1 DEF TypeOK
  <2>4. TypeOK'
    BY <2>1, <2>2 DEF TypeOK, Written
  <2>5. Control'
    BY <2>2, <2>3 DEF Begun, Ends, CopyOver
  <2>6. Lines'
    BY <2>2, <2>3 DEF InFlight, Flow, InHands, Logged, Stuck, Written, Ends
  <2> QED BY <2>4, <2>5, <2>6
<1>2. ASSUME NEW to \in {"failed", "close", "drain", "returned"},
             pc' = [pc EXCEPT !["waiter"] = to], outW' \in BOOLEAN, err' \in BOOLEAN, outW' => outW,
             UNCHANGED <<process, success, heir, output, pipe, held, token, outR, copyErr, logs>>
      PROVE  /\ pc'.waiter = to /\ pc'.copier = pc.copier /\ pc'.scanner = pc.scanner
             /\ TypeOK' /\ CopyOver' /\ Lines'
  <2>1. /\ pc'.waiter = to /\ pc'.copier = pc.copier /\ pc'.scanner = pc.scanner
    BY <1>2 DEF TypeOK
  <2>2. TypeOK'
    BY <1>2 DEF TypeOK, Written
  <2>3. CopyOver' /\ Lines'
    BY <1>2, <2>1 DEF CopyOver, InFlight, Flow, InHands, Logged, Stuck, Writes, Written
  <2> QED BY <2>1, <2>2, <2>3
<1>3. outW \in BOOLEAN /\ err \in BOOLEAN
  BY DEF TypeOK
<1>4. CASE StartFails \/ closeOutW \/ wgWait
  <2>1. /\ UNCHANGED <<process, success, heir, output, pipe, held, token, outR, copyErr, err, logs>>
        /\ outW' = outW \/ outW' = FALSE
    BY <1>4 DEF StartFails, closeOutW, wgWait
  <2>2. PICK to \in {"failed", "drain", "returned"} : pc' = [pc EXCEPT !["waiter"] = to]
    BY <1>4 DEF StartFails, closeOutW, wgWait
  <2>3. /\ pc'.waiter = to /\ pc'.copier = pc.copier /\ pc'.scanner = pc.scanner
        /\ TypeOK' /\ CopyOver' /\ Lines'
    <3>1. outW' \in BOOLEAN /\ err' \in BOOLEAN
      BY <1>3, <2>1
    <3>2. outW' => outW
      BY <2>1
    <3> QED BY <1>2, <2>1, <2>2, <3>1, <3>2
  <2>4. Begun' /\ Ends'
    <3>1. CASE StartFails
      BY <2>1, <2>3, <3>1 DEF Begun, Ends, StartFails
    <3>2. CASE closeOutW
      BY <2>1, <2>3, <3>2 DEF Begun, Ends, closeOutW
    <3>3. CASE wgWait
      BY <2>1, <2>3, <3>3 DEF Begun, Ends, wgWait
    <3> QED BY <1>4, <3>1, <3>2, <3>3
  <2> QED BY <2>3, <2>4
<1>5. CASE Wait
  <2>1. /\ UNCHANGED <<process, success, heir, output, pipe, held, token, outR, outW, copyErr, logs>>
        /\ pc.waiter = "wait" /\ pc' = [pc EXCEPT !["waiter"] = "close"]
        /\ process = "exited" /\ pc.copier = "gone"
    BY <1>5 DEF Wait
  <2>2. err' = (~success \/ copyErr)
    BY <1>5, Zenon DEF Wait
  <2>3. err' \in BOOLEAN
    BY <2>2, Zenon
  <2>4. /\ pc'.waiter = "close" /\ pc'.copier = pc.copier /\ pc'.scanner = pc.scanner
        /\ TypeOK' /\ CopyOver' /\ Lines'
    BY <1>2, <1>3, <2>1, <2>3
  <2>5. Begun'
    BY <2>1, <2>4 DEF Begun
  <2>6. Ends'
    BY <2>1, <2>2, <2>4 DEF Ends
  <2> QED BY <2>4, <2>5, <2>6
<1> QED BY <1>1, <1>4, <1>5 DEF Waiter

LEMMA PipeStep == PipeInv /\ [Next]_vars => PipeInv'
<1> SUFFICES ASSUME PipeInv, [Next]_vars PROVE PipeInv'
  OBVIOUS
<1>1. CASE UNCHANGED vars
  BY <1>1 DEF vars, PipeInv, TypeOK, Control, Begun, Ends, CopyOver, Lines, InFlight, Flow, InHands,
     Logged, Stuck, Writes, Written
<1> QED BY <1>1, WriteStep, ProcessStep, CopyStep, ScanStep, WaitStep DEF Next

LEMMA Invariance == Spec => []PipeInv
BY PipeInit, PipeStep, PTL DEF Spec

-----------------------------------------------------------------------------
(* Every variable keeps its type: the pipe its size, the copier and the     *)
(* scanner at most one line each. *)
THEOREM TypeCorrect == Spec => []TypeOK
<1>1. PipeInv => TypeOK
  BY DEF PipeInv
<1> QED BY <1>1, Invariance, PTL

(* The log is a beginning of the output, whatever its length and however    *)
(* the process, the copier and the scanner interleave: LogsArePrefix. *)
THEOREM PrefixLogged == Spec => []LogsArePrefix
<1>1. PipeInv => LogsArePrefix
  BY DEF PipeInv, TypeOK, Lines, Logged, LogsArePrefix, Fitting, Written
<1> QED BY <1>1, Invariance, PTL

(* When the waiter goes on, every line that fits is logged, and a command   *)
(* whose lines all fit is reported as it ended: ReportIsTrue. *)
THEOREM TrueReport == Spec => []ReportIsTrue
<1>1. PipeInv => ReportIsTrue
  <2> SUFFICES ASSUME PipeInv, pc.waiter = "returned"
               PROVE  /\ \A i \in Fitting : i \in 1 .. Len(logs)
                      /\ Flawless => err = ~success
    BY DEF ReportIsTrue
  <2>1. /\ Len(logs) \in Nat /\ Written \in Nat
        /\ err = (~success \/ copyErr) /\ success \in BOOLEAN /\ copyErr \in BOOLEAN
        /\ copyErr => Stuck
        /\ Stuck \/ Len(logs) = Written
    BY DEF PipeInv, TypeOK, Control, Ends, CopyOver, Lines, Flow, Written
  <2>2. CASE Stuck
    <3>1. Len(logs) + 1 \in 1 .. Written /\ output[Len(logs) + 1] # "short"
      BY <2>1, <2>2 DEF Stuck
    <3>2. \A i \in Fitting : i <= Len(logs)
      <4> SUFFICES ASSUME NEW i \in Fitting, ~(i <= Len(logs)) PROVE FALSE
        OBVIOUS
      <4>1. i \in 1 .. Written /\ \A j \in 1 .. i : output[j] = "short"
        BY DEF Fitting
      <4>2. Len(logs) + 1 \in 1 .. i
        BY <2>1, <4>1
      <4> QED BY <3>1, <4>1, <4>2
    <3>3. Len(logs) + 1 \notin Fitting
      BY <2>1, <3>2
    <3> QED BY <2>1, <3>1, <3>2, <3>3 DEF Fitting, Flawless
  <2>3. CASE ~Stuck
    BY <2>1, <2>3 DEF Fitting
  <2> QED BY <2>2, <2>3
<1> QED BY <1>1, Invariance, PTL

=============================================================================
