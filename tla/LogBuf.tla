-------------------------------- MODULE LogBuf --------------------------------
(***************************************************************************)
(* The bounded log of a job with its fan-out to live subscribers, and the  *)
(* event streams of the server that read it.                               *)
(*                                                                         *)
(* A line is the number of its Append in the order of the critical         *)
(* sections, so the log so far is 1 .. Len(author).                        *)
(***************************************************************************)
EXTENDS Integers, Sequences, SequencesExt, FiniteSets

CONSTANTS
  Writers,   \* goroutines that append: one per process output, and the runners
  Streams,   \* GET .../events requests
  Capacity,  \* b.cap
  ChanSize,  \* the buffer of a subscriber's channel
  MaxLines   \* bound: lines ever appended

ASSUME SizesAssumption == Capacity \in Nat \ {0} /\ ChanSize \in Nat /\ MaxLines \in Nat
ASSUME ActorsAssumption == Writers \cap Streams = {}

VARIABLES
  author,   \* history: who appended each line
  lines,    \* b.lines
  subs,     \* the streams in b.subs
  closed,   \* the streams whose channel is closed
  chan,     \* the lines in each channel
  dropped,  \* history: the lines each full channel lost
  pc,
  line,     \* the line each writer is sending
  targets,  \* its local `subs`: the channels it has yet to send to
  since,    \* history: how many lines there were when each stream subscribed
  snapshot, \* what each stream sent first
  streamed  \* the lines each stream sent from its channel

vars == <<author, lines, subs, closed, chan, dropped, pc, line, targets, since, snapshot, streamed>>

Count == Len(author)
Line  == 1 .. MaxLines

TypeOK ==
  /\ author \in Seq(Writers) /\ Count <= MaxLines
  /\ lines \in Seq(Line)
  /\ subs \in SUBSET Streams
  /\ closed \in SUBSET Streams
  /\ chan \in [Streams -> Seq(Line)]
  /\ dropped \in [Streams -> SUBSET Line]
  /\ pc \in [Writers \cup Streams -> {"idle", "send", "new", "subscribed", "streaming", "gone"}]
  /\ line \in [Writers -> 0 .. MaxLines]
  /\ targets \in [Writers -> SUBSET Streams]
  /\ since \in [Streams -> 0 .. MaxLines]
  /\ snapshot \in [Streams -> Seq(Line)]
  /\ streamed \in [Streams -> Seq(Line)]

Init ==
  /\ author = <<>> /\ lines = <<>>
  /\ subs = {} /\ closed = {}
  /\ chan = [s \in Streams |-> <<>>]
  /\ dropped = [s \in Streams |-> {}]
  /\ pc = [a \in Writers \cup Streams |-> IF a \in Writers THEN "idle" ELSE "new"]
  /\ line = [w \in Writers |-> 0]
  /\ targets = [w \in Writers |-> {}]
  /\ since = [s \in Streams |-> 0]
  /\ snapshot = [s \in Streams |-> <<>>]
  /\ streamed = [s \in Streams |-> <<>>]

Goto(a, from, to) == pc[a] = from /\ pc' = [pc EXCEPT ![a] = to]

-----------------------------------------------------------------------------
(* Append.                                                                  *)

(* Variant for the checks: a buffer that is just full loses a line. *)
Trim_OneShort(ls) ==
  IF Len(ls) >= Capacity THEN SubSeq(ls, Len(ls) - Capacity + 2, Len(ls)) ELSE ls

Trim(ls) == IF Len(ls) > Capacity THEN SubSeq(ls, Len(ls) - Capacity + 1, Len(ls)) ELSE ls

(* Its critical section adds the line and copies the set of subscribers. *)
Append_(w) ==
  /\ Count < MaxLines
  /\ Goto(w, "idle", "send")
  /\ author' = Append(author, w)
  /\ lines' = Trim(Append(lines, Count + 1))
  /\ line' = [line EXCEPT ![w] = Count + 1]
  /\ targets' = [targets EXCEPT ![w] = subs]
  /\ UNCHANGED <<subs, closed, chan, dropped, since, snapshot, streamed>>

(* Variant for the checks: a full channel is waited for. *)
safeSend_Waits(w) ==
  /\ pc[w] = "send"
  /\ \E s \in targets[w] :
       /\ targets' = [targets EXCEPT ![w] = @ \ {s}]
       /\ \/ s \in closed /\ UNCHANGED chan
          \/ /\ s \notin closed /\ Len(chan[s]) < ChanSize
             /\ chan' = [chan EXCEPT ![s] = Append(@, line[w])]
  /\ UNCHANGED <<author, lines, subs, closed, dropped, pc, line, since, snapshot, streamed>>

(* safeSend: a closed channel panics and is recovered from, a full one      *)
(* drops the line.                                                          *)
safeSend(w) ==
  /\ pc[w] = "send"
  /\ \E s \in targets[w] :
       /\ targets' = [targets EXCEPT ![w] = @ \ {s}]
       /\ \/ s \in closed /\ UNCHANGED <<chan, dropped>>
          \/ /\ s \notin closed /\ Len(chan[s]) < ChanSize
             /\ chan' = [chan EXCEPT ![s] = Append(@, line[w])]
             /\ UNCHANGED dropped
          \/ /\ s \notin closed /\ Len(chan[s]) >= ChanSize
             /\ dropped' = [dropped EXCEPT ![s] = @ \cup {line[w]}]
             /\ UNCHANGED chan
  /\ UNCHANGED <<author, lines, subs, closed, pc, line, since, snapshot, streamed>>

(* Variant for the checks: Append returns after the first send. *)
AppendReturns_Early(w) ==
  /\ Goto(w, "send", "idle")
  /\ targets' = [targets EXCEPT ![w] = {}]
  /\ UNCHANGED <<author, lines, subs, closed, chan, dropped, line, since, snapshot, streamed>>

AppendReturns(w) ==
  /\ targets[w] = {}
  /\ Goto(w, "send", "idle")
  /\ UNCHANGED <<author, lines, subs, closed, chan, dropped, line, targets, since, snapshot,
                 streamed>>

-----------------------------------------------------------------------------
(* handleEvents.                                                            *)

Subscribe(s) ==
  /\ Goto(s, "new", "subscribed")
  /\ subs' = subs \cup {s}
  /\ since' = [since EXCEPT ![s] = Count]
  /\ UNCHANGED <<author, lines, closed, chan, dropped, line, targets, snapshot, streamed>>

Snapshot(s) ==
  /\ Goto(s, "subscribed", "streaming")
  /\ snapshot' = [snapshot EXCEPT ![s] = lines]
  /\ UNCHANGED <<author, lines, subs, closed, chan, dropped, line, targets, since, streamed>>

(* Variant for the checks: the newest line is taken first. *)
Receive_Newest(s) ==
  /\ pc[s] = "streaming"
  /\ chan[s] # <<>>
  /\ streamed' = [streamed EXCEPT ![s] = Append(@, Last(chan[s]))]
  /\ chan' = [chan EXCEPT ![s] = Front(@)]
  /\ UNCHANGED <<author, lines, subs, closed, dropped, pc, line, targets, since, snapshot>>

Receive(s) ==
  /\ pc[s] = "streaming"
  /\ chan[s] # <<>>
  /\ streamed' = [streamed EXCEPT ![s] = Append(@, Head(chan[s]))]
  /\ chan' = [chan EXCEPT ![s] = Tail(@)]
  /\ UNCHANGED <<author, lines, subs, closed, dropped, pc, line, targets, since, snapshot>>

(* The client goes away: the deferred cancel removes and closes the         *)
(* channel.  Nobody else does, so the handler never reads a closed one.     *)
cancel(s) ==
  /\ Goto(s, "streaming", "gone")
  /\ subs' = subs \ {s}
  /\ closed' = closed \cup {s}
  /\ UNCHANGED <<author, lines, chan, dropped, line, targets, since, snapshot, streamed>>

-----------------------------------------------------------------------------
Next ==
  \/ \E w \in Writers : Append_(w) \/ safeSend(w) \/ AppendReturns(w)
  \/ \E s \in Streams : Subscribe(s) \/ Snapshot(s) \/ Receive(s) \/ cancel(s)

(* The writers are scheduled.  Nothing is assumed of the streams: a browser *)
(* may stop reading for good.                                               *)
Fairness == \A w \in Writers : WF_vars(safeSend(w) \/ AppendReturns(w))

Spec == Init /\ [][Next]_vars /\ Fairness

-----------------------------------------------------------------------------
(* Properties.                                                              *)

(* The log kept is the end of the log written, as long as the capacity      *)
(* allows, however the writers interleave.                                  *)
KeepsLatest ==
  /\ Len(lines) = IF Count < Capacity THEN Count ELSE Capacity
  /\ \A i \in 1 .. Len(lines) : lines[i] = Count - Len(lines) + i

(* A stream that subscribed before it took its snapshot misses nothing of   *)
(* what follows the snapshot's first line: each line was sent, waits in the *)
(* channel, is about to be sent to it, or was dropped by a full channel.    *)
Oldest(s) == IF snapshot[s] = <<>> THEN 1 ELSE Head(snapshot[s])
NoGap ==
  \A s \in Streams : pc[s] = "streaming" =>
    \A l \in Oldest(s) .. Count :
      \/ l \in ToSet(snapshot[s]) \cup ToSet(streamed[s]) \cup ToSet(chan[s]) \cup dropped[s]
      \/ \E w \in Writers : line[w] = l /\ s \in targets[w]

(* A stream sends what one writer appended in the order it was appended,    *)
(* and once, with one exception that the code has: the handler subscribes   *)
(* before it takes its snapshot, so a line appended in between is in the    *)
(* snapshot, as far as the capacity allows, and comes again from the        *)
(* channel.  Nothing older and nothing newer is ever repeated or moved.     *)
Newest(s) == IF snapshot[s] = <<>> THEN 0 ELSE Last(snapshot[s])
Overlap(s) == since[s] + 1 .. Newest(s)
WriterOrder ==
  \A s \in Streams : LET sent == snapshot[s] \o (streamed[s] \o chan[s]) IN
    \A i, j \in DOMAIN sent :
      i < j /\ author[sent[i]] = author[sent[j]] =>
        \/ sent[i] < sent[j]
        \/ i <= Len(snapshot[s]) /\ j > Len(snapshot[s]) /\ sent[j] \in Overlap(s)

(* logbuf.go: "Append never blocks": it returns although no stream reads.   *)
NeverBlocks == \A w \in Writers : pc[w] = "send" ~> pc[w] = "idle"
=============================================================================
