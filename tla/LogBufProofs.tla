------------------------------ MODULE LogBufProofs ------------------------------
(* Theorems about LogBuf, for every number of writers and streams, every   *)
(* capacity and every channel size.                                        *)
EXTENDS LogBuf, TLAPS

LogInv == author \in Seq(Writers) /\ lines \in Seq(Nat) /\ KeepsLatest

(* What Trim returns: the last Capacity lines of ls, or all of them. *)
LEMMA TrimIsSuffix ==
  ASSUME NEW S, NEW ls \in Seq(S)
  PROVE  /\ Trim(ls) \in Seq(S)
         /\ Len(Trim(ls)) = IF Len(ls) > Capacity THEN Capacity ELSE Len(ls)
         /\ \A i \in 1 .. Len(Trim(ls)) : Trim(ls)[i] = ls[Len(ls) - Len(Trim(ls)) + i]
<1>1. Len(ls) \in Nat /\ Capacity \in Nat \ {0}
  BY SizesAssumption
<1>2. CASE Len(ls) > Capacity
  <2> DEFINE k == Len(ls) - Capacity + 1
  <2>1. k \in 1 .. Len(ls) /\ k \in Int /\ Len(ls) \in Int /\ Len(ls) - k + 1 = Capacity
    BY <1>1, <1>2
  <2>2. Trim(ls) = SubSeq(ls, k, Len(ls))
    BY <1>2 DEF Trim
  <2>3. \A j \in k .. Len(ls) : ls[j] \in S
    BY <2>1
  <2>4. /\ SubSeq(ls, k, Len(ls)) \in Seq(S)
        /\ Len(SubSeq(ls, k, Len(ls))) = Capacity
        /\ \A i \in 1 .. Capacity : SubSeq(ls, k, Len(ls))[i] = ls[k + i - 1]
    BY <1>1, <2>1, <2>3
  <2>5. QED
    BY <1>1, <1>2, <2>1, <2>2, <2>4
<1>3. CASE ~(Len(ls) > Capacity)
  BY <1>1, <1>3 DEF Trim
<1>4. QED
  BY <1>2, <1>3

LEMMA StepLog == LogInv /\ [Next]_vars => LogInv'
<1> SUFFICES ASSUME LogInv, [Next]_vars PROVE LogInv'
  OBVIOUS
<1>1. ASSUME UNCHANGED <<author, lines>> PROVE LogInv'
  BY <1>1 DEF LogInv, KeepsLatest, Count
<1>2. ASSUME NEW w \in Writers, Append_(w) PROVE LogInv'
  <2> DEFINE ls == Append(lines, Count + 1)
  <2>1. author' = Append(author, w) /\ lines' = Trim(ls)
    BY <1>2 DEF Append_
  <2>2. /\ author' \in Seq(Writers) /\ Count' = Count + 1 /\ Count \in Nat
        /\ lines \in Seq(Nat) /\ Capacity \in Nat \ {0}
    BY <2>1, SizesAssumption DEF LogInv, Count
  <2>3. /\ ls \in Seq(Nat) /\ Len(ls) = Len(lines) + 1 /\ ls[Len(ls)] = Count + 1
        /\ \A i \in 1 .. Len(lines) : ls[i] = lines[i]
    BY <2>2
  <2> HIDE DEF ls
  <2>0. Len(lines) \in Nat /\ \A i \in 1 .. Len(lines) : lines[i] = Count - Len(lines) + i
    BY DEF LogInv, KeepsLatest
  <2>4. ASSUME NEW i \in 1 .. Len(ls) PROVE ls[i] = Count + 1 - Len(ls) + i
    <3>1. CASE i = Len(ls)
      BY <2>0, <2>2, <2>3, <3>1
    <3>2. CASE i \in 1 .. Len(lines)
      BY <2>0, <2>2, <2>3, <3>2
    <3>3. QED
      BY <2>0, <2>3, <3>1, <3>2
  <2>5. /\ lines' \in Seq(Nat)
        /\ Len(lines') = IF Len(ls) > Capacity THEN Capacity ELSE Len(ls)
        /\ \A i \in 1 .. Len(lines') : lines'[i] = ls[Len(ls) - Len(lines') + i]
    BY <2>1, <2>3, TrimIsSuffix
  <2>6. Len(lines') = IF Count + 1 < Capacity THEN Count + 1 ELSE Capacity
    BY <2>2, <2>3, <2>5 DEF LogInv, KeepsLatest
  <2>7. ASSUME NEW i \in 1 .. Len(lines') PROVE lines'[i] = Count + 1 - Len(lines') + i
    <3>1. Len(ls) \in Nat /\ Len(lines') \in Nat /\ Len(lines') <= Len(ls)
      BY <2>2, <2>3, <2>5
    <3>2. Len(ls) - Len(lines') + i \in 1 .. Len(ls)
      BY <3>1
    <3>3. lines'[i] = ls[Len(ls) - Len(lines') + i]
      BY <2>5
    <3>4. ls[Len(ls) - Len(lines') + i] = Count + 1 - Len(ls) + (Len(ls) - Len(lines') + i)
      BY <2>4, <3>2
    <3>5. QED
      BY <2>2, <3>1, <3>3, <3>4
  <2>8. KeepsLatest'
    BY <2>2, <2>6, <2>7 DEF KeepsLatest
  <2>9. QED
    BY <2>2, <2>5, <2>8 DEF LogInv
<1>3. CASE UNCHANGED vars
  BY <1>1, <1>3 DEF vars
<1>4. ASSUME NEW w \in Writers, safeSend(w) \/ AppendReturns(w) PROVE LogInv'
  BY <1>1, <1>4 DEF safeSend, AppendReturns
<1>5. ASSUME NEW s \in Streams, Subscribe(s) \/ Snapshot(s) \/ Receive(s) \/ cancel(s)
      PROVE  LogInv'
  BY <1>1, <1>5 DEF Subscribe, Snapshot, Receive, cancel
<1>6. QED
  BY <1>2, <1>3, <1>4, <1>5 DEF Next

LEMMA LogInvariance == Spec => []LogInv
<1>1. Init => LogInv
  BY SizesAssumption DEF Init, LogInv, KeepsLatest, Count
<1>2. LogInv /\ [Next]_vars => LogInv'
  BY StepLog
<1>3. QED
  BY <1>1, <1>2, PTL DEF Spec

(* The lines kept are the last Capacity of the lines ever appended, in the  *)
(* order in which the appenders entered Append, and all of them while they  *)
(* fit.                                                                     *)
THEOREM LatestKept == Spec => []KeepsLatest
BY LogInvariance, PTL DEF LogInv

-----------------------------------------------------------------------------
(* Types.  A writer that is sending sends a line of its own. *)

SendsOwn == \A w \in Writers : pc[w] = "send" => line[w] \in 1 .. Count /\ author[line[w]] = w

TypeInv == TypeOK /\ SendsOwn

LEMMA StepAppend ==
  ASSUME TypeInv, NEW w \in Writers, Append_(w)
  PROVE  TypeInv'
<1> USE SizesAssumption DEF TypeInv, TypeOK, Count, Line
<1>1. /\ author' = Append(author, w) /\ lines' = Trim(Append(lines, Count + 1))
      /\ line' = [line EXCEPT ![w] = Count + 1] /\ targets' = [targets EXCEPT ![w] = subs]
      /\ pc' = [pc EXCEPT ![w] = "send"]
      /\ Count < MaxLines /\ Count \in Nat
  BY DEF Append_, Goto
<1>2. /\ author' \in Seq(Writers) /\ Count' = Count + 1 /\ author'[Count + 1] = w
      /\ \A l \in 1 .. Count : author'[l] = author[l]
  BY <1>1
<1>3. Append(lines, Count + 1) \in Seq(Line)
  BY <1>1
<1>4. lines' \in Seq(Line)
  BY <1>1, <1>3, TrimIsSuffix
<1>5. line' \in [Writers -> 0 .. MaxLines]
  BY <1>1
<1>6. targets' \in [Writers -> SUBSET Streams]
  BY <1>1
<1>7. pc' \in [Writers \cup Streams -> {"idle", "send", "new", "subscribed", "streaming", "gone"}]
  BY <1>1
<1>8. TypeOK'
  BY <1>1, <1>2, <1>4, <1>5, <1>6, <1>7 DEF Append_
<1>9. SendsOwn'
  <2> SUFFICES ASSUME NEW v \in Writers, pc'[v] = "send"
               PROVE  line'[v] \in 1 .. Count' /\ author'[line'[v]] = v
    BY DEF SendsOwn
  <2>1. CASE v = w
    BY <1>1, <1>2, <2>1
  <2>2. CASE v # w
    BY <1>1, <1>2, <2>2 DEF SendsOwn
  <2> QED BY <2>1, <2>2
<1> QED BY <1>8, <1>9

LEMMA StepTypes == TypeInv /\ [Next]_vars => TypeInv'
<1> SUFFICES ASSUME TypeInv, [Next]_vars PROVE TypeInv'
  OBVIOUS
<1> USE SizesAssumption, ActorsAssumption DEF TypeInv, SendsOwn
<1>1. CASE UNCHANGED vars
  BY <1>1 DEF vars, TypeOK, Count
<1>2. ASSUME NEW w \in Writers, Append_(w) PROVE TypeInv'
  BY <1>2, StepAppend
<1>3. ASSUME NEW w \in Writers, safeSend(w) PROVE TypeInv'
  <2>1. line[w] \in Line
    BY <1>3 DEF safeSend, TypeOK, Line
  <2>2. PICK s \in targets[w] :
          /\ targets' = [targets EXCEPT ![w] = @ \ {s}]
          /\ chan' = chan \/ chan' = [chan EXCEPT ![s] = Append(@, line[w])]
          /\ dropped' = dropped \/ dropped' = [dropped EXCEPT ![s] = @ \cup {line[w]}]
    BY <1>3 DEF safeSend
  <2>3. chan' \in [Streams -> Seq(Line)] /\ dropped' \in [Streams -> SUBSET Line]
    <3>1. chan \in [Streams -> Seq(Line)] /\ dropped \in [Streams -> SUBSET Line]
      BY DEF TypeOK
    <3>2. s \in Streams /\ chan[s] \in Seq(Line) /\ dropped[s] \in SUBSET Line
      BY <3>1 DEF TypeOK
    <3>3. Append(chan[s], line[w]) \in Seq(Line) /\ dropped[s] \cup {line[w]} \in SUBSET Line
      BY <2>1, <3>2
    <3>4. chan' \in [Streams -> Seq(Line)]
      BY <2>2, <3>1, <3>3
    <3>5. dropped' \in [Streams -> SUBSET Line]
      BY <2>2, <3>1, <3>3
    <3> QED BY <3>4, <3>5
  <2>4. targets' \in [Writers -> SUBSET Streams]
    BY <2>2 DEF TypeOK
  <2>5. UNCHANGED <<author, lines, subs, closed, pc, line, since, snapshot, streamed>>
    BY <1>3 DEF safeSend
  <2>6. TypeOK'
    BY <2>3, <2>4, <2>5 DEF TypeOK, Count
  <2>7. SendsOwn'
    BY <2>5 DEF Count
  <2> QED BY <2>6, <2>7
<1>4. ASSUME NEW w \in Writers, AppendReturns(w) PROVE TypeInv'
  BY <1>4 DEF AppendReturns, Goto, TypeOK, Count
<1>5. ASSUME NEW s \in Streams, Subscribe(s) \/ Snapshot(s) \/ cancel(s) PROVE TypeInv'
  <2>1. /\ pc' \in [Writers \cup Streams -> {"idle", "send", "new", "subscribed", "streaming", "gone"}]
        /\ \A w \in Writers : pc'[w] = pc[w]
    BY <1>5 DEF Subscribe, Snapshot, cancel, Goto, TypeOK
  <2>2. snapshot' \in [Streams -> Seq(Line)]
    BY <1>5 DEF Subscribe, Snapshot, cancel, TypeOK
  <2>3. subs' \subseteq Streams /\ closed' \subseteq Streams
    BY <1>5 DEF Subscribe, Snapshot, cancel, TypeOK
  <2>7. since' \in [Streams -> 0 .. MaxLines]
    <3>1. Count \in 0 .. MaxLines /\ since \in [Streams -> 0 .. MaxLines]
      BY DEF TypeOK, Count
    <3> QED BY <1>5, <3>1 DEF Subscribe, Snapshot, cancel
  <2>4. UNCHANGED <<author, lines, chan, dropped, line, targets, streamed>>
    BY <1>5 DEF Subscribe, Snapshot, cancel
  <2>5. TypeOK'
    BY <2>1, <2>2, <2>3, <2>4, <2>7 DEF TypeOK, Count
  <2>6. SendsOwn'
    BY <2>1, <2>4 DEF Count
  <2> QED BY <2>5, <2>6
<1>6. ASSUME NEW s \in Streams, Receive(s) PROVE TypeInv'
  <2>1. Head(chan[s]) \in Line /\ Tail(chan[s]) \in Seq(Line)
    BY <1>6 DEF Receive, TypeOK
  <2>2. chan' \in [Streams -> Seq(Line)] /\ streamed' \in [Streams -> Seq(Line)]
    BY <1>6, <2>1 DEF Receive, TypeOK
  <2>3. UNCHANGED <<author, lines, subs, closed, dropped, pc, line, targets, since, snapshot>>
    BY <1>6 DEF Receive
  <2>4. TypeOK'
    BY <2>2, <2>3 DEF TypeOK, Count
  <2>5. SendsOwn'
    BY <2>3 DEF Count
  <2> QED BY <2>4, <2>5
<1> QED BY <1>1, <1>2, <1>3, <1>4, <1>5, <1>6 DEF Next

LEMMA TypesHold == Spec => []TypeInv
<1>1. Init => TypeInv
  BY SizesAssumption, ActorsAssumption DEF Init, TypeInv, TypeOK, SendsOwn, Count, Line
<1>2. QED
  BY <1>1, StepTypes, PTL DEF Spec

(* Type correctness, for any number of writers and streams and any sizes. *)
THEOREM TypeCorrect == Spec => []TypeOK
<1>1. TypeInv => TypeOK
  BY DEF TypeInv
<1>2. QED
  BY <1>1, TypesHold, PTL

-----------------------------------------------------------------------------
(* The order of each writer's lines in a stream.  A writer sends a line to  *)
(* a channel before it appends the next, so what it is about to send is     *)
(* later than everything of its own the stream has got.                     *)

(* The lines of q are in the order of each author; those of w are below e.  *)
Sorted(q, by)      == \A i, j \in 1 .. Len(q) : i < j /\ by[q[i]] = by[q[j]] => q[i] < q[j]
Below(q, by, w, e) == \A i \in 1 .. Len(q) : by[q[i]] = w => q[i] < e

Out(s) == streamed[s] \o chan[s]

SentBefore ==
  \A s \in Streams :
    /\ Out(s) \in Seq(1 .. Count)
    /\ \A w \in Writers : pc[w] = "send" /\ s \in targets[w] => Below(Out(s), author, w, line[w])

OrderInv == TypeInv /\ SentBefore /\ \A s \in Streams : Sorted(Out(s), author)

(* Sequences of lines, when a line is sent. *)
LEMMA Extended ==
  ASSUME NEW S, NEW q \in Seq(S), NEW e \in S
  PROVE  /\ Append(q, e) \in Seq(S) /\ Len(q) \in Nat /\ Len(Append(q, e)) = Len(q) + 1
         /\ Append(q, e)[Len(q) + 1] = e
         /\ \A i \in 1 .. Len(q) : Append(q, e)[i] = q[i] /\ q[i] \in S
OBVIOUS

LEMMA ConcatAppend ==
  ASSUME NEW q \in Seq(Line), NEW r \in Seq(Line), NEW e \in Line
  PROVE  q \o Append(r, e) = Append(q \o r, e)
OBVIOUS

LEMMA SendSorted ==
  ASSUME NEW n \in Nat, NEW q \in Seq(1 .. n), NEW e \in 1 .. n, NEW by,
         Sorted(q, by), Below(q, by, by[e], e)
  PROVE  Sorted(Append(q, e), by)
<1>1. /\ Len(q) \in Nat /\ Len(Append(q, e)) = Len(q) + 1
      /\ Append(q, e)[Len(q) + 1] = e
      /\ \A i \in 1 .. Len(q) : Append(q, e)[i] = q[i] /\ q[i] \in 1 .. n
  BY Extended
<1> SUFFICES ASSUME NEW i \in 1 .. Len(q) + 1, NEW j \in 1 .. Len(q) + 1, i < j,
                    by[Append(q, e)[i]] = by[Append(q, e)[j]]
             PROVE  Append(q, e)[i] < Append(q, e)[j]
  BY <1>1 DEF Sorted
<1>2. i \in 1 .. Len(q) /\ Append(q, e)[i] = q[i]
  BY <1>1
<1>3. CASE j = Len(q) + 1
  BY <1>1, <1>2, <1>3 DEF Below
<1>4. CASE j # Len(q) + 1
  <2>1. j \in 1 .. Len(q)
    <3>1. Len(q) \in Nat
      BY <1>1
    <3> QED BY <1>4, <3>1
  <2>2. Append(q, e)[j] = q[j]
    BY <1>1, <2>1
  <2> QED BY <1>2, <2>1, <2>2 DEF Sorted
<1> QED BY <1>3, <1>4

LEMMA SendBelow ==
  ASSUME NEW n \in Nat, NEW q \in Seq(1 .. n), NEW e \in 1 .. n, NEW by, NEW v, NEW l,
         Below(q, by, v, l), by[e] # v
  PROVE  Below(Append(q, e), by, v, l)
<1>1. /\ Len(q) \in Nat /\ Len(Append(q, e)) = Len(q) + 1
      /\ Append(q, e)[Len(q) + 1] = e
      /\ \A i \in 1 .. Len(q) : Append(q, e)[i] = q[i]
  BY Extended
<1> SUFFICES ASSUME NEW i \in 1 .. Len(q) + 1, by[Append(q, e)[i]] = v
             PROVE  Append(q, e)[i] < l
  BY <1>1 DEF Below
<1>2. i # Len(q) + 1
  BY <1>1
<1>3. i \in 1 .. Len(q) /\ Append(q, e)[i] = q[i]
  BY <1>1, <1>2
<1> QED BY <1>3 DEF Below

(* When a line is appended, it is above all there are. *)
LEMMA AppendKeepsSorted ==
  ASSUME NEW n \in Nat, NEW q \in Seq(1 .. n), NEW by, NEW by2,
         \A l \in 1 .. n : by2[l] = by[l]
  PROVE  /\ q \in Seq(1 .. n + 1)
         /\ Sorted(q, by) => Sorted(q, by2)
         /\ \A w, e : Below(q, by, w, e) => Below(q, by2, w, e)
         /\ \A w : Below(q, by2, w, n + 1)
<1>1. Len(q) \in Nat /\ \A i \in 1 .. Len(q) : q[i] \in 1 .. n /\ by2[q[i]] = by[q[i]]
  OBVIOUS
<1>2. q \in Seq(1 .. n + 1)
  OBVIOUS
<1>3. Sorted(q, by) => Sorted(q, by2)
  BY <1>1 DEF Sorted
<1>4. \A w, e : Below(q, by, w, e) => Below(q, by2, w, e)
  BY <1>1 DEF Below
<1>5. \A w : Below(q, by2, w, n + 1)
  BY <1>1 DEF Below
<1> QED BY <1>2, <1>3, <1>4, <1>5

LEMMA OrderKept ==
  ASSUME OrderInv, TypeInv', UNCHANGED <<author, line>>,
         \A w \in Writers : pc'[w] = "send" => pc[w] = "send" /\ targets'[w] \subseteq targets[w],
         \A s \in Streams : Out(s)' = Out(s)
  PROVE  OrderInv'
<1>1. Count' = Count
  BY DEF Count
<1>2. SentBefore'
  BY <1>1 DEF OrderInv, SentBefore
<1> QED BY <1>2 DEF OrderInv

LEMMA ReceiveKeepsOut ==
  ASSUME TypeOK, NEW s \in Streams, Receive(s), NEW t \in Streams
  PROVE  Out(t)' = Out(t)
<1>1. /\ streamed' = [streamed EXCEPT ![s] = Append(@, Head(chan[s]))]
      /\ chan' = [chan EXCEPT ![s] = Tail(@)] /\ chan[s] # <<>>
  BY DEF Receive
<1>2. /\ streamed \in [Streams -> Seq(Line)] /\ chan \in [Streams -> Seq(Line)]
      /\ streamed[s] \in Seq(Line) /\ chan[s] \in Seq(Line)
  BY DEF TypeOK
<1>3. CASE t = s
  <2>1. Append(streamed[s], Head(chan[s])) \o Tail(chan[s]) = streamed[s] \o chan[s]
    BY <1>1, <1>2
  <2> QED BY <1>1, <1>2, <1>3, <2>1 DEF Out
<1>4. CASE t # s
  BY <1>1, <1>2, <1>4 DEF Out
<1> QED BY <1>3, <1>4

LEMMA AppendKeepsOrder ==
  ASSUME OrderInv, TypeInv', NEW w \in Writers, Append_(w)
  PROVE  OrderInv'
<1>0. TypeOK /\ SentBefore /\ \A s \in Streams : Sorted(Out(s), author)
  BY DEF OrderInv, TypeInv
<1>1. /\ author' = Append(author, w) /\ line' = [line EXCEPT ![w] = Count + 1]
      /\ pc' = [pc EXCEPT ![w] = "send"] /\ targets' = [targets EXCEPT ![w] = subs]
      /\ UNCHANGED <<chan, streamed>>
  BY DEF Append_, Goto
<1>2. /\ Count \in Nat /\ Count' = Count + 1
      /\ \A l \in 1 .. Count : author'[l] = author[l]
  BY <1>0, <1>1 DEF Count, TypeOK
<1>3. ASSUME NEW s \in Streams
      PROVE  /\ Out(s)' = Out(s)
             /\ Out(s) \in Seq(1 .. Count + 1)
             /\ Sorted(Out(s), author')
             /\ \A v, e : Below(Out(s), author, v, e) => Below(Out(s), author', v, e)
             /\ \A v : Below(Out(s), author', v, Count + 1)
  <2>1. Out(s)' = Out(s)
    BY <1>1 DEF Out
  <2>2. Out(s) \in Seq(1 .. Count) /\ Sorted(Out(s), author)
    BY <1>0 DEF SentBefore
  <2> QED BY <1>2, <2>1, <2>2, AppendKeepsSorted
<1>4. ASSUME NEW s \in Streams, NEW v \in Writers, pc'[v] = "send", s \in targets'[v]
      PROVE  Below(Out(s), author', v, line'[v])
  <2>1. CASE v = w
    <3>1. line'[v] = Count + 1
      BY <1>0, <1>1, <2>1 DEF TypeOK
    <3> QED BY <1>3, <3>1
  <2>2. CASE v # w
    <3>1. pc[v] = "send" /\ s \in targets[v] /\ line'[v] = line[v]
      BY <1>0, <1>1, <1>4, <2>2 DEF TypeOK
    <3>2. Below(Out(s), author, v, line[v])
      BY <1>0, <3>1 DEF SentBefore
    <3> QED BY <1>3, <3>1, <3>2
  <2> QED BY <2>1, <2>2
<1>5. SentBefore'
  BY <1>2, <1>3, <1>4 DEF SentBefore
<1> QED BY <1>3, <1>5 DEF OrderInv

LEMMA SendKeepsOrder ==
  ASSUME OrderInv, TypeInv', NEW w \in Writers, safeSend(w)
  PROVE  OrderInv'
<1>0. TypeOK /\ SendsOwn /\ SentBefore /\ \A s \in Streams : Sorted(Out(s), author)
  BY DEF OrderInv, TypeInv
<1>1. PICK s \in targets[w] :
        /\ targets' = [targets EXCEPT ![w] = @ \ {s}]
        /\ chan' = chan \/ chan' = [chan EXCEPT ![s] = Append(@, line[w])]
  BY DEF safeSend
<1>2. UNCHANGED <<author, lines, pc, line, streamed>> /\ pc[w] = "send"
  BY DEF safeSend
<1>3. /\ s \in Streams /\ s \notin targets'[w] /\ Count' = Count /\ Count \in Nat
      /\ \A v \in Writers : targets'[v] \subseteq targets[v]
      /\ line[w] \in 1 .. Count /\ line[w] \in Line /\ author[line[w]] = w
  BY <1>0, <1>1, <1>2 DEF SendsOwn, Count, TypeOK, Line
<1>4. CASE chan' = chan
  <2>1. \A t \in Streams : Out(t)' = Out(t)
    BY <1>2, <1>4 DEF Out
  <2> QED BY <1>2, <1>3, <2>1, OrderKept
<1>5. CASE chan' = [chan EXCEPT ![s] = Append(@, line[w])]
  <2>1. streamed[s] \in Seq(Line) /\ chan[s] \in Seq(Line)
    BY <1>0, <1>3 DEF TypeOK
  <2>2. streamed[s] \o Append(chan[s], line[w]) = Append(streamed[s] \o chan[s], line[w])
    BY <1>3, <2>1, ConcatAppend
  <2>10. chan'[s] = Append(chan[s], line[w]) /\ streamed'[s] = streamed[s]
    BY <1>0, <1>2, <1>3, <1>5 DEF TypeOK
  <2>3. Out(s)' = Append(Out(s), line[w])
    BY <2>2, <2>10 DEF Out
  <2>4. \A t \in Streams : t # s => Out(t)' = Out(t)
    BY <1>0, <1>2, <1>3, <1>5 DEF Out, TypeOK
  <2>5. Out(s) \in Seq(1 .. Count) /\ Below(Out(s), author, w, line[w]) /\ Sorted(Out(s), author)
    BY <1>0, <1>1, <1>2, <1>3 DEF SentBefore
  <2>6. Sorted(Append(Out(s), line[w]), author)
    BY <1>3, <2>5, SendSorted
  <2>7. Append(Out(s), line[w]) \in Seq(1 .. Count)
    BY <1>3, <2>5, Extended
  <2>8. ASSUME NEW v \in Writers, pc[v] = "send", s \in targets'[v]
        PROVE  Below(Append(Out(s), line[w]), author, v, line[v])
    <3>1. v # w /\ Below(Out(s), author, v, line[v])
      BY <1>0, <1>3, <2>8 DEF SentBefore
    <3> QED BY <1>3, <2>5, <3>1, SendBelow
  <2>9. SentBefore'
    BY <1>0, <1>2, <1>3, <2>3, <2>4, <2>7, <2>8 DEF SentBefore
  <2> QED BY <1>0, <1>2, <2>3, <2>4, <2>6, <2>9 DEF OrderInv
<1> QED BY <1>1, <1>4, <1>5

LEMMA StepOrder == OrderInv /\ [Next]_vars => OrderInv'
<1> SUFFICES ASSUME OrderInv, [Next]_vars PROVE OrderInv'
  OBVIOUS
<1>0. TypeInv /\ TypeInv' /\ TypeOK
  BY StepTypes DEF OrderInv, TypeInv
<1>1. CASE UNCHANGED vars
  <2>1. \A s \in Streams : Out(s)' = Out(s)
    BY <1>1 DEF vars, Out
  <2> QED BY <1>0, <1>1, <2>1, OrderKept DEF vars
<1>2. ASSUME NEW w \in Writers, Append_(w) PROVE OrderInv'
  BY <1>0, <1>2, AppendKeepsOrder
<1>3. ASSUME NEW w \in Writers, safeSend(w) PROVE OrderInv'
  BY <1>0, <1>3, SendKeepsOrder
<1>4. ASSUME NEW w \in Writers, AppendReturns(w) PROVE OrderInv'
  <2>1. /\ UNCHANGED <<author, line, targets, chan, streamed>>
        /\ \A v \in Writers : pc'[v] = "send" => pc[v] = "send"
    BY <1>0, <1>4 DEF AppendReturns, Goto, TypeOK
  <2>2. \A s \in Streams : Out(s)' = Out(s)
    BY <2>1 DEF Out
  <2> QED BY <1>0, <2>1, <2>2, OrderKept
<1>5. ASSUME NEW s \in Streams, Subscribe(s) \/ Snapshot(s) \/ cancel(s) PROVE OrderInv'
  <2>1. /\ UNCHANGED <<author, line, targets, chan, streamed>>
        /\ \A v \in Writers : pc'[v] = "send" => pc[v] = "send"
    BY <1>0, <1>5, ActorsAssumption DEF Subscribe, Snapshot, cancel, Goto, TypeOK
  <2>2. \A t \in Streams : Out(t)' = Out(t)
    BY <2>1 DEF Out
  <2> QED BY <1>0, <2>1, <2>2, OrderKept
<1>6. ASSUME NEW s \in Streams, Receive(s) PROVE OrderInv'
  <2>1. UNCHANGED <<author, line, targets, pc>>
    BY <1>6 DEF Receive
  <2>2. \A t \in Streams : Out(t)' = Out(t)
    BY <1>0, <1>6, ReceiveKeepsOut
  <2> QED BY <1>0, <2>1, <2>2, OrderKept
<1> QED BY <1>1, <1>2, <1>3, <1>4, <1>5, <1>6 DEF Next

-----------------------------------------------------------------------------
(* What a stream gets from its channel is later than its Subscribe, and its *)
(* snapshot is in order, so only a line appended between the two can come   *)
(* after a later one, or twice.                                             *)

LEMMA ConcatElements ==
  ASSUME NEW p \in Seq(Nat), NEW q \in Seq(Nat)
  PROVE  /\ Len(p) \in Nat /\ Len(q) \in Nat /\ DOMAIN (p \o q) = 1 .. Len(p) + Len(q)
         /\ \A k \in 1 .. Len(p) : (p \o q)[k] = p[k] /\ p[k] \in Nat
         /\ \A k \in Len(p) + 1 .. Len(p) + Len(q) : (p \o q)[k] = q[k - Len(p)]
OBVIOUS

InOrder(q) == \A i, j \in 1 .. Len(q) : i < j => q[i] < q[j]
Above(q, n) == \A i \in 1 .. Len(q) : n < q[i]

Fresh ==
  /\ \A s \in Streams :
       /\ pc[s] = "new" => s \notin subs /\ Out(s) = <<>>
       /\ since[s] <= Count
       /\ Above(Out(s), since[s])
       /\ InOrder(snapshot[s])
  /\ \A w \in Writers : \A s \in targets[w] : pc[s] # "new" /\ since[s] < line[w]

LEMMA FreshKept ==
  ASSUME TypeOK, TypeOK', Fresh, UNCHANGED <<author, line, since, snapshot>>,
         \A s \in Streams : pc'[s] = "new" => pc[s] = "new",
         subs' \subseteq subs, \A w \in Writers : targets'[w] \subseteq targets[w],
         \A s \in Streams : Out(s)' = Out(s)
  PROVE  Fresh'
<1>1. ASSUME NEW s \in Streams
      PROVE  /\ pc'[s] = "new" => s \notin subs' /\ Out(s)' = <<>>
             /\ since'[s] <= Count'
             /\ Above(Out(s)', since'[s])
             /\ InOrder(snapshot'[s])
  BY DEF Fresh, Count
<1>2. ASSUME NEW w \in Writers, NEW s \in targets'[w]
      PROVE  pc'[s] # "new" /\ since'[s] < line'[w]
  BY DEF Fresh, TypeOK
<1> QED BY <1>1, <1>2 DEF Fresh

LEMMA AppendKeepsFresh ==
  ASSUME TypeOK, Fresh, NEW w \in Writers, Append_(w)
  PROVE  Fresh'
<1>1. /\ author' = Append(author, w) /\ line' = [line EXCEPT ![w] = Count + 1]
      /\ pc' = [pc EXCEPT ![w] = "send"] /\ targets' = [targets EXCEPT ![w] = subs]
      /\ UNCHANGED <<subs, chan, since, snapshot, streamed>>
  BY DEF Append_, Goto
<1>2. /\ Count \in Nat /\ Count' = Count + 1 /\ since \in [Streams -> Nat]
      /\ \A s \in Streams : Out(s)' = Out(s) /\ pc'[s] = pc[s]
  BY <1>1, SizesAssumption, ActorsAssumption DEF Out, Count, TypeOK
<1>3. ASSUME NEW s \in Streams
      PROVE  /\ pc'[s] = "new" => s \notin subs' /\ Out(s)' = <<>>
             /\ since'[s] <= Count'
             /\ Above(Out(s)', since'[s])
             /\ InOrder(snapshot'[s])
  <2>1. since[s] <= Count /\ since[s] \in Nat
    BY <1>2 DEF Fresh
  <2> QED BY <1>1, <1>2, <2>1 DEF Fresh
<1>4. ASSUME NEW v \in Writers, NEW s \in targets'[v]
      PROVE  pc'[s] # "new" /\ since'[s] < line'[v]
  <2>1. CASE v = w
    <3>1. s \in subs /\ s \in Streams /\ line'[v] = Count + 1
      BY <1>1, <1>4, <2>1 DEF TypeOK
    <3>2. since[s] <= Count /\ since[s] \in Nat /\ pc[s] # "new"
      BY <1>2, <3>1 DEF Fresh
    <3> QED BY <1>1, <1>2, <3>1, <3>2
  <2>2. CASE v # w
    <3>1. s \in targets[v] /\ s \in Streams /\ line'[v] = line[v]
      BY <1>1, <1>4, <2>2 DEF TypeOK
    <3> QED BY <1>1, <1>2, <3>1 DEF Fresh
  <2> QED BY <2>1, <2>2
<1> QED BY <1>3, <1>4 DEF Fresh

LEMMA SendKeepsFresh ==
  ASSUME TypeInv, TypeOK', Fresh, NEW w \in Writers, safeSend(w)
  PROVE  Fresh'
<1>0. TypeOK /\ SendsOwn
  BY DEF TypeInv
<1>1. PICK s \in targets[w] :
        /\ targets' = [targets EXCEPT ![w] = @ \ {s}]
        /\ chan' = chan \/ chan' = [chan EXCEPT ![s] = Append(@, line[w])]
  BY DEF safeSend
<1>2. UNCHANGED <<author, subs, pc, line, since, snapshot, streamed>> /\ pc[w] = "send"
  BY DEF safeSend
<1>3. /\ s \in Streams /\ line[w] \in Line /\ \A v \in Writers : targets'[v] \subseteq targets[v]
      /\ pc[s] # "new" /\ since[s] < line[w]
  BY <1>0, <1>1, <1>2 DEF SendsOwn, Count, TypeOK, Line, Fresh
<1>4. CASE chan' = chan
  <2>1. \A t \in Streams : Out(t)' = Out(t)
    BY <1>2, <1>4 DEF Out
  <2> QED BY <1>0, <1>2, <1>3, <2>1, FreshKept
<1>5. CASE chan' = [chan EXCEPT ![s] = Append(@, line[w])]
  <2>1. streamed[s] \in Seq(Line) /\ chan[s] \in Seq(Line)
    BY <1>0, <1>3 DEF TypeOK
  <2>2. streamed[s] \o Append(chan[s], line[w]) = Append(streamed[s] \o chan[s], line[w])
    BY <1>3, <2>1, ConcatAppend
  <2>3. chan'[s] = Append(chan[s], line[w]) /\ streamed'[s] = streamed[s]
    BY <1>0, <1>2, <1>3, <1>5 DEF TypeOK
  <2>4. Out(s)' = Append(Out(s), line[w])
    BY <2>2, <2>3 DEF Out
  <2>5. \A t \in Streams : t # s => Out(t)' = Out(t)
    BY <1>0, <1>2, <1>3, <1>5 DEF Out, TypeOK
  <2>6. Above(Append(Out(s), line[w]), since[s])
    <3>1. Out(s) \in Seq(Line) /\ Above(Out(s), since[s])
      BY <1>3, <2>1 DEF Out, Fresh
    <3>2. /\ Len(Out(s)) \in Nat /\ Len(Append(Out(s), line[w])) = Len(Out(s)) + 1
          /\ Append(Out(s), line[w])[Len(Out(s)) + 1] = line[w]
          /\ \A i \in 1 .. Len(Out(s)) : Append(Out(s), line[w])[i] = Out(s)[i]
      BY <1>3, <3>1, Extended
    <3>3. \A i \in 1 .. Len(Out(s)) + 1 : i \in 1 .. Len(Out(s)) \/ i = Len(Out(s)) + 1
      BY <3>2
    <3> QED BY <1>3, <3>1, <3>2, <3>3 DEF Above
  <2>7. ASSUME NEW t \in Streams
        PROVE  /\ pc'[t] = "new" => t \notin subs' /\ Out(t)' = <<>>
               /\ since'[t] <= Count'
               /\ Above(Out(t)', since'[t])
               /\ InOrder(snapshot'[t])
    BY <1>2, <1>3, <2>4, <2>5, <2>6 DEF Fresh, Count
  <2>8. ASSUME NEW v \in Writers, NEW t \in targets'[v]
        PROVE  pc'[t] # "new" /\ since'[t] < line'[v]
    BY <1>2, <1>3 DEF Fresh
  <2> QED BY <2>7, <2>8 DEF Fresh
<1> QED BY <1>1, <1>4, <1>5

LEMMA SubscribeKeepsFresh ==
  ASSUME TypeOK, Fresh, NEW s \in Streams, Subscribe(s)
  PROVE  Fresh'
<1>1. /\ pc[s] = "new" /\ pc' = [pc EXCEPT ![s] = "subscribed"] /\ subs' = subs \cup {s}
      /\ since' = [since EXCEPT ![s] = Count]
      /\ UNCHANGED <<author, line, targets, chan, snapshot, streamed>>
  BY DEF Subscribe, Goto
<1>2. /\ Count' = Count /\ Count \in Nat /\ \A t \in Streams : Out(t)' = Out(t)
      /\ pc'[s] = "subscribed" /\ since'[s] = Count
      /\ \A t \in Streams \ {s} : pc'[t] = pc[t] /\ since'[t] = since[t]
  BY <1>1 DEF Out, Count, TypeOK
<1>3. ASSUME NEW t \in Streams
      PROVE  /\ pc'[t] = "new" => t \notin subs' /\ Out(t)' = <<>>
             /\ since'[t] <= Count'
             /\ Above(Out(t)', since'[t])
             /\ InOrder(snapshot'[t])
  <2>1. CASE t = s
    <3>1. Out(t)' = <<>>
      BY <1>1, <1>2, <2>1 DEF Fresh
    <3>2. Above(<<>>, since'[t])
      BY DEF Above
    <3> QED BY <1>1, <1>2, <2>1, <3>1, <3>2 DEF Fresh
  <2>2. CASE t # s
    BY <1>1, <1>2, <2>2 DEF Fresh
  <2> QED BY <2>1, <2>2
<1>4. ASSUME NEW v \in Writers, NEW t \in targets'[v]
      PROVE  pc'[t] # "new" /\ since'[t] < line'[v]
  <2>1. t \in targets[v] /\ t \in Streams /\ pc[t] # "new"
    BY <1>1 DEF Fresh, TypeOK
  <2> QED BY <1>1, <1>2, <2>1 DEF Fresh
<1> QED BY <1>3, <1>4 DEF Fresh

LEMMA SnapshotKeepsFresh ==
  ASSUME TypeOK, LogInv, Fresh, NEW s \in Streams, Snapshot(s)
  PROVE  Fresh'
<1>1. /\ pc[s] = "subscribed" /\ pc' = [pc EXCEPT ![s] = "streaming"]
      /\ snapshot' = [snapshot EXCEPT ![s] = lines]
      /\ UNCHANGED <<author, subs, line, targets, chan, since, streamed>>
  BY DEF Snapshot, Goto
<1>2. InOrder(lines)
  <2>1. Len(lines) \in Nat /\ Count \in Nat /\ \A i \in 1 .. Len(lines) : lines[i] = Count - Len(lines) + i
    BY DEF LogInv, KeepsLatest, Count
  <2> QED BY <2>1 DEF InOrder
<1>3. \A t \in Streams : /\ pc'[t] = "new" => pc[t] = "new"
                         /\ Out(t)' = Out(t)
                         /\ snapshot'[t] = lines \/ snapshot'[t] = snapshot[t]
  BY <1>1 DEF Out, TypeOK
<1>4. ASSUME NEW t \in Streams
      PROVE  /\ pc'[t] = "new" => t \notin subs' /\ Out(t)' = <<>>
             /\ since'[t] <= Count'
             /\ Above(Out(t)', since'[t])
             /\ InOrder(snapshot'[t])
  BY <1>1, <1>2, <1>3 DEF Fresh, Count
<1>5. ASSUME NEW v \in Writers, NEW t \in targets'[v]
      PROVE  pc'[t] # "new" /\ since'[t] < line'[v]
  BY <1>1, <1>3 DEF Fresh, TypeOK
<1> QED BY <1>4, <1>5 DEF Fresh

LEMMA StepFresh == TypeInv /\ LogInv /\ Fresh /\ [Next]_vars => Fresh'
<1> SUFFICES ASSUME TypeInv, LogInv, Fresh, [Next]_vars PROVE Fresh'
  OBVIOUS
<1>0. TypeOK /\ TypeOK'
  BY StepTypes DEF TypeInv
<1>1. CASE UNCHANGED vars
  <2>1. \A s \in Streams : Out(s)' = Out(s)
    BY <1>1 DEF vars, Out
  <2> QED BY <1>0, <1>1, <2>1, FreshKept DEF vars
<1>2. ASSUME NEW w \in Writers, Append_(w) PROVE Fresh'
  BY <1>0, <1>2, AppendKeepsFresh
<1>3. ASSUME NEW w \in Writers, safeSend(w) PROVE Fresh'
  BY <1>0, <1>3, SendKeepsFresh
<1>4. ASSUME NEW w \in Writers, AppendReturns(w) PROVE Fresh'
  <2>1. /\ UNCHANGED <<author, line, since, snapshot, subs, targets, chan, streamed>>
        /\ \A s \in Streams : pc'[s] = "new" => pc[s] = "new"
    BY <1>0, <1>4 DEF AppendReturns, Goto, TypeOK
  <2>2. \A s \in Streams : Out(s)' = Out(s)
    BY <2>1 DEF Out
  <2> QED BY <1>0, <2>1, <2>2, FreshKept
<1>5. ASSUME NEW s \in Streams, Subscribe(s) PROVE Fresh'
  BY <1>0, <1>5, SubscribeKeepsFresh
<1>6. ASSUME NEW s \in Streams, Snapshot(s) PROVE Fresh'
  BY <1>0, <1>6, SnapshotKeepsFresh
<1>7. ASSUME NEW s \in Streams, Receive(s) PROVE Fresh'
  <2>1. UNCHANGED <<author, line, since, snapshot, subs, targets, pc>>
    BY <1>7 DEF Receive
  <2>2. \A t \in Streams : Out(t)' = Out(t)
    BY <1>0, <1>7, ReceiveKeepsOut
  <2> QED BY <1>0, <2>1, <2>2, FreshKept
<1>8. ASSUME NEW s \in Streams, cancel(s) PROVE Fresh'
  <2>1. /\ UNCHANGED <<author, line, since, snapshot, targets, chan, streamed>>
        /\ subs' \subseteq subs
        /\ \A t \in Streams : pc'[t] = "new" => pc[t] = "new"
    BY <1>0, <1>8 DEF cancel, Goto, TypeOK
  <2>2. \A t \in Streams : Out(t)' = Out(t)
    BY <2>1 DEF Out
  <2> QED BY <1>0, <2>1, <2>2, FreshKept
<1> QED BY <1>1, <1>2, <1>3, <1>4, <1>5, <1>6, <1>7, <1>8 DEF Next

(* However the sends of the writers interleave outside the lock, a stream   *)
(* sends the lines of each of them in order, and none twice, but for those  *)
(* appended between its Subscribe and its Snapshot, which it may send twice *)
(* or late; for any number of writers, streams and lines, any capacity and  *)
(* any size of the channels.                                                *)
THEOREM OrderOfEachWriter == Spec => []WriterOrder
<1>1. Init => OrderInv /\ Fresh
  <2> SUFFICES ASSUME Init PROVE OrderInv /\ Fresh
    OBVIOUS
  <2>1. TypeInv
    BY SizesAssumption, ActorsAssumption DEF Init, TypeInv, TypeOK, SendsOwn, Count, Line
  <2>2. \A s \in Streams : Out(s) = <<>> /\ snapshot[s] = <<>> /\ since[s] = 0
    BY DEF Init, Out
  <2>3. subs = {} /\ Count = 0 /\ \A w \in Writers : targets[w] = {}
    BY DEF Init, Count
  <2>4. /\ Sorted(<<>>, author) /\ <<>> \in Seq(1 .. Count)
        /\ Above(<<>>, 0) /\ InOrder(<<>>)
    BY DEF Sorted, Above, InOrder
  <2>5. OrderInv
    BY <2>1, <2>2, <2>3, <2>4 DEF OrderInv, SentBefore
  <2>6. Fresh
    BY <2>2, <2>3, <2>4 DEF Fresh
  <2> QED BY <2>5, <2>6
<1>2. OrderInv /\ Fresh => WriterOrder
  <2> SUFFICES ASSUME OrderInv, Fresh, NEW s \in Streams,
                      NEW i \in DOMAIN (snapshot[s] \o Out(s)), NEW j \in DOMAIN (snapshot[s] \o Out(s)),
                      i < j,
                      author[(snapshot[s] \o Out(s))[i]] = author[(snapshot[s] \o Out(s))[j]]
               PROVE  LET sent == snapshot[s] \o Out(s) IN
                      \/ sent[i] < sent[j]
                      \/ i <= Len(snapshot[s]) /\ j > Len(snapshot[s]) /\ sent[j] \in Overlap(s)
    BY DEF WriterOrder, Out
  <2> DEFINE n    == Len(snapshot[s])
             out  == Out(s)
             sent == snapshot[s] \o out
  <2>0. snapshot[s] \in Seq(1 .. MaxLines) /\ since[s] \in Nat /\ Count \in Nat
    <3>1. TypeOK
      BY DEF OrderInv, TypeInv
    <3>2. since[s] \in 0 .. MaxLines /\ snapshot[s] \in Seq(1 .. MaxLines) /\ author \in Seq(Writers)
      BY <3>1 DEF TypeOK, Line
    <3> QED BY <3>2, SizesAssumption DEF Count
  <2>1. /\ snapshot[s] \in Seq(Nat) /\ out \in Seq(Nat) /\ since[s] \in Nat
        /\ Sorted(out, author) /\ Above(out, since[s]) /\ InOrder(snapshot[s])
    <3>1. snapshot[s] \in Seq(Nat)
      BY <2>0, SizesAssumption
    <3>2. out \in Seq(1 .. Count)
      BY DEF OrderInv, SentBefore
    <3>3. out \in Seq(Nat)
      BY <2>0, <3>2
    <3>4. Sorted(out, author)
      BY DEF OrderInv
    <3>5. Above(out, since[s]) /\ InOrder(snapshot[s])
      BY DEF Fresh
    <3> QED BY <2>0, <3>1, <3>3, <3>4, <3>5
  <2>2. /\ n \in Nat /\ Len(out) \in Nat /\ i \in 1 .. n + Len(out) /\ j \in 1 .. n + Len(out)
        /\ \A k \in 1 .. n : sent[k] = snapshot[s][k] /\ snapshot[s][k] \in Nat
        /\ \A k \in n + 1 .. n + Len(out) : sent[k] = out[k - n]
    <3> HIDE DEF out
    <3> QED BY <2>1, ConcatElements DEF out
  <2>3. \A k \in 1 .. Len(out) : out[k] \in Nat
    BY <2>1
  <2> HIDE DEF n, out, sent
  <2>4. CASE j <= n
    BY <2>1, <2>2, <2>4 DEF InOrder, n, sent
  <2>5. CASE i > n
    <3>1. /\ i - n \in 1 .. Len(out) /\ j - n \in 1 .. Len(out) /\ i - n < j - n
          /\ sent[i] = out[i - n] /\ sent[j] = out[j - n]
      BY <2>2, <2>5
    <3>2. author[out[i - n]] = author[out[j - n]]
      BY <3>1 DEF sent, out
    <3>3. sent[i] < sent[j]
      BY <2>1, <3>1, <3>2 DEF Sorted
    <3> QED BY <3>3 DEF sent, out
  <2>6. CASE i <= n /\ j > n
    <3>1. j - n \in 1 .. Len(out) /\ sent[j] = out[j - n] /\ sent[j] \in Nat /\ since[s] < sent[j]
      <4>1. j - n \in 1 .. Len(out) /\ j \in n + 1 .. n + Len(out)
        BY <2>2, <2>6
      <4>2. sent[j] = out[j - n] /\ out[j - n] \in Nat
        BY <2>2, <2>3, <4>1
      <4>3. since[s] < out[j - n]
        BY <2>1, <4>1 DEF Above
      <4> QED BY <4>1, <4>2, <4>3
    <3>2. i \in 1 .. n /\ n \in 1 .. n /\ snapshot[s] # <<>> /\ Newest(s) = snapshot[s][n]
      BY <2>1, <2>2, <2>6 DEF Newest, Last, n
    <3>3. sent[i] = snapshot[s][i] /\ sent[i] \in Nat /\ Newest(s) \in Nat
      BY <2>2, <3>2
    <3>4. sent[i] <= Newest(s)
      <4>1. i < n => snapshot[s][i] < snapshot[s][n]
        BY <2>1, <3>2 DEF InOrder, n
      <4>2. i = n \/ i < n
        BY <2>6, <3>2
      <4> QED BY <3>2, <3>3, <4>1, <4>2
    <3>5. CASE sent[j] <= Newest(s)
      <4>1. sent[j] \in Overlap(s)
        BY <2>1, <3>1, <3>3, <3>5 DEF Overlap
      <4> QED BY <2>6, <4>1 DEF sent, out, n
    <3>6. CASE sent[j] > Newest(s)
      <4>1. sent[i] < sent[j]
        BY <3>1, <3>3, <3>4, <3>6
      <4> QED BY <4>1 DEF sent, out
    <3> QED BY <3>1, <3>3, <3>5, <3>6
  <2> QED BY <2>2, <2>4, <2>5, <2>6
<1>3. OrderInv /\ LogInv /\ Fresh /\ [Next]_vars => OrderInv' /\ Fresh'
  BY StepOrder, StepFresh DEF OrderInv
<1>4. QED
  BY <1>1, <1>2, <1>3, LogInvariance, PTL DEF Spec

-----------------------------------------------------------------------------
(* What a stream has seen.  A stream is in subs from before its snapshot    *)
(* until its cancel, so every later Append finds it there, and its channel  *)
(* is closed by nobody else.                                                *)

Subscribed ==
  /\ \A s \in Streams :
       /\ pc[s] \in {"subscribed", "streaming"} => s \in subs
       /\ s \in closed => pc[s] = "gone"
  /\ \A w \in Writers : pc[w] = "idle" => targets[w] = {}

Got(s)        == ToSet(snapshot[s]) \cup ToSet(streamed[s]) \cup ToSet(chan[s]) \cup dropped[s]
Pending(s, l) == \E w \in Writers : line[w] = l /\ s \in targets[w]

LEMMA SetOfSeq ==
  ASSUME NEW q \in Seq(Line)
  PROVE  /\ \A e \in Line : ToSet(Append(q, e)) = ToSet(q) \cup {e}
         /\ q # <<>> => ToSet(q) = {Head(q)} \cup ToSet(Tail(q))
<1>1. ASSUME NEW e \in Line PROVE ToSet(Append(q, e)) = ToSet(q) \cup {e}
  <2>1. /\ DOMAIN Append(q, e) = 1 .. Len(q) + 1 /\ DOMAIN q = 1 .. Len(q) /\ Len(q) \in Nat
        /\ Append(q, e)[Len(q) + 1] = e
        /\ \A i \in 1 .. Len(q) : Append(q, e)[i] = q[i]
    OBVIOUS
  <2>2. \A i \in 1 .. Len(q) + 1 : i \in 1 .. Len(q) \/ i = Len(q) + 1
    BY <2>1
  <2>3. QED
    BY <2>1, <2>2 DEF ToSet
<1>2. ASSUME q # <<>> PROVE ToSet(q) = {Head(q)} \cup ToSet(Tail(q))
  <2>1. /\ Tail(q) \in Seq(Line) /\ Len(Tail(q)) = Len(q) - 1 /\ Len(q) \in Nat /\ Len(q) >= 1
        /\ Head(q) = q[1] /\ \A i \in 1 .. Len(q) - 1 : Tail(q)[i] = q[i + 1]
    BY <1>2
  <2>2. DOMAIN q = 1 .. Len(q) /\ DOMAIN Tail(q) = 1 .. Len(q) - 1
    BY <2>1
  <2>3. \A i \in 1 .. Len(q) : i = 1 \/ (i - 1 \in 1 .. Len(q) - 1 /\ Tail(q)[i - 1] = q[i])
    BY <2>1
  <2>4. \A i \in 1 .. Len(q) - 1 : i + 1 \in 1 .. Len(q) /\ Tail(q)[i] = q[i + 1]
    BY <2>1
  <2>5. ASSUME NEW x \in ToSet(q) PROVE x \in {Head(q)} \cup ToSet(Tail(q))
    <3>1. PICK i \in 1 .. Len(q) : x = q[i]
      BY <2>2, <2>5 DEF ToSet
    <3>2. i = 1 => x = Head(q)
      BY <2>1, <3>1
    <3>3. i # 1 => x \in ToSet(Tail(q))
      BY <2>2, <2>3, <3>1 DEF ToSet
    <3>4. QED
      BY <3>2, <3>3
  <2>6. ASSUME NEW x \in {Head(q)} \cup ToSet(Tail(q)) PROVE x \in ToSet(q)
    BY <2>1, <2>2, <2>4 DEF ToSet
  <2>7. QED
    BY <2>5, <2>6
<1>3. QED
  BY <1>1, <1>2

LEMMA StepSubscribed == TypeInv /\ Subscribed /\ [Next]_vars => Subscribed'
<1> SUFFICES ASSUME TypeInv, Subscribed, [Next]_vars PROVE Subscribed'
  OBVIOUS
<1> USE ActorsAssumption DEF TypeInv, TypeOK, Subscribed, Goto
<1>1. CASE UNCHANGED vars
  BY <1>1 DEF vars
<1>2. ASSUME NEW w \in Writers, Append_(w) PROVE Subscribed'
  BY <1>2 DEF Append_
<1>3. ASSUME NEW w \in Writers, safeSend(w) PROVE Subscribed'
  BY <1>3 DEF safeSend
<1>4. ASSUME NEW w \in Writers, AppendReturns(w) PROVE Subscribed'
  BY <1>4 DEF AppendReturns
<1>5. ASSUME NEW s \in Streams, Subscribe(s) \/ Snapshot(s) PROVE Subscribed'
  <2>1. CASE Subscribe(s)
    <3>1. s \notin closed
      BY <2>1 DEF Subscribe
    <3>2. QED
      BY <2>1, <3>1 DEF Subscribe
  <2>2. CASE Snapshot(s)
    BY <2>2 DEF Snapshot
  <2>3. QED
    BY <1>5, <2>1, <2>2
<1>6. ASSUME NEW s \in Streams, Receive(s) \/ cancel(s) PROVE Subscribed'
  BY <1>6 DEF Receive, cancel
<1>7. QED
  BY <1>1, <1>2, <1>3, <1>4, <1>5, <1>6 DEF Next

Covered(s, l) == l \in Got(s) \/ Pending(s, l)

LEMMA OldestIsLine == TypeOK => \A s \in Streams : Oldest(s) \in Nat \ {0}
BY SizesAssumption DEF TypeOK, Oldest, Line

(* A step that takes nothing from a stream keeps what it has covered.       *)
LEMMA GapKept ==
  ASSUME TypeOK, NoGap, NEW s \in Streams, pc[s] = "streaming", snapshot'[s] = snapshot[s],
         \A l \in 1 .. Count : Covered(s, l) => Covered(s, l)',
         NEW l \in Oldest(s)' .. Count', l \in 1 .. Count \/ Covered(s, l)'
  PROVE  Covered(s, l)'
<1>1. Oldest(s)' = Oldest(s)
  BY DEF Oldest
<1>2. l \in 1 .. Count => l \in Oldest(s) .. Count
  BY <1>1, OldestIsLine DEF TypeOK, Count
<1>3. l \in 1 .. Count => Covered(s, l)
  BY <1>2 DEF NoGap, Covered, Got, Pending
<1>4. QED
  BY <1>3

(* A snapshot covers every line from its first to the newest.               *)
LEMMA SnapshotCovers ==
  ASSUME TypeOK, LogInv, NEW s \in Streams, Snapshot(s), NEW l \in Oldest(s)' .. Count'
  PROVE  Covered(s, l)'
<1>1. snapshot'[s] = lines /\ Count' = Count
  BY DEF Snapshot, TypeOK, Count
<1>2. /\ lines \in Seq(Nat) /\ Len(lines) \in Nat /\ Count \in Nat
      /\ Len(lines) = IF Count < Capacity THEN Count ELSE Capacity
      /\ \A i \in 1 .. Len(lines) : lines[i] = Count - Len(lines) + i
  BY DEF LogInv, KeepsLatest, TypeOK, Count
<1>3. CASE lines = <<>>
  <2>1. Len(lines) = 0
    BY <1>3
  <2>2. Count = 0
    BY <1>2, <2>1, SizesAssumption
  <2>3. QED
    BY <1>1, <1>3, <2>2 DEF Oldest
<1>4. CASE lines # <<>>
  <2>1. Len(lines) >= 1 /\ Head(lines) = lines[1]
    BY <1>2, <1>4
  <2>2. Oldest(s)' = Count - Len(lines) + 1
    BY <1>1, <1>2, <1>4, <2>1 DEF Oldest
  <2>3. l - (Count - Len(lines)) \in 1 .. Len(lines) /\ l \in Int
    BY <1>1, <1>2, <2>2
  <2>4. lines[l - (Count - Len(lines))] = l
    BY <1>2, <2>3
  <2>5. l \in ToSet(lines)
    BY <1>2, <2>3, <2>4 DEF ToSet
  <2>6. QED
    BY <1>1, <2>5 DEF Covered, Got
<1>5. QED
  BY <1>3, <1>4

(* A send moves the line from the sender's targets into the channel, or     *)
(* notes that a full channel lost it; the channel of a reader is not closed. *)
LEMMA SendCovers ==
  ASSUME TypeInv, Subscribed, NEW w \in Writers, safeSend(w),
         NEW s \in Streams, pc[s] = "streaming", NEW l, Covered(s, l)
  PROVE  Covered(s, l)'
<1>1. PICK t \in targets[w] :
        /\ targets' = [targets EXCEPT ![w] = @ \ {t}]
        /\ \/ t \in closed /\ UNCHANGED <<chan, dropped>>
           \/ chan' = [chan EXCEPT ![t] = Append(@, line[w])] /\ dropped' = dropped
           \/ dropped' = [dropped EXCEPT ![t] = @ \cup {line[w]}] /\ chan' = chan
  BY DEF safeSend
<1>2. /\ UNCHANGED <<line, snapshot, streamed>> /\ s \notin closed
      /\ chan \in [Streams -> Seq(Line)] /\ dropped \in [Streams -> SUBSET Line]
      /\ targets \in [Writers -> SUBSET Streams] /\ line[w] \in Line
  <2>1. pc[w] = "send" /\ UNCHANGED <<line, snapshot, streamed>>
    BY DEF safeSend
  <2>2. s \notin closed
    BY DEF Subscribed
  <2>3. line[w] \in Line
    BY <2>1 DEF TypeInv, TypeOK, SendsOwn, Line, Count
  <2> QED BY <2>1, <2>2, <2>3 DEF TypeInv, TypeOK
<1>3. l \in Got(s) => l \in Got(s)'
  <2>1. ToSet(chan[s]) \subseteq ToSet(chan'[s])
    <3>1. chan'[s] = chan[s] \/ chan'[s] = Append(chan[s], line[w])
      BY <1>1, <1>2
    <3>2. ToSet(Append(chan[s], line[w])) = ToSet(chan[s]) \cup {line[w]}
      BY <1>2, SetOfSeq
    <3>3. QED
      BY <3>1, <3>2
  <2>2. dropped[s] \subseteq dropped'[s]
    BY <1>1, <1>2
  <2>3. QED
    BY <1>2, <2>1, <2>2 DEF Got
<1>4. ASSUME NEW v \in Writers, line[v] = l, s \in targets[v] PROVE Covered(s, l)'
  <2>1. CASE v = w /\ t = s
    <3>1. chan'[s] = Append(chan[s], line[w]) \/ dropped'[s] = dropped[s] \cup {line[w]}
      BY <1>1, <1>2, <2>1
    <3>2. ToSet(Append(chan[s], line[w])) = ToSet(chan[s]) \cup {line[w]}
      BY <1>2, SetOfSeq
    <3>3. l \in ToSet(chan'[s]) \/ l \in dropped'[s]
      BY <1>4, <2>1, <3>1, <3>2
    <3>4. QED
      BY <3>3 DEF Covered, Got
  <2>2. CASE ~(v = w /\ t = s)
    BY <1>1, <1>2, <1>4, <2>2 DEF Covered, Pending
  <2>3. QED
    BY <2>1, <2>2
<1>5. QED
  BY <1>3, <1>4 DEF Covered, Pending

LEMMA StepNoGap == TypeInv /\ LogInv /\ Subscribed /\ NoGap /\ [Next]_vars => NoGap'
<1> SUFFICES ASSUME TypeInv, LogInv, Subscribed, NoGap, [Next]_vars,
                    NEW s \in Streams, pc'[s] = "streaming", NEW l \in Oldest(s)' .. Count'
             PROVE  Covered(s, l)'
  BY DEF NoGap, Covered, Got, Pending
<1>0. TypeOK /\ TypeOK' /\ l \in 1 .. Count'
  <2>1. TypeOK /\ TypeOK'
    BY StepTypes DEF TypeInv
  <2>2. Oldest(s)' \in Nat \ {0} /\ Count' \in Nat
    <3>1. snapshot'[s] \in Seq(Line) /\ Count' \in Nat
      BY <2>1 DEF TypeOK, Count
    <3>2. snapshot'[s] # <<>> => Head(snapshot'[s]) \in Line
      BY <3>1
    <3>3. QED
      BY <3>1, <3>2, SizesAssumption DEF Oldest, Line
  <2>3. QED
    BY <2>1, <2>2
<1> USE DEF Goto
<1>1. ASSUME pc[s] = "streaming", UNCHANGED <<author, snapshot, line, targets>>, Got(s)' = Got(s)
      PROVE  Covered(s, l)'
  BY <1>0, <1>1, GapKept DEF Covered, Pending, Count
<1>2. CASE UNCHANGED vars
  BY <1>1, <1>2 DEF vars, Got
<1>3. ASSUME NEW w \in Writers, Append_(w) PROVE Covered(s, l)'
  <2>1. /\ pc[w] = "idle" /\ author' = Append(author, w)
        /\ line' = [line EXCEPT ![w] = Count + 1] /\ targets' = [targets EXCEPT ![w] = subs]
        /\ UNCHANGED <<chan, dropped, snapshot, streamed>>
    BY <1>3 DEF Append_
  <2>2. pc[s] = "streaming" /\ s \in subs /\ targets[w] = {}
    BY <1>0, <1>3, <2>1, ActorsAssumption DEF Append_, Subscribed, TypeOK
  <2>3. Count' = Count + 1 /\ Count \in Nat
    BY <1>0, <2>1 DEF TypeOK, Count
  <2>4. Got(s)' = Got(s)
    BY <2>1 DEF Got
  <2>5. \A k \in 1 .. Count : Covered(s, k) => Covered(s, k)'
    BY <1>0, <2>1, <2>2, <2>4 DEF Covered, Pending, TypeOK
  <2>6. l = Count + 1 => Covered(s, l)'
    BY <1>0, <2>1, <2>2 DEF Covered, Pending, TypeOK
  <2>7. l \in 1 .. Count \/ l = Count + 1
    BY <1>0, <2>3
  <2>8. QED
    BY <1>0, <2>1, <2>2, <2>5, <2>6, <2>7, GapKept
<1>4. ASSUME NEW w \in Writers, safeSend(w) PROVE Covered(s, l)'
  <2>1. pc[s] = "streaming" /\ snapshot' = snapshot /\ Count' = Count
    BY <1>4 DEF safeSend, Count
  <2>2. \A k \in 1 .. Count : Covered(s, k) => Covered(s, k)'
    BY <1>4, <2>1, SendCovers
  <2>3. QED
    BY <1>0, <2>1, <2>2, GapKept
<1>5. ASSUME NEW w \in Writers, AppendReturns(w) PROVE Covered(s, l)'
  <2>1. pc[s] = "streaming"
    BY <1>0, <1>5, ActorsAssumption DEF AppendReturns, TypeOK
  <2>2. QED
    BY <1>1, <1>5, <2>1 DEF AppendReturns, Got
<1>6. ASSUME NEW t \in Streams, Subscribe(t) \/ cancel(t) PROVE Covered(s, l)'
  <2>1. pc[s] = "streaming"
    BY <1>0, <1>6 DEF Subscribe, cancel, TypeOK
  <2>2. QED
    BY <1>1, <1>6, <2>1 DEF Subscribe, cancel, Got
<1>7. ASSUME NEW t \in Streams, Snapshot(t) PROVE Covered(s, l)'
  <2>1. CASE t = s
    BY <1>0, <1>7, <2>1, SnapshotCovers
  <2>2. CASE t # s
    <3>1. /\ pc[s] = "streaming" /\ snapshot'[s] = snapshot[s]
          /\ UNCHANGED <<author, line, targets, chan, dropped, streamed>>
      BY <1>0, <1>7, <2>2 DEF Snapshot, TypeOK
    <3>2. \A k \in 1 .. Count : Covered(s, k) => Covered(s, k)'
      BY <3>1 DEF Covered, Got, Pending
    <3>3. QED
      BY <1>0, <3>1, <3>2, GapKept DEF Count
  <2>3. QED
    BY <2>1, <2>2
<1>8. ASSUME NEW t \in Streams, Receive(t) PROVE Covered(s, l)'
  <2>1. /\ pc' = pc /\ chan[t] # <<>> /\ chan' = [chan EXCEPT ![t] = Tail(@)]
        /\ streamed' = [streamed EXCEPT ![t] = Append(@, Head(chan[t]))]
        /\ UNCHANGED <<author, line, targets, dropped, snapshot>>
    BY <1>8 DEF Receive
  <2>2. chan[t] \in Seq(Line) /\ streamed[t] \in Seq(Line) /\ Head(chan[t]) \in Line
    BY <1>0, <2>1 DEF TypeOK
  <2>3. ToSet(streamed'[t]) \cup ToSet(chan'[t]) = ToSet(streamed[t]) \cup ToSet(chan[t])
    <3>1. ToSet(streamed'[t]) = ToSet(streamed[t]) \cup {Head(chan[t])}
      BY <1>0, <2>1, <2>2, SetOfSeq DEF TypeOK
    <3>2. ToSet(chan[t]) = {Head(chan[t])} \cup ToSet(chan'[t])
      BY <1>0, <2>1, <2>2, SetOfSeq DEF TypeOK
    <3>3. QED
      BY <3>1, <3>2
  <2>4. t # s => streamed'[s] = streamed[s] /\ chan'[s] = chan[s]
    BY <1>0, <2>1 DEF TypeOK
  <2>5. Got(s)' = Got(s)
    BY <2>1, <2>3, <2>4 DEF Got
  <2>6. QED
    BY <1>1, <2>1, <2>5
<1>9. QED
  BY <1>2, <1>3, <1>4, <1>5, <1>6, <1>7, <1>8 DEF Next

(* Subscribing before the snapshot closes the gap between the two: a stream *)
(* misses no line from the first of its snapshot on, save those that its    *)
(* full channel lost, whatever the writers and the other streams do.        *)
THEOREM NothingMissed == Spec => []NoGap
<1>1. Init => Subscribed /\ NoGap
  BY ActorsAssumption DEF Init, Subscribed, NoGap
<1>2. TypeInv /\ LogInv /\ Subscribed /\ NoGap /\ [Next]_vars => Subscribed' /\ NoGap'
  BY StepSubscribed, StepNoGap
<1>3. QED
  BY <1>1, <1>2, TypesHold, LogInvariance, PTL DEF Spec
=============================================================================
