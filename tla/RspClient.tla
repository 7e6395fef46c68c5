------------------------------ MODULE RspClient ------------------------------
(***************************************************************************)
(* The JSON-RPC client of the launcher (rsp_client.go) against the RSP     *)
(* backend of VS Code: rspDeployAndStart, rspPublish and rspStopServer,    *)
(* each on a connection of its own, any number of times.                   *)
(*                                                                         *)
(* RSP sends two things on a connection, in one stream: replies, and       *)
(* notifications of the states of servers, which every connection gets.    *)
(* What the client skips whatever it waits for (states of other servers,   *)
(* "starting", "stopping", and RSP's own requests, which readMsg answers   *)
(* with null) is a message of kind "noise".                                *)
(*                                                                         *)
(* RCInit, RCNext, RCTypeOK and RCSpec have a prefix since RspProofs       *)
(* extends this module together with RspJobs.                              *)
(***************************************************************************)
EXTENDS Integers, Sequences, FiniteSets

CONSTANTS
  Clients,    \* goroutines that use one connection after the other
  InboxSize   \* bound: messages RSP is ahead of a client

ASSUME InboxAssumption == InboxSize \in Nat \ {0}

STARTED == 2
STOPPED == 4

VARIABLES
  up,       \* RSP runs
  server,   \* the state of the shared server, as RSP sees it
  orphans,  \* RSP: the starts and stops not handled when their connection was closed
  pending,  \* RSP: the requests of each connection that it has not handled
  replying, \* RSP: the requests it has handled and not answered
  handled,  \* RSP: the last request it handled on each connection
  inbox,    \* what RSP has sent on each connection and the client has not read
  stage,    \* dialed or not, sending a request, reading
  running,  \* the function the client is in
  step,     \* the line of the function's script
  nextID,   \* c.nextID
  late,     \* the deadline of the current call has passed
  broken,   \* a read timed out inside a message: the stream is out of step
  taken,    \* history: the requests each accepted reply was awaited for and answered
  stale     \* history: the state that ended waitState came before the request was handled

conn == <<stage, running, step, nextID, late, broken, taken, stale>>
rsp  == <<up, server, orphans, pending, replying, handled>>
RCvars == <<up, server, orphans, pending, replying, handled, inbox, stage, running, step,
            nextID, late, broken, taken, stale>>

Call(op, fatal)    == [op |-> op, want |-> 0, fatal |-> fatal]
Wait(state, fatal) == [op |-> "waitState", want |-> state, fatal |-> fatal]

(* The sequence each function goes through, and the errors it returns.      *)
Script ==
  [ rspDeployAndStart |->
      << Call("createServer", FALSE), Call("getServerHandles", TRUE), Call("addDeployable", FALSE),
         Call("startServerAsync", FALSE), Wait(STARTED, FALSE), Call("publish", TRUE) >>,
    rspPublish    |-> << Call("getServerHandles", FALSE), Call("publish", TRUE) >>,
    rspStopServer |-> << Call("stopServerAsync", FALSE), Wait(STOPPED, TRUE) >> ]

Length(c) == Len(Script[running[c]])
Now(c)    == Script[running[c]][step[c]]

Ops == {"createServer", "getServerHandles", "addDeployable", "startServerAsync", "publish", "stopServerAsync"}
StateOps == {"startServerAsync", "stopServerAsync"}
ID  == 1 .. 6
Request == [id : ID, op : Ops]
Message == [kind : {"reply"}, id : ID, op : Ops, ok : BOOLEAN]
           \cup [kind : {"state"}, state : {STARTED, STOPPED}, after : ID \cup {0}]
           \cup [kind : {"noise"}]

RCTypeOK ==
  /\ up \in BOOLEAN
  /\ server \in {"stopped", "starting", "started", "stopping"}
  /\ orphans \subseteq StateOps
  /\ pending \in [Clients -> SUBSET Request] /\ replying \in [Clients -> SUBSET Request]
  /\ handled \in [Clients -> ID \cup {0}]
  /\ inbox \in [Clients -> Seq(Message)]
  /\ stage \in [Clients -> {"idle", "send", "read", "ok", "failed"}]
  /\ running \in [Clients -> DOMAIN Script]
  /\ \A c \in Clients : step[c] \in 1 .. Length(c)
  /\ nextID \in [Clients -> ID \cup {0}]
  /\ late \in [Clients -> BOOLEAN] /\ broken \in [Clients -> BOOLEAN]
  /\ taken \in [Clients -> SUBSET (Ops \X Ops)]
  /\ stale \in [Clients -> BOOLEAN]

RCInit ==
  /\ up = TRUE /\ server \in {"stopped", "started"}
  /\ orphans = {}
  /\ pending = [c \in Clients |-> {}] /\ replying = [c \in Clients |-> {}]
  /\ handled = [c \in Clients |-> 0]
  /\ inbox = [c \in Clients |-> <<>>]
  /\ stage = [c \in Clients |-> "idle"]
  /\ running = [c \in Clients |-> "rspPublish"]
  /\ step = [c \in Clients |-> 1]
  /\ nextID = [c \in Clients |-> 0]
  /\ late = [c \in Clients |-> FALSE] /\ broken = [c \in Clients |-> FALSE]
  /\ taken = [c \in Clients |-> {}]
  /\ stale = [c \in Clients |-> FALSE]

-----------------------------------------------------------------------------
(* RSP.                                                                     *)

Open == {c \in Clients : stage[c] \in {"send", "read"} /\ ~broken[c]}
Room == \A c \in Open : Len(inbox[c]) < InboxSize

Broadcast(state) ==
  inbox' = [c \in Clients |->
    IF c \in Open THEN Append(inbox[c], [kind |-> "state", state |-> state, after |-> handled[c]])
    ELSE inbox[c]]

(* A start of a server that runs, or a stop of one that does not, does      *)
(* nothing and is answered with an error or a status.                       *)
Effect(op) ==
  \/ op = "startServerAsync" /\ server = "stopped" /\ server' = "starting"
  \/ op = "stopServerAsync" /\ server \in {"starting", "started"} /\ server' = "stopping"
  \/ /\ ~ (op = "startServerAsync" /\ server = "stopped")
     /\ ~ (op = "stopServerAsync" /\ server \in {"starting", "started"})
     /\ UNCHANGED server

(* RSP takes the requests of a connection in any order; what they do goes   *)
(* on in the background, so the reply may come before it or after it.       *)
handle(c) ==
  /\ up
  /\ \E q \in pending[c] :
       /\ pending' = [pending EXCEPT ![c] = @ \ {q}]
       /\ replying' = [replying EXCEPT ![c] = @ \cup {q}]
       /\ handled' = [handled EXCEPT ![c] = IF q.id > @ THEN q.id ELSE @]
       /\ Effect(q.op)
  /\ UNCHANGED <<up, orphans, inbox, conn>>

handleOrphan ==
  /\ up
  /\ \E op \in orphans : orphans' = orphans \ {op} /\ Effect(op)
  /\ UNCHANGED <<up, pending, replying, handled, inbox, conn>>

reply(c) ==
  /\ up
  /\ c \in Open /\ Len(inbox[c]) < InboxSize
  /\ \E q \in replying[c], ok \in BOOLEAN :
       /\ replying' = [replying EXCEPT ![c] = @ \ {q}]
       /\ inbox' = [inbox EXCEPT ![c] = Append(@, [kind |-> "reply", id |-> q.id, op |-> q.op, ok |-> ok])]
  /\ UNCHANGED <<up, server, orphans, pending, handled, conn>>

(* The server is started from the panel of VS Code; it comes up, or fails   *)
(* to; it goes down, also by its own script.                                *)
tomcatMoves ==
  /\ up /\ Room
  /\ UNCHANGED <<up, orphans, pending, replying, handled, conn>>
  /\ \/ server = "stopped" /\ server' = "starting" /\ UNCHANGED inbox
     \/ server = "starting" /\ server' = "started" /\ Broadcast(STARTED)
     \/ server # "stopped" /\ server' = "stopped" /\ Broadcast(STOPPED)

noise(c) ==
  /\ up
  /\ c \in Open /\ inbox[c] = <<>>
  /\ inbox' = [inbox EXCEPT ![c] = << [kind |-> "noise"] >>]
  /\ UNCHANGED <<rsp, conn>>

(* VS Code is closed: what was sent can still be read. *)
rspExits ==
  /\ up
  /\ up' = FALSE /\ server' = "stopped"
  /\ orphans' = {}
  /\ pending' = [c \in Clients |-> {}] /\ replying' = [c \in Clients |-> {}]
  /\ UNCHANGED <<handled, inbox, conn>>

rspStarts ==
  /\ ~up
  /\ \A c \in Clients : stage[c] \notin {"send", "read"}
  /\ up' = TRUE
  /\ UNCHANGED <<server, orphans, pending, replying, handled, inbox, conn>>

-----------------------------------------------------------------------------
(* The client.                                                              *)

(* Variant for the checks: the connection of the last time is used again.   *)
dialRSP_Reuses(c) ==
  /\ up
  /\ stage[c] \in {"idle", "ok", "failed"}
  /\ stage' = [stage EXCEPT ![c] = "send"]
  /\ \E f \in DOMAIN Script : running' = [running EXCEPT ![c] = f]
  /\ step' = [step EXCEPT ![c] = 1]
  /\ broken' = [broken EXCEPT ![c] = FALSE]
  /\ taken' = [taken EXCEPT ![c] = {}]
  /\ stale' = [stale EXCEPT ![c] = FALSE]
  /\ UNCHANGED <<up, server, orphans, pending, replying, inbox, late, nextID, handled>>

dialRSP(c) ==
  /\ up
  /\ stage[c] \in {"idle", "ok", "failed"}
  /\ stage' = [stage EXCEPT ![c] = "send"]
  /\ \E f \in DOMAIN Script : running' = [running EXCEPT ![c] = f]
  /\ step' = [step EXCEPT ![c] = 1]
  /\ nextID' = [nextID EXCEPT ![c] = 0]
  /\ handled' = [handled EXCEPT ![c] = 0]
  /\ broken' = [broken EXCEPT ![c] = FALSE]
  /\ taken' = [taken EXCEPT ![c] = {}]
  /\ stale' = [stale EXCEPT ![c] = FALSE]
  /\ UNCHANGED <<up, server, orphans, pending, replying, inbox, late>>

(* The function returns: the deferred Close.  RSP still handles what it got. *)
Returns(c, result) ==
  /\ stage' = [stage EXCEPT ![c] = result]
  /\ orphans' = orphans \cup {op \in StateOps : \E q \in pending[c] : q.op = op}
  /\ pending' = [pending EXCEPT ![c] = {}]
  /\ replying' = [replying EXCEPT ![c] = {}]
  /\ inbox' = [inbox EXCEPT ![c] = <<>>]
  /\ late' = [late EXCEPT ![c] = FALSE]
  /\ UNCHANGED <<running, step>>

(* The next line of the script, with `rest` to read. *)
GoOn(c, rest) ==
  \/ /\ step[c] = Length(c)
     /\ Returns(c, "ok")
  \/ /\ step[c] < Length(c)
     /\ stage' = [stage EXCEPT ![c] = "send"]
     /\ step' = [step EXCEPT ![c] = @ + 1]
     /\ inbox' = [inbox EXCEPT ![c] = rest]
     /\ late' = [late EXCEPT ![c] = FALSE]
     /\ UNCHANGED <<orphans, pending, replying, running>>

(* Variant for the checks: every error is only logged. *)
Failed_Never(c, rest) == GoOn(c, rest)

(* An error ends the function, or is only logged. *)
Failed(c, rest) ==
  \/ Now(c).fatal /\ Returns(c, "failed")
  \/ ~Now(c).fatal /\ GoOn(c, rest)

(* Each call and each wait begins with a deadline of its own. *)
send(c) ==
  /\ stage[c] = "send"
  /\ IF Now(c).op = "waitState" THEN UNCHANGED nextID ELSE nextID' = [nextID EXCEPT ![c] = @ + 1]
  /\ \/ /\ Now(c).op = "waitState"
        /\ stage' = [stage EXCEPT ![c] = "read"]
        /\ UNCHANGED <<orphans, pending, replying, inbox, running, step, late>>
     \/ /\ Now(c).op # "waitState" /\ up
        /\ stage' = [stage EXCEPT ![c] = "read"]
        /\ pending' = [pending EXCEPT ![c] = @ \cup {[id |-> nextID'[c], op |-> Now(c).op]}]
        /\ UNCHANGED <<orphans, replying, inbox, running, step, late>>
     \/ /\ Now(c).op # "waitState" /\ ~up
        /\ Failed(c, inbox[c])
  /\ UNCHANGED <<up, server, handled, broken, taken, stale>>

(* Variant for the checks: each message renews the deadline. *)
InTime_Renewed(c) == TRUE
InTime(c) == ~late[c]

(* A message can be read. *)
Readable(c) == stage[c] = "read" /\ ~broken[c] /\ inbox[c] # <<>> /\ InTime(c)

(* Variant for the checks: a notification is kept for waitState. *)
Skip_Keeps(c) ==
  /\ inbox' = [inbox EXCEPT ![c] =
       IF Head(@).kind = "state" THEN Append(Tail(@), Head(@)) ELSE Tail(@)]
  /\ UNCHANGED <<orphans, pending, replying, stage, running, step, late>>
Skip(c) ==
  /\ inbox' = [inbox EXCEPT ![c] = Tail(@)]
  /\ UNCHANGED <<orphans, pending, replying, stage, running, step, late>>

(* Variant for the checks: any reply is taken for the one awaited. *)
IsMine_Any(c, m) == m.kind = "reply"
IsMine(c, m) == m.kind = "reply" /\ m.id = nextID[c]

(* call: its own reply ends it, anything else is skipped. *)
callReads(c) ==
  /\ Readable(c) /\ Now(c).op # "waitState"
  /\ LET m == Head(inbox[c]) IN
       /\ \/ /\ IsMine(c, m) /\ m.ok
             /\ taken' = [taken EXCEPT ![c] = @ \cup {<<Now(c).op, m.op>>}]
             /\ GoOn(c, Tail(inbox[c]))
          \/ /\ IsMine(c, m) /\ ~m.ok
             /\ UNCHANGED taken
             /\ Failed(c, Tail(inbox[c]))
          \/ /\ ~IsMine(c, m)
             /\ UNCHANGED taken
             /\ Skip(c)
  /\ UNCHANGED <<up, server, handled, nextID, broken, stale>>

(* waitState: the state it wants, or an unexpected stop. *)
waitReads(c) ==
  /\ Readable(c) /\ Now(c).op = "waitState"
  /\ LET m == Head(inbox[c]) IN
       \/ /\ m.kind = "state" /\ m.state = Now(c).want
          /\ stale' = [stale EXCEPT ![c] = m.after < nextID[c]]
          /\ GoOn(c, Tail(inbox[c]))
       \/ /\ m.kind = "state" /\ m.state # Now(c).want /\ m.state = STOPPED
          /\ UNCHANGED stale
          /\ Failed(c, Tail(inbox[c]))
       \/ /\ m.kind = "state" => m.state # Now(c).want /\ m.state # STOPPED
          /\ UNCHANGED stale
          /\ Skip(c)
  /\ UNCHANGED <<up, server, handled, nextID, broken, taken>>

deadline(c) ==
  /\ stage[c] = "read" /\ ~late[c]
  /\ late' = [late EXCEPT ![c] = TRUE]
  /\ UNCHANGED <<rsp, inbox, stage, running, step, nextID, broken, taken, stale>>

(* A read fails: the deadline has passed, perhaps in the middle of a        *)
(* message; or the stream is out of step, and no header can be found any    *)
(* more; or RSP has gone.                                                   *)
readFails(c) ==
  /\ stage[c] = "read"
  /\ late[c] \/ broken[c] \/ (~up /\ inbox[c] = <<>>)
  /\ \/ /\ late[c]
        /\ broken' = [broken EXCEPT ![c] = TRUE]
        /\ Failed(c, <<>>)
     \/ /\ UNCHANGED broken
        /\ Failed(c, inbox[c])
  /\ UNCHANGED <<up, server, handled, nextID, taken, stale>>

-----------------------------------------------------------------------------
Client(c) == send(c) \/ callReads(c) \/ waitReads(c) \/ readFails(c)
RSP == \/ handleOrphan \/ tomcatMoves \/ rspExits \/ rspStarts
       \/ \E c \in Clients : handle(c) \/ reply(c) \/ noise(c)
RCNext == RSP \/ \E c \in Clients : dialRSP(c) \/ Client(c) \/ deadline(c)

(* The goroutines are scheduled and time passes.  RSP owes nothing. *)
Fairness == \A c \in Clients : WF_RCvars(Client(c)) /\ WF_RCvars(deadline(c))

RCSpec == RCInit /\ [][RCNext]_RCvars /\ Fairness

-----------------------------------------------------------------------------
(* Properties.                                                              *)

(* A result is that of the request it was awaited for, although replies to  *)
(* calls that were given up come later, in the stream of the next call.     *)
OwnReply == \A c \in Clients : \A t \in taken[c] : t[1] = t[2]

(* "STARTED 확인" and "STOPPED 확인" are logged for a change that RSP        *)
(* reported after it had handled the start or stop of this connection, when *)
(* that request was answered: call has read everything older (rsp_client.go *)
(* 148).                                                                    *)
Answered(c, op) == <<op, op>> \in taken[c]
ConfirmedIsNews ==
  \A c \in Clients : (\E op \in StateOps : Answered(c, op)) => ~stale[c]

(* A deployment or a publish that returns without an error had its own      *)
(* publish request handled by RSP, during this connection, and answered     *)
(* without an error; a deployment its getServerHandles too.  What the       *)
(* answers hold is not looked at: a handle RSP does not list is replaced by *)
(* a guess (rsp_client.go 277-286) and the status of a publish is dropped   *)
(* (342-347), so the application need not be published.                     *)
SuccessIsAnswered ==
  \A c \in Clients : stage[c] = "ok" /\ running[c] # "rspStopServer" =>
    /\ Answered(c, "publish")
    /\ running[c] = "rspDeployAndStart" => Answered(c, "getServerHandles")

(* Each function returns, whatever RSP sends or fails to send: the deadline *)
(* is that of the call, not of the last message. *)
AlwaysReturns == \A c \in Clients : stage[c] = "send" ~> stage[c] \in {"ok", "failed"}
=============================================================================
