----------------------------- MODULE ServerRequests -----------------------------
(***************************************************************************)
(* What the server's clients ask for and who answers (ArServerClient.cpp,   *)
(* ArServerBase.cpp, ArServerMode.cpp, serverDemo3.cpp).                     *)
(*                                                                         *)
(* A client asks once for a command's answer or requests it: at an interval, *)
(* or whenever the server has news.  Three threads send to it:              *)
(*   - the network thread executes what clients ask for and, after every     *)
(*     round of reading, the requests that are due (handleRequests);         *)
(*   - the slow/idle thread executes what was put off;                       *)
(*   - the robot's thread tells every client that requested getModeInfo of    *)
(*     a new mode, and the one that asked for getwEncoder of every encoder    *)
(*     packet.                                                              *)
(* The robot's lock and the mutex of the client list order some of this; the  *)
(* requests of a client, the mode and the encoder client have no lock.        *)
(***************************************************************************)
EXTENDS Naturals, Sequences, SequencesExt

CONSTANTS
    Clients,   \* connections a run may see, each once
    NoClient,  \* nobody
    Modes,     \* the modes of the server
    NoMode,    \* ourActiveMode is NULL
    MaxAsks,   \* bound: packets all clients send
    MaxSwitches \* bound: changes of mode in a run

ASSUME RequestsAssumption ==
    /\ NoClient \notin Clients /\ NoMode \notin Modes
    /\ MaxAsks \in Nat /\ MaxSwitches \in Nat

\* Two commands of serverDemo3, and one that is flagged SLOW_PACKET.
ModeInfo == "getModeInfo"
Encoder == "getwEncoder"
Slow == "slow"
Commands == {ModeInfo, Encoder, Slow}
NoCommand == "none"  \* the 0 at the bottom of a stack of commands

\* Interval of a request: -1, 0 or a number of milliseconds.
Intervals == {"pushed", "always", "timed"}

VARIABLES
    \* a client (ArServerClient)
    status,     \* "connected", "gone" (STATE_DISCONNECTED) or "deleted"
    requested,  \* myRequested, latest first; due: the interval has passed
    putOff,     \* length of mySlowPackets
    stack,      \* myCommandStack and mySlowIdleCommandStack, top first
    asks,       \* packets they sent so far
    \* the network thread: where it is, the clients left in this round, the
    \* client and request it works for, the mode it found, whether that changed
    netPc, netTodo, netClient, netCommand, netIndex, netAnswer, netLate,
    slowFor,    \* the client the slow/idle thread works for
    \* the mode, the one last broadcast, changes so far
    mode, told, switches,
    \* the thread that changes the mode and broadcasts it, with the robot locked
    caster, castTodo, castAt,
    encoderClient,  \* wEncoderClient
    running,    \* the program has not crashed
    \* history: the mode a client was told last, whether that was found before
    \* and sent after a change
    view, overtaken

clientVars == <<status, requested, putOff, stack, asks>>
netVars == <<netPc, netTodo, netClient, netCommand, netIndex, netAnswer, netLate>>
modeVars == <<mode, told, switches, caster, castTodo, castAt>>
history == <<view, overtaken>>
vars == <<clientVars, netVars, slowFor, modeVars, encoderClient, running, history>>

Listed == {c \in Clients : status[c] # "deleted"}  \* myClients

Init ==
    /\ status = [c \in Clients |-> "connected"]
    /\ requested = [c \in Clients |-> <<>>]
    /\ putOff = [c \in Clients |-> 0]
    /\ stack = [net |-> [c \in Clients |-> <<NoCommand>>],
                slow |-> [c \in Clients |-> <<>>]]
    /\ asks = 0
    /\ netPc = "read" /\ netTodo = Clients /\ netClient = NoClient
    /\ netCommand = NoCommand /\ netIndex = 0 /\ netAnswer = NoMode
    /\ netLate = FALSE
    /\ slowFor = NoClient
    /\ mode \in Modes /\ told = mode /\ switches = 0
    /\ caster = "none" /\ castTodo = {} /\ castAt = NoClient
    /\ encoderClient = NoClient /\ running = TRUE
    /\ view = [c \in Clients |-> NoMode] /\ overtaken = {}

----------------------------------------------------------------------------
(* The requests of a client *)

Entry(k, i) == [command |-> k, interval |-> i, due |-> FALSE]
Requests(c, k) == \E e \in ToSet(requested[c]) : e.command = k
Where(c, k) == SelectInSeq(requested[c], LAMBDA e : e.command = k)
Due(e) == e.interval = "always" \/ (e.interval = "timed" /\ e.due)

\* A request of which the walk of another thread holds the node is deleted.
Walked(c) == castAt = c /\ caster = "robot"

\* Whether the program survives a use of memory that was freed.
Survives(risk) == IF risk THEN running' \in BOOLEAN ELSE UNCHANGED running

\* Fault: one stack of commands for both threads.
NamedSharing(t, c) == Head(stack["net"][c])

\* The command of an answer that names none: the one on top of the stack of
\* the thread that sends it.
Named(t, c) == Head(stack[t][c])

Push(t, c, k) == stack' = [stack EXCEPT ![t][c] = <<k>> \o @]
Pop(t, c) == stack' = [stack EXCEPT ![t][c] = Tail(@)]

----------------------------------------------------------------------------
(* Network thread: ArServerBase::loopOnce *)

\* myClientsMutex is held by a broadcast of the robot's thread.
ListInUse == caster = "robot" /\ (castTodo # {} \/ castAt # NoClient)

\* The next client's tcpCallback.
NetVisit(c) ==
    /\ netPc = "read" /\ netClient = NoClient /\ c \in netTodo
    /\ netClient' = c /\ netTodo' = netTodo \ {c}
    /\ UNCHANGED <<clientVars, netPc, netCommand, netIndex, netAnswer, netLate, slowFor,
                   modeVars, encoderClient, running, history>>

\* A packet of the client that is visited.
Reads(c) ==
    /\ netPc = "read" /\ netClient = c /\ status[c] = "connected" /\ caster # "net"
    /\ asks < MaxAsks /\ asks' = asks + 1

\* The functor of a command is called, for the index-th request or for a packet.
Call(c, k, index) ==
    /\ Push("net", c, k)
    /\ netPc' = "functor" /\ netCommand' = k /\ netIndex' = index
    /\ netLate' = FALSE

\* A command requested for the first time is put in front and answered at once.
RequestNew(c, k, i) ==
    /\ ~Requests(c, k)
    /\ requested' = [requested EXCEPT ![c] = <<Entry(k, i)>> \o @]
    /\ Call(c, k, 0)

\* Another interval for a command that is requested: no answer, and the time
\* since the last one goes on.
RequestRevised(c, k, i) ==
    /\ Requests(c, k)
    /\ requested' = [requested EXCEPT ![c][Where(c, k)].interval = i]
    /\ UNCHANGED <<stack, netPc, netCommand, netIndex, netLate>>

ReadRequest(c, k, i) ==
    /\ Reads(c)
    /\ RequestNew(c, k, i) \/ RequestRevised(c, k, i)
    /\ UNCHANGED <<status, putOff, netTodo, netClient, netAnswer, slowFor, modeVars,
                   encoderClient, running, history>>

\* REQUESTSTOP: the first node for it is deleted, whoever walks the list.
ReadStop(c, k) ==
    /\ Reads(c)
    /\ requested' = [requested EXCEPT ![c] =
                       IF Requests(c, k) THEN RemoveAt(@, Where(c, k)) ELSE @]
    /\ Survives(Requests(c, k) /\ Walked(c))
    /\ UNCHANGED <<status, putOff, stack, netVars, slowFor, modeVars, encoderClient,
                   history>>

\* Asked once: a slow command is put off, others are answered at once.
ReadOnce(c, k) ==
    /\ Reads(c)
    /\ \/ /\ k = Slow
          /\ putOff' = [putOff EXCEPT ![c] = @ + 1]
          /\ UNCHANGED <<stack, netPc, netCommand, netIndex, netLate>>
       \/ /\ k # Slow
          /\ Call(c, k, 0) /\ UNCHANGED putOff
    /\ UNCHANGED <<status, requested, netTodo, netClient, netAnswer, slowFor, modeVars,
                   encoderClient, running, history>>

\* The client says goodbye, or its connection breaks.
ReadEnd(c) ==
    /\ netPc = "read" /\ netClient = c /\ status[c] = "connected" /\ caster # "net"
    /\ status' = [status EXCEPT ![c] = "gone"]
    /\ UNCHANGED <<requested, putOff, stack, asks, netVars, slowFor, modeVars,
                   encoderClient, running, history>>

NetVisited ==
    /\ netPc = "read" /\ netClient # NoClient /\ caster # "net"
    /\ netClient' = NoClient
    /\ UNCHANGED <<clientVars, netPc, netTodo, netCommand, netIndex, netAnswer, netLate,
                   slowFor, modeVars, encoderClient, running, history>>

\* A thread that has locked the robot begins to change the mode.
Leave(t) ==
    /\ caster = "none" /\ caster' = t /\ mode' = NoMode
    /\ switches < MaxSwitches /\ switches' = switches + 1
    /\ UNCHANGED <<told, castTodo, castAt>>

\* A command that changes the mode takes the robot's lock and works as below.
ReadSwitch(c) == Reads(c) /\ Leave("net") /\ UNCHANGED <<status, requested,
    putOff, stack, netVars, slowFor, encoderClient, running, history>>

\* Clients that are gone and have nothing put off are deleted, unless the
\* slow/idle thread is at work; then the requests are looked at.
RemoveDead ==
    /\ netPc = "read" /\ netTodo = {} /\ netClient = NoClient
    /\ \E dead \in SUBSET {c \in Clients : status[c] = "gone" /\ putOff[c] = 0} :
         /\ slowFor # NoClient => dead = {}
         /\ status' = [c \in Clients |-> IF c \in dead THEN "deleted" ELSE status[c]]
         /\ requested' = [c \in Clients |-> IF c \in dead THEN <<>> ELSE requested[c]]
    /\ netPc' = "handle" /\ netTodo' = {c \in Clients : status'[c] # "deleted"}
    /\ UNCHANGED <<putOff, stack, asks, netClient, netCommand, netIndex, netAnswer,
                   netLate, slowFor, modeVars, encoderClient, running, history>>

\* Fault: the mutex of the client list is not waited for.
RemoveAnyTime == RemoveDead

\* After the last client was read from.
NetRemove == ~ListInUse /\ RemoveDead

\* Fault: the walk over the requests ends with the first that is served.
DueAfterFirst(c, n) == {i \in DOMAIN requested[c] : n = 0 /\ Due(requested[c][i])}

\* The requests behind the n-th that must be served.
DueAfter(c, n) == {i \in DOMAIN requested[c] : i > n /\ Due(requested[c][i])}

\* The next client's handleRequests, unless it is disconnected.
NetHandle(c) ==
    /\ netPc = "handle" /\ netClient = NoClient /\ c \in netTodo
    /\ netTodo' = netTodo \ {c}
    /\ netClient' = IF status[c] = "connected" THEN c ELSE NoClient
    /\ UNCHANGED <<clientVars, netPc, netCommand, netIndex, netAnswer, netLate, slowFor,
                   modeVars, encoderClient, running, history>>

\* The functor of the next request that is due, if there is one.
NetServe ==
    /\ netPc = "handle" /\ netClient # NoClient
    /\ \/ \E i \in DueAfter(netClient, netIndex) :
            /\ \A j \in DueAfter(netClient, netIndex) : i <= j
            /\ Call(netClient, requested[netClient][i].command, i)
            /\ UNCHANGED <<netTodo, netClient>>
       \/ /\ DueAfter(netClient, netIndex) = {}
          /\ netClient' = NoClient /\ netIndex' = 0
          /\ UNCHANGED <<stack, netPc, netTodo, netCommand, netLate>>
    /\ UNCHANGED <<status, requested, putOff, asks, netAnswer, slowFor, modeVars,
                   encoderClient, running, history>>

\* The round is over; the next one begins.
NetHandled ==
    /\ netPc = "handle" /\ netTodo = {} /\ netClient = NoClient
    /\ netPc' = "read" /\ netTodo' = Listed
    /\ UNCHANGED <<clientVars, netClient, netCommand, netIndex, netAnswer, netLate,
                   slowFor, modeVars, encoderClient, running, history>>

----------------------------------------------------------------------------
(* Network thread: the functors of the commands *)

\* The functor returns; a request that was due starts anew.
Return ==
    /\ Pop("net", netClient)
    /\ netCommand' = NoCommand /\ netAnswer' = NoMode /\ netLate' = FALSE
    /\ netPc' = IF netIndex = 0 THEN "read" ELSE "handle"
    /\ requested' = IF netIndex = 0 THEN requested
                    ELSE [requested EXCEPT ![netClient][netIndex].due = FALSE]
    /\ UNCHANGED <<status, putOff, asks, netTodo, netClient, netIndex, slowFor, modeVars>>

\* getModeInfo does not lock the robot: it looks whether there is a mode ...
FindMode ==
    /\ netPc = "functor" /\ netCommand = ModeInfo
    /\ netPc' = IF mode = NoMode THEN "send" ELSE "found"
    /\ netAnswer' = mode /\ netLate' = (caster # "none")
    /\ UNCHANGED <<clientVars, netTodo, netClient, netCommand, netIndex, slowFor, modeVars,
                   encoderClient, running, history>>

\* ... and asks it for its name.  A mode that has left in between is NULL if the
\* compiled code reads ourActiveMode again, and still named if it does not.
ReadMode ==
    /\ netPc = "found" /\ netPc' = "send"
    /\ netAnswer' = IF mode = NoMode THEN netAnswer ELSE mode
    /\ netLate' = IF mode = NoMode THEN netLate ELSE caster # "none"
    /\ Survives(mode = NoMode)
    /\ UNCHANGED <<clientVars, netTodo, netClient, netCommand, netIndex, slowFor, modeVars,
                   encoderClient, history>>

SendMode ==
    /\ netPc = "send"
    /\ view' = [view EXCEPT ![netClient] = netAnswer]
    /\ overtaken' = IF netLate THEN overtaken \cup {netClient}
                    ELSE overtaken \ {netClient}
    /\ Return /\ UNCHANGED <<encoderClient, running>>

\* getWheelEncoderData remembers the client and answers nothing.
SetEncoderClient ==
    /\ netPc = "functor" /\ netCommand = Encoder
    /\ encoderClient' = netClient
    /\ Return /\ UNCHANGED <<running, history>>

\* A slow command that is requested is not put off.
AnswerSlowCommand ==
    /\ netPc = "functor" /\ netCommand = Slow
    /\ Return /\ UNCHANGED <<encoderClient, running, history>>

----------------------------------------------------------------------------
(* Slow/idle thread: slowPacketCallback *)

SlowBegin(c) ==
    /\ slowFor = NoClient /\ c \in Listed /\ putOff[c] > 0
    /\ putOff' = [putOff EXCEPT ![c] = @ - 1]
    /\ Push("slow", c, Slow) /\ slowFor' = c
    /\ UNCHANGED <<status, requested, asks, netVars, modeVars, encoderClient, running,
                   history>>

\* The functor has sent its answer and returns.
SlowEnd ==
    /\ slowFor # NoClient /\ slowFor' = NoClient
    /\ Pop("slow", slowFor)
    /\ UNCHANGED <<status, requested, putOff, asks, netVars, modeVars, encoderClient,
                   running, history>>

----------------------------------------------------------------------------
(* A change of mode, with the robot locked, and its broadcast *)

\* baseDeactivate of the mode in control.
RobotLeaves ==
    /\ Leave("robot") /\ netLate' = TRUE
    /\ UNCHANGED <<clientVars, netPc, netTodo, netClient, netCommand, netIndex, netAnswer,
                   slowFor, encoderClient, running, history>>

\* Fault: the mode last broadcast is not noted.
EnterUnnoted(m) ==
    /\ caster # "none" /\ mode = NoMode /\ mode' = m
    /\ castTodo' = IF m = told THEN {} ELSE Listed
    /\ UNCHANGED <<told, switches, caster, castAt>>

\* baseActivate of the next one, and a broadcast unless it is the same again.
Enter(m) ==
    /\ caster # "none" /\ mode = NoMode /\ mode' = m
    /\ castTodo' = IF m = told THEN {} ELSE Listed
    /\ told' = m /\ UNCHANGED <<switches, caster, castAt>>

CastTo(c) ==
    /\ c \in castTodo /\ castAt = NoClient
    /\ castAt' = c /\ castTodo' = castTodo \ {c}
    /\ UNCHANGED <<mode, told, switches, caster>>

\* broadcastPacketTcp of a client: sends if getModeInfo is requested.
CastAt ==
    /\ castAt # NoClient /\ castAt' = NoClient
    /\ IF Requests(castAt, ModeInfo) /\ status[castAt] = "connected"
       THEN /\ view' = [view EXCEPT ![castAt] = mode]
            /\ overtaken' = overtaken \ {castAt}
       ELSE UNCHANGED <<view, overtaken>>
    /\ UNCHANGED <<mode, told, switches, caster, castTodo>>

CastEnd ==
    /\ caster # "none" /\ mode # NoMode /\ castTodo = {} /\ castAt = NoClient
    /\ caster' = "none"
    /\ UNCHANGED <<mode, told, switches, castTodo, castAt>>

\* The steps of whoever holds the robot's lock.
Switch ==
    /\ \/ (\E m \in Modes : Enter(m)) /\ UNCHANGED history
       \/ (\E c \in Clients : CastTo(c)) /\ UNCHANGED history
       \/ CastAt
       \/ CastEnd /\ UNCHANGED history
    /\ UNCHANGED <<clientVars, netVars, slowFor, encoderClient, running>>

\* handleSIPPacket, in the robot's thread: an encoder packet is sent to the
\* client that asked last, whatever became of it.
EncoderPacket ==
    /\ encoderClient # NoClient
    /\ Survives(status[encoderClient] = "deleted")
    /\ UNCHANGED <<clientVars, netVars, slowFor, modeVars, encoderClient, history>>

\* The interval of a request has passed.
IntervalPasses(c) ==
    /\ \E i \in DOMAIN requested[c] :
         /\ requested[c][i].interval = "timed" /\ ~requested[c][i].due
         /\ requested' = [requested EXCEPT ![c][i].due = TRUE]
    /\ UNCHANGED <<status, putOff, stack, asks, netVars, slowFor, modeVars, encoderClient,
                   running, history>>

----------------------------------------------------------------------------
NetLoop ==
    \/ NetVisited \/ NetRemove \/ NetServe \/ NetHandled
    \/ \E c \in Clients : NetVisit(c) \/ NetHandle(c)
    \/ FindMode \/ ReadMode \/ SendMode \/ SetEncoderClient \/ AnswerSlowCommand

Asks(c) ==
    \/ \E k \in Commands : ReadStop(c, k) \/ ReadOnce(c, k)
    \/ \E k \in Commands, i \in Intervals : ReadRequest(c, k, i)
    \/ ReadSwitch(c) \/ ReadEnd(c)

Next ==
    /\ running
    /\ \/ NetLoop \/ Switch \/ RobotLeaves \/ SlowEnd \/ EncoderPacket
       \/ \E c \in Clients : Asks(c) \/ SlowBegin(c) \/ IntervalPasses(c)

\* Each thread goes on with what it has begun.
Spec == Init /\ [][Next]_vars /\ WF_vars(running /\ NetLoop) /\ WF_vars(running /\ Switch)

----------------------------------------------------------------------------
(* Properties *)

\* Types; and no command is requested twice by a client, so that one
\* REQUESTSTOP ends it.
TypeOK ==
    /\ status \in [Clients -> {"connected", "gone", "deleted"}]
    /\ requested \in
         [Clients -> Seq([command: Commands, interval: Intervals, due: BOOLEAN])]
    /\ \A c \in Clients : \A i, j \in DOMAIN requested[c] :
         requested[c][i].command = requested[c][j].command => i = j
    /\ putOff \in [Clients -> Nat]
    /\ stack \in [{"net", "slow"} -> [Clients -> Seq(Commands \cup {NoCommand})]]
    /\ asks \in 0 .. MaxAsks
    /\ netPc \in {"read", "functor", "found", "send", "handle"}
    /\ netTodo \in SUBSET Clients /\ netClient \in Clients \cup {NoClient}
    /\ netCommand \in Commands \cup {NoCommand} /\ netIndex \in Nat
    /\ netAnswer \in Modes \cup {NoMode} /\ netLate \in BOOLEAN
    /\ slowFor \in Clients \cup {NoClient}
    /\ mode \in Modes \cup {NoMode} /\ told \in Modes /\ switches \in 0 .. MaxSwitches
    /\ caster \in {"none", "net", "robot"} /\ castTodo \in SUBSET Clients
    /\ castAt \in Clients \cup {NoClient}
    /\ encoderClient \in Clients \cup {NoClient} /\ running \in BOOLEAN
    /\ view \in [Clients -> Modes \cup {NoMode}] /\ overtaken \in SUBSET Clients

\* Two threads answer the same client at a time, and most answers leave their
\* command to be filled in from a stack: each carries the command it answers
\* (ArServerClient::getCommand).
AnswersNamed ==
    /\ netPc \in {"functor", "found", "send"} => Named("net", netClient) = netCommand
    /\ slowFor # NoClient => Named("slow", slowFor) = Slow

\* The robot's thread walks the client list while the network thread deletes
\* from it: a broadcast never reaches for a client that is deleted.
BroadcastsReachLiving ==
    \A c \in castTodo \cup {castAt} : c # NoClient => status[c] # "deleted"

\* A client that has requested getModeInfo and is not being answered knows the
\* mode as soon as nobody is changing it, unless its last answer was found in a
\* change of mode or sent after one began: then nothing corrects it.
RequestersKnowMode ==
    \A c \in Clients :
      /\ status[c] = "connected" /\ Requests(c, ModeInfo) /\ caster = "none"
      /\ ~(netClient = c /\ netCommand = ModeInfo)
      => view[c] = mode \/ c \in overtaken

\* A request that is due is served, or ended with its client or by it,
\* whatever other requests there are (handleRequests).
DueRequestsServed ==
    \A c \in Clients, k \in Commands :
      (\E e \in ToSet(requested[c]) : e.command = k /\ Due(e))
        ~> \/ netPc = "functor" /\ netClient = c /\ netCommand = k
           \/ ~(\E e \in ToSet(requested[c]) : e.command = k /\ Due(e))
           \/ status[c] # "connected" \/ ~running

\* Nothing the program's threads do to the requests of clients, to the mode or to
\* the encoder client crashes it.
NeverCrashes == running

=============================================================================
