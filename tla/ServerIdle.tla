------------------------------- MODULE ServerIdle -------------------------------
(***************************************************************************)
(* Three threads of the robot's server and the packets that wait for a      *)
(* slow or an idle moment (ArServerBase.cpp, ArServerClient.cpp):           *)
(*   - the network thread, ArServerBase::loopOnce: takes new clients, reads  *)
(*     their packets, executes commands and deletes clients that left;      *)
(*   - the slow/idle thread, ArServerBase::slowIdleCallback: processes the   *)
(*     packets flagged SLOW_PACKET and, once the active mode has been        *)
(*     without activity for more than a second, those flagged IDLE_PACKET;   *)
(*   - the robot's thread: the user tasks of the modes (ServerModes), for    *)
(*     which idleProcessingPending() is what the other two threads wrote.    *)
(* The server may be closed at any moment, by its network thread as that    *)
(* ends or by another thread (Aria's exit callbacks): close() deletes the   *)
(* clients whatever the other threads are doing with them.                  *)
(***************************************************************************)
EXTENDS Naturals, FiniteSets

CONSTANTS
    Clients,     \* connections a run may see, each once
    NoClient,    \* no client being worked for
    MaxPackets,  \* bound: deferred packets and callbacks in a run
    MaxEarly,    \* bound: callbacks added before the threads run
    MayClose,    \* bound: whether the server is closed in a run
    Commands,    \* bound: modes that clients send commands for in a run
    Stop, Ratio, Idle, NoMode  \* the modes of ServerModes this server has

ASSUME IdleAssumption ==
    /\ MaxPackets \in Nat /\ MaxEarly \in Nat /\ NoClient \notin Clients
    /\ MayClose \in BOOLEAN /\ Commands \subseteq {Stop, Ratio}
    /\ Cardinality({Stop, Ratio, Idle, NoMode}) = 4

Kinds == {"slow", "idle"}
Motions == {"rest", "forward", "backward"}

VARIABLES
    \* the server (ArServerBase)
    opened,         \* myOpened
    closing,        \* close() holds myClientsMutex and deletes the clients
    crashed,        \* the program has ended by touching a deleted client
    newcomers,      \* clients the program may still accept
    addList,        \* myAddList
    clients,        \* myClients
    removeSet,      \* myRemoveSet
    have,           \* myHaveSlowPackets, myHaveIdlePackets
    callbacks,      \* length of myIdleCallbacks
    haveCallbacks,  \* myHaveIdleCallbacks
    told,           \* myLastIdleProcessingPending
    deferred,       \* packets and callbacks deferred so far, for MaxPackets
    \* its clients (ArServerClient)
    connected,      \* clients whose state is not STATE_DISCONNECTED
    queue,          \* lengths of mySlowPackets and myIdlePackets
    flag,           \* myHaveSlowPackets and myHaveIdlePackets of the client
    \* the threads
    netPc, netTodo, netHave, netClient, netKind,
    slowPc, slowTodo, slowKind, slowClient,
    \* the robot
    motion,         \* its velocity, by sign
    quiet,          \* the active mode's activity time is over a second old
    \* ServerModes
    activeMode, lastActiveMode, locked, willUnlock, requested, isActive,
    interrupted, running, broadcast, started, denied, defaultMode

idleProcessingPending == haveCallbacks \/ have["idle"]

Arbiter == INSTANCE ServerModes WITH
             Modes <- {Stop, Ratio, Idle}, Defaults <- {Stop},
             Guarded <- {Stop, Ratio, Idle}, Joystick <- {},
             idlePending <- idleProcessingPending

modeVars == <<activeMode, lastActiveMode, locked, willUnlock, requested,
              isActive, interrupted, running, broadcast, started, denied, defaultMode>>
robotVars == <<motion, quiet>>
closeVars == <<opened, closing, crashed>>
listVars == <<newcomers, addList, clients, removeSet>>
pendingVars == <<have, callbacks, haveCallbacks>>
clientVars == <<connected, queue, flag>>
netVars == <<netPc, netTodo, netHave, netClient, netKind>>
slowVars == <<slowPc, slowTodo, slowKind, slowClient>>
vars == <<modeVars, robotVars, listVars, pendingVars, clientVars, netVars,
          slowVars, told, deferred, closeVars>>

Init ==
    /\ opened = TRUE /\ closing = FALSE /\ crashed = FALSE
    /\ newcomers = Clients
    /\ addList = {} /\ clients = {} /\ removeSet = {}
    /\ have = [k \in Kinds |-> FALSE]
    /\ callbacks \in 0 .. MaxEarly /\ haveCallbacks = (callbacks > 0)
    /\ told = FALSE /\ deferred = 0
    /\ connected = {}
    /\ queue = [k \in Kinds |-> [c \in Clients |-> 0]]
    /\ flag = [k \in Kinds |-> [c \in Clients |-> FALSE]]
    /\ netPc = "loop" /\ netTodo = {} /\ netHave = {}
    /\ netClient = NoClient /\ netKind = "slow"
    /\ slowPc = "start" /\ slowTodo = {} /\ slowKind = "slow"
    /\ slowClient = NoClient
    /\ motion = "rest" /\ quiet = FALSE
    /\ Arbiter!Init /\ defaultMode = Stop

\* The slow/idle thread holds myProcessingSlowIdleMutex.  The network thread
\* only tries to take it, for the length of one step.
Processing == slowPc \in {"callbacks", "visit", "pop", "run", "clear"}

----------------------------------------------------------------------------
(* Robot: what modes do to its motion, abstracted to its direction and quiet *)

\* baseActivate stops the robot and resets the activity time of the new mode.
AfterSwitch ==
    /\ motion' = motion
    /\ quiet' = (quiet /\ started' = {})

\* Fault: the ratio mode takes the robot without asking for idle processing.
DriveCommandAlways ==
    /\ Arbiter!BecomeActive(Ratio) /\ denied' = {}
    /\ UNCHANGED <<requested, interrupted, defaultMode>>
    /\ motion' = "forward" /\ quiet' = FALSE

\* serverRatioDrive: activates the mode unless it is active; only an active
\* mode uses the ratios, and then notes the activity.
DriveCommand ==
    /\ \/ isActive[Ratio] /\ UNCHANGED modeVars
       \/ ~isActive[Ratio] /\ Arbiter!Activate(Ratio) /\ UNCHANGED defaultMode
    /\ IF isActive'[Ratio] THEN motion' \in Motions /\ quiet' = FALSE
                           ELSE AfterSwitch

\* netStop: notes activity of the stop mode, active or not, and activates it.
StopCommand ==
    /\ Arbiter!Activate(Stop) /\ UNCHANGED defaultMode
    /\ motion' = motion
    /\ quiet' = (quiet /\ started' = {} /\ activeMode' # Stop)

RobotSteps == UNCHANGED <<listVars, pendingVars, clientVars, netVars, slowVars, told,
                          deferred, closeVars>>

\* A robot told to stop, or driven with ratios of zero, comes to rest.
RobotHalts ==
    /\ ~crashed /\ motion # "rest" /\ motion' = "rest"
    /\ UNCHANGED <<quiet, modeVars>> /\ RobotSteps

\* More than a second without activity.  The user tasks of stop and idle note
\* activity as long as the robot moves forward (they compare the signed velocity
\* with 2); that of ratio drive does not.
TimePasses ==
    /\ ~crashed /\ ~quiet /\ activeMode # NoMode
    /\ activeMode \in {Stop, Idle} => motion # "forward"
    /\ quiet' = TRUE
    /\ UNCHANGED <<motion, modeVars>> /\ RobotSteps

\* The robot's cycle runs the active mode's user task, or the default check.
RobotTask == ~crashed /\ RobotSteps /\ Arbiter!ModeUserTask /\ AfterSwitch

----------------------------------------------------------------------------
(* Network thread: ArServerBase::loopOnce *)

\* A server that has been closed does nothing any more.
NetLoop ==
    /\ netPc = "loop" /\ opened /\ netPc' = "accept"
    /\ UNCHANGED <<netTodo, netHave, netClient, netKind, clientVars, modeVars,
                   robotVars, listVars, pendingVars, slowVars, told, deferred>>

\* Its key is looked for under the mutex that close() holds.
NetConnect(c) ==
    /\ netPc = "accept" /\ c \in newcomers /\ ~closing
    /\ newcomers' = newcomers \ {c}
    /\ addList' = addList \cup {c}
    /\ connected' = connected \cup {c}
    /\ UNCHANGED <<clients, removeSet, queue, flag, modeVars, robotVars,
                   pendingVars, netVars, slowVars, told, deferred>>

\* Fault: only the beginning of pending idle work is broadcast.
NetAcceptTellsOnce ==
    /\ netPc = "accept"
    /\ closing => Processing /\ told = idleProcessingPending
    /\ clients' = IF Processing THEN clients ELSE clients \cup addList
    /\ addList' = IF Processing THEN addList ELSE {}
    /\ told' = (told \/ idleProcessingPending)
    /\ netPc' = "tcp" /\ netTodo' = clients' /\ netHave' = {}
    /\ UNCHANGED <<newcomers, removeSet, netClient, netKind, modeVars, robotVars,
                   pendingVars, clientVars, slowVars, deferred>>

\* New clients join the list unless the slow/idle thread is walking it; a
\* change of the pending flag is broadcast.  Both take the mutex of the list.
NetAccept ==
    /\ netPc = "accept"
    /\ closing => Processing /\ told = idleProcessingPending
    /\ clients' = IF Processing THEN clients ELSE clients \cup addList
    /\ addList' = IF Processing THEN addList ELSE {}
    /\ told' = idleProcessingPending
    /\ netPc' = "tcp" /\ netTodo' = clients' /\ netHave' = {}
    /\ UNCHANGED <<newcomers, removeSet, netClient, netKind, modeVars, robotVars,
                   pendingVars, clientVars, slowVars, deferred>>

\* The next client's tcpCallback() begins.
NetVisit(c) ==
    /\ netPc = "tcp" /\ c \in netTodo
    /\ netPc' = "visit" /\ netClient' = c /\ netTodo' = netTodo \ {c}
    /\ UNCHANGED <<netHave, netKind, clientVars, modeVars, robotVars, listVars,
                   pendingVars, slowVars, told, deferred>>

\* A command executed at once, as many as the client has sent.
NetServe ==
    /\ netPc = "visit" /\ netClient \in connected
    /\ \/ Ratio \in Commands /\ DriveCommand
       \/ Stop \in Commands /\ StopCommand
    /\ UNCHANGED <<netVars, listVars, pendingVars, clientVars, slowVars, told,
                   deferred>>

\* A packet flagged SLOW_PACKET or IDLE_PACKET: first the flag is set ...
NetFlag(k) ==
    /\ netPc = "visit" /\ netClient \in connected
    /\ deferred < MaxPackets /\ deferred' = deferred + 1
    /\ flag' = [flag EXCEPT ![k][netClient] = TRUE]
    /\ netPc' = "store" /\ netKind' = k
    /\ UNCHANGED <<netTodo, netHave, netClient, connected, queue, modeVars,
                   robotVars, listVars, pendingVars, slowVars, told>>

\* ... then the copy is stored.
NetStore ==
    /\ netPc = "store" /\ netPc' = "visit"
    /\ queue' = [queue EXCEPT ![netKind][netClient] = @ + 1]
    /\ UNCHANGED <<netTodo, netHave, netClient, netKind, connected, flag, modeVars,
                   robotVars, listVars, pendingVars, slowVars, told, deferred>>

Flagged(c) == {k \in Kinds : flag[k][c]}

\* tcpCallback() returned true: the client's flags count for the server's.
Alive ==
    /\ netHave' = netHave \cup Flagged(netClient)
    /\ netPc' = "tcp" /\ netClient' = NoClient
    /\ UNCHANGED <<netTodo, netKind>>

\* Fault: the client is marked for removal without forceDisconnect.
DeadWithoutDisconnect ==
    /\ removeSet' = removeSet \cup {netClient}
    /\ netPc' = "tcp" /\ netClient' = NoClient
    /\ UNCHANGED <<connected, netTodo, netHave, netKind>>

\* It returned false: forceDisconnect and mark for removal.
Dead ==
    /\ connected' = connected \ {netClient}
    /\ removeSet' = removeSet \cup {netClient}
    /\ netPc' = "tcp" /\ netClient' = NoClient
    /\ UNCHANGED <<netTodo, netHave, netKind>>

\* Nothing more to read.
NetVisited ==
    /\ netPc = "visit" /\ netClient \in connected
    /\ Alive
    /\ UNCHANGED <<clientVars, modeVars, robotVars, listVars, pendingVars,
                   slowVars, told, deferred>>

\* The client says goodbye: its state changes, this visit still counts it.
NetShutdown ==
    /\ netPc = "visit" /\ netClient \in connected
    /\ connected' = connected \ {netClient}
    /\ Alive
    /\ UNCHANGED <<queue, flag, modeVars, robotVars, listVars, pendingVars,
                   slowVars, told, deferred>>

\* The connection breaks, or was gone: the client stays as long as it has
\* deferred packets flagged.
NetGone ==
    /\ netPc = "visit"
    /\ IF Flagged(netClient) = {}
       THEN Dead
       ELSE Alive /\ connected' = connected \ {netClient} /\ UNCHANGED removeSet
    /\ UNCHANGED <<newcomers, addList, clients, queue, flag, modeVars, robotVars,
                   pendingVars, slowVars, told, deferred>>

\* After the last client the server's own flags are set.
NetPublish ==
    /\ netPc = "tcp" /\ netTodo = {}
    /\ have' = [k \in Kinds |-> k \in netHave]
    /\ netPc' = "remove"
    /\ UNCHANGED <<callbacks, haveCallbacks, netTodo, netHave, netClient, netKind,
                   listVars, clientVars, slowVars, told, deferred>>

\* The same, while the idle mode's user task is between its two reads of the
\* pending flag.
NetPublishDuringTask == NetPublish /\ Arbiter!IdleUserTask /\ AfterSwitch

DeleteMarked ==
    /\ clients' = clients \ removeSet
    /\ removeSet' = {}
    /\ queue' = [k \in Kinds |-> [c \in Clients |->
                   IF c \in removeSet THEN 0 ELSE queue[k][c]]]

\* Fault: myProcessingSlowIdleMutex is not tried.
NetRemoveAnyTime ==
    /\ netPc = "remove" /\ netPc' = "loop" /\ ~closing
    /\ DeleteMarked
    /\ UNCHANGED <<newcomers, addList, connected, flag, netTodo, netHave,
                   netClient, netKind, modeVars, robotVars, pendingVars, slowVars,
                   told, deferred>>

\* Deletes the marked clients, with the packets they still hold, unless the
\* slow/idle thread may be using them.
NetRemove ==
    /\ netPc = "remove" /\ netPc' = "loop"
    /\ closing => Processing
    /\ IF Processing THEN UNCHANGED <<clients, removeSet, queue>>
                     ELSE DeleteMarked
    /\ UNCHANGED <<newcomers, addList, connected, flag, netTodo, netHave,
                   netClient, netKind, modeVars, robotVars, pendingVars, slowVars,
                   told, deferred>>

\* Code of the server asks to be called back in an idle moment.
AddIdleCallback ==
    /\ ~crashed /\ deferred < MaxPackets /\ deferred' = deferred + 1
    /\ callbacks' = callbacks + 1 /\ haveCallbacks' = TRUE
    /\ UNCHANGED <<have, modeVars, robotVars, listVars, clientVars, netVars,
                   slowVars, told, closeVars>>

----------------------------------------------------------------------------
(* Slow/idle thread: ArServerBase::slowIdleCallback *)

SlowSteps == UNCHANGED <<modeVars, robotVars, listVars, netVars, told, deferred,
                         have, connected>>

\* Fault: only clients that say they have slow packets are visited.
SlowBeginFlagged ==
    /\ slowPc = "start" /\ opened
    /\ slowPc' = "visit" /\ slowKind' = "slow"
    /\ slowTodo' = {c \in clients : flag["slow"][c]}
    /\ UNCHANGED <<slowClient, callbacks, haveCallbacks, queue, flag>> /\ SlowSteps

\* Whether the server is open is asked here only.
SlowBegin ==
    /\ slowPc = "start" /\ opened
    /\ slowPc' = "visit" /\ slowKind' = "slow" /\ slowTodo' = clients
    /\ UNCHANGED <<slowClient, callbacks, haveCallbacks, queue, flag>> /\ SlowSteps

SlowVisit(c) ==
    /\ slowPc = "visit" /\ c \in slowTodo
    /\ slowTodo' = slowTodo \ {c} /\ slowClient' = c /\ slowPc' = "pop"
    /\ UNCHANGED <<slowKind, callbacks, haveCallbacks, queue, flag>> /\ SlowSteps

\* No client left: the mutex is released.
SlowVisitsDone ==
    /\ slowPc = "visit" /\ slowTodo = {}
    /\ slowPc' = IF slowKind = "slow" THEN "check" ELSE "start"
    /\ slowClient' = NoClient
    /\ UNCHANGED <<slowKind, slowTodo, callbacks, haveCallbacks, queue, flag>>
    /\ SlowSteps

SlowPop ==
    /\ slowPc = "pop"
    /\ IF queue[slowKind][slowClient] > 0
       THEN /\ queue' = [queue EXCEPT ![slowKind][slowClient] = @ - 1]
            /\ slowPc' = "run"
       ELSE UNCHANGED queue /\ slowPc' = "clear"
    /\ UNCHANGED <<slowKind, slowTodo, slowClient, callbacks, haveCallbacks, flag>>
    /\ SlowSteps

\* The command's functor returns.
SlowRun ==
    /\ slowPc = "run" /\ slowPc' = "pop"
    /\ UNCHANGED <<slowKind, slowTodo, slowClient, callbacks, haveCallbacks,
                   queue, flag>>
    /\ SlowSteps

\* The flag is cleared after the queue's mutex was released.
SlowClear ==
    /\ slowPc = "clear"
    /\ flag' = [flag EXCEPT ![slowKind][slowClient] = FALSE]
    /\ slowPc' = "visit"
    /\ UNCHANGED <<slowKind, slowTodo, slowClient, callbacks, haveCallbacks, queue>>
    /\ SlowSteps

\* Is the robot idle?  The answer is not looked at again.
SlowCheck ==
    /\ slowPc = "check"
    /\ slowPc' = IF activeMode = NoMode \/ quiet THEN "callbacks" ELSE "start"
    /\ UNCHANGED <<slowKind, slowTodo, slowClient, callbacks, haveCallbacks,
                   queue, flag>>
    /\ SlowSteps

\* Fault: one callback a pass, after which none is said to be left.
SlowCallbackOnce ==
    /\ slowPc = "callbacks"
    /\ callbacks' = IF haveCallbacks /\ callbacks > 0 THEN callbacks - 1 ELSE callbacks
    /\ haveCallbacks' = FALSE
    /\ slowPc' = "visit" /\ slowKind' = "idle" /\ slowTodo' = clients
    /\ UNCHANGED <<slowClient, queue, flag>> /\ SlowSteps

\* Callbacks first; their emptiness is seen and noted under one mutex.
SlowCallback ==
    /\ slowPc = "callbacks"
    /\ IF haveCallbacks /\ callbacks > 0
       THEN /\ callbacks' = callbacks - 1
            /\ UNCHANGED <<haveCallbacks, slowPc, slowKind, slowTodo>>
       ELSE /\ haveCallbacks' = FALSE
            /\ slowPc' = "visit" /\ slowKind' = "idle" /\ slowTodo' = clients
            /\ UNCHANGED callbacks
    /\ UNCHANGED <<slowClient, queue, flag>> /\ SlowSteps

----------------------------------------------------------------------------
(* ArServerBase::close *)

CloseSteps == UNCHANGED <<modeVars, robotVars, pendingVars, slowVars, told, deferred,
                          flag, addList, removeSet, crashed>>

\* By the network thread as runThread ends, or by another thread.  Nobody can connect
\* after that, except one whose connection has just been accepted.
CloseBegin ==
    /\ ~crashed /\ opened /\ MayClose
    /\ opened' = FALSE /\ closing' = TRUE
    /\ netPc' \in {netPc} \cup {pc \in {"ended"} : netPc = "loop"}
    /\ newcomers' \in {{}} \cup {{c} : c \in {n \in newcomers : netPc = "accept"}}
    /\ UNCHANGED <<clients, connected, queue, netTodo, netHave, netClient, netKind>>
    /\ CloseSteps

\* The next client is deleted, with its packets.  myProcessingSlowIdleMutex is not
\* asked for.
CloseDelete(c) ==
    /\ ~crashed /\ closing /\ c \in clients
    /\ clients' = clients \ {c} /\ connected' = connected \ {c}
    /\ queue' = [k \in Kinds |-> [queue[k] EXCEPT ![c] = 0]]
    /\ UNCHANGED <<newcomers, netVars, opened, closing>> /\ CloseSteps

CloseDone ==
    /\ ~crashed /\ closing /\ clients = {}
    /\ closing' = FALSE
    /\ UNCHANGED <<clients, connected, queue, newcomers, netVars, opened>> /\ CloseSteps

\* A thread is at a client, or will come to one, that has been deleted.
AtDeletedClient ==
    \/ netPc \in {"tcp", "visit", "store"} /\ ~(netTodo \subseteq clients)
    \/ netPc \in {"visit", "store"} /\ netClient \notin clients
    \/ netPc = "remove" /\ ~Processing /\ ~(removeSet \subseteq clients)
    \/ slowPc \in {"visit", "pop", "run", "clear"} /\ ~(slowTodo \subseteq clients)
    \/ slowPc \in {"pop", "run", "clear"} /\ slowClient \notin clients

\* What it does there is undefined: it goes on as with a living client, by the actions
\* above, or the program ends.
Crash ==
    /\ ~crashed /\ AtDeletedClient
    /\ crashed' = TRUE
    /\ UNCHANGED <<modeVars, robotVars, listVars, pendingVars, clientVars, netVars,
                   slowVars, told, deferred, opened, closing>>

\* A server that has been closed may come to rest, an open one never does.
Ended == (crashed \/ ~opened) /\ UNCHANGED vars

Close == CloseBegin \/ (\E c \in Clients : CloseDelete(c)) \/ CloseDone

----------------------------------------------------------------------------
NetVisitEnds ==
    /\ ~crashed /\ UNCHANGED closeVars
    /\ NetVisited \/ NetShutdown \/ NetGone

Net ==
    /\ ~crashed /\ UNCHANGED closeVars
    /\ \/ NetLoop \/ NetAccept
       \/ \E c \in Clients : NetConnect(c) \/ NetVisit(c)
       \/ NetServe
       \/ \E k \in Kinds : NetFlag(k)
       \/ NetStore
       \/ NetVisitEnds
       \/ NetPublish /\ UNCHANGED <<modeVars, robotVars>>
       \/ NetPublishDuringTask
       \/ NetRemove

Slow ==
    /\ ~crashed /\ UNCHANGED closeVars
    /\ \/ SlowBegin \/ SlowVisitsDone \/ SlowPop \/ SlowRun \/ SlowClear
       \/ SlowCheck \/ SlowCallback
       \/ \E c \in Clients : SlowVisit(c)

Next ==
    \/ Net \/ Slow \/ RobotTask \/ RobotHalts \/ TimePasses \/ AddIdleCallback
    \/ Close \/ Crash \/ Ended

Spec == Init /\ [][Next]_vars

\* Each thread is a loop that the operating system schedules, and no client
\* sends commands so fast that the network thread never gets to read the last.
FairSpec ==
    /\ Spec
    /\ WF_vars(Net) /\ WF_vars(NetVisitEnds)
    /\ WF_vars(Slow) /\ WF_vars(RobotTask)

----------------------------------------------------------------------------
(* Properties *)

TypeOK ==
    /\ {newcomers, addList, clients, removeSet, connected, netTodo, slowTodo}
         \subseteq SUBSET Clients
    /\ have \in [Kinds -> BOOLEAN]
    /\ flag \in [Kinds -> [Clients -> BOOLEAN]]
    /\ queue \in [Kinds -> [Clients -> 0 .. MaxPackets]]
    /\ callbacks \in 0 .. MaxPackets + MaxEarly /\ deferred \in 0 .. MaxPackets
    /\ {haveCallbacks, told, quiet, opened, closing, crashed} \subseteq BOOLEAN
    /\ motion \in Motions
    /\ netHave \subseteq Kinds /\ {netKind, slowKind} \subseteq Kinds
    /\ {netClient, slowClient} \subseteq Clients \cup {NoClient}
    /\ netPc \in {"loop", "accept", "tcp", "visit", "store", "remove", "ended"}
    /\ slowPc \in {"start", "check", "callbacks", "visit", "pop", "run", "clear"}

\* As long as the server is open, the slow/idle thread never works for a client that
\* the network thread has deleted, nor has one left to visit.
SlowClientsAlive ==
    opened =>
      /\ slowPc \in {"pop", "run", "clear"} => slowClient \in clients
      /\ slowPc = "visit" => slowTodo \subseteq clients

\* The same when the server closes: not so, close() deletes the clients under
\* myClientsMutex, and slowIdleCallback holds another mutex as it walks them.
SlowClientsAliveAtClose ==
    /\ slowPc \in {"pop", "run", "clear"} => slowClient \in clients
    /\ slowPc = "visit" => slowTodo \subseteq clients

\* loopOnce deletes clients that have left only, never one whose connection stands; and
\* it deletes none twice, as long as the server is open.
OnlyTheGoneAreDeleted ==
    /\ removeSet \cap connected = {}
    /\ opened => removeSet \subseteq clients
    /\ connected \subseteq clients \cup addList

\* Single-shot idle callbacks are never forgotten: as long as one waits the
\* server reports idle processing pending.
CallbacksReported == callbacks > 0 => idleProcessingPending

\* The three threads together implement the arbitration of ServerModes, with
\* idleProcessingPending() as they compute it.
ImplementsArbiter == Arbiter!Spec

\* ArServerBase.cpp:186: "the server will process packets flagged IDLE_PACKET
\* only when the robot is idle".
IdlePacketsOnlyWhenIdle == slowPc = "run" /\ slowKind = "idle" => motion = "rest"

\* A deferred packet is processed, or dropped with its client, unless the server
\* closes: slow ones whatever the robot does, idle ones if the robot stays quiet.
DeferredPacketsServed ==
    \A c \in Clients :
        /\ queue["slow"][c] > 0 ~> queue["slow"][c] = 0 \/ ~opened
        /\ <>[]quiet => (queue["idle"][c] > 0 ~> queue["idle"][c] = 0 \/ ~opened)

\* The clients' last news on pending idle processing catches up with it, as long as
\* the server is open.
IdleStateBroadcast ==
    []opened => \A p \in BOOLEAN :
                  <>[](idleProcessingPending = p) => <>[](told = p)
=============================================================================
