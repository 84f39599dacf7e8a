# TLA+ models of Ros_AriaClientDriver

The repository is a ROS driver for Pioneer-class robots. It consists of a ROS
node that is a network client (`src/`), the robot-side server program
`serverDemo3` (`Aria/ArNetworking/examples/serverDemo3.cpp`), and the vendored
libraries both are built from: ArNetworking (client, server, "modes") and ARIA
(the robot's control loop, actions, devices).

```
 keys, cmd_vel_ratio,         TCP (10 Hz ratioDrive,         robot lock
 cmd_vel, direct_enable       SetVelRequest, ...)
      |                             |                           |
      v                             v                           v
 AriaClientDriver  ------->  ArServerBase / ArServerClient  -->  ArServerMode*  -->  ArRobot cycle
 (one thread: sendInput,     network thread: loopOnce            stop, ratioDrive,   packet handler,
  spinOnce, 10 Hz)           slow/idle thread                    wander, idle        actions, reflector,
                                                                                    user tasks
```

This directory holds models of the parts of that chain in which several actors
meet, the runs that check them, and proofs about them.

## Inventory

| Component | State it keeps | Operations | What makes it correct |
|---|---|---|---|
| Mode arbitration, `ArServerMode.cpp` | the active mode, its lock, the list of requested modes, default modes, what was last broadcast | `baseActivate`, `baseDeactivate`, `lockMode`, `unlockMode`, `modeUserTask`, `checkBroadcastModeInfoPacket` | one mode controls the robot; locks have a holder; requests are activated or denied, in the right order; clients know the mode |
| Stop, wander, ratio drive and idle modes, `ArServerModeStop.cpp`, `...Wander`, `...RatioDrive`, `...Idle` | action groups, ratios, safe driving, timeout bookkeeping, the interrupted mode | `activate`, `deactivate`, the network commands, `userTask`, `joyUserTask` | the robot stops when told to or when commands stop coming; limiters follow safe driving; idle gives the robot back |
| Server threads, `ArServerBase.cpp`, `ArServerClient.cpp` | client list, add list, remove set, slow and idle queues with flags on two levels, idle callbacks | `loopOnce`, `slowIdleCallback`, `processPacket`, `tcpCallback`, `addIdleSingleShotCallback`, broadcasts | nobody works for a deleted client; no deferred packet is forgotten; pending idle work is reported |
| Driver node, `ariaClientDriver.cpp` | the three ratios, the time of the last command, direct motion enabled, odometry bias and filter | key and topic callbacks, `sendInput`, data handlers, `controlloop` | the robot does what the last input says, and nothing once inputs end |
| Server program, `serverDemo3.cpp` | the GPS and encoder globals, the mode set-up | `setVelRequest`, `moveStepRequest`, laser, GPS and encoder requests | direct motion and modes agree on who drives |
| Robot cycle, `ArRobot.cpp` | direct motion (type, value, time) per axis, actions, what was last sent | `packetHandler`, `actionHandler`, `stateReflector`, user tasks, `stop`, `setVel`, `clearDirectMotion` | actions move the robot unless direct motion is in force |
| Sessions, `ArClientBase.cpp` against `ArServerBase.cpp` and `ArServerClient.cpp` | handshake state on both sides, keys, what is known of UDP in each direction | connecting, blocking or not, introduction, rejection, the UDP part, disconnecting, closing the server | both agree on who was let in; UDP goes where it works and belongs; attempts and sessions end |
| Requests, `ArServerClient.cpp`, `ArServerData.cpp` | `myRequested`, stacks of commands, the encoder client | `processPacket` (`REQUEST`, `REQUESTSTOP`, once), `handleRequests`, `broadcastPacketTcp` | answers carry their command; who asked for news has the latest; nothing due is passed over |
| Packets by TCP, `ArNetPacketSenderTcp.cpp`, `ArNetPacketReceiverTcp.cpp`, `ArNetPacket.cpp` | the list of packets and the half-sent one; the receiver's state, length and buffer | `sendPacket`, `sendData`, `readData`, `readPacket` | packets arrive whole, once, in order; a dead connection is given up, a live one is not |
| Mutexes, `ArMutex_LIN.cpp` and their users | owner and depth | `lock`, `tryLock`, `unlock`, exit callbacks | nobody waits for ever |
| Central forwarder, `ArCentralForwarder.cpp` | who asked once, what the robot was asked to send | `receiveData`, `requestChanged`, `requestOnce`, `robotServerClientRemoved` | answers reach who asked; the robot sends what is wanted, and no more |
| Older drive mode, teleoperation nodes, rest of the central server, files and maps, information services, devices | see `PROJECT.json` | | |

How the parts interact: commands of clients are executed in the network thread
with the robot locked; user tasks run in the robot's thread with the same lock;
packets flagged slow or idle are executed by a third thread; the three share
`idleProcessingPending()` without a lock. The driver knows nothing of modes: its
`ratioDrive` pulls the robot into the ratio mode ten times a second, and
`SetVelRequest` and `MoveStepRequest` write the robot's direct motion past the
modes. The places where this is hard to test are the `hazards` of
`PROJECT.json`; thirty-four of the forty have properties that a run checks, the
others say why not. Six more are left out of that list because they need a model of
something this directory does not have: the units of `cmd_vel` across three programs,
the count of laser readings that indexes a fixed array (`ariaClientDriver.cpp:393`),
clients that fight for the ratio mode (`:313`), the seconds `moveStepRequest` keeps the
network thread (`serverDemo3.cpp:125`), a client that sends faster than the server reads
(`ArNetPacketReceiverTcp.cpp:100`), and authentication keys that may repeat
(`ArServerBase.cpp:372`).

## Modules

### ServerModes (and MCServerModes, ServerModes_proofs)

Arbitration between any set of modes. Every operation runs under the robot's
lock, so it is one step, with everything it calls: an activation that deactivates
another mode, which would activate a third, is a single action. The five ways
`activate()` can end are five definitions (`AlreadyActive`, `RefusedByLock`,
`DroppedByIdle`, `IdleTakesOver`, `Granted`); `Leave` is `baseDeactivate` with no
mode chosen to follow: nobody follows, idle follows, or the candidate follows.

| Variable | Code |
|---|---|
| `activeMode`, `lastActiveMode`, `locked`, `willUnlock`, `requested` | the static members `ourActiveMode`, `ourLastActiveMode`, `ourActiveModeLocked`, `ourActiveModeWillUnlockIfRequested`, `ourRequestedActivateModes` |
| `isActive` | `myIsActive` of each mode |
| `running` | the modes whose action group is active on the robot |
| `broadcast` | the `ourBroadcast...` copies |
| `interrupted` | `myModeInterrupted` of the idle mode |
| `idlePending` | what `idleProcessingPending()` would answer |
| `started`, `denied` | history of the last operation: whose activate callbacks and whose `activationDenied()` it ran |

`ourNextActiveMode` is set and cleared within one operation and needs no
variable. `Guarded` are the modes whose `activate()` returns at once when already
active: stop, ratio drive and idle, but not wander, which restarts itself and in
doing so releases its own lock. Idle processing may change between the two reads
of one user task; `IdleUserTask` therefore chooses the second answer.

`AddAsDefaultMode` is `addAsDefaultMode` as `main` calls it at any time; before it
`defaultMode` is `NoMode`, and `Defaults` are the modes it may be called for.
`idlePending` starts either way: a client may have packets deferred before the first
mode takes the robot.

`LockMode`, `UnlockMode` and `Finish` are the public interface of the base class
for subclasses; of serverDemo3's modes none locks itself, and only idle ends
itself, so for that program they are what a further mode may do.

### ServerIdle (and MCServerIdle, ServerIdle_proofs)

The network thread, the slow/idle thread and the robot's thread. `loopOnce` is cut
where another thread can come in between: take new clients, visit one client's
`tcpCallback` (commands, the flag of a deferred packet, its storing, the end of
the visit), publish the server's flags, delete marked clients. `slowIdleCallback`
is cut at each acquisition of a queue's mutex. `myProcessingSlowIdleMutex` is the
definition `Processing`; the other thread only ever tries it.

It instantiates ServerModes (`Arbiter`) with `idlePending <-
idleProcessingPending`, and `ImplementsArbiter` says that the threads' steps are
steps of the arbitration. `NetPublishDuringTask` is the network thread setting the
flag while the idle mode's user task is between its two reads.

The robot's motion is one of rest, forward and backward, and `quiet` says that the
active mode's activity time is over a second old. The distinction of directions is
there because the stop and idle modes compare signed velocities. Wander and direct
motion are not in this module, and commands come by TCP only.

`close()` may be called at any moment, by the network thread as it ends or by another
one (Aria's exit callbacks). It deletes the clients one after the other under
`myClientsMutex` (`closing`) and does not ask for `myProcessingSlowIdleMutex`, under which
`slowIdleCallback` walks the same list: `CloseBegin`, `CloseDelete`, `CloseDone`. What a
thread does with a deleted client is undefined, so it goes on as with a living one or
the program ends (`Crash`, `crashed`). `SlowClientsAlive` therefore speaks of an open
server; that it fails as the server closes is `SlowClientsAliveAtClose`, a configuration
of its own. `MayClose` says whether a run has closing in it, and `Commands` which modes
its clients send commands for: `idle_clients` closes and drives nothing,
`idle_threads` the other way round.

### TeleopDrive (and TeleopDrive_proofs)

From a person's hands to the wheels: the driver's callbacks and main loop, a FIFO wire,
the command handlers of serverDemo3 and of the ratio mode, and the robot's cycle with
direct motion before actions. One axis, with a robot at rest or moving; the levels 0 and
1 stand for no and full speed, so the units of a command (a ratio in percent; `cmd_vel`,
which the driver multiplies by 100) and the heading that `setVelRequest` sets besides
the velocity are not told apart. Other clients' stop commands, a driver that dies and a
link that stalls are actions. Besides `Stale` and `Timeout` one variable belongs to the
properties alone: `watched`, chosen in `Init`, says whose silence `silence` counts, the
hands' or the server's. Only behaviours that watch the server have a link that stalls,
since `HandsOffStops` is about one that works.

Time is counted in `Tick`s. A tick needs every loop to have run since the last one:
the driver's (unless its socket is full), the network thread's (unless it is inside
`moveStepRequest`) and the robot's. So the properties can state how long motion may
outlast its cause, in ticks: `Stale` stands for the second after which the driver
zeroes its ratios, `Timeout` for the two seconds of the ratio mode.

| Variable | Code |
|---|---|
| `ratio`, `twistAge`, `enabled` | `myTransRatio`, the age of `deltaT_Command`, `myDirectMotionEnabler` |
| `wire`, `linkUp` | the connection |
| `mode`, `ratios`, `fired`, `safe`, `newSafe`, `limiters` | which of stop and ratio drive is active, `myTransRatio` of the mode and of its action, `myDriveSafely`, `myNewDriveSafely`, the limiters of the group |
| `activity`, `gotCommand`, `lastTimedOut` | the age of the mode's activity time, `myGotServerCommand`, `myLastTimedOut` |
| `stepping` | the network thread is in `moveStepRequest` |
| `directVel` | `myTransType`/`myTransVal` |
| `commanded`, `moving` | the velocity last sent to, and last reported by, the robot |

### ServerLocks (and ServerLocks_proofs)

The mutexes of the server program and the order in which its threads take them. A
pass of a thread's loop is a plan: a sequence of `lock`, `try`, `unlock` and `work`
steps, made with the operators `Hold` and `TryHold` from what each section of the code
locks. The actions only execute plans, with the owner and depth of a recursive
`ArMutex`; so who waits for whom is a matter of the plans, which are the code's.
`AppThreads` are the program's other threads, any number of them.

| Definition | Code |
|---|---|
| `SectionPlans` | the sections of `loopOnce`, in order (`section`) |
| `Commands` | what functors of commands lock: nothing, the robot, a broadcast in either order, `laserRequest` with its exit |
| `RobotPlans`, `SlowPlans`, `AppPlans` | the robot's cycle; `slowIdleCallback`; any other thread |
| `ExitPlan`, `AriaExit` | `Aria::exit`, of which only the first call does anything |

The mutex of the datagram, the identifier and user-information lists and the string and
logger mutexes are left out: nothing is locked while one of them is held. Left out as
well are `myCycleCallbacksMutex` of the server, which only the network thread takes once
the program runs, and the lock of the laser's range device, which its own thread and the
robot's cycle take; what the runs and proofs say of waiting says nothing of these two.

### ClientConnection (and MCClientConnection, ClientConnection_proofs)

`ArClientBase` against `ArServerBase` and `ArServerClient`, from `connect` to the end
of the session, with the handshake of UDP in both directions. An attempt to connect
is one session at the server; a client object is used again for its next attempt, as
`nonBlockingConnect` and `blockingConnect` allow.

| Variable | Code |
|---|---|
| `state`, `phase`, `running` | `myState`, `myNonBlockingConnectState` and the running thread of a client |
| `from`, `to` | `myUdpConfirmedFrom`/`myTcpOnlyFrom` and `myUdpConfirmedTo`/`myTcpOnlyTo` |
| `outbox` | the packets in the client's `myTcpSender`, which survive the connection |
| `clock` | the age of the attempt as far as the code compares it |
| `midHeader` | whose thread is in `readPacket` with the header of a packet incomplete |
| `sstate`, `key`, `tcpOnly`, `sentTcpOnly`, `address` | an `ArServerClient`: `myState`, `myAuthKey`, `myTcpOnly`, `mySentTcpOnly`, `mySin` |
| `toServer`, `toClient`, `ended` | the TCP connection of a session, and where no more data enters |
| `flagged` | `myHaveSlowPackets` or `myHaveIdlePackets` of a session |
| `intros`, `auths` | datagrams that may still arrive: to clients any number of times, to the server once |

A read returns when a packet is complete, when nothing is there or when the connection is
closed, but not within a header: there the receiver tries again for as long as nothing
comes (`ArNetPacketReceiverTcp.cpp:189`), and whoever called it, up to
`blockingConnect`, does not come back to look at its timeout. `ReadStalls` is a packet
that comes in pieces; it is possible for the clients in `Stalling`.

A session gets slow or idle commands by `DeferPacket` (the sessions in `Deferring` may);
which ones, and the queues behind the flag, are ServerIdle's. A disconnected session
that is flagged stays in the server's list until the slow/idle thread has served it
(`ArServerClient.cpp:221`), so `Delete` waits for `ServeDeferred`.

Each packet's handler is an action; sending is a part of the handler, with the
partial sends of `PacketStream` abstracted to packets that stay in `outbox`. A client
reads one packet in a step: that it would read on in the same burst after a rejection
or a `SHUTDOWN` is not modelled. Keys of sessions are distinct unless `KeysRepeat`:
`ArServerBase.cpp:372` draws them at random and looks for no collision. That they
differ is an assumption of the runs and of the one theorem that needs it.

### PacketStream and PacketChannel (and MCPacketStream, PacketStream_proofs)

`ArNetPacketSenderTcp` and `ArNetPacketReceiverTcp` on the bytes of one TCP stream.
`PacketChannel` is what they promise: packets arrive in order and once each; a new
connection may lose those under way. On one that begins within a packet (`ragged`) the
promises end: packets may be missing, and bytes of one packet's data may be taken for
another, even one nobody sent (`Stray`). They hold again from the next connection on that
begins between packets, and what arrives then comes after all that arrived before.
`ImplementsChannel` maps `PacketStream` to it by the history variables `next` and
`ragged`. Packets longer than the limit are accepted by `sendPacket` and dropped by
`sendData` (`TooLong`), which the channel says too.

One end is a client's and keeps its sender or receiver over a reconnection
(`clientEnd`); the server's end is new. So bytes left of one connection go out first
on the next and a receiver may take data for a header: `TypeOK` of this module is the
statement that it then still reads within its buffer. `dead` is a receiver whose program
stands still without closing the connection. Time passes only after a living receiver
has had its chance to read, so the backup timeout distinguishes dead from slow. A
socket's hard errors are the end of the connection.

### ServerRequests (and ServerRequests_proofs)

The requests of a server's clients and the three threads that answer. The network
thread reads one packet of a client at a time, executes its functor (`getModeInfo` in
three steps, since it reads the mode and sends it without the robot's lock), and
after each round of reading walks each client's requests (`handleRequests`). The
slow/idle thread answers what was put off, and the thread that holds the robot's lock
changes the mode and broadcasts it.

| Variable | Code |
|---|---|
| `requested` | `myRequested` of each client, with its intervals and whether one has passed |
| `stack` | `myCommandStack` and `mySlowIdleCommandStack`, which name an answer's command |
| `netPc`, `netTodo`, `netClient`, `netCommand`, `netIndex` | where the network thread is |
| `caster`, `castTodo`, `castAt` | the walk of `broadcastPacketTcp` over the clients |
| `mode`, `told` | the active mode and the one last broadcast |
| `encoderClient` | `wEncoderClient` of serverDemo3 |
| `view`, `overtaken` | history: what a client was told last, and whether that came out of order |

Where the code uses memory that may have been freed, the outcome is a choice: the
program goes on or has crashed (`running`).

### CentralForwarder (and CentralForwarder_proofs)

The central server's `ArCentralForwarder` between its clients and the robot it stands
for, for one command. The command's return type is chosen in `Init`, so one run covers
all five. `toRobot` and `fromRobot` are the connection to the robot; `waiting` is
`myRequestOnces`; `wish` and `robotWish` are the entries of the command in the
clients' and in the robot's `myRequested`. Packets nobody asked for may go by UDP:
they are lost, or inserted anywhere. The robot itself is the server that
`ServerRequests` models in detail; here it answers each packet in one step.

An answer that ends with an empty packet has one packet of data before that; longer ones
are not explored. The forwarder's server has no slow or idle commands, so it is
single-threaded. The iterator that `robotServerClientRemoved` advances after its node
has been erased is not modelled: its value is not used again. `RobotFollowsWishes` says
for a video only what the code can keep: a client that wants news of a video gets none
as long as another one has requested it at an interval, since an interval for videos is
not passed on.

## Runs

| Run | Checks | Instance | Distinct states |
|---|---|---|---|
| `modes` | `TypeOK`, `OneModeInControl`, `LockHasHolder`, `QueueSound`, `NobodyWaitsForVacantRobot`, `ClientsInformed`, `LockedInUntilItEnds`, `WaitersAnswered`, `IdleGate`, `LatestRequestFollowsIdle`, `RobotComesBack` | four modes, stop may become the default at any time, fair | 1 416 |
| `idle_clients` | `SlowClientsAlive`, `OnlyTheGoneAreDeleted` | two clients, one deferred packet or callback, a server that closes | 1.0 million |
| `idle_threads` | `CallbacksReported`, `ImplementsArbiter`, `DeferredPacketsServed`, `IdleStateBroadcast` | one client, one deferred packet, a callback from before the threads ran, fair | 255 127 |
| `teleop` | `LimitersFollowSafeDrive`, `HandsOffStops`, `TimeoutStops` | one command on the wire; the link may stall | 5.2 million |
| `locks` | `CircularWaitNeedsUdp`, `SlowWorkStallsNobody` | one further thread beside the server's three, seven mutexes | 166 068 |
| `connection` | `VerdictsAgree`, `UdpGoesToItsClient`, `TcpOnlyTold` | two clients, two sessions, one of which may be cut | 1.1 million |
| `connection_ends` | `AttemptsEnd`, `SessionsEnd` | one client that connects twice, packets may come in pieces, the first session may be cut and may leave slow or idle commands, fair | 209 314 |
| `packets` | `TypeOK`, `BackedUpMeansDead`, `ImplementsChannel`, `EverythingArrives`, `BackedUpCloses` | the packets of `MCPayloads`, two reconnections, fair | 169 912 |
| `requests` | `AnswersNamed`, `BroadcastsReachLiving`, `RequestersKnowMode`, `DueRequestsServed` | one client, two requests, two changes of mode, fair | 255 516 |
| `forwarder` | `AnswersReachAskers`, `NobodyWaitsInVain`, `WaitersAlive`, `RobotFollowsWishes` | two clients, three packets, one unasked, every return type | 1.4 million |

What they show, beside that the properties hold: `locks` finds the one circular wait
the program has, a UDP command that locks the robot while the robot's thread
broadcasts, and that there is no other. `requests` says how a client can be left with an
old mode: only by an answer of `getModeInfo` that was found before a change and sent
after it had begun. `forwarder` says that answers reach who asked as long as the robot
was not also asked to send by itself; with both, they mix, as packets name no
receiver.

Two runs expect a violation; each shows that a line of the repository's comments does
not describe what the code does:

| Run | Quoted line | What happens |
|---|---|---|
| `teleop_no_input` | `ariaClientDriver.h:30` | one `cmd_vel` drives the robot for ever |
| `packets_return` | `ArNetPacketReceiverTcp.cpp:88` | a sender that stops within a header keeps `readData` in its loop, and with it the server's other clients |

`ReadReturns` is a temporal property and is checked under `ReaderSpec`, in which the
reader is fair and the sender may stop, as senders do.

### Further configurations

Ten more configurations are not among the runs. Each states one property and TLC
finds it violated; the properties document behaviour that a maintainer may want to
change.

| Configuration, module | Property | Compared with |
|---|---|---|
| `MCServerModesDropped.cfg`, MCServerModes | `RefusalAnswered`: a command during idle processing is neither queued nor denied | `ArServerMode.h:79` |
| `MCServerIdleMoving.cfg`, MCServerIdle | `IdlePacketsOnlyWhenIdle`: idle packets processed while the robot moves | `ArServerBase.cpp:186` |
| `MCServerIdleClose.cfg`, MCServerIdle | `SlowClientsAliveAtClose`: the slow/idle thread works for clients that `close()` deleted | `ArServerBase.cpp:308` |
| `TeleopDriveStop.cfg`, TeleopDrive | `StopStops`: stop while the stop mode is active does not end direct motion | `ArServerModeStop.cpp:40` |
| `TeleopDriveRatio.cfg`, TeleopDrive | `RatioInputObeyed`: after a step back, ratios no longer move the robot | `src/README.md:61` |
| `ServerLocksExit.cfg`, ServerLocks | `ExitNeverWaits`: the exit callback waits for the client list's mutex | `Aria.cpp:305` |
| `ClientConnectionLeftover.cfg`, ClientConnection | `SessionStartsClean`: a session begins with what is left of the last one | `ArClientBase.cpp:302` |
| `MCPacketStreamStray.cfg`, MCPacketStream | `NothingInvented`: bytes left of a former connection are taken for a packet nobody sent | `ArNetPacketReceiverTcp.cpp:251` |
| `ClientConnectionStalls.cfg`, ClientConnection | `AttemptsTimeOut`: a server or a network that stops within a header keeps a client in its read, and the connect timeout is never looked at | `ArClientBase.cpp:202` |
| `ServerRequestsCrash.cfg`, ServerRequests | `NeverCrashes`: a request erased under a broadcast's walk; the encoder client used after its deletion | |

The type invariants of ServerIdle, TeleopDrive, ClientConnection, ServerRequests and
CentralForwarder are stated in the modules but checked by no run; they hold on the runs'
instances. CentralForwarder's and ServerRequests' are proved; of the others the proofs
use what they need (`ListInv`, `Typed`, `Types`).

### Bounds, and why they are enough

- *Four modes.* The idle mode, a default mode, a mode that guards its activation and
  one that does not: every case distinction of `baseActivate` and `baseDeactivate`,
  with a list of up to three waiting modes. The invariants are also proved for any
  number.
- *`Clients`, each connecting once* (ServerIdle, ServerRequests, CentralForwarder).
  Two clients let one be visited while the other is deleted. A client object of the
  server is never reused: a person who reconnects is another client. The liveness
  runs have one client, as no client waits for another there. ServerRequests' three
  invariants were also explored with two clients (10.2 million states).
- *`MaxPackets`, `MaxEarly`* bound packets and callbacks deferred in a run, the latter
  those added before the threads run. One packet is enough for a race between flag and
  queue, one early callback beside it for a callback that arrives while another runs.
- *`MayClose`, `Commands`.* Closing and driving are explored in different runs: the walks
  over the client list do not depend on the modes, and what liveness and refinement say
  is about an open server. The proofs know no such separation.
- *`MaxWire` = 1.* A second command waits in the sender instead of on the wire; the
  tick's condition treats both alike.
- *`Stale` = 1, `Timeout` = 2* keep the order of the two watchdogs. `Horizon` is where
  ages stop being counted: the largest value a guard or property asks for.
- *`MaxSessions` = 2*: a session and its successor, which is what stale datagrams and
  late packets need; `Fragile` are the sessions whose connection may be cut at any
  moment. Two keys suffice for two sessions with different ones. The run about liveness
  has one key, which repeats, so that every datagram fits either session; its client may
  get packets in pieces (`Stalling`), and its first session deferred commands
  (`Deferring`). The three invariants were also explored with both for
  the instance of `connection` (2.7 million states).
- *`Capacity` = 5, `MaxLength` = 16*: the connection holds less than a header, and a
  length read from a stray byte may be right, too short or too long. The payloads
  include an empty one, one with an odd length whose bytes look like a header, one that
  is a whole packet nobody sends, checksum included, and one that is too long.
  `BackupTimeout` = 2 is the least with a tick in between; `MaxReconnects` = 2 has a
  half packet left of a connection that itself began with one.
- *`MaxAsks`, `MaxSwitches`, `MaxUnasked`.* Two packets of a client are a request and
  one that disturbs it, a stop or an answer that comes in between; two changes of mode
  let one happen during the other's broadcast. For the forwarder three packets are an
  asker, a requester and one who asks after them; with two unasked packets instead of
  one the properties hold as well (5.6 million states). Its `Periods`, 0 and 100
  milliseconds, have a shorter and a longer one.

Deadlock is checked where nothing may stop: ServerModes, ServerIdle, TeleopDrive. In
ServerIdle the step `Ended` lets a server that was closed, or a program that crashed, come
to rest; an open one always has a step of its own. Deadlock is
off in ServerLocks (`Aria::exit` ends the program, and the circular wait is stated as
a property), ClientConnection (programs may end, and attempts are bounded),
PacketStream (all packets have arrived), ServerRequests (a crash ends the program) and
CentralForwarder (all clients may have left).

### Fairness

- ServerModes: `WF(ModeUserTask)`. The robot's cycle calls it every 100 ms
  (`ArServerMode`'s constructor adds it as a user task). Commands are not fair.
- ServerIdle: weak fairness of each thread's loop, and of the end of a visit.
  `readData` reads as long as data arrives, so the last assumes that no client sends
  faster than the server reads; the code does not enforce it. The liveness properties are
  about a server that stays open.
- TeleopDrive (`RatioInputObeyed` only): weak fairness of the driver's loop, the
  network thread, the end of the step-back controller (its loop is bounded by a
  counter), the robot's cycle and time.
- ClientConnection: weak fairness of the clients' loops, of their reads unless these are
  within a header (`PromptRead`), and of time. The server is not fair, since `AttemptsEnd`
  must hold against one that hangs. Its premise is `HeadersComplete`, that of a packet
  that has begun the rest of the header comes or the connection is seen to end;
  `ClientConnectionStalls.cfg` shows what happens without it. `SessionsEnd` has two premises:
  `ServerRuns`, that the server's loop runs, its own reads included, and `DeferredServed`,
  that the slow/idle thread gets to every flagged session, which for idle commands is so
  only if the robot rests some day. No datagram need arrive.
- PacketStream: the owners of both ends call `readData` and `sendData` again and
  again, and time goes on. The network may break the connection, the receiver may die,
  and neither is fair.
- ServerRequests: the network thread goes on with its round, and who broadcasts with
  that. Clients, the robot's changes and intervals are not fair.

## Proofs

Every invariant that a run checks, and every action property and refinement, is also
proved for all values of the constants; one of them, `UdpGoesToItsClient`, under a
hypothesis, named below.
The theorems are at the end of each section of the `_proofs` modules and in
`PROJECT.json`.

`ServerModes_proofs.tla` proves, for every constant that satisfies
`ModesAssumption`, that the conjunction `Inv` of six invariants is inductive, and
from it the single invariants and four action properties. No conjunct is inductive
alone: a mode that takes a vacant robot is not in the list only because nobody waits
for a vacant robot (`NobodyWaitsForVacantRobot`); the broadcast is right after a
hand-over only because a lock has a holder (`LockHasHolder`); the mode in control is
the only active one because the list never holds it (`QueueSound`). The lemmas
follow the structure of the code: what erasing and pushing do to a list of distinct
modes, then one lemma for each way an activation or a deactivation ends, then one
step for each operation. `WaitersAnswered` follows each mode that waits through every
nesting of activations: it is still in the list, was activated or was denied.

`ServerIdle_proofs.tla` proves that the walks over the client list are safe. `SlowWalk`
and `NetWalk` say that both threads walk clients of the list only; they are kept because
the lists change only while nobody is inside `myProcessingSlowIdleMutex`, and because a
client is marked for removal only from the list. Both hold while the server is open:
`close()` changes the list whatever the threads do, but only once `opened` is no longer
true. The refinement, on the other hand, holds of closed servers too; it needs to know
only that the flags are Booleans (`PendingKnown`): each step of the threads is a step of
the arbitration or changes nothing but `idlePending`. Through it the invariants that
ServerModes_proofs proves are carried over to the threads (`ThreadsKeepModesSound`).

`TeleopDrive_proofs.tla` proves that the limiters follow safe driving, from the
strengthening that the remembered change (`newSafe`) is never pending while the ratio
mode is active. The two watchdogs take a longer chain each. For the server's, `Aging`
bounds the activity time from below by the silence of the clients, a tick late, unless
the timeout has stopped the robot (`Standing`); `TimedOutOnce` says that `myLastTimedOut`
is never up when the next timeout comes. For the hands', `HandsInv` follows the zero on
its way, a station per tick: the driver notices that nobody sends velocities, lets go of
the ratio, the wire holds nothing but zeros, the ratio mode's ratios are gone, the robot
is told to stand still.

`ClientConnection_proofs.tla` proves `VerdictsAgree` for any number of clients,
sessions and keys, repeated keys and broken connections included. A client takes its
verdict from a packet that may be old by then, so the inductive invariant adds
`VerdictsSent`: a packet that carries a verdict agrees with it for as long as it is
under way. The steps have two shapes, those of a client and those of the server
or the network, each with its lemma; what a packet queue can say after `Tail`, a cut or
an append are three more. `UdpGoesToItsClient` needs that no two accepted sessions share
a key, which the code leaves to chance: its theorem assumes `~KeysRepeat` (the
assumption is satisfied by the runs, and the property is false without it). `TcpOnlyTold`
needs no such assumption; its strengthening `Told` holds from the introduction on.

`CentralForwarder_proofs.tla` proves, for any clients and intervals and any number of
packets, the types and all four invariants. `RobotFollowsWishes` needs more than the
state after the robot has read everything: `WishesOnTheirWay` says that the last
change among the packets under way serves the clients' wishes already. That every new
wish gives such a change rests on a lemma about `Frequency`, which is a wish and the
most demanding one (the library's well-founded induction gives the least interval).
`NobodyWaitsInVain` and `AnswersReachAskers` count: as many wait as questions and last
parts of answers are under way, and each of these finds its asker behind those that are
served before it (`InStep`), whether the asker is still there or has left a gap.

`ServerRequests_proofs.tla` proves its types, in particular that no client's list of
requests names a command twice, and its three invariants. `Stacked` says what is on the
stacks of commands at every moment; `Casting` that a broadcast is under way only while
the mode is changed; `Knowing` that whoever requested the mode's news has them, will get
them from the broadcast or from the answer it waits for, or was overtaken.

`PacketStream_proofs.tla` places every byte. The bytes between sender and receiver run
through a path of places, each a packet's number and how much of it has gone by
(`Path`): no packet beyond the last one sent, never back, a packet that has begun is
gone through, and each byte is the packet's at its place. `InSync` says that such a path
leads from where the receiver is (`Reads`) to where the sender is (`Writes`). A read
moves along the path, a write or a new connection makes it longer or a new one. So
each packet handed on is the next that was sent and is carried, which is the step of
`PacketChannel`. That invariant speaks of connections that began between packets
(`~ragged`); on one that begins within a packet only the checksum, sixteen bits, keeps
stray bytes from being taken for a packet, and for some payloads it does not. There the
channel promises no order, and the proof needs only that a step appends one packet, or a
stray one, to what was handed on (`FirstMoves`). What remains is the way back: a
connection that begins between packets after a ragged one must be in step again, which
`NotAhead` gives: the packet the channel has next is never after the first one that the
sender has yet to finish, ragged or not. So `StreamIsChannel` and `StreamIsTyped`
need no hypothesis, nor do `BackedUpMeansDead` and `ReceiverKeepsToItsBuffer`: whatever is
taken for a header, no more is read than the buffer holds.

`ServerLocks_proofs.tla` proves that the one circular wait is the only one, for any
number of further threads. The mutexes have ranks (`Rank`): the slow/idle thread's, the
robot's, the exit callbacks', the clients', and last those held only for a moment. `Fits`
says that a plan can be followed: there is what the thread would hold before each of its
steps, such that it waits only for mutexes above all it holds, or already its own, or
for the robot while it serves UDP. Fitting plans can be put together (`FitsConcat`,
`FitsHold`, `FitsTryHold`), so one lemma each shows that the plans of every section fit;
the inductive invariant is that what each thread holds fits the rest of its plan. A
circle of waiting threads would then climb through the ranks for ever. The same
invariant says that only the slow/idle thread waits for its mutex, which is all it holds
while it works.

The assumptions the proofs rest on are the named ones in the modules
(`ModesAssumption`, `StreamAssumption` and so on), which TLC evaluates in the runs.
`StreamAssumption` has fewer than 65536 payloads and a limit of packets of at most
32000 bytes, which is `ArNetPacket::MAX_LENGTH`.

Only model-checked: liveness (`RobotComesBack`, `DeferredPacketsServed`,
`IdleStateBroadcast`, `AttemptsEnd`, `SessionsEnd`, `EverythingArrives`, `BackedUpCloses`,
`DueRequestsServed`), which is out of the prover's reach.

## Not modelled

The vendored library is far larger than the chain above. Left out for good: device
drivers, maps, geometry, configuration parsing, camera and sound, status strings,
md5 and the conversion of numbers and strings to packet data. Left for later modules:
see the plan. In the modelled parts:

- ServerModes: the busy flag and the mode-data map, which nothing reads to decide
  anything; the joystick's hardware.
- Server and sessions: user permissions and passwords beyond accept or reject, packet
  tracking and its statistics, client identifiers, the timer that broadcasts lists,
  connections that reverse their direction. Closing the server is in ServerIdle and, as one
  step, in ClientConnection, but not in ServerRequests. What a thread that
  `disconnect()` left within a header does when the same client connects again is not
  modelled: `Start` waits for it.
- The driver: units of `cmd_vel`, and the handlers of what comes back (laser, odometry
  with its filter, GPS, encoders). They publish and command nothing.
- serverDemo3: the answers of the laser and GPS requests.
- Packets by UDP: a datagram is a packet or is dropped.
- Central server: connecting to the robot, heartbeats, `ArCentralManager`'s list of
  robots, the reconnection machine of `ArClientSwitchManager`.
- File transfer, map changes and configuration over the network.

## Plan

Done: arbitration with proofs (ServerModes), the server's threads composed with it
(ServerIdle), driving from driver to wheels (TeleopDrive), lock order (ServerLocks),
sessions (ClientConnection), packets and their refinement (PacketStream), requests
(ServerRequests), the forwarder (CentralForwarder); and the proofs of all their
invariants, action properties and refinements.

Next:

1. Proofs: the types of ServerIdle, TeleopDrive and ClientConnection as theorems of
   their own.
2. An abstract specification of the arbitration, "the robot has at most one holder and
   every request is answered", refined by ServerModes; first with TLC, then proved.
3. The switch manager's reconnection against `ArCentralManager`'s list of robots.
4. The odometry filter of `handleRangeData`.
5. File transfer between `ArClientFileUtils` and `ArServerFileUtils`.
