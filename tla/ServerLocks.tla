------------------------------ MODULE ServerLocks ------------------------------
(***************************************************************************)
(* The mutexes of the robot server and the order its threads take them in.  *)
(*                                                                         *)
(* The network thread (ArServerBase::loopOnce) takes the mutexes of the      *)
(* client lists, and the functors of commands take the robot's; the robot's  *)
(* thread broadcasts with the robot locked; the slow/idle thread works under *)
(* myProcessingSlowIdleMutex; and any thread may call Aria::exit, whose       *)
(* callbacks close the server.                                             *)
(*                                                                         *)
(* What a thread still has to do in a pass of its loop is a sequence of steps *)
(* on mutexes.  ArMutex is recursive (ArMutex_LIN.cpp:58): its owner may lock *)
(* it again, and lets go with the last unlock.                             *)
(***************************************************************************)
EXTENDS Naturals, Sequences

CONSTANTS
    NoThread,   \* the owner of a free mutex
    AppThreads  \* the program's other threads

Threads == {"net", "robot", "slow"} \cup AppThreads
Mutexes == {"robot", "clients", "data", "addList", "removeSet", "processing",
            "exitCallbacks"}

ASSUME LocksAssumption ==
    NoThread \notin Threads /\ AppThreads \cap {"net", "robot", "slow"} = {}

VARIABLES
    owner,    \* [Mutexes -> Threads or NoThread]
    depth,    \* [Mutexes -> Nat], locks minus unlocks of the owner
    plan,     \* [Threads -> Seq(step)], the rest of the thread's pass
    section,  \* where the network thread is in loopOnce
    opened,   \* myOpened
    exiting   \* the thread that runs the exit callbacks, or NoThread

vars == <<owner, depth, plan, section, opened, exiting>>

----------------------------------------------------------------------------
(* Steps and the passes that are made of them *)

Step(what, m, n) == [do |-> what, mutex |-> m, skip |-> n]
LockStep(m) == Step("lock", m, 0)
UnlockStep(m) == Step("unlock", m, 0)
Work == Step("work", "processing", 0)   \* a functor that takes long
Exit == Step("exit", "exitCallbacks", 0)
Close == Step("close", "clients", 0)
Die == Step("die", "exitCallbacks", 0)

Hold(m, body) == <<LockStep(m)>> \o body \o <<UnlockStep(m)>>

\* tryLock() == 0, else past what it guards.
TryHold(m, body) ==
    <<Step("try", m, Len(body) + 1)>> \o body \o <<UnlockStep(m)>>

\* broadcastPacketTcp: the command's number first, then the clients.
Broadcast == Hold("data", <<>>) \o Hold("clients", <<>>)

\* What the functor of a command does that is executed at once: nothing to
\* lock; the robot's state or motion; a mode, which is broadcast; a broadcast;
\* laserRequest of a server without a laser.
Commands == {<<>>, Hold("robot", <<>>), Hold("robot", Broadcast), Broadcast,
             Hold("robot", <<Exit>>)}

MarkForRemoval == Hold("removeSet", <<>>)

\* Fault: the lists first, then the slow/idle thread's mutex, as a lock.
RemoveClientsOutsideIn ==
    Hold("clients", Hold("processing", Hold("removeSet", <<>>)))

\* Fault: waits for the slow/idle thread instead of trying again next time.
AddClientsWaiting == Hold("processing", Hold("clients", Hold("addList", <<>>)))

AddClients == TryHold("processing", Hold("clients", Hold("addList", <<>>)))
RemoveClients == TryHold("processing", Hold("clients", Hold("removeSet", <<>>)))

Sections == <<"opened", "accept", "udp", "add", "idle", "tcp", "remove", "requests">>

\* What loopOnce may do in each of its sections.
SectionPlans(s) ==
    CASE s = "opened" -> {Hold("data", <<>>)}
      [] s = "accept" -> {<<>>, Hold("clients", <<>>) \o Hold("addList", <<>>)}
      [] s = "udp" -> {<<>>} \cup {Hold("clients", c) : c \in Commands}
      [] s = "add" -> {AddClients}
      [] s = "idle" -> {<<>>, Broadcast}
      [] s = "tcp" -> Commands \cup {MarkForRemoval}
      [] s = "remove" -> {RemoveClients}
      [] s = "requests" -> Commands

\* A cycle of the robot: a packet's handlers, sensors and user tasks with the
\* robot locked; the user tasks broadcast modes and strings; the escape key.
RobotPlans == {Hold("robot", <<>>), Hold("robot", Broadcast), Hold("robot", <<Exit>>)}

\* A client of slowIdleCallback: its deferred commands, or its removal.
SlowPlans == {Hold("processing", <<Work>>), Hold("processing", <<Work>> \o Broadcast),
              Hold("processing", MarkForRemoval)}

\* Other threads: closeConnectionID, the lock of a program, a broadcast, exit.
AppPlans == {Hold("clients", MarkForRemoval), Hold("robot", <<>>), Broadcast, <<Exit>>}

\* callExitCallbacks() with the server's close(); then ::exit().
ExitPlan ==
    Hold("exitCallbacks", Hold("clients", <<Close>>) \o Hold("data", <<>>)) \o <<Die>>

----------------------------------------------------------------------------
Init ==
    /\ owner = [m \in Mutexes |-> NoThread]
    /\ depth = [m \in Mutexes |-> 0]
    /\ plan = [t \in Threads |-> <<>>]
    /\ section = 1 /\ opened = TRUE /\ exiting = NoThread

Doing(t, what) == plan[t] # <<>> /\ Head(plan[t]).do = what
Wanted(t) == Head(plan[t]).mutex
Free(t, m) == owner[m] \in {NoThread, t}
Continue(t) == plan' = [plan EXCEPT ![t] = Tail(@)]

\* A thread begins its next pass; the network thread its next section.  Once
\* the server is closed loopOnce returns after its first.
Begin(t, plans) == plan[t] = <<>> /\ \E p \in plans : plan' = [plan EXCEPT ![t] = p]

NetBegin ==
    /\ Begin("net", SectionPlans(Sections[section]))
    /\ section' = IF Sections[section] = "opened" /\ ~opened THEN 1
                  ELSE (section % Len(Sections)) + 1
    /\ UNCHANGED <<owner, depth, opened, exiting>>

OtherBegin ==
    /\ \/ Begin("robot", RobotPlans) \/ Begin("slow", SlowPlans)
       \/ \E t \in AppThreads : Begin(t, AppPlans)
    /\ UNCHANGED <<owner, depth, section, opened, exiting>>

Acquire(t, m) ==
    /\ owner' = [owner EXCEPT ![m] = t]
    /\ depth' = [depth EXCEPT ![m] = @ + 1]

LockMutex(t) ==
    /\ Doing(t, "lock") /\ Free(t, Wanted(t))
    /\ Acquire(t, Wanted(t)) /\ Continue(t)
    /\ UNCHANGED <<section, opened, exiting>>

TryLock(t) ==
    /\ Doing(t, "try")
    /\ \/ Free(t, Wanted(t)) /\ Acquire(t, Wanted(t)) /\ Continue(t)
       \/ /\ ~Free(t, Wanted(t))
          /\ plan' = [plan EXCEPT ![t] = SubSeq(@, Head(@).skip + 2, Len(@))]
          /\ UNCHANGED <<owner, depth>>
    /\ UNCHANGED <<section, opened, exiting>>

Unlock(t) ==
    /\ Doing(t, "unlock") /\ owner[Wanted(t)] = t
    /\ depth' = [depth EXCEPT ![Wanted(t)] = @ - 1]
    /\ owner' = [owner EXCEPT ![Wanted(t)] = IF depth'[Wanted(t)] = 0 THEN NoThread ELSE t]
    /\ Continue(t)
    /\ UNCHANGED <<section, opened, exiting>>

\* A functor ends, or the server is closed.
WorkDone(t) ==
    /\ Doing(t, "work") /\ Continue(t)
    /\ UNCHANGED <<owner, depth, section, opened, exiting>>

CloseServer(t) ==
    /\ Doing(t, "close") /\ Continue(t)
    /\ opened' = FALSE
    /\ UNCHANGED <<owner, depth, section, exiting>>

\* Aria::exit: only the first call does anything, and it does not return.
AriaExit(t) ==
    /\ Doing(t, "exit")
    /\ \/ exiting = NoThread /\ exiting' = t /\ plan' = [plan EXCEPT ![t] = ExitPlan]
       \/ exiting # NoThread /\ Continue(t) /\ UNCHANGED exiting
    /\ UNCHANGED <<owner, depth, section, opened>>

Running == ~\E t \in Threads : Doing(t, "die")

Next ==
    /\ Running
    /\ \/ NetBegin \/ OtherBegin
       \/ \E t \in Threads :
            \/ LockMutex(t) \/ TryLock(t) \/ Unlock(t)
            \/ WorkDone(t) \/ CloseServer(t) \/ AriaExit(t)

Spec == Init /\ [][Next]_vars

----------------------------------------------------------------------------
(* Properties *)

Blocked(t) == Doing(t, "lock") /\ ~Free(t, Wanted(t))
Blocker(t) == owner[Wanted(t)]

\* Threads that wait for each other for ever.
Circular(S) == S # {} /\ \A t \in S : Blocked(t) /\ Blocker(t) \in S

\* The network thread hands a UDP packet to its client with the list locked.
ServingUdp == owner["clients"] = "net" /\ Wanted("net") = "robot"

\* The only way for threads to wait for each other for ever is a command that
\* arrives by UDP and locks the robot, while the robot's thread broadcasts.
CircularWaitNeedsUdp ==
    \A S \in SUBSET Threads : Circular(S) => "net" \in S /\ ServingUdp

\* t waits for u, for a thread that waits for u, and so on.
WaitsFor(t, u) ==
    \E S \in SUBSET Threads :
        /\ t \in S /\ u \notin S
        /\ \A s \in S : Blocked(s) /\ Blocker(s) \in S \cup {u}
        /\ \E s \in S : Blocker(s) = u

\* A slow command under way holds up nobody: neither the network thread nor
\* the robot's waits, through whatever other threads, for the slow/idle thread.
SlowWorkStallsNobody ==
    Doing("slow", "work") => \A t \in Threads \ {"slow"} : ~WaitsFor(t, "slow")

\* Aria.cpp:305: "the exit callbacks MUST exit and cannot wait for a lock".
ExitNeverWaits == exiting # NoThread => ~Blocked(exiting)
=============================================================================
