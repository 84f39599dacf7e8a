--------------------------- MODULE ServerIdle_proofs ---------------------------
(***************************************************************************)
(* Machine-checked proofs about ServerIdle: for any number of clients,      *)
(* deferred packets and callbacks, the threads that walk the list of clients *)
(* do not get in each other's way, no callback is forgotten, and what the    *)
(* threads do with the modes is what ServerModes allows.                    *)
(***************************************************************************)
EXTENDS ServerIdle, FiniteSetTheorems, TLAPS

----------------------------------------------------------------------------
(* The invariants *)

\* As long as the server is open, the slow/idle thread walks clients of the list only.
SlowWalk ==
    opened =>
      /\ slowPc \in {"visit", "pop", "run", "clear"} => slowTodo \subseteq clients
      /\ slowPc \in {"pop", "run", "clear"} => slowClient \in clients

\* So does the network thread.
NetWalk ==
    opened =>
      /\ netPc \in {"tcp", "visit", "store"} => netTodo \subseteq clients
      /\ netPc \in {"visit", "store"} => netClient \in clients

\* Who has yet to connect is in no list and is visited by nobody, closed or not.
NewcomersNew ==
    /\ newcomers \cap (clients \cup addList \cup removeSet \cup netTodo) = {}
    /\ netPc \in {"visit", "store"} => netClient \notin newcomers

\* Clients are deleted by close() only once the server is not open any more.
ClosingClosed == closing => ~opened

\* A callback that waits is known to wait.
CallbacksFlagged == callbacks \in Nat /\ (callbacks > 0 => haveCallbacks)

ListInv ==
    SlowWalk /\ NetWalk /\ NewcomersNew /\ ClosingClosed /\ OnlyTheGoneAreDeleted

----------------------------------------------------------------------------
(* Clients and their lists *)

LEMMA ListInit == Init => ListInv
BY DEF Init, ListInv, SlowWalk, NetWalk, NewcomersNew, ClosingClosed,
       OnlyTheGoneAreDeleted

\* Steps that leave the lists and both walks alone.
LEMMA ListUnchanged ==
    ASSUME ListInv,
           UNCHANGED <<listVars, connected, netVars, slowVars, opened, closing>>
    PROVE  ListInv'
BY DEF ListInv, SlowWalk, NetWalk, NewcomersNew, ClosingClosed, OnlyTheGoneAreDeleted,
       listVars, netVars, slowVars

\* What a step of the network thread does to the lists: the slow/idle thread's walk
\* survives because both lists are changed only while it holds no mutex.
LEMMA NetKeepsLists ==
    ASSUME ListInv, Net
    PROVE  ListInv'
<1> USE DEF listVars, netVars, slowVars, clientVars, closeVars, ListInv, SlowWalk,
            NetWalk, NewcomersNew, ClosingClosed, OnlyTheGoneAreDeleted
<1>0. UNCHANGED closeVars
  BY DEF Net
<1>10. CASE NetLoop
  BY <1>0, <1>10 DEF NetLoop
<1>1. CASE NetAccept
  BY <1>0, <1>1 DEF NetAccept, Processing
<1>2. ASSUME NEW c \in Clients, NetConnect(c)
      PROVE  ListInv'
  BY <1>0, <1>2 DEF NetConnect
<1>3. ASSUME NEW c \in Clients, NetVisit(c)
      PROVE  ListInv'
  BY <1>0, <1>3 DEF NetVisit
<1>4. CASE NetServe
  BY <1>0, <1>4 DEF NetServe
<1>5. ASSUME NEW k \in Kinds, NetFlag(k)
      PROVE  ListInv'
  BY <1>0, <1>5 DEF NetFlag
<1>6. CASE NetStore
  BY <1>0, <1>6 DEF NetStore
<1>7. CASE NetVisitEnds
  <2>1. CASE NetVisited
    BY <1>0, <1>7, <2>1 DEF NetVisited, Alive
  <2>2. CASE NetShutdown
    BY <1>0, <1>7, <2>2 DEF NetShutdown, Alive
  <2>3. CASE NetGone
    BY <1>0, <1>7, <2>3 DEF NetGone, Alive, Dead
  <2> QED BY <1>7, <2>1, <2>2, <2>3 DEF NetVisitEnds
<1>8. CASE NetPublish
  BY <1>0, <1>8 DEF NetPublish
<1>9. CASE NetRemove
  BY <1>0, <1>9 DEF NetRemove, DeleteMarked, Processing
<1> QED BY <1>10, <1>1, <1>2, <1>3, <1>4, <1>5, <1>6, <1>7, <1>8, <1>9
        DEF Net, NetPublishDuringTask

LEMMA SlowKeepsLists ==
    ASSUME ListInv, Slow
    PROVE  ListInv'
<1> USE DEF SlowSteps, listVars, netVars, closeVars, ListInv, SlowWalk, NetWalk,
            NewcomersNew, ClosingClosed, OnlyTheGoneAreDeleted
<1>0. UNCHANGED closeVars
  BY DEF Slow
<1>1. CASE SlowBegin
  BY <1>0, <1>1 DEF SlowBegin
<1>2. CASE SlowVisitsDone
  BY <1>0, <1>2 DEF SlowVisitsDone
<1>3. CASE SlowPop
  BY <1>0, <1>3 DEF SlowPop
<1>4. CASE SlowRun
  BY <1>0, <1>4 DEF SlowRun
<1>5. CASE SlowClear
  BY <1>0, <1>5 DEF SlowClear
<1>6. CASE SlowCheck
  BY <1>0, <1>6 DEF SlowCheck
<1>7. CASE SlowCallback
  BY <1>0, <1>7 DEF SlowCallback
<1>8. ASSUME NEW c \in Clients, SlowVisit(c)
      PROVE  ListInv'
  BY <1>0, <1>8 DEF SlowVisit
<1> QED BY <1>1, <1>2, <1>3, <1>4, <1>5, <1>6, <1>7, <1>8 DEF Slow

\* Closing deletes clients while the threads are among them, but the server is then no
\* longer open.
LEMMA CloseKeepsLists ==
    ASSUME ListInv, Close
    PROVE  ListInv'
<1> USE DEF CloseSteps, netVars, slowVars, ListInv, SlowWalk, NetWalk, NewcomersNew,
            ClosingClosed, OnlyTheGoneAreDeleted
<1>1. CASE CloseBegin
  <2>1. newcomers' \subseteq newcomers /\ ~opened'
    BY <1>1 DEF CloseBegin
  <2>2. netPc' \in {"visit", "store"} => netPc' = netPc
    BY <1>1 DEF CloseBegin
  <2> QED BY <1>1, <2>1, <2>2 DEF CloseBegin
<1>2. ASSUME NEW c \in Clients, CloseDelete(c)
      PROVE  ListInv'
  BY <1>2 DEF CloseDelete
<1>3. CASE CloseDone
  BY <1>3 DEF CloseDone
<1> QED BY <1>1, <1>2, <1>3 DEF Close

LEMMA ListStep == ListInv /\ [Next]_vars => ListInv'
<1> SUFFICES ASSUME ListInv, [Next]_vars
             PROVE  ListInv'
  OBVIOUS
<1>1. CASE Net
  BY <1>1, NetKeepsLists
<1>2. CASE Slow
  BY <1>2, SlowKeepsLists
<1>3. CASE Close
  BY <1>3, CloseKeepsLists
<1>4. CASE \/ RobotTask \/ RobotHalts \/ TimePasses \/ AddIdleCallback
           \/ Crash \/ UNCHANGED vars
  <2>1. UNCHANGED <<listVars, connected, netVars, slowVars, opened, closing>>
    BY <1>4 DEF RobotTask, RobotHalts, TimePasses, RobotSteps, AddIdleCallback, Crash,
       vars, clientVars, closeVars
  <2> QED BY <2>1, ListUnchanged
<1> QED BY <1>1, <1>2, <1>3, <1>4 DEF Next, Ended

LEMMA ListInvHolds == Spec => []ListInv
<1> QED BY ListInit, ListStep, PTL DEF Spec

\* As long as the server is open, the slow/idle thread never works for a client that
\* loopOnce has deleted, though it walks the list without the list's mutex.
THEOREM SlowWorksForTheLiving == Spec => []SlowClientsAlive
<1>1. ListInv => SlowClientsAlive
  BY DEF ListInv, SlowWalk, SlowClientsAlive
<1> QED BY <1>1, ListInvHolds, PTL

\* A client whose connection stands is neither marked for removal nor lost from the
\* lists, whichever of tcpCallback's paths it took; and as long as the server is open,
\* who is marked is still to be deleted.
THEOREM NobodyIsLost == Spec => []OnlyTheGoneAreDeleted
<1>1. ListInv => OnlyTheGoneAreDeleted
  BY DEF ListInv
<1> QED BY <1>1, ListInvHolds, PTL

----------------------------------------------------------------------------
(* Callbacks *)

LEMMA CallbacksStep == CallbacksFlagged /\ [Next]_vars => CallbacksFlagged'
<1> SUFFICES ASSUME CallbacksFlagged, [Next]_vars
             PROVE  CallbacksFlagged'
  OBVIOUS
<1>1. CASE SlowCallback
  BY <1>1 DEF SlowCallback, CallbacksFlagged
<1>2. CASE AddIdleCallback
  BY <1>2 DEF AddIdleCallback, CallbacksFlagged
<1>3. CASE Slow /\ ~SlowCallback
  <2>1. UNCHANGED <<callbacks, haveCallbacks>>
    BY <1>3 DEF Slow, SlowBegin, SlowVisitsDone, SlowPop, SlowRun, SlowClear, SlowCheck,
       SlowVisit
  <2> QED BY <2>1 DEF CallbacksFlagged
<1>4. CASE Net
  <2>1. CASE NetPublish
    BY <2>1 DEF NetPublish, CallbacksFlagged
  <2>2. CASE NetVisitEnds
    BY <2>2 DEF NetVisitEnds, NetVisited, NetShutdown, NetGone, pendingVars,
       CallbacksFlagged
  <2>3. CASE Net /\ ~NetPublish /\ ~NetVisitEnds
    <3>1. UNCHANGED pendingVars
      BY <2>3 DEF Net, NetLoop, NetAccept, NetConnect, NetVisit, NetServe, NetFlag,
         NetStore, NetPublishDuringTask, NetRemove
    <3> QED BY <3>1 DEF pendingVars, CallbacksFlagged
  <2> QED BY <1>4, <2>1, <2>2, <2>3
<1>5. CASE RobotTask \/ RobotHalts \/ TimePasses \/ Close \/ Crash \/ UNCHANGED vars
  <2>1. UNCHANGED pendingVars
    BY <1>5 DEF RobotTask, RobotHalts, TimePasses, RobotSteps, Close, CloseBegin,
       CloseDelete, CloseDone, CloseSteps, Crash, vars
  <2> QED BY <2>1 DEF pendingVars, CallbacksFlagged
<1> QED BY <1>1, <1>2, <1>3, <1>4, <1>5 DEF Next, Ended

\* As long as a single-shot callback waits, the server reports pending idle work
\* (addIdleSingleShotCallback, slowIdleCallback).
THEOREM CallbacksAreReported == Spec => []CallbacksReported
<1>1. Init => CallbacksFlagged
  <2> SUFFICES ASSUME Init
               PROVE  CallbacksFlagged
    OBVIOUS
  <2>1. callbacks \in 0 .. MaxEarly
    BY DEF Init
  <2>2. haveCallbacks = (callbacks > 0)
    BY DEF Init
  <2>3. callbacks > 0 => haveCallbacks
    BY <2>2, Zenon
  <2>4. callbacks \in Nat
    BY <2>1, IdleAssumption
  <2> QED BY <2>3, <2>4 DEF CallbacksFlagged
<1>2. CallbacksFlagged => CallbacksReported
  BY DEF CallbacksFlagged, CallbacksReported, idleProcessingPending
<1> QED BY <1>1, <1>2, CallbacksStep, PTL DEF Spec

----------------------------------------------------------------------------
(* What the threads do is what the arbitration allows *)

\* The four names of modes differ.
LEMMA FourModes ==
    /\ Stop # Idle /\ Ratio # Idle /\ Stop # Ratio
    /\ NoMode \notin {Stop, Ratio, Idle}
<1>1. ASSUME NEW a, NEW b, NEW c
      PROVE  Cardinality({a, b, c}) # 4
  <2>1. IsFiniteSet({a}) /\ Cardinality({a}) = 1
    BY FS_Singleton
  <2>2. IsFiniteSet({a, b}) /\ Cardinality({a, b}) <= 2
    <3>1. {a, b} = {a} \cup {b}
      OBVIOUS
    <3> QED BY <2>1, <3>1, FS_AddElement
  <2>3. {a, b, c} = {a, b} \cup {c}
    OBVIOUS
  <2>4. Cardinality({a, b}) \in Nat
    BY <2>2, FS_CardinalityType
  <2>5. \/ Cardinality({a, b, c}) = Cardinality({a, b})
        \/ Cardinality({a, b, c}) = Cardinality({a, b}) + 1
    BY <2>2, <2>3, FS_AddElement
  <2> QED BY <2>2, <2>4, <2>5
<1>2. Cardinality({Stop, Ratio, Idle, NoMode}) = 4
  BY IdleAssumption
<1>3. ASSUME NEW a, NEW b, NEW c
      PROVE  {Stop, Ratio, Idle, NoMode} # {a, b, c}
  BY <1>1, <1>2
<1> QED BY <1>3

\* What a thread that changes the pending flags without touching the modes does to
\* idleProcessingPending() is a change of idle work, or none.
PendingKnown == have \in [Kinds -> BOOLEAN] /\ haveCallbacks \in BOOLEAN

LEMMA PendingOnly ==
    ASSUME PendingKnown, PendingKnown', UNCHANGED modeVars
    PROVE  Arbiter!IdleWorkChanges \/ UNCHANGED Arbiter!vars
<1>1. idleProcessingPending \in BOOLEAN /\ idleProcessingPending' \in BOOLEAN
  BY DEF PendingKnown, idleProcessingPending, Kinds
<1>2. CASE idleProcessingPending' = idleProcessingPending
  BY <1>2 DEF modeVars, Arbiter!vars, Arbiter!arbiterVars, Arbiter!callbackVars
<1>3. CASE idleProcessingPending' = ~idleProcessingPending
  BY <1>3 DEF modeVars, Arbiter!IdleWorkChanges, Arbiter!arbiterVars,
     Arbiter!callbackVars
<1> QED BY <1>1, <1>2, <1>3

LEMMA PendingStep == PendingKnown /\ [Next]_vars => PendingKnown'
<1> SUFFICES ASSUME PendingKnown, [Next]_vars
             PROVE  PendingKnown'
  OBVIOUS
<1>1. CASE SlowCallback
  BY <1>1 DEF SlowCallback, SlowSteps, PendingKnown
<1>2. CASE AddIdleCallback
  BY <1>2 DEF AddIdleCallback, PendingKnown
<1>3. CASE NetPublish
  BY <1>3 DEF NetPublish, PendingKnown
<1>4. CASE Next /\ ~SlowCallback /\ ~AddIdleCallback /\ ~NetPublish
  <2>1. CASE Net
    <3>1. UNCHANGED pendingVars
      BY <1>4, <2>1 DEF Net, NetLoop, NetAccept, NetConnect, NetVisit, NetServe, NetFlag,
         NetStore, NetPublishDuringTask, NetRemove, NetVisitEnds, NetVisited,
         NetShutdown, NetGone
    <3> QED BY <3>1 DEF pendingVars, PendingKnown
  <2>2. CASE Slow
    <3>1. UNCHANGED <<have, haveCallbacks>>
      BY <1>4, <2>2 DEF Slow, SlowBegin, SlowVisitsDone, SlowPop, SlowRun, SlowClear,
         SlowCheck, SlowVisit, SlowSteps
    <3> QED BY <3>1 DEF PendingKnown
  <2>3. CASE RobotTask \/ RobotHalts \/ TimePasses \/ Close \/ Crash
    <3>1. UNCHANGED pendingVars
      BY <2>3 DEF RobotTask, RobotHalts, TimePasses, RobotSteps, Close, CloseBegin,
         CloseDelete, CloseDone, CloseSteps, Crash
    <3> QED BY <3>1 DEF pendingVars, PendingKnown
  <2>4. CASE Ended
    BY <2>4 DEF Ended, vars, pendingVars, PendingKnown
  <2> QED BY <1>4, <2>1, <2>2, <2>3, <2>4 DEF Next
<1>5. CASE UNCHANGED vars
  BY <1>5 DEF vars, pendingVars, PendingKnown
<1> QED BY <1>1, <1>2, <1>3, <1>4, <1>5

\* A command of a client asks for its mode, or finds it active.
LEMMA CommandsAreRequests ==
    ASSUME UNCHANGED pendingVars, DriveCommand \/ StopCommand
    PROVE  Arbiter!Next \/ UNCHANGED Arbiter!vars
<1>1. UNCHANGED idleProcessingPending
  BY DEF pendingVars, idleProcessingPending
<1>2. CASE UNCHANGED modeVars
  BY <1>1, <1>2 DEF modeVars, Arbiter!vars, Arbiter!arbiterVars, Arbiter!callbackVars
<1>3. CASE \E m \in {Stop, Ratio} : Arbiter!Activate(m) /\ UNCHANGED defaultMode
  <2>1. PICK m \in {Stop, Ratio} : Arbiter!Activate(m) /\ UNCHANGED defaultMode
    BY <1>3
  <2>2. Arbiter!Request(m)
    BY <1>1, <2>1 DEF Arbiter!Request
  <2>3. m \in {Stop, Ratio, Idle} \ {Idle}
    BY FourModes
  <2> QED BY <2>2, <2>3 DEF Arbiter!Next
<1> QED BY <1>2, <1>3 DEF DriveCommand, StopCommand

LEMMA StepsAreArbitration ==
    PendingKnown /\ [Next]_vars => [Arbiter!Next]_(Arbiter!vars)
<1> SUFFICES ASSUME PendingKnown, [Next]_vars
             PROVE  Arbiter!Next \/ UNCHANGED Arbiter!vars
  OBVIOUS
<1>1. PendingKnown'
  BY PendingStep
<1>2. CASE UNCHANGED modeVars
  BY <1>1, <1>2, PendingOnly DEF Arbiter!Next
<1>3. CASE NetServe
  BY <1>3, CommandsAreRequests DEF NetServe
<1>4. CASE RobotTask
  BY <1>4 DEF RobotTask, Arbiter!Next
<1>5. CASE NetPublishDuringTask
  BY <1>5 DEF NetPublishDuringTask, Arbiter!Next, Arbiter!ModeUserTask
<1>6. CASE Net /\ ~NetServe /\ ~NetPublishDuringTask
  <2>1. UNCHANGED modeVars
    BY <1>6 DEF Net, NetLoop, NetAccept, NetConnect, NetVisit, NetFlag, NetStore,
       NetRemove, NetVisitEnds, NetVisited, NetShutdown, NetGone
  <2> QED BY <1>2, <2>1
<1>7. CASE Slow
  <2>1. UNCHANGED modeVars
    BY <1>7 DEF Slow, SlowBegin, SlowVisitsDone, SlowPop, SlowRun, SlowClear, SlowCheck,
       SlowVisit, SlowCallback, SlowSteps
  <2> QED BY <1>2, <2>1
<1>8. CASE \/ RobotHalts \/ TimePasses \/ AddIdleCallback \/ Close \/ Crash
           \/ UNCHANGED vars
  <2>1. UNCHANGED modeVars
    BY <1>8 DEF RobotHalts, TimePasses, AddIdleCallback, Close, CloseBegin, CloseDelete,
       CloseDone, CloseSteps, Crash, vars
  <2> QED BY <1>2, <2>1
<1> QED BY <1>3, <1>4, <1>5, <1>6, <1>7, <1>8 DEF Next, Ended

\* The network thread, the slow/idle thread and the robot's thread together implement
\* the arbitration of ServerModes, with the pending flag as they compute it: for any
\* number of clients and of deferred packets.
THEOREM ThreadsImplementArbiter == Spec => ImplementsArbiter
<1>1. Init => Arbiter!Init
  BY DEF Init
<1>2. Init => PendingKnown
  <2>1. Init => have \in [Kinds -> BOOLEAN]
    BY DEF Init
  <2>2. Init => haveCallbacks = (callbacks > 0)
    BY DEF Init
  <2>3. (callbacks > 0) \in BOOLEAN
    OBVIOUS
  <2>4. Init => haveCallbacks \in BOOLEAN
    BY <2>2, <2>3, Zenon
  <2> QED BY <2>1, <2>4 DEF PendingKnown
<1>3. PendingKnown /\ [Next]_vars => [Arbiter!Next]_(Arbiter!vars)
  BY StepsAreArbitration
<1> QED BY <1>1, <1>2, <1>3, PendingStep, PTL DEF Spec, ImplementsArbiter, Arbiter!Spec

\* Proved is Arbiter with the theorems of ServerModes_proofs: what is proved of the
\* arbitration holds of the threads.
Proved == INSTANCE ServerModes_proofs WITH
            Modes <- {Stop, Ratio, Idle}, Defaults <- {Stop},
            Guarded <- {Stop, Ratio, Idle}, Joystick <- {},
            idlePending <- idleProcessingPending

ModesSound ==
    /\ Arbiter!OneModeInControl /\ Arbiter!LockHasHolder /\ Arbiter!QueueSound
    /\ Arbiter!NobodyWaitsForVacantRobot /\ Arbiter!ClientsInformed

LEMMA ThreadsImplementProved == Spec => Proved!Spec
<1>1. Arbiter!Init => Proved!Init
  BY DEF Arbiter!Init, Proved!Init, Arbiter!Info, Proved!Info
<1>2. [Arbiter!Next]_(Arbiter!vars) => [Proved!Next]_(Proved!vars)
  BY DEF Arbiter!Next, Proved!Next, Arbiter!Request, Proved!Request,
         Arbiter!Finish, Proved!Finish, Arbiter!Activate, Proved!Activate,
         Arbiter!AlreadyActive, Proved!AlreadyActive, Arbiter!NothingHappens,
         Proved!NothingHappens, Arbiter!RefusedByLock, Proved!RefusedByLock,
         Arbiter!LockedOut, Proved!LockedOut, Arbiter!Unblocked,
         Proved!Unblocked, Arbiter!DroppedByIdle, Proved!DroppedByIdle,
         Arbiter!IdleTakesOver, Proved!IdleTakesOver, Arbiter!Granted,
         Proved!Granted, Arbiter!BecomeActive, Proved!BecomeActive,
         Arbiter!LockAfterRelease, Proved!LockAfterRelease,
         Arbiter!WillUnlockAfterRelease, Proved!WillUnlockAfterRelease,
         Arbiter!AfterHandover, Proved!AfterHandover, Arbiter!Without,
         Proved!Without, Arbiter!Pushed, Proved!Pushed, Arbiter!Info,
         Proved!Info, Arbiter!Leave, Proved!Leave, Arbiter!Candidate,
         Proved!Candidate, Arbiter!NobodyFollows, Proved!NobodyFollows,
         Arbiter!IdleFollows, Proved!IdleFollows, Arbiter!CandidateFollows,
         Proved!CandidateFollows, Arbiter!UnlockMode, Proved!UnlockMode,
         Arbiter!LockMode, Proved!LockMode, Arbiter!JoystickOverride,
         Proved!JoystickOverride, Arbiter!AddAsDefaultMode,
         Proved!AddAsDefaultMode, Arbiter!ModeUserTask, Proved!ModeUserTask,
         Arbiter!IdleUserTask, Proved!IdleUserTask, Arbiter!DefaultUserTask,
         Proved!DefaultUserTask, Arbiter!IdleWorkChanges,
         Proved!IdleWorkChanges, Arbiter!arbiterVars, Proved!arbiterVars,
         Arbiter!callbackVars, Proved!callbackVars, Arbiter!vars, Proved!vars,
         Arbiter!ToSet, Proved!ToSet, Arbiter!RemoveAt, Proved!RemoveAt
<1> QED BY <1>1, <1>2, ThreadsImplementArbiter, PTL
        DEF ImplementsArbiter, Arbiter!Spec, Proved!Spec

\* Although the three threads change the pending flags in the midst of it, one mode is in
\* control at a time, a lock has a holder, the list of requests is sound and empty while
\* the robot is free, and the clients know the mode (ArServerMode.cpp under
\* ArServerBase.cpp's threads).
THEOREM ThreadsKeepModesSound == Spec => []ModesSound
<1>1. Proved!ModesAssumption
  BY FourModes DEF Proved!ModesAssumption
<1>2. /\ Proved!Spec => []Proved!OneModeInControl
      /\ Proved!Spec => []Proved!LockHasHolder
      /\ Proved!Spec => []Proved!QueueSound
      /\ Proved!Spec => []Proved!NobodyWaitsForVacantRobot
      /\ Proved!Spec => []Proved!ClientsInformed
  BY <1>1, Proved!ModeExclusion, Proved!LockOwnership, Proved!QueueWellFormed,
     Proved!VacantRobotHasNoQueue, Proved!ClientsKnowTheMode
<1>3. /\ Proved!OneModeInControl /\ Proved!LockHasHolder /\ Proved!QueueSound
      /\ Proved!NobodyWaitsForVacantRobot /\ Proved!ClientsInformed
      => ModesSound
  BY DEF Proved!OneModeInControl, Arbiter!OneModeInControl, Proved!LockHasHolder,
     Arbiter!LockHasHolder, Proved!QueueSound, Arbiter!QueueSound,
     Proved!NobodyWaitsForVacantRobot, Arbiter!NobodyWaitsForVacantRobot,
     Proved!ClientsInformed, Arbiter!ClientsInformed, Proved!Info, Arbiter!Info,
     ModesSound
<1> QED BY <1>2, <1>3, ThreadsImplementProved, PTL
=============================================================================
