------------------------------ MODULE ServerModes ------------------------------
(***************************************************************************)
(* The arbitration of the robot between server modes                       *)
(* (Aria/ArNetworking/src/ArServerMode.cpp and the modes serverDemo3        *)
(* creates: stop, ratio drive, wander and the built-in idle mode).          *)
(*                                                                         *)
(* Every operation below runs with the robot locked: commands of clients   *)
(* in the server's network thread, user tasks in the robot's thread.  So    *)
(* an operation is one step, with everything it calls.  Only the server's   *)
(* idle-processing flag is written by threads that do not hold that lock.   *)
(***************************************************************************)
EXTENDS Naturals, SequencesExt

CONSTANTS
    Modes,        \* the server modes of the process
    Idle,         \* ourIdleMode
    NoMode,       \* the NULL mode pointer
    Defaults,     \* modes the program adds to ourDefaultModes
    Guarded,      \* modes whose activate() returns at once when already active
    Joystick      \* modes a local joystick may force in (joyUserTask)

ASSUME ModesAssumption ==
    /\ NoMode \notin Modes
    /\ Idle \in Modes \cap Guarded
    /\ Guarded \subseteq Modes
    /\ Joystick \subseteq Guarded \ {Idle}
    /\ Defaults \subseteq Modes \ {Idle}

VARIABLES
    activeMode,      \* ourActiveMode
    lastActiveMode,  \* ourLastActiveMode
    locked,          \* ourActiveModeLocked
    willUnlock,      \* ourActiveModeWillUnlockIfRequested
    requested,       \* ourRequestedActivateModes, its front first
    isActive,        \* myIsActive of every mode
    interrupted,     \* myModeInterrupted of the idle mode
    running,         \* modes whose actions are active on the robot
    broadcast,       \* the ourBroadcast* copies: what clients were told last
    idlePending,     \* ArServerBase::idleProcessingPending()
    defaultMode,     \* head of ourDefaultModes, NoMode while the list is empty
    started,         \* modes whose activate callbacks the last operation ran
    denied           \* modes whose activationDenied() the last operation ran

arbiterVars == <<activeMode, lastActiveMode, locked, willUnlock, requested,
                 isActive, interrupted, running, broadcast>>
callbackVars == <<started, denied>>
vars == <<arbiterVars, callbackVars, idlePending, defaultMode>>

Info(m, l, w) == [mode |-> m, locked |-> l, willUnlock |-> w]

----------------------------------------------------------------------------
(* The list of requested modes *)

\* std::list::remove.  The list never holds a mode twice (QueueSound), so
\* there is at most one element to erase.
Without(s, m) ==
    IF \E i \in 1 .. Len(s) : s[i] = m
    THEN RemoveAt(s, CHOOSE i \in 1 .. Len(s) : s[i] = m)
    ELSE s

\* Fault: the request is added to the list without being looked for in it.
PushedTwice(s, m) == <<m>> \o s

\* remove(m) and push_front(m): the latest request is tried first.
Pushed(s, m) == <<m>> \o Without(s, m)

----------------------------------------------------------------------------
(* What baseActivate and baseDeactivate do to the shared state *)

\* What baseDeactivate of the active mode leaves in the list when another
\* mode is already chosen to follow it.
AfterHandover(next) ==
    IF activeMode = NoMode THEN requested ELSE Without(requested, next)

\* Fault: the lock is handed to the next mode.
LockKept == locked

\* baseDeactivate unlocks a locked active mode.
LockAfterRelease == locked /\ activeMode = NoMode
WillUnlockAfterRelease == willUnlock /\ ~(locked /\ activeMode # NoMode)

\* Fault: the mode that was in control is not deactivated.
BecomeActiveToo(m) ==
    /\ activeMode' = m
    /\ lastActiveMode' = NoMode
    /\ isActive' = [isActive EXCEPT ![m] = TRUE]
    /\ locked' = LockAfterRelease
    /\ willUnlock' = WillUnlockAfterRelease
    /\ running' = {m}
    /\ broadcast' = Info(m, LockAfterRelease, WillUnlockAfterRelease)
    /\ started' = {m}

\* Fault: the clients are told before the old mode has given up its lock.
BecomeActiveToldEarly(m) ==
    /\ activeMode' = m
    /\ lastActiveMode' = NoMode
    /\ isActive' = [n \in Modes |->
                      n = m \/ (n # activeMode /\ isActive[n])]
    /\ locked' = LockAfterRelease
    /\ willUnlock' = WillUnlockAfterRelease
    /\ running' = {m}
    /\ broadcast' = Info(m, locked, willUnlock)
    /\ started' = {m}

\* The tail of baseActivate, from the deactivation of the mode in control to
\* the broadcast, with the activateExclusive of the mode's action group.
\* The last active mode is read after that deactivation has cleared it.
BecomeActive(m) ==
    /\ activeMode' = m
    /\ lastActiveMode' = NoMode
    /\ isActive' = [n \in Modes |->
                      n = m \/ (n # activeMode /\ isActive[n])]
    /\ locked' = LockAfterRelease
    /\ willUnlock' = WillUnlockAfterRelease
    /\ running' = {m}
    /\ broadcast' = Info(m, LockAfterRelease, WillUnlockAfterRelease)
    /\ started' = {m}

NothingHappens ==
    UNCHANGED arbiterVars /\ started' = {} /\ denied' = {}

----------------------------------------------------------------------------
(* m.activate(): the five ways it can end *)

LockedOut(m) == locked /\ activeMode \notin {NoMode, m}

\* if (isActive()) return;
AlreadyActive(m) ==
    m \in Guarded /\ isActive[m] /\ NothingHappens

\* The lock stands: the mode queues itself and asks for an unlock, which the
\* modes of this server ignore.
RefusedByLock(m) ==
    /\ LockedOut(m)
    /\ requested' = Pushed(requested, m)
    /\ interrupted' = IF m = Idle THEN NoMode ELSE interrupted
    /\ started' = {} /\ denied' = {}
    /\ UNCHANGED <<activeMode, lastActiveMode, locked, willUnlock, isActive,
                   running, broadcast>>

\* Idle processing is under way: the request is neither queued nor denied.
DroppedByIdle(m) ==
    m # Idle /\ idlePending /\ activeMode = Idle /\ NothingHappens

\* Fault: the interrupted mode is queued, not the one that was asked for.
IdleTakesOverForInterrupted(m) ==
    /\ m # Idle /\ idlePending /\ activeMode # Idle
    /\ interrupted' = IF activeMode = NoMode THEN interrupted ELSE activeMode
    /\ requested' = Pushed(AfterHandover(Idle), activeMode)
    /\ denied' = {}
    /\ BecomeActive(Idle)

\* Idle processing is pending: the idle mode takes the robot in m's place.
IdleTakesOver(m) ==
    /\ m # Idle /\ idlePending /\ activeMode # Idle
    /\ interrupted' = IF activeMode = NoMode THEN interrupted ELSE activeMode
    /\ requested' = Pushed(AfterHandover(Idle), m)
    /\ denied' = {}
    /\ BecomeActive(Idle)

\* Fault: pending idle processing is not looked at.
GrantedAnyway(m) ==
    /\ requested' = AfterHandover(m)
    /\ denied' = {}
    /\ BecomeActive(m)
    /\ UNCHANGED interrupted

Granted(m) ==
    /\ m = Idle \/ ~idlePending
    /\ requested' = AfterHandover(m)
    /\ denied' = {}
    /\ BecomeActive(m)
    /\ UNCHANGED interrupted

Unblocked(m) == DroppedByIdle(m) \/ IdleTakesOver(m) \/ Granted(m)

\* Fault: the lock may be passed over.
ActivateDespiteLock(m) ==
    \/ AlreadyActive(m)
    \/ /\ ~(m \in Guarded /\ isActive[m])
       /\ RefusedByLock(m) \/ Unblocked(m)

Activate(m) ==
    \/ AlreadyActive(m)
    \/ /\ ~(m \in Guarded /\ isActive[m])
       /\ \/ RefusedByLock(m)
          \/ ~LockedOut(m) /\ Unblocked(m)

----------------------------------------------------------------------------
(* deactivate() of the mode in control, with no mode chosen to follow it *)

\* Fault: the oldest request is tried first.
CandidateOldest == IF requested # <<>> THEN Last(requested) ELSE defaultMode

\* Fault: only the default mode is tried.
CandidateDefault == defaultMode

\* The mode that baseDeactivate tries: the latest request, else the default.
Candidate == IF requested # <<>> THEN Head(requested) ELSE defaultMode

\* Nobody wants the robot.  Dropping the lock is broadcast, leaving is not.
NobodyFollows ==
    /\ Candidate = NoMode
    /\ activeMode' = NoMode
    /\ lastActiveMode' = activeMode
    /\ isActive' = [isActive EXCEPT ![activeMode] = FALSE]
    /\ locked' = LockAfterRelease
    /\ willUnlock' = WillUnlockAfterRelease
    /\ running' = running \ {activeMode}
    /\ broadcast' = IF locked THEN Info(activeMode, FALSE, FALSE)
                    ELSE broadcast
    /\ started' = {} /\ denied' = {}
    /\ UNCHANGED <<requested, interrupted>>

\* The candidate finds idle processing pending: idle is activated instead and
\* the list stays, the candidate at its front.
IdleFollows ==
    /\ Candidate # NoMode
    /\ requested' = Pushed(requested, Candidate)
    /\ denied' = {}
    /\ BecomeActive(Idle)
    /\ UNCHANGED interrupted

\* Fault: the modes behind the candidate are forgotten and not told.
CandidateFollowsSilently ==
    /\ Candidate # NoMode
    /\ requested' = <<>>
    /\ denied' = {}
    /\ BecomeActive(Candidate)
    /\ UNCHANGED interrupted

\* The candidate activates; the modes behind it are denied and forgotten.
CandidateFollows ==
    /\ Candidate # NoMode
    /\ requested' = <<>>
    /\ denied' = IF requested = <<>> THEN {} ELSE ToSet(Tail(requested))
    /\ BecomeActive(Candidate)
    /\ UNCHANGED interrupted

\* pending: what the candidate's baseActivate reads.
Leave(pending) ==
    \/ NobodyFollows
    \/ pending /\ IdleFollows
    \/ ~pending /\ CandidateFollows

----------------------------------------------------------------------------
(* Operations *)

Init ==
    /\ activeMode = NoMode /\ lastActiveMode = NoMode
    /\ locked = FALSE /\ willUnlock = FALSE
    /\ requested = <<>>
    /\ isActive = [m \in Modes |-> FALSE]
    /\ interrupted = NoMode
    /\ running = {}
    /\ broadcast = Info(NoMode, FALSE, FALSE)
    /\ idlePending \in BOOLEAN
    /\ defaultMode \in Defaults \cup {NoMode}
    /\ started = {} /\ denied = {}

\* A client's stop, wander or ratioDrive command, or the program's own
\* modeStop.activate() at start-up.
Request(m) == Activate(m) /\ UNCHANGED <<idlePending, defaultMode>>

\* The mode's code ends its own activity.
Finish(m) ==
    /\ activeMode = m /\ m # Idle
    /\ Leave(idlePending)
    /\ UNCHANGED <<idlePending, defaultMode>>

\* Fault: idle ends only if it interrupted a mode, as if to resume it.
IdleUserTaskToResume ==
    /\ activeMode = Idle /\ ~idlePending /\ interrupted # NoMode
    /\ \E pending \in BOOLEAN : Leave(pending) /\ idlePending' = pending
    /\ UNCHANGED defaultMode

\* modeUserTask while idle is in control: it leaves once nothing is pending.
\* The next mode's baseActivate reads the flag a second time, and the server's
\* threads may have set it in between.
IdleUserTask ==
    /\ activeMode = Idle /\ ~idlePending
    /\ \E pending \in BOOLEAN : Leave(pending) /\ idlePending' = pending
    /\ UNCHANGED defaultMode

\* modeUserTask while no mode is in control.
DefaultUserTask ==
    /\ activeMode = NoMode /\ defaultMode # NoMode
    /\ Activate(defaultMode)
    /\ UNCHANGED <<idlePending, defaultMode>>

ModeUserTask == IdleUserTask \/ DefaultUserTask

LockMode(m, will) ==
    /\ activeMode = m /\ isActive[m] /\ m # Idle
    /\ locked' = TRUE /\ willUnlock' = will
    /\ broadcast' = Info(m, TRUE, will)
    /\ started' = {} /\ denied' = {}
    /\ UNCHANGED <<activeMode, lastActiveMode, requested, isActive, interrupted,
                   running, idlePending, defaultMode>>

UnlockMode(m) ==
    /\ activeMode = m /\ isActive[m]
    /\ locked' = FALSE /\ willUnlock' = FALSE
    /\ broadcast' = Info(m, FALSE, FALSE)
    /\ started' = {} /\ denied' = {}
    /\ UNCHANGED <<activeMode, lastActiveMode, requested, isActive, interrupted,
                   running, idlePending, defaultMode>>

\* joyUserTask: the robot's joystick breaks another mode's lock (forceUnlock),
\* then activates its own mode.  Without a lock it is an ordinary Request.
JoystickOverride(m) ==
    /\ ~isActive[m] /\ LockedOut(m)
    /\ Unblocked(m)
    /\ UNCHANGED <<idlePending, defaultMode>>

\* The server's threads find, or finish, work for when the robot is idle.
IdleWorkChanges ==
    /\ idlePending' = ~idlePending
    /\ UNCHANGED <<arbiterVars, callbackVars, defaultMode>>

\* addAsDefaultMode: in front of those added before, or behind them; the first counts.
AddAsDefaultMode(m) ==
    /\ defaultMode' = m \/ (defaultMode # NoMode /\ UNCHANGED defaultMode)
    /\ UNCHANGED <<arbiterVars, callbackVars, idlePending>>

Next ==
    \/ \E m \in Modes \ {Idle} : Request(m) \/ Finish(m) \/ UnlockMode(m)
    \/ \E m \in Modes \ {Idle}, will \in BOOLEAN : LockMode(m, will)
    \/ \E m \in Joystick : JoystickOverride(m)
    \/ \E m \in Defaults : AddAsDefaultMode(m)
    \/ ModeUserTask
    \/ IdleWorkChanges

Spec == Init /\ [][Next]_vars

\* The robot's cycle calls modeUserTask again and again (ArSyncLoop).
FairSpec == Spec /\ WF_vars(ModeUserTask)

----------------------------------------------------------------------------
(* Invariants *)

TypeOK ==
    /\ activeMode \in Modes \cup {NoMode}
    /\ lastActiveMode \in Modes \cup {NoMode}
    /\ interrupted \in Modes \cup {NoMode}
    /\ locked \in BOOLEAN /\ willUnlock \in BOOLEAN
    /\ idlePending \in BOOLEAN
    /\ defaultMode \in (Modes \cup {NoMode}) \ {Idle}
    /\ requested \in Seq(Modes)
    /\ isActive \in [Modes -> BOOLEAN]
    /\ running \in SUBSET Modes
    /\ started \in SUBSET Modes
    /\ denied \in SUBSET Modes
    /\ broadcast \in [mode : Modes \cup {NoMode},
                      locked : BOOLEAN, willUnlock : BOOLEAN]

\* "Only one mode can control the robot at once" (ArServerMode.h): the flags of
\* the modes, the mode pointer and the actions left running on the robot agree
\* after every operation, however the switches nested.
OneModeInControl ==
    /\ \A m \in Modes : isActive[m] <=> activeMode = m
    /\ running = {activeMode} \ {NoMode}

\* A lock never outlives the mode that took it, and idle is never locked in:
\* otherwise baseActivate would refuse everybody for ever.
LockHasHolder ==
    /\ locked => activeMode \notin {NoMode, Idle}
    /\ willUnlock => locked

\* The list of requests holds no mode twice, never idle (which is not asked
\* for) and never the mode in control (which would follow itself).
QueueSound ==
    /\ \A i, j \in 1 .. Len(requested) :
           requested[i] = requested[j] => i = j
    /\ \A i \in 1 .. Len(requested) : requested[i] \notin {Idle, activeMode}

\* No mode waits for a robot that nobody holds.
NobodyWaitsForVacantRobot == activeMode = NoMode => requested = <<>>

\* While a mode is in control, the mode, lock and will-unlock values last
\* broadcast to the clients are the actual ones (checkBroadcastModeInfoPacket
\* is called on some paths only, and nested deactivations change all three).
ClientsInformed ==
    activeMode # NoMode => broadcast = Info(activeMode, locked, willUnlock)

----------------------------------------------------------------------------
(* What a step may never do *)

\* A mode locked in keeps the robot and the lock until it ends, unlocks or is
\* asked for again (a wander that starts anew drops its lock, and may find idle
\* processing pending), or the joystick forces its way.  No command for another
\* mode, no idle processing and no default mode gets past the lock.
LockedInUntilItEnds ==
    [][locked /\ (activeMode' # activeMode \/ ~locked')
         => \/ Finish(activeMode) \/ UnlockMode(activeMode) \/ Request(activeMode)
            \/ \E m \in Joystick : JoystickOverride(m)]_vars

\* A waiting mode leaves the list only by being activated or by being told
\* that it was denied.
WaitersAnswered ==
    [][\A m \in ToSet(requested) :
         m \in ToSet(requested') \cup started' \cup denied']_vars

\* Whoever gains the robot: it is the idle mode exactly when idle processing is
\* pending at that moment, so no other mode starts over pending idle work.
IdleGate ==
    [][activeMode' \notin {activeMode, NoMode}
         => (activeMode' = Idle <=> idlePending')]_vars

\* When the idle mode ends by itself, the latest of the requests it held back
\* gets the robot, and no older one stays behind in the list.
LatestRequestFollowsIdle ==
    [][IdleUserTask /\ activeMode' # Idle /\ requested # <<>>
         => activeMode' = Head(requested) /\ requested' = <<>>]_vars

\* ArServerMode.h:79 on activationDenied(): "The function called if the mode is
\* not activated because another mode superceded it."  A command that finds
\* another mode kept in control is queued, or told that it is denied.
RefusalAnswered ==
    [][\A m \in Modes \ {Idle} :
         Request(m) => m \in {activeMode'} \cup ToSet(requested') \cup denied'
      ]_vars

----------------------------------------------------------------------------
(* What must happen *)

\* Once the idle work is over for good, the idle mode gives the robot back; and with
\* a default mode the robot does not stay without a mode.
RobotComesBack ==
    /\ <>[](~idlePending) => <>[](activeMode # Idle)
    /\ <>(defaultMode # NoMode) => <>[](activeMode # NoMode)
=============================================================================
