------------------------------- MODULE TeleopDrive -------------------------------
(***************************************************************************)
(* From a person's hands to the wheels: the ROS driver node               *)
(* (src/ariaClientDriver.cpp), the connection, the commands of serverDemo3   *)
(* with the ratio drive mode (ArServerModeRatioDrive.cpp), and the robot's   *)
(* cycle (ArRobot.cpp), which lets direct motion go before actions.          *)
(*                                                                         *)
(* Three loops run at about 10 Hz: the driver's main loop, the server's      *)
(* network thread and the robot's cycle.  Time advances by ticks in which    *)
(* each of them has run at least once, so bounds on time can be stated.      *)
(* One axis of motion is kept, at rest or moving; the robot reaches what it  *)
(* is told sooner or later.                                                *)
(***************************************************************************)
EXTENDS Naturals, Sequences

CONSTANTS
    Stale,         \* ticks in the second after which the driver lets go
    Timeout,       \* ticks in the two seconds of the ratio mode's Timeout
    MaxWire,       \* bound: commands on the wire
    NoVel          \* TRANS_NONE: no direct motion, actions may go

ASSUME TeleopAssumption ==
    /\ Stale \in Nat \ {0} /\ Timeout \in Nat /\ Timeout > Stale
    /\ MaxWire \in Nat \ {0}
    /\ NoVel \notin {0, 1}

Levels == {0, 1}        \* no speed, full speed

VARIABLES
    \* the driver
    alive, ratio, twistAge, enabled,
    \* the connection
    linkUp, wire,
    \* the server's modes
    mode,          \* "stop" or "ratioDrive"
    ratios,        \* myTransRatio of the ratio mode
    fired,         \* the ratio its action last used
    safe,          \* myDriveSafely
    newSafe,       \* myNewDriveSafely
    limiters,      \* the limiters of the ratio group are active
    activity,      \* ticks since the ratio mode's activity time
    gotCommand,    \* myGotServerCommand
    lastTimedOut,  \* myLastTimedOut
    stepping,      \* the network thread is inside moveStepRequest
    \* the robot
    directVel,     \* NoVel or myTransVal
    commanded,     \* the velocity last sent to the robot is not zero
    moving,        \* the velocity the robot last reported is not zero
    \* time
    driverRan, robotRan,
    watched,       \* whose silence is timed: "hands" or "server"
    silence        \* ticks since a person's input, or since a command served

driverVars == <<alive, ratio, twistAge, enabled>>
linkVars == <<linkUp, wire>>
modeVars == <<mode, ratios, fired, safe, newSafe, limiters, activity>>
taskVars == <<gotCommand, lastTimedOut>>
motionVars == <<commanded, moving>>
ranVars == <<driverRan, robotRan>>
vars == <<driverVars, linkVars, modeVars, taskVars, stepping, directVel,
          motionVars, ranVars, watched, silence>>

\* The driver sends once more before it lets go, and each loop may miss a tick.
HandsOff == Stale + 4

\* Ages are counted up to the largest any guard or property asks for.
Horizon == IF watched = "hands" THEN HandsOff ELSE Timeout + 2
Older(n, top) == IF n < top THEN n + 1 ELSE top

RatioDriveCommand(v) == [name |-> "ratioDrive", value |-> v]
SetVelCommand(v) == [name |-> "SetVelRequest", value |-> v]
SafeDriveCommand(b) == [name |-> "setSafeDrive", value |-> IF b THEN 1 ELSE 0]
MoveStepCommand == [name |-> "MoveStepRequest", value |-> 1]

Init ==
    /\ alive = TRUE /\ ratio = 0 /\ twistAge = Stale + 1 /\ enabled = FALSE
    /\ linkUp = TRUE /\ wire = <<SafeDriveCommand(TRUE)>>
    /\ mode = "stop" /\ ratios = 0 /\ fired = 0
    /\ safe = TRUE /\ newSafe = FALSE /\ limiters = FALSE /\ activity = 0
    /\ gotCommand = TRUE /\ lastTimedOut = FALSE /\ stepping = FALSE
    /\ directVel = NoVel
    /\ commanded = FALSE /\ moving = FALSE
    /\ driverRan = FALSE /\ robotRan = FALSE
    /\ watched \in {"hands", "server"} /\ silence = 0

----------------------------------------------------------------------------
(* The driver node: one thread, its callbacks run between two sendInput *)

Send(command) == Len(wire) < MaxWire /\ wire' = Append(wire, command)

Heard(who) ==
    /\ silence' = IF watched = who THEN 0 ELSE silence
    /\ UNCHANGED watched

Handled ==
    /\ Heard("hands")
    /\ UNCHANGED <<linkUp, modeVars, taskVars, stepping, directVel, motionVars,
                   ranVars>>

\* An arrow key: only the ratio changes (to 100, full speed), not the time of
\* the last command.
UpKey ==
    /\ alive /\ ratio' = 1
    /\ UNCHANGED <<alive, twistAge, enabled, wire>> /\ Handled

\* cmd_vel_ratio
TopicCallBack3(v) ==
    /\ alive /\ ratio' = v /\ twistAge' = 0
    /\ UNCHANGED <<alive, enabled, wire>> /\ Handled

\* cmd_vel: straight to the wire, if direct motion is enabled.
TopicCallBack2(v) ==
    /\ alive /\ enabled
    /\ Send(SetVelCommand(v))
    /\ UNCHANGED driverVars /\ Handled

\* direct_enable
TopicCallBack4(b) ==
    /\ alive /\ enabled' = b
    /\ UNCHANGED <<alive, ratio, twistAge, wire>> /\ Handled

\* Keys s, u and o.
SafeDriveKey(b) ==
    /\ alive /\ Send(SafeDriveCommand(b))
    /\ UNCHANGED driverVars /\ Handled

StepBackKey ==
    /\ alive /\ Send(MoveStepCommand)
    /\ UNCHANGED driverVars /\ Handled

\* Fault: the ratios are kept until the next message.
SendInputKeeping ==
    /\ alive
    /\ Send(RatioDriveCommand(ratio))
    /\ driverRan' = TRUE
    /\ UNCHANGED <<driverVars, linkUp, modeVars, taskVars, stepping, directVel,
                   motionVars, robotRan, watched, silence>>

\* The ratios are sent first and let go of afterwards.
SendInput ==
    /\ alive
    /\ Send(RatioDriveCommand(ratio))
    /\ ratio' = IF twistAge > Stale THEN 0 ELSE ratio
    /\ driverRan' = TRUE
    /\ UNCHANGED <<alive, twistAge, enabled, linkUp, modeVars, taskVars, stepping,
                   directVel, motionVars, robotRan, watched, silence>>

\* The node ends or is killed; what it sent is still on the wire.
DriverDies ==
    /\ alive /\ alive' = FALSE
    /\ UNCHANGED <<ratio, twistAge, enabled, linkVars, modeVars, taskVars, stepping,
                   directVel, motionVars, ranVars, watched, silence>>

\* The link may stall when the server's silence is timed; what is said of hands
\* that let go supposes a working one.
LinkStalls ==
    /\ watched = "server" /\ linkUp' = ~linkUp
    /\ UNCHANGED <<driverVars, wire, modeVars, taskVars, stepping, directVel,
                   motionVars, ranVars, watched, silence>>

----------------------------------------------------------------------------
(* The server: ArRobot's direct motion and the ratio mode *)

\* stop() and clearDirectMotion(): the velocity commands of zero go out at once.
Halt == directVel' = NoVel /\ commanded' = FALSE

\* Fault: only a change noted earlier, while another mode was active, counts.
RatioDriveActiveLater(b, v, changed) ==
    /\ ratios' = v /\ activity' = 0
    /\ newSafe' = FALSE
    /\ IF newSafe
       THEN /\ limiters' = b /\ fired' = 0
            /\ directVel' = NoVel /\ UNCHANGED commanded
       ELSE UNCHANGED <<limiters, fired, directVel, commanded>>

\* ratioDrive() of the active mode.  A change of safe driving regroups the
\* actions, which resets the ratio action and clears direct motion.
RatioDriveActive(b, v, changed) ==
    /\ ratios' = v /\ activity' = 0
    /\ newSafe' = FALSE
    /\ IF changed
       THEN /\ limiters' = b /\ fired' = 0
            /\ directVel' = NoVel /\ UNCHANGED commanded
       ELSE UNCHANGED <<limiters, fired, directVel, commanded>>

\* serverRatioDrive while another mode is active: activate() and its
\* baseActivate, which halts the robot, then the ratios of the command.
RatioDriveActivates(v) ==
    /\ Halt
    /\ ratios' = v /\ activity' = 0
    /\ newSafe' = FALSE /\ limiters' = safe /\ fired' = 0

ServeRatioDrive(v) ==
    /\ gotCommand' = TRUE
    /\ mode' = "ratioDrive"
    /\ \/ mode = "ratioDrive" /\ RatioDriveActive(safe, v, newSafe)
       \/ mode # "ratioDrive" /\ RatioDriveActivates(v)
    /\ UNCHANGED <<safe, lastTimedOut, stepping>>

\* setSafeDriving: an active mode drives on with the ratios last used.
ServeSafeDrive(b) ==
    /\ safe' = b
    /\ \/ /\ mode = "ratioDrive"
          /\ RatioDriveActive(b, fired, newSafe \/ b # safe)
       \/ /\ mode # "ratioDrive"
          /\ newSafe' = (newSafe \/ b # safe)
          /\ UNCHANGED <<ratios, activity, limiters, fired, directVel, commanded>>
    /\ UNCHANGED <<mode, taskVars, stepping>>

\* setVelRequest: the robot's setVel, whatever mode has the robot.
ServeSetVel(v) ==
    /\ directVel' = v
    /\ UNCHANGED <<modeVars, taskVars, stepping, commanded>>

\* moveStepRequest begins: the network thread stays in it for many seconds.
ServeMoveStep ==
    /\ directVel' = 0 /\ stepping' = TRUE
    /\ UNCHANGED <<modeVars, taskVars, commanded>>

NetServe ==
    /\ ~stepping /\ linkUp /\ wire # <<>>
    /\ wire' = Tail(wire) /\ Heard("server")
    /\ LET c == Head(wire) IN
       \/ c.name = "ratioDrive" /\ ServeRatioDrive(c.value)
       \/ c.name = "setSafeDrive" /\ ServeSafeDrive(c.value = 1)
       \/ c.name = "SetVelRequest" /\ ServeSetVel(c.value)
       \/ c.name = "MoveStepRequest" /\ ServeMoveStep
    /\ UNCHANGED <<driverVars, linkUp, moving, ranVars>>

\* The controller's loop sets the velocity ten times a second.
StepDrive ==
    /\ stepping /\ directVel' = 1 /\ silence' = 0
    /\ UNCHANGED <<driverVars, linkVars, modeVars, taskVars, stepping,
                   motionVars, ranVars, watched>>

StepEnd ==
    /\ stepping /\ stepping' = FALSE
    /\ directVel' = 0 /\ silence' = 0
    /\ UNCHANGED <<driverVars, linkVars, modeVars, taskVars, motionVars, ranVars,
                   watched>>

\* netStop for another client: a stop mode that is active does nothing.
NetStop ==
    /\ ~stepping
    /\ mode' = "stop" /\ Heard("server")
    /\ IF mode = "stop" THEN UNCHANGED <<limiters, fired, directVel, commanded>>
                        ELSE limiters' = FALSE /\ fired' = 0 /\ Halt
    /\ UNCHANGED <<driverVars, linkVars, ratios, safe, newSafe, activity, taskVars,
                   stepping, moving, ranVars>>

----------------------------------------------------------------------------
(* The robot's cycle: packet handler, action handler, state reflector and the
   active mode's user task, with the robot locked *)

\* Direct motion goes before the actions.  Only the ratio mode's want to move.
Reflected ==
    IF directVel # NoVel THEN directVel = 1 ELSE mode = "ratioDrive" /\ ratios > 0

\* Fault: direct motion is left alone.
TimedOutActions(age, reported) == reported /\ age >= Timeout /\ directVel = NoVel

\* userTask of the ratio mode: moving, and no activity for the timeout.
TimedOut(age, reported) == reported /\ age >= Timeout

RobotCycle ==
    /\ moving' \in {moving, commanded}
    /\ robotRan' = TRUE
    /\ fired' = IF mode = "ratioDrive" THEN ratios ELSE fired
    /\ LET age == IF gotCommand THEN 0 ELSE activity
           timedOut == TimedOut(age, moving')
       IN IF mode = "ratioDrive"
          THEN /\ gotCommand' = FALSE
               /\ lastTimedOut' = timedOut
               /\ IF timedOut /\ ~lastTimedOut
                  THEN Halt /\ ratios' = 0 /\ activity' = 0
                  ELSE /\ commanded' = Reflected /\ activity' = age
                       /\ UNCHANGED <<directVel, ratios>>
          ELSE /\ commanded' = Reflected
               /\ UNCHANGED <<directVel, ratios, activity, taskVars>>
    /\ UNCHANGED <<driverVars, linkVars, mode, safe, newSafe, limiters, stepping,
                   driverRan, watched, silence>>

----------------------------------------------------------------------------
\* A tick passes when every loop has run: the driver's unless its socket is
\* full, the network thread's unless it is stuck, and the robot's.
Tick ==
    /\ alive => driverRan \/ Len(wire) = MaxWire
    /\ robotRan
    /\ linkUp /\ ~stepping => wire = <<>>
    /\ driverRan' = FALSE /\ robotRan' = FALSE
    /\ twistAge' = Older(twistAge, Stale + 1)
    /\ activity' = Older(activity, Timeout)
    /\ silence' = Older(silence, Horizon)
    /\ UNCHANGED <<alive, ratio, enabled, linkVars, mode, ratios, fired, safe, newSafe,
                   limiters, taskVars, stepping, directVel, motionVars, watched>>

Hands ==
    \/ UpKey \/ StepBackKey
    \/ \E v \in Levels : TopicCallBack2(v) \/ TopicCallBack3(v)
    \/ \E b \in BOOLEAN : TopicCallBack4(b) \/ SafeDriveKey(b)

Next ==
    \/ Hands \/ SendInput \/ DriverDies \/ LinkStalls
    \/ NetServe \/ StepDrive \/ StepEnd \/ NetStop
    \/ RobotCycle \/ Tick

Spec == Init /\ [][Next]_vars

\* The threads keep running; people, other clients and the link do as they like.
FairSpec ==
    /\ Spec
    /\ WF_vars(SendInput) /\ WF_vars(NetServe) /\ WF_vars(StepEnd)
    /\ WF_vars(RobotCycle) /\ WF_vars(Tick)

----------------------------------------------------------------------------
(* Properties *)

TypeOK ==
    /\ {alive, enabled, linkUp, safe, newSafe, limiters, gotCommand, lastTimedOut,
        stepping, commanded, moving, driverRan, robotRan} \subseteq BOOLEAN
    /\ {ratio, ratios, fired} \subseteq Levels
    /\ twistAge \in 0 .. Stale + 1 /\ activity \in 0 .. Timeout
    /\ Len(wire) <= MaxWire
    /\ mode \in {"stop", "ratioDrive"}
    /\ directVel \in Levels \cup {NoVel}
    /\ silence \in 0 .. Horizon

\* While the ratio mode drives, its limiters are active exactly when safe
\* driving is on, however often that was switched in other modes.
LimitersFollowSafeDrive == mode = "ratioDrive" => limiters = safe

\* Nobody has touched anything and direct motion is not in force: the driver,
\* while it lives, has the robot told to stand still soon after its second.
HandsOffStops ==
    watched = "hands" /\ alive /\ silence >= HandsOff /\ directVel = NoVel => ~commanded

\* "If there are no commands for this period of time, then the robot will
\* stop": in the ratio mode, and direct motion included, no robot is still
\* moving on commands older than the timeout.
TimeoutStops ==
    watched = "server" /\ silence >= Timeout + 2 /\ mode = "ratioDrive" =>
      ~(commanded /\ moving)

\* ArServerModeStop.cpp:40 describes the command: "stops the robot".
StopStops == [][NetStop => ~commanded' /\ directVel' = NoVel]_vars

\* ariaClientDriver.h:30 on the callbacks of cmd_vel and cmd_vel_ratio: they
\* make "the robot stop when theres no control inputs".
NoInputsNoMotion ==
    watched = "hands" /\ alive /\ ~stepping /\ silence >= HandsOff => ~commanded

\* README.md:61 on cmd_vel_ratio: "The robot will assume the set translational
\* and rotation speeds".  With direct motion disabled for good, a ratio kept up
\* moves the robot.
RatioInputObeyed ==
    /\ <>[](alive /\ linkUp /\ ~enabled /\ ~stepping /\ mode = "ratioDrive" /\ ratio = 1)
    /\ <>[][~\E b \in BOOLEAN : SafeDriveKey(b)]_vars
    => []<>commanded
=============================================================================
