-------------------------- MODULE TeleopDrive_proofs --------------------------
(***************************************************************************)
(* Machine-checked proofs about TeleopDrive: safe driving is in force, and   *)
(* the two watchdogs end motion, for every timeout, wire length and          *)
(* behaviour of the link.                                                  *)
(***************************************************************************)
EXTENDS TeleopDrive, TLAPS

\* A change of safe driving is remembered only while another mode is active:
\* without the second conjunct a ratioDrive command could regroup nothing.
LimitersInv ==
    mode = "ratioDrive" => limiters = safe /\ newSafe = FALSE

\* ratioDrive() of the active mode, told b: it regroups whenever b is news.
LEMMA RatioDriveActiveKeeps ==
    ASSUME NEW b, NEW v, NEW changed \in BOOLEAN,
           RatioDriveActive(b, v, changed), safe' = b,
           ~changed => limiters = b
    PROVE  LimitersInv'
BY DEF RatioDriveActive, LimitersInv

\* Every command keeps the limiters right.
LEMMA NetServeKeeps == ASSUME LimitersInv, NetServe PROVE LimitersInv'
<1> DEFINE c == Head(wire)
<1>1. ASSUME NEW v, ServeRatioDrive(v)
      PROVE  LimitersInv'
  <2>1. CASE mode = "ratioDrive" /\ RatioDriveActive(safe, v, newSafe)
    <3>1. newSafe = FALSE /\ limiters = safe /\ safe' = safe
      BY <1>1, <2>1 DEF ServeRatioDrive, LimitersInv
    <3> QED BY <2>1, <3>1, RatioDriveActiveKeeps
  <2>2. CASE mode # "ratioDrive" /\ RatioDriveActivates(v)
    BY <1>1, <2>2 DEF ServeRatioDrive, RatioDriveActivates, LimitersInv
  <2> QED BY <1>1, <2>1, <2>2 DEF ServeRatioDrive
<1>2. ASSUME NEW b, ServeSafeDrive(b)
      PROVE  LimitersInv'
  <2>1. CASE mode = "ratioDrive" /\ RatioDriveActive(b, fired, newSafe \/ b # safe)
    <3>1. newSafe = FALSE /\ limiters = safe /\ safe' = b
      BY <1>2, <2>1 DEF ServeSafeDrive, LimitersInv
    <3> QED BY <2>1, <3>1, RatioDriveActiveKeeps
  <2>2. CASE mode # "ratioDrive"
    BY <1>2, <2>2 DEF ServeSafeDrive, LimitersInv
  <2> QED BY <1>2, <2>1, <2>2 DEF ServeSafeDrive
<1>3. ASSUME NEW v, ServeSetVel(v)
      PROVE  LimitersInv'
  BY <1>3 DEF ServeSetVel, modeVars, LimitersInv
<1>4. ASSUME ServeMoveStep
      PROVE  LimitersInv'
  BY <1>4 DEF ServeMoveStep, modeVars, LimitersInv
<1>5. \/ ServeRatioDrive(c.value) \/ ServeSafeDrive(c.value = 1)
      \/ ServeSetVel(c.value) \/ ServeMoveStep
  BY DEF NetServe
<1> QED BY <1>1, <1>2, <1>3, <1>4, <1>5

\* Every step keeps them right.
LEMMA LimitersStep == LimitersInv /\ [Next]_vars => LimitersInv'
<1> SUFFICES ASSUME LimitersInv, [Next]_vars
             PROVE  LimitersInv'
  OBVIOUS
<1>1. CASE Hands
  <2> USE DEF LimitersInv, Handled, modeVars
  <2>1. CASE UpKey \/ StepBackKey
    BY <2>1 DEF UpKey, StepBackKey
  <2>2. ASSUME NEW v \in Levels, TopicCallBack2(v) \/ TopicCallBack3(v)
        PROVE  LimitersInv'
    BY <2>2 DEF TopicCallBack2, TopicCallBack3
  <2>3. ASSUME NEW b \in BOOLEAN, TopicCallBack4(b) \/ SafeDriveKey(b)
        PROVE  LimitersInv'
    BY <2>3 DEF TopicCallBack4, SafeDriveKey
  <2> QED BY <1>1, <2>1, <2>2, <2>3 DEF Hands
<1>2. CASE SendInput \/ DriverDies \/ LinkStalls
  BY <1>2 DEF SendInput, DriverDies, LinkStalls, modeVars, LimitersInv
<1>3. CASE NetServe
  BY <1>3, NetServeKeeps
<1>4. CASE StepDrive \/ StepEnd
  BY <1>4 DEF StepDrive, StepEnd, modeVars, LimitersInv
<1>5. CASE NetStop
  BY <1>5 DEF NetStop, LimitersInv
<1>6. CASE RobotCycle
  BY <1>6 DEF RobotCycle, LimitersInv
<1>7. CASE Tick
  BY <1>7 DEF Tick, LimitersInv
<1>8. CASE UNCHANGED vars
  BY <1>8 DEF vars, modeVars, LimitersInv
<1> QED BY <1>1, <1>2, <1>3, <1>4, <1>5, <1>6, <1>7, <1>8 DEF Next

\* While the ratio mode drives, its obstacle limiters are active exactly when
\* safe driving is on, whatever was switched while other modes were active.
THEOREM SafeDrivingIsInForce == Spec => []LimitersFollowSafeDrive
<1>1. Init => LimitersInv
  BY DEF Init, LimitersInv
<1>2. LimitersInv => LimitersFollowSafeDrive
  BY DEF LimitersInv, LimitersFollowSafeDrive
<1> QED BY <1>1, <1>2, LimitersStep, PTL DEF Spec

----------------------------------------------------------------------------
(* Values *)

Command ==
    [name : {"ratioDrive", "setSafeDrive", "SetVelRequest", "MoveStepRequest"},
     value : Levels]
DriveCommands == {RatioDriveCommand(v) : v \in Levels}

\* What the proofs below need to know of the values of variables.
Typed ==
    /\ wire \in Seq(Command)
    /\ ratio \in Levels /\ ratios \in Levels /\ fired \in Levels
    /\ twistAge \in Nat /\ activity \in Nat /\ silence \in Nat

LEMMA HorizonIsNat == Horizon \in Nat
BY TeleopAssumption DEF Horizon, HandsOff

LEMMA CommandsTyped ==
    /\ \A v \in Levels : RatioDriveCommand(v) \in Command /\ SetVelCommand(v) \in Command
    /\ \A b \in BOOLEAN : SafeDriveCommand(b) \in Command
    /\ MoveStepCommand \in Command
BY DEF RatioDriveCommand, SetVelCommand, SafeDriveCommand, MoveStepCommand, Command, Levels

LEMMA SilenceTyped ==
    ASSUME Typed, NEW who, Heard(who)
    PROVE  silence' \in Nat
BY DEF Typed, Heard

LEMMA TypedServe == ASSUME Typed, NetServe PROVE Typed'
<1> DEFINE c == Head(wire)
<1>1. c \in Command /\ Tail(wire) \in Seq(Command)
  BY DEF NetServe, Typed
<1>2. c.value \in Levels
  BY <1>1 DEF Command
<1>3. /\ wire' \in Seq(Command) /\ silence' \in Nat
      /\ UNCHANGED <<ratio, twistAge>>
  BY <1>1, SilenceTyped DEF NetServe, driverVars
<1>4. \/ ServeRatioDrive(c.value) \/ ServeSafeDrive(c.value = 1)
      \/ ServeSetVel(c.value) \/ ServeMoveStep
  BY DEF NetServe
<1> HIDE DEF c
<1>5. ratios' \in Levels /\ fired' \in Levels /\ activity' \in Nat
  <2> USE DEF Typed, Levels
  <2>1. CASE ServeRatioDrive(c.value)
    BY <1>2, <2>1 DEF ServeRatioDrive, RatioDriveActive, RatioDriveActivates
  <2>2. CASE ServeSafeDrive(c.value = 1)
    BY <2>2 DEF ServeSafeDrive, RatioDriveActive
  <2>3. CASE ServeSetVel(c.value) \/ ServeMoveStep
    BY <2>3 DEF ServeSetVel, ServeMoveStep, modeVars
  <2> QED BY <1>4, <2>1, <2>2, <2>3
<1> QED BY <1>3, <1>5 DEF Typed

LEMMA TypedStep == Typed /\ [Next]_vars => Typed'
<1> SUFFICES ASSUME Typed, [Next]_vars
             PROVE  Typed'
  OBVIOUS
<1> USE DEF modeVars
<1>1. CASE Hands
  <2> USE CommandsTyped DEF Typed, Handled, driverVars, Send
  <2>1. ASSUME Handled
        PROVE  silence' \in Nat
    BY <2>1, SilenceTyped
  <2>2. CASE UpKey \/ StepBackKey
    <3>1. CASE UpKey
      BY <2>1, <3>1 DEF UpKey, Levels
    <3>2. CASE StepBackKey
      BY <2>1, <3>2 DEF StepBackKey
    <3> QED BY <2>2, <3>1, <3>2
  <2>3. ASSUME NEW v \in Levels, TopicCallBack2(v) \/ TopicCallBack3(v)
        PROVE  Typed'
    BY <2>1, <2>3, SMTT(30) DEF TopicCallBack2, TopicCallBack3
  <2>4. ASSUME NEW b \in BOOLEAN, TopicCallBack4(b) \/ SafeDriveKey(b)
        PROVE  Typed'
    BY <2>1, <2>4, SMTT(30) DEF TopicCallBack4, SafeDriveKey
  <2> QED BY <1>1, <2>2, <2>3, <2>4 DEF Hands
<1>2. CASE SendInput
  BY <1>2, CommandsTyped DEF SendInput, Send, Typed, Levels
<1>3. CASE NetServe
  BY <1>3, TypedServe
<1>4. CASE DriverDies \/ LinkStalls
  BY <1>4 DEF DriverDies, LinkStalls, linkVars, driverVars, Typed
<1>5. CASE StepDrive \/ StepEnd
  BY <1>5 DEF StepDrive, StepEnd, linkVars, driverVars, Typed
<1>6. CASE NetStop
  BY <1>6, SilenceTyped DEF NetStop, linkVars, driverVars, Typed, Levels
<1>7. CASE RobotCycle
  BY <1>7 DEF RobotCycle, linkVars, driverVars, Typed, Levels, Halt
<1>8. CASE Tick
  <2>1. Older(twistAge, Stale + 1) \in Nat /\ Older(activity, Timeout) \in Nat
        /\ Older(silence, Horizon) \in Nat
    BY HorizonIsNat, TeleopAssumption DEF Typed, Older
  <2>2. twistAge' \in Nat /\ activity' \in Nat /\ silence' \in Nat
    BY <1>8, <2>1 DEF Tick
  <2>3. UNCHANGED <<wire, ratio, ratios, fired>>
    BY <1>8 DEF Tick, linkVars
  <2> QED BY <2>2, <2>3 DEF Typed
<1>9. CASE UNCHANGED vars
  BY <1>9 DEF vars, linkVars, driverVars, Typed
<1> QED BY <1>1, <1>2, <1>3, <1>4, <1>5, <1>6, <1>7, <1>8, <1>9 DEF Next

----------------------------------------------------------------------------
(* The ratio mode's timeout *)

\* The robot stands and nothing but a new command moves it.
Standing == directVel = NoVel /\ ratios = 0 /\ ~commanded

\* After a timeout the activity time starts anew: the flag that keeps the timeout from
\* being acted upon twice is never up when the next one comes.
TimedOutOnce ==
    mode = "ratioDrive" /\ lastTimedOut =>
      gotCommand \/ activity <= (IF robotRan THEN 0 ELSE 1)

\* The silence of the clients ages the activity time, a tick late, unless the timeout
\* has stopped the robot.
Aging ==
    watched = "server" /\ mode = "ratioDrive" =>
      \/ Standing
      \/ /\ silence >= 2 \/ (silence = 1 /\ robotRan) => ~gotCommand
         /\ silence >= 2 => activity >= Timeout \/ activity >= silence - 1
         /\ silence >= Timeout + 2 \/ (silence = Timeout + 1 /\ robotRan) => ~moving

ServerInv == Typed /\ TimedOutOnce /\ Aging

\* A step that is heard of the server starts the count of its silence.
LEMMA ServedAging ==
    ASSUME Heard("server") \/ silence' = 0
    PROVE  Aging'
BY TeleopAssumption DEF Heard, Aging

\* A timeout is always acted upon.
LEMMA TimeoutActs ==
    ASSUME ServerInv, RobotCycle, mode = "ratioDrive"
    PROVE  LET age == IF gotCommand THEN 0 ELSE activity
           IN  \/ /\ TimedOut(age, moving') /\ Standing' /\ activity' = 0
               \/ /\ ~TimedOut(age, moving') /\ ~lastTimedOut'
                  /\ commanded' = Reflected /\ activity' = age
                  /\ UNCHANGED <<directVel, ratios>>
<1> DEFINE age == IF gotCommand THEN 0 ELSE activity
           timedOut == TimedOut(age, moving')
<1>1. /\ lastTimedOut' = timedOut
      /\ IF timedOut /\ ~lastTimedOut
         THEN Halt /\ ratios' = 0 /\ activity' = 0
         ELSE /\ commanded' = Reflected /\ activity' = age
              /\ UNCHANGED <<directVel, ratios>>
  BY DEF RobotCycle
<1>2. timedOut => ~lastTimedOut
  BY TeleopAssumption DEF TimedOut, ServerInv, TimedOutOnce, Typed
<1> QED BY <1>1, <1>2 DEF Standing, Halt

LEMMA CycleAging == ASSUME ServerInv, RobotCycle PROVE TimedOutOnce' /\ Aging'
<1> DEFINE age == IF gotCommand THEN 0 ELSE activity
<1>1. /\ UNCHANGED <<mode, watched, silence>> /\ robotRan'
      /\ moving' \in {moving, commanded}
      /\ mode = "ratioDrive" => ~gotCommand'
  BY DEF RobotCycle, taskVars
<1>2. CASE mode # "ratioDrive"
  BY <1>1, <1>2 DEF TimedOutOnce, Aging
<1>3. CASE mode = "ratioDrive" /\ TimedOut(age, moving')
  BY <1>1, <1>3, TimeoutActs DEF TimedOutOnce, Aging
<1>4. CASE mode = "ratioDrive" /\ ~TimedOut(age, moving')
  <2>1. /\ ~lastTimedOut' /\ commanded' = Reflected /\ activity' = age
        /\ UNCHANGED <<directVel, ratios>>
    BY <1>4, TimeoutActs
  <2>2. CASE Standing
    <3>1. ~Reflected
      BY <2>2 DEF Standing, Reflected
    <3>2. ~commanded'
      BY <2>1, <3>1
    <3>3. Standing'
      BY <2>1, <2>2, <3>2 DEF Standing
    <3> QED BY <2>1, <3>3 DEF Aging, TimedOutOnce
  <2>3. CASE ~Standing /\ watched = "server"
    <3>1. silence >= 2 => age >= Timeout \/ age >= silence - 1
      BY <1>4, <2>3 DEF ServerInv, Aging
    <3>2. silence >= Timeout + 1 => ~moving'
      BY <1>4, <3>1, TeleopAssumption DEF TimedOut, ServerInv, Typed
    <3> QED BY <1>1, <2>1, <3>1, <3>2, TeleopAssumption
            DEF Aging, TimedOutOnce, ServerInv, Typed
  <2> QED BY <1>1, <2>1, <2>2, <2>3 DEF Aging, TimedOutOnce
<1> QED BY <1>2, <1>3, <1>4

LEMMA TickAging == ASSUME ServerInv, Tick PROVE TimedOutOnce' /\ Aging'
<1>1. /\ UNCHANGED <<mode, watched, gotCommand, lastTimedOut, directVel, ratios,
                     commanded, moving>>
      /\ robotRan /\ ~robotRan'
      /\ activity' = Older(activity, Timeout) /\ silence' = Older(silence, Horizon)
  BY DEF Tick, taskVars, motionVars
<1>2. TimedOutOnce'
  BY <1>1 DEF ServerInv, TimedOutOnce, Older, Typed
<1>3. Aging'
  <2> SUFFICES ASSUME watched = "server", mode = "ratioDrive", ~Standing
               PROVE  Aging'
    BY <1>1 DEF Aging, Standing
  <2>1. /\ silence \in Nat /\ activity \in Nat /\ Timeout \in Nat /\ Timeout >= 2
        /\ silence >= 1 => ~gotCommand
        /\ silence >= 2 => activity >= Timeout \/ activity >= silence - 1
        /\ silence >= Timeout + 1 => ~moving
    BY <1>1, TeleopAssumption DEF ServerInv, Typed, Aging
  <2>2. /\ activity' = activity + 1 \/ (activity' = Timeout /\ activity >= Timeout)
        /\ silence' = silence + 1 \/ (silence' = Timeout + 2 /\ silence >= Timeout + 2)
    BY <1>1, <2>1 DEF Older, Horizon
  <2>3. silence' >= 2 => ~gotCommand'
    BY <1>1, <2>1, <2>2
  <2>4. silence' >= 2 => activity' >= Timeout \/ activity' >= silence' - 1
    BY <2>1, <2>2
  <2>5. silence' >= Timeout + 2 => ~moving'
    BY <1>1, <2>1, <2>2
  <2> QED BY <1>1, <2>1, <2>3, <2>4, <2>5 DEF Aging
<1> QED BY <1>2, <1>3
LEMMA ServeAging == ASSUME ServerInv, NetServe PROVE TimedOutOnce' /\ Aging'
<1> DEFINE c == Head(wire)
<1>1. Heard("server") /\ UNCHANGED robotRan
  BY DEF NetServe, ranVars
<1>2. \/ ServeRatioDrive(c.value) \/ ServeSafeDrive(c.value = 1)
      \/ ServeSetVel(c.value) \/ ServeMoveStep
  BY DEF NetServe
<1>3. TimedOutOnce'
  <2> USE DEF ServerInv, TimedOutOnce
  <2>1. CASE ServeRatioDrive(c.value)
    BY <2>1 DEF ServeRatioDrive
  <2>2. CASE ServeSafeDrive(c.value = 1)
    BY <1>1, <2>2 DEF ServeSafeDrive, RatioDriveActive, taskVars
  <2>3. CASE ServeSetVel(c.value) \/ ServeMoveStep
    BY <1>1, <2>3 DEF ServeSetVel, ServeMoveStep, modeVars, taskVars
  <2> QED BY <1>2, <2>1, <2>2, <2>3
<1> QED BY <1>1, <1>3, ServedAging

LEMMA ServerStep == ServerInv /\ [Next]_vars => ServerInv'
<1> SUFFICES ASSUME ServerInv, [Next]_vars
             PROVE  TimedOutOnce' /\ Aging'
  BY TypedStep DEF ServerInv
<1> DEFINE Untouched == UNCHANGED <<mode, activity, gotCommand, lastTimedOut, robotRan>>
<1>1. ASSUME Untouched
      PROVE  TimedOutOnce'
  BY <1>1 DEF ServerInv, TimedOutOnce
<1>2. ASSUME Untouched, UNCHANGED <<directVel, ratios, commanded, moving, watched>>,
             watched = "server" => silence' = silence
      PROVE  Aging'
  BY <1>2 DEF ServerInv, Aging, Standing
<1>3. CASE Hands
  <2>1. Handled
    BY <1>3 DEF Hands, UpKey, StepBackKey, TopicCallBack2, TopicCallBack3, TopicCallBack4,
       SafeDriveKey
  <2>2. /\ Untouched /\ UNCHANGED <<directVel, ratios, commanded, moving, watched>>
        /\ watched = "server" => silence' = silence
    BY <2>1 DEF Handled, Heard, modeVars, taskVars, motionVars, ranVars
  <2> QED BY <1>1, <1>2, <2>2
<1>4. CASE SendInput \/ DriverDies \/ LinkStalls \/ UNCHANGED vars
  <2>1. /\ Untouched /\ UNCHANGED <<directVel, ratios, commanded, moving, watched>>
        /\ watched = "server" => silence' = silence
    BY <1>4 DEF SendInput, DriverDies, LinkStalls, vars, modeVars, taskVars, motionVars,
       ranVars
  <2> QED BY <1>1, <1>2, <2>1
<1>5. CASE NetServe
  BY <1>5, ServeAging
<1>6. CASE StepDrive \/ StepEnd
  <2>1. Untouched /\ silence' = 0
    BY <1>6 DEF StepDrive, StepEnd, modeVars, taskVars, ranVars
  <2> QED BY <1>1, <2>1, ServedAging
<1>7. CASE NetStop
  <2>1. mode' = "stop" /\ Heard("server")
    BY <1>7 DEF NetStop
  <2> QED BY <2>1, ServedAging DEF TimedOutOnce
<1>8. CASE RobotCycle
  BY <1>8, CycleAging
<1>9. CASE Tick
  BY <1>9, TickAging
<1> QED BY <1>3, <1>4, <1>5, <1>6, <1>7, <1>8, <1>9 DEF Next

LEMMA TypedInit == Init => Typed
<1> SUFFICES ASSUME Init
             PROVE  Typed
  OBVIOUS
<1>1. wire \in Seq(Command)
  <2>1. SafeDriveCommand(TRUE) \in Command
    BY CommandsTyped
  <2>2. wire = <<SafeDriveCommand(TRUE)>>
    BY DEF Init
  <2>3. \A x \in Command : <<x>> \in Seq(Command)
    OBVIOUS
  <2> QED BY <2>1, <2>2, <2>3
<1>2. ratio \in Levels /\ ratios \in Levels /\ fired \in Levels
  BY DEF Init, Levels
<1>3. twistAge \in Nat /\ activity \in Nat /\ silence \in Nat
  BY TeleopAssumption DEF Init
<1> QED BY <1>1, <1>2, <1>3 DEF Typed

\* In the ratio mode no robot still moves on commands older than the timeout, by
\* whichever way they came (userTask of ArServerModeRatioDrive.cpp): for every timeout,
\* with a link that stalls as it likes.
THEOREM TimeoutIsActedUpon == Spec => []TimeoutStops
<1>1. Init => ServerInv
  BY TypedInit, TeleopAssumption DEF Init, ServerInv, TimedOutOnce, Aging
<1>2. ServerInv => TimeoutStops
  BY DEF ServerInv, Aging, Standing, TimeoutStops
<1> QED BY <1>1, <1>2, ServerStep, PTL DEF Spec

----------------------------------------------------------------------------
(* Hands that let go *)

\* The driver notices that nobody sends velocities.
Idles == twistAge >= silence \/ twistAge > Stale

\* Only ratios are on the wire after a tick, and in the end only those of zero.
HandsOffWire ==
    /\ silence >= 1 => wire \in Seq(DriveCommands)
    /\ silence >= Stale + 2 => wire \in Seq({RatioDriveCommand(0)})

\* It lets go with the command after that ...
LetGo == silence >= Stale + 2 \/ (silence = Stale + 1 /\ driverRan) => ratio = 0

\* ... the server serves the zero it then sends ...
RatioGone ==
    silence >= Stale + 3 \/ (silence = Stale + 2 /\ driverRan /\ wire = <<>>)
      => (mode = "ratioDrive" => ratios = 0)

\* ... and a cycle of the robot later it is told to stand still.
Stopped ==
    silence >= Stale + 4 \/ (silence = Stale + 3 /\ robotRan)
      => (directVel = NoVel => ~commanded)

\* While a step back is made only a timeout ends direct motion, and stops the robot.
SteppingInv == stepping => directVel # NoVel \/ Standing

HandsInv ==
    /\ watched = "hands" => linkUp
    /\ watched = "hands" /\ alive => Idles
    /\ watched = "hands" /\ alive /\ ~stepping =>
         HandsOffWire /\ LetGo /\ RatioGone /\ Stopped

HandsOffInv == Typed /\ LimitersInv /\ SteppingInv /\ HandsInv

LEMMA DirectMotionIsMotion == NoVel # 0 /\ NoVel # 1
BY TeleopAssumption

\* The count of silence starts: nothing is claimed yet.
LEMMA HandsMoved ==
    ASSUME watched = "hands" => linkUp', silence' = 0, twistAge' \in Nat,
           UNCHANGED watched
    PROVE  HandsInv'
BY TeleopAssumption DEF HandsInv, Idles, HandsOffWire, LetGo, RatioGone, Stopped

\* Steps that touch nothing HandsInv speaks of.
LEMMA HandsUntouched ==
    ASSUME HandsInv,
           UNCHANGED <<watched, linkUp, twistAge, silence, stepping, wire, driverRan,
                       ratio, mode, ratios, robotRan, directVel, commanded>>,
           alive' => alive
    PROVE  HandsInv'
BY DEF HandsInv, Idles, HandsOffWire, LetGo, RatioGone, Stopped

LEMMA SteppingStep ==
    ASSUME SteppingInv, Typed, [Next]_vars
    PROVE  SteppingInv'
<1> USE DirectMotionIsMotion DEF SteppingInv
<1>1. ASSUME UNCHANGED <<stepping, directVel, ratios, commanded>>
      PROVE  SteppingInv'
  BY <1>1 DEF Standing
<1>2. CASE Hands
  <2>1. Handled
    BY <1>2 DEF Hands, UpKey, StepBackKey, TopicCallBack2, TopicCallBack3, TopicCallBack4,
       SafeDriveKey
  <2> QED BY <1>1, <2>1 DEF Handled, modeVars, motionVars
<1>3. CASE SendInput \/ DriverDies \/ LinkStalls \/ Tick \/ UNCHANGED vars
  BY <1>1, <1>3 DEF SendInput, DriverDies, LinkStalls, Tick, vars, modeVars, motionVars
<1>4. CASE NetServe
  BY <1>4 DEF NetServe, ServeRatioDrive, ServeSafeDrive, ServeSetVel, ServeMoveStep
<1>5. CASE StepDrive \/ StepEnd
  BY <1>5 DEF StepDrive, StepEnd
<1>6. CASE NetStop
  BY <1>6 DEF NetStop
<1>7. CASE RobotCycle
  <2>1. UNCHANGED stepping
    BY <1>7 DEF RobotCycle, taskVars
  <2>2. CASE Halt /\ ratios' = 0
    BY <2>2 DEF Halt, Standing
  <2>3. CASE commanded' = Reflected /\ UNCHANGED <<directVel, ratios>>
    <3>1. Standing => ~Reflected
      BY DEF Standing, Reflected
    <3>2. Standing => ~commanded'
      BY <2>3, <3>1
    <3> QED BY <2>1, <2>3, <3>2 DEF Standing
  <2> QED BY <1>7, <2>2, <2>3 DEF RobotCycle
<1> QED BY <1>2, <1>3, <1>4, <1>5, <1>6, <1>7 DEF Next
LEMMA SendHands ==
    ASSUME HandsOffInv, SendInput, watched = "hands"
    PROVE  HandsInv'
<1> USE DEF HandsOffInv, HandsInv
<1>1. /\ alive /\ wire' = Append(wire, RatioDriveCommand(ratio))
      /\ ratio' = (IF twistAge > Stale THEN 0 ELSE ratio)
      /\ UNCHANGED <<alive, twistAge, linkUp, watched, silence, mode, ratios, stepping,
                     directVel, commanded, robotRan>>
  BY DEF SendInput, Send, modeVars, motionVars
<1>2. linkUp' /\ Idles'
  BY <1>1 DEF Idles
<1> SUFFICES ASSUME ~stepping
             PROVE  HandsOffWire' /\ LetGo' /\ RatioGone' /\ Stopped'
  BY <1>1, <1>2
<1>3. Idles /\ HandsOffWire /\ LetGo /\ RatioGone /\ Stopped
  BY <1>1
<1>4. LetGo'
  BY <1>1, <1>3, TeleopAssumption DEF LetGo, Idles, Typed
<1>5. HandsOffWire'
  <2>1. RatioDriveCommand(ratio) \in DriveCommands
    BY DEF DriveCommands, Typed
  <2>2. silence >= 1 => wire' \in Seq(DriveCommands)
    BY <1>1, <1>3, <2>1 DEF HandsOffWire
  <2>3. silence >= Stale + 2 => ratio = 0
    BY <1>3 DEF LetGo
  <2>4. silence >= Stale + 2 => wire' \in Seq({RatioDriveCommand(0)})
    BY <1>1, <1>3, <2>3 DEF HandsOffWire
  <2> QED BY <1>1, <2>2, <2>4 DEF HandsOffWire
<1>6. RatioGone'
  <2>1. wire' # <<>>
    BY <1>1 DEF Typed
  <2> QED BY <1>1, <1>3, <2>1 DEF RatioGone
<1>7. Stopped'
  BY <1>1, <1>3 DEF Stopped
<1> QED BY <1>4, <1>5, <1>6, <1>7

\* A ratio is served: the robot goes on as it was told, or is halted first.
LEMMA RatioServed ==
    ASSUME LimitersInv, NEW v, ServeRatioDrive(v)
    PROVE  /\ ratios' = v
           /\ Halt \/ UNCHANGED <<directVel, commanded>>
<1>1. CASE mode = "ratioDrive" /\ RatioDriveActive(safe, v, newSafe)
  BY <1>1 DEF RatioDriveActive, LimitersInv
<1>2. CASE mode # "ratioDrive" /\ RatioDriveActivates(v)
  BY <1>2 DEF RatioDriveActivates
<1> QED BY <1>1, <1>2 DEF ServeRatioDrive

LEMMA ServeHands ==
    ASSUME HandsOffInv, NetServe, watched = "hands"
    PROVE  HandsInv'
<1> USE DEF HandsOffInv, HandsInv
<1> DEFINE c == Head(wire)
<1>1. /\ ~stepping /\ wire # <<>> /\ wire' = Tail(wire)
      /\ UNCHANGED <<alive, twistAge, ratio, linkUp, watched, silence, driverRan, robotRan>>
  BY DEF NetServe, driverVars, ranVars, Heard
<1>2. linkUp' /\ (alive' => Idles')
  BY <1>1 DEF Idles
<1>3. CASE silence = 0
  BY <1>1, <1>2, <1>3, TeleopAssumption DEF HandsOffWire, LetGo, RatioGone, Stopped
<1>4. CASE silence >= 1 /\ alive
  <2>1. HandsOffWire /\ LetGo /\ RatioGone /\ Stopped
    BY <1>1, <1>4
  <2>2. PICK v \in Levels : c = RatioDriveCommand(v)
    BY <1>1, <1>4, <2>1 DEF HandsOffWire, DriveCommands
  <2>3. ServeRatioDrive(v)
    <3>1. c.name = "ratioDrive" /\ c.value = v
      BY <2>2 DEF RatioDriveCommand
    <3> QED BY <3>1 DEF NetServe
  <2>4. ratios' = v /\ (Halt \/ UNCHANGED <<directVel, commanded>>)
    BY <2>3, RatioServed
  <2>5. HandsOffWire'
    BY <1>1, <1>4, <2>1 DEF HandsOffWire
  <2>6. LetGo' /\ Stopped'
    BY <1>1, <2>1, <2>4 DEF LetGo, Stopped, Halt
  <2>7. silence >= Stale + 2 => v = 0
    <3>1. silence >= Stale + 2 => c = RatioDriveCommand(0)
      BY <1>1, <2>1 DEF HandsOffWire
    <3> QED BY <2>2, <3>1 DEF RatioDriveCommand
  <2>8. RatioGone'
    BY <1>1, <2>4, <2>7, TeleopAssumption DEF RatioGone, Typed
  <2> QED BY <1>2, <2>5, <2>6, <2>8
<1> QED BY <1>1, <1>2, <1>3, <1>4 DEF Typed

LEMMA CycleHands ==
    ASSUME HandsOffInv, RobotCycle, watched = "hands"
    PROVE  HandsInv'
<1> USE DEF HandsOffInv, HandsInv
<1>1. UNCHANGED <<alive, twistAge, ratio, linkUp, wire, watched, silence, driverRan,
                  mode, stepping>>
  BY DEF RobotCycle, driverVars, linkVars
<1>2. \/ Halt /\ ratios' = 0
      \/ commanded' = Reflected /\ UNCHANGED <<directVel, ratios>>
  BY DEF RobotCycle
<1>3. linkUp' /\ (alive' => Idles')
  BY <1>1 DEF Idles
<1> SUFFICES ASSUME alive, ~stepping
             PROVE  HandsOffWire' /\ LetGo' /\ RatioGone' /\ Stopped'
  BY <1>1, <1>3
<1>4. HandsOffWire' /\ LetGo'
  BY <1>1 DEF HandsOffWire, LetGo
<1>5. RatioGone'
  BY <1>1, <1>2 DEF RatioGone
<1>6. Stopped'
  <2> SUFFICES ASSUME silence >= Stale + 3, directVel' = NoVel
               PROVE  ~commanded'
    BY <1>1, TeleopAssumption DEF Stopped, Typed
  <2>1. CASE Halt
    BY <2>1 DEF Halt
  <2>2. CASE commanded' = Reflected /\ UNCHANGED <<directVel, ratios>>
    <3>1. directVel = NoVel /\ (mode = "ratioDrive" => ratios = 0)
      BY <2>2 DEF RatioGone
    <3>2. ~Reflected
      BY <3>1 DEF Reflected
    <3> QED BY <2>2, <3>2
  <2> QED BY <1>2, <2>1, <2>2
<1> QED BY <1>4, <1>5, <1>6

LEMMA TickHands ==
    ASSUME HandsOffInv, Tick, watched = "hands"
    PROVE  HandsInv'
<1> USE DEF HandsOffInv, HandsInv
<1>1. /\ UNCHANGED <<alive, ratio, linkUp, wire, watched, mode, ratios, stepping,
                     directVel, commanded>>
      /\ ~driverRan' /\ ~robotRan' /\ robotRan
      /\ twistAge' = Older(twistAge, Stale + 1) /\ silence' = Older(silence, HandsOff)
      /\ alive => driverRan \/ Len(wire) = MaxWire
      /\ ~stepping => wire = <<>>
  BY DEF Tick, linkVars, motionVars, Horizon
<1>2. /\ twistAge' = twistAge + 1 \/ (twistAge' = Stale + 1 /\ twistAge >= Stale + 1)
      /\ silence' = silence + 1 \/ (silence' = Stale + 4 /\ silence >= Stale + 4)
  BY <1>1, TeleopAssumption DEF Older, HandsOff, Typed
<1>3. alive' => Idles'
  BY <1>1, <1>2, TeleopAssumption DEF Idles, Typed
<1> SUFFICES ASSUME alive, ~stepping
             PROVE  HandsOffWire' /\ LetGo' /\ RatioGone' /\ Stopped'
  BY <1>1, <1>3
<1>4. HandsOffWire /\ LetGo /\ RatioGone /\ Stopped
  OBVIOUS
<1>5. wire = <<>> /\ driverRan
  BY <1>1, TeleopAssumption
<1>6. HandsOffWire'
  BY <1>1, <1>5 DEF HandsOffWire
<1>7. LetGo'
  BY <1>1, <1>2, <1>4, <1>5, TeleopAssumption DEF LetGo, Typed
<1>8. RatioGone'
  BY <1>1, <1>2, <1>4, <1>5, TeleopAssumption DEF RatioGone, Typed
<1>9. Stopped'
  BY <1>1, <1>2, <1>4, TeleopAssumption DEF Stopped, Typed
<1> QED BY <1>6, <1>7, <1>8, <1>9

LEMMA HandsOffStep == HandsOffInv /\ [Next]_vars => HandsOffInv'
<1> SUFFICES ASSUME HandsOffInv, [Next]_vars
             PROVE  HandsInv'
  BY TypedStep, LimitersStep, SteppingStep DEF HandsOffInv
<1>1. UNCHANGED watched
  BY DEF Next, Hands, UpKey, StepBackKey, TopicCallBack2, TopicCallBack3, TopicCallBack4,
     SafeDriveKey, Handled, Heard, SendInput, DriverDies, LinkStalls, NetServe, StepDrive,
     StepEnd, NetStop, RobotCycle, Tick, vars
<1> SUFFICES ASSUME watched = "hands"
             PROVE  HandsInv'
  BY <1>1 DEF HandsInv
<1>2. linkUp /\ Typed'
  BY TypedStep DEF HandsOffInv, HandsInv
<1>3. CASE Hands
  <2>1. Handled
    BY <1>3 DEF Hands, UpKey, StepBackKey, TopicCallBack2, TopicCallBack3, TopicCallBack4,
       SafeDriveKey
  <2>2. linkUp' /\ silence' = 0 /\ twistAge' \in Nat
    BY <1>2, <2>1 DEF Handled, Heard, Typed
  <2> QED BY <1>1, <2>2, HandsMoved
<1>4. CASE SendInput
  BY <1>4, SendHands
<1>5. CASE DriverDies
  BY <1>1, <1>2, <1>5 DEF DriverDies, linkVars, HandsInv
<1>6. CASE LinkStalls
  BY <1>6 DEF LinkStalls
<1>7. CASE NetServe
  BY <1>7, ServeHands
<1>8. CASE StepDrive \/ StepEnd
  <2>1. linkUp' /\ silence' = 0 /\ twistAge' \in Nat
    BY <1>2, <1>8 DEF StepDrive, StepEnd, linkVars, Typed
  <2> QED BY <1>1, <2>1, HandsMoved
<1>9. CASE NetStop
  <2>1. /\ UNCHANGED <<alive, twistAge, ratio, linkUp, wire, silence, driverRan, robotRan,
                       ratios, stepping>>
        /\ mode' = "stop"
        /\ Halt \/ UNCHANGED <<directVel, commanded>>
    BY <1>9 DEF NetStop, Heard, driverVars, linkVars, taskVars, ranVars
  <2> QED BY <1>1, <2>1 DEF HandsOffInv, HandsInv, Idles, HandsOffWire, LetGo, RatioGone,
       Stopped, Halt
<1>10. CASE RobotCycle
  BY <1>10, CycleHands
<1>11. CASE Tick
  BY <1>11, TickHands
<1>12. CASE UNCHANGED vars
  BY <1>12, HandsUntouched DEF HandsOffInv, vars, driverVars, linkVars, modeVars, ranVars,
     motionVars
<1> QED BY <1>3, <1>4, <1>5, <1>6, <1>7, <1>8, <1>9, <1>10, <1>11, <1>12 DEF Next

\* A person's hands let go, and direct motion is not in force: a driver node that lives
\* has the robot told to stand still (sendInput of ariaClientDriver.cpp, serverRatioDrive,
\* the robot's cycle), however many commands the wire holds.
THEOREM LettingGoStops == Spec => []HandsOffStops
<1>1. Init => HandsOffInv
  <2>1. Init => Typed /\ LimitersInv /\ SteppingInv
    BY TypedInit DEF Init, LimitersInv, SteppingInv
  <2>2. Init => linkUp /\ silence = 0 /\ twistAge = Stale + 1
    BY DEF Init
  <2>3. Init => HandsInv
    BY <2>2, TeleopAssumption
       DEF HandsInv, Idles, HandsOffWire, LetGo, RatioGone, Stopped
  <2> QED BY <2>1, <2>3 DEF HandsOffInv
<1>2. HandsOffInv => HandsOffStops
  <2> SUFFICES ASSUME HandsOffInv, watched = "hands", alive, silence >= Stale + 4,
                      directVel = NoVel
               PROVE  ~commanded
    BY DEF HandsOffStops, HandsOff
  <2>1. CASE stepping
    BY <2>1 DEF HandsOffInv, SteppingInv, Standing
  <2>2. CASE ~stepping
    BY <2>2 DEF HandsOffInv, HandsInv, Stopped
  <2> QED BY <2>1, <2>2
<1> QED BY <1>1, <1>2, HandsOffStep, PTL DEF Spec
=============================================================================
