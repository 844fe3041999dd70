----------------------------- MODULE Polarizer -----------------------------
(***************************************************************************)
(* The polarizer wheel: main_board/src/optics/polarizer_wheel.             *)
(*                                                                         *)
(* A stepper motor turns a wheel with four bumps; an optical encoder is    *)
(* high on a bump.  The step interrupt counts the pulses of the motor, the *)
(* encoder interrupt signals edges, and one thread homes, calibrates and   *)
(* positions the wheel from those two signals.  wheel is where the wheel   *)
(* really is; the code only knows current.                                 *)
(*                                                                         *)
(* Time is counted in pulses: at the default speed a timeout of four       *)
(* seconds is one turn and a third, one of a second a third of a turn.     *)
(***************************************************************************)
EXTENDS Integers, FiniteSets

CONSTANTS
    Turn,           \* POLARIZER_WHEEL_MICROSTEPS_360_DEGREES
    PerStep,        \* POLARIZER_WHEEL_MICROSTEPS_PER_STEP
    EdgeToCenter,   \* POLARIZER_WHEEL_MICROSTEPS_NOTCH_EDGE_TO_CENTER
    CloseMin,       \* POLARIZER_CLOSE_NOTCH_DETECTION_MICROSTEPS_MIN
    CloseMax,       \* POLARIZER_CLOSE_NOTCH_DETECTION_MICROSTEPS_MAX
    ExtraCenter,    \* center of the bump that is close to another one
    Half,           \* half the width of each bump
    Tolerance,      \* by how much it differs from EdgeToCenter, at most
    Starts,         \* where the wheel may be at power up
    Angles,         \* angles set_angle is asked for, in steps; Turn is 3600
    SpinAttempts,   \* POLARIZER_WHEEL_HOMING_SPIN_ATTEMPTS
    NotchAttempts,  \* POLARIZER_WHEEL_NOTCH_DETECT_ATTEMPTS
    MaxRequests,    \* bound on commands
    MaxFaults       \* bound on pulses that do not move the wheel or come before the
                    \* thread has run, jams and refused spins

Positions == {"pass_through", "vertical", "horizontal"}
Bumps == Positions \cup {"extra"}

ASSUME PolarizerConstants ==
    /\ Turn \in Nat \ {0} /\ Turn % 3 = 0
    /\ PerStep \in Nat /\ EdgeToCenter \in Nat \ {0}
    /\ CloseMin \in Nat /\ CloseMax \in Nat
    /\ ExtraCenter \in 0..(Turn - 1)
    /\ Half \in [Bumps -> Nat] /\ Tolerance \in Nat
    /\ Starts \subseteq 0..(Turn - 1)
    /\ Angles \subseteq 0..Turn
    /\ SpinAttempts \in Nat \ {0} /\ NotchAttempts \in Nat \ {0}
    /\ MaxRequests \in Nat /\ MaxFaults \in Nat

Third == Turn \div 3
Center == [b \in Bumps |-> CASE b = "pass_through" -> 0
                             [] b = "vertical" -> Third
                             [] b = "horizontal" -> 2 * Third
                             [] b = "extra" -> ExtraCenter]

\* Where the edge of bump next is after that of bump b
EdgeToEdge(b, next) == (Center[next] - Half[next]) - (Center[b] - Half[b])

(* The wheel that the code is written for: its four bumps do not touch, their
   order is that in which they are measured, the edges of one pair only are as
   close as the homing looks for, and EdgeToCenter is about right. *)
ASSUME WheelAssumption ==
    /\ Half["pass_through"] > 0
    /\ Half["pass_through"] + 1 < Third - Half["vertical"]
    /\ Third + Half["vertical"] + 1 < ExtraCenter - Half["extra"]
    /\ ExtraCenter + Half["extra"] + 1 < 2 * Third - Half["horizontal"]
    /\ 2 * Third + Half["horizontal"] + 1 < Turn - Half["pass_through"]
    /\ LET Close(d) == CloseMin < d /\ d < CloseMax
       IN  /\ Close(EdgeToEdge("extra", "horizontal"))
           /\ ~Close(EdgeToEdge("pass_through", "vertical"))
           /\ ~Close(EdgeToEdge("vertical", "extra"))
           /\ ~Close(EdgeToEdge("horizontal", "pass_through") + Turn)
    /\ \A p \in Positions : /\ Half[p] - EdgeToCenter <= Tolerance
                            /\ EdgeToCenter - Half[p] <= Tolerance
    /\ EdgeToCenter <= Third

Forward == 1
Backward == -1
FourSeconds == Turn + Third
OneSecond == Third

VARIABLES
    wheel,      \* the true position of the wheel
    stuck,      \* the wheel does not turn any more
    spinning,   \* the motor is driven and its pulses are counted
    spun,       \* pulses since the thread began to wait
    current, target, direction,     \* step_count
    state,      \* state of the state machine
    pc,         \* where the thread is
    stepSem, encoderSem,
    command,    \* pending_cmd
    encoder,    \* edges that interrupt: "off", "rising" or "both"
    triggered,  \* positioning.encoder_triggered
    edge,       \* positioning.target_notch_edge
    goal,       \* positioning.target_position
    ramp,       \* acceleration, with the ramp step of the last frequency
    homing,     \* notch_count, spin attempts, success
    cal,        \* calibration
    requests, faults,   \* bounds
    report,     \* history: the last position reported, until the next move
    drift,      \* history: bound on the pulses lost since the encoder set the count
    overrun,    \* history: pulses since the last edge
    lost        \* history: the count was set at another bump, from widths of
                \* other bumps, or not at all

motor == <<spinning, spun, current, target, direction>>
wheelVars == <<wheel, stuck>>
positioning == <<triggered, edge, goal, ramp>>
signals == <<stepSem, encoderSem>>
bounds == <<requests, faults>>
history == <<report, drift, overrun, lost>>
vars == <<wheelVars, motor, state, pc, signals, command, encoder, positioning,
          homing, cal, bounds, history>>

NoRamp == [on |-> FALSE, start |-> 0, total |-> 0, step |-> 0]
NoWidths == [p \in Positions |-> 0]
NoCommand == [type |-> "none", step |-> 0, constant |-> FALSE, shortest |-> FALSE]

\* polarizer_wheel_init: the first homing is queued, with a calibration
Init == /\ wheel \in Starts
        /\ stuck = FALSE
        /\ spinning = FALSE
        /\ spun = 0
        /\ current = 0 /\ target = 0 /\ direction = Forward
        /\ state = "uninitialized"
        /\ pc = "poll"
        /\ stepSem = 0 /\ encoderSem = 0
        /\ command = [NoCommand EXCEPT !.type = "home"]
        /\ encoder = "off"
        /\ triggered = FALSE
        /\ edge = 0
        /\ goal = "unknown"
        /\ ramp = NoRamp
        /\ homing = [notches |-> 0, attempts |-> 0, success |-> FALSE]
        /\ cal = [needed |-> TRUE, complete |-> FALSE, width |-> NoWidths,
                  index |-> 0, inside |-> FALSE, entry |-> 0, spins |-> 0, sure |-> FALSE]
        /\ requests = MaxRequests /\ faults = MaxFaults
        /\ report = "none"
        /\ drift = 0 /\ overrun = 0
        /\ lost = "no"

-----------------------------------------------------------------------------
(* Helpers *)

Abs(x) == IF x < 0 THEN -x ELSE x

\* circular_signed_distance
CircularDistance(from, to) ==
    LET diff == to - from
    IN  IF diff > Turn \div 2 THEN diff - Turn
        ELSE IF diff < -(Turn \div 2) THEN diff + Turn
        ELSE diff

\* calculate_ramp_step
RampStep(travelled, total) ==
    IF total = 0 \/ travelled >= total THEN 0
    ELSE IF travelled < total \div 2 THEN travelled
    ELSE total - travelled - 1

\* get_current_position and angle_to_position; their tolerance is less than a step
PositionAt(step) == IF \E p \in Positions : Center[p] = step
                    THEN CHOOSE p \in Positions : Center[p] = step
                    ELSE "unknown"

\* get_edge_to_center_for_position
EdgeDistance(p) == IF cal.complete THEN cal.width[p] \div 2 ELSE EdgeToCenter

\* calculate_notch_edge
NotchEdge(p, dir) == (Center[p] - dir * EdgeDistance(p)) % Turn

\* The encoder is high on a bump
OnBump(b, pos) == Abs(CircularDistance(Center[b], pos)) <= Half[b]
High(pos) == \E b \in Bumps : OnBump(b, pos)

-----------------------------------------------------------------------------
(* The motor, its interrupt and the encoder's *)

\* polarizer_wheel_step_isr
Counted == IF direction = Forward
           THEN (IF current + 1 >= Turn THEN 0 ELSE current + 1)
           ELSE (IF current - 1 < 0 THEN Turn - 1 ELSE current - 1)

\* encoder_callback: a rising edge, or any during the calibration
Signals(from, to) == \/ encoder # "off" /\ ~High(from) /\ High(to)
                     \/ encoder = "both" /\ High(from) /\ ~High(to)

\* The thread has not yet taken what the last pulse signalled
Waited == \/ encoderSem = 1 /\ pc # "home_finish"
          \/ stepSem = 1 /\ pc \in {"poll", "home_finish"}

\* When a wait of the thread times out
Limit == CASE pc = "home_finish" -> OneSecond
           [] pc \in {"home_wait", "pass_wait", "cal_wait"} -> FourSeconds
           [] OTHER -> FourSeconds + 1  \* none

\* A pulse of the motor.  While the wheel is positioned a pulse may fail to move
\* it, or come before the thread has seen the one before; while it is homed or
\* calibrated one microstep is too small for the windows to tell
Pulse(moves) ==
    LET next == IF moves THEN (wheel + direction) % Turn ELSE wheel
        positioned == pc \in {"poll", "home_finish"}
    IN  /\ spinning
        /\ spun < Limit
        /\ LET costs == (IF Waited THEN 1 ELSE 0) + (IF moves \/ stuck THEN 0 ELSE 1)
           IN  /\ faults' = faults - costs
               /\ costs > 0 => positioned /\ faults >= costs
        /\ moves => ~stuck
        /\ wheel' = next
        /\ current' = Counted
        /\ spun' = IF pc = "poll" THEN 0 ELSE spun + 1
        /\ stepSem' = 1
        /\ encoderSem' = IF Signals(wheel, next) THEN 1 ELSE encoderSem
        /\ drift' = IF moves \/ drift >= Turn THEN drift ELSE drift + 1
        /\ overrun' = IF encoderSem = 0 THEN 0 ELSE overrun + 1
        /\ UNCHANGED <<stuck, spinning, target, direction, state, pc, command, encoder,
                       positioning, homing, cal, requests, report, lost>>

\* The wheel jams, which only shows while it is driven
Jam == /\ ~stuck
       /\ spinning
       /\ faults > 0
       /\ stuck' = TRUE
       /\ faults' = faults - 1
       /\ UNCHANGED <<wheel, motor, state, pc, signals, command, encoder, positioning,
                      homing, cal, requests, history>>

-----------------------------------------------------------------------------
(* Commands *)

Idle == state = "idle"

\* polarizer_wheel_set_angle accepts, in constant or in ramp speed
SetAngle(angle, constant, shortest) ==
    /\ requests > 0
    /\ requests' = requests - 1
    /\ Idle
    /\ command' = [type |-> "angle", step |-> angle, constant |-> constant,
                   shortest |-> shortest]
    /\ UNCHANGED <<wheelVars, motor, state, pc, signals, encoder, positioning,
                   homing, cal, faults, history>>

\* polarizer_wheel_home_async
HomeAsync == /\ requests > 0
             /\ requests' = requests - 1
             /\ Idle \/ state = "uninitialized"
             /\ command' = [NoCommand EXCEPT !.type = "home"]
             /\ homing' = [homing EXCEPT !.success = FALSE]
             /\ UNCHANGED <<wheelVars, motor, state, pc, signals, encoder, positioning,
                            cal, faults, history>>

\* polarizer_wheel_calibrate_async
CalibrateAsync == /\ requests > 0
                  /\ requests' = requests - 1
                  /\ Idle
                  /\ homing.success
                  /\ PositionAt(current) = "pass_through"
                  /\ command' = [NoCommand EXCEPT !.type = "calibrate"]
                  /\ UNCHANGED <<wheelVars, motor, state, pc, signals, encoder,
                                 positioning, homing, cal, faults, history>>

-----------------------------------------------------------------------------
(* The thread: positioning *)

\* The ramp is over; what it was is not read again
NoRotation == ramp' = NoRamp

\* polarizer_rotate: the motor driver may refuse the current
Rotate(ok) == /\ spinning' = ok
              /\ spun' = 0
              /\ IF ok THEN faults' = faults ELSE faults > 0 /\ faults' = faults - 1

\* Mutant: a course that never met the encoder does not ask for a homing
UntoldReached ==
    /\ spinning' = FALSE
    /\ NoRotation
    /\ UNCHANGED command
    /\ IF state = "encoder" /\ ~triggered
       THEN UNCHANGED <<report, encoder, state>>
       ELSE /\ report' = IF goal # "unknown" THEN goal ELSE report
            /\ encoder' = "off"
            /\ state' = "idle"

\* The target is seen: the motor stops first
Reached ==
    /\ spinning' = FALSE
    /\ NoRotation
    /\ IF state = "encoder" /\ ~triggered
       THEN /\ command' = [command EXCEPT !.type = "home"]
            /\ UNCHANGED <<report, encoder, state>>
       ELSE /\ report' = IF goal # "unknown" THEN goal ELSE report
            /\ encoder' = "off"
            /\ state' = "idle"
            /\ UNCHANGED command

\* polarizer_wheel_thread, step event: process_step_event
ThreadStep ==
    /\ pc = "poll"
    /\ stepSem = 1
    /\ stepSem' = 0
    /\ IF state \notin {"encoder", "open"}
       THEN UNCHANGED <<spinning, ramp, command, report, encoder, state>>
       ELSE IF current = target THEN Reached
       ELSE /\ ramp' = IF ramp.on
                       THEN [ramp EXCEPT !.step = RampStep(Abs(CircularDistance(ramp.start, current)),
                                                           ramp.total)]
                       ELSE ramp
            /\ UNCHANGED <<spinning, command, report, encoder, state>>
    /\ UNCHANGED <<wheelVars, spun, current, target, direction, pc, encoderSem, triggered, edge,
                   goal, homing, cal, bounds, drift, overrun, lost>>

\* Encoder event: process_encoder_event_positioning.  The thread handles what
\* k_poll returned with, so a step may be signalled and not handled before
ThreadEncoder ==
    /\ pc = "poll"
    /\ encoderSem = 1
    /\ encoderSem' = 0
    /\ IF state = "encoder" /\ ~triggered
       THEN /\ triggered' = TRUE
            /\ current' = edge
            /\ drift' = overrun
            /\ lost' = IF ~OnBump(goal, wheel) THEN "misread"
                       ELSE IF cal.complete /\ ~cal.sure THEN "unmeasured"
                       ELSE "no"
       ELSE UNCHANGED <<triggered, current, drift, lost>>
    /\ UNCHANGED <<wheelVars, spinning, spun, target, direction, state, pc, stepSem, command,
                   encoder, edge, goal, ramp, homing, cal, bounds, report, overrun>>

\* The motor is still and no event is left when the thread takes a command
Takes(type) == /\ pc = "poll"
               /\ stepSem = 0 /\ encoderSem = 0
               /\ command.type = type
               /\ command' = [command EXCEPT !.type = "none"]

\* The course of execute_set_angle: its direction and length
Course(to, shortest) ==
    LET signed == IF shortest THEN CircularDistance(current, to)
                  ELSE IF to - current <= 0 THEN to - current + Turn ELSE to - current
    IN  [dir |-> IF signed > 0 THEN Forward ELSE Backward, total |-> Abs(signed)]

\* execute_set_angle
ThreadSetAngle(ok) ==
    LET to     == command.step % Turn
        place  == PositionAt(command.step)
        course == Course(to, command.shortest)
        assisted == place # "unknown" /\ command.constant
    IN  /\ Takes("angle")
        /\ UNCHANGED <<wheelVars, current, pc, signals, homing, cal, requests, drift,
                       overrun, lost>>
        /\ IF ~Idle
           THEN ok /\ UNCHANGED <<motor, state, encoder, positioning, faults, report>>
           ELSE IF PositionAt(current) = place /\ place # "unknown"
           THEN /\ ok
                /\ goal' = place
                /\ report' = place
                /\ UNCHANGED <<motor, state, encoder, triggered, edge, ramp, faults>>
           ELSE /\ goal' = place
                /\ report' = "none"
                /\ direction' = course.dir
                /\ target' = to
                /\ IF assisted
                   THEN /\ edge' = NotchEdge(place, course.dir)
                        /\ triggered' = FALSE
                        /\ encoder' = "rising"
                   ELSE UNCHANGED <<edge, triggered, encoder>>
                /\ ramp' = IF command.constant THEN NoRamp
                           ELSE [on |-> TRUE, start |-> current, total |-> course.total, step |-> 0]
                /\ Rotate(ok)
                /\ state' = IF ~ok THEN "idle" ELSE IF assisted THEN "encoder" ELSE "open"

-----------------------------------------------------------------------------
(* The thread: homing *)

\* polarizer_wheel_step_relative, forward
StepRelative(from, steps, ok) == /\ direction' = Forward
                                 /\ target' = (from + steps) % Turn
                                 /\ Rotate(ok)

\* POLARIZER_HOMING_FAIL; the motor stops
HomingFail == /\ homing' = [homing EXCEPT !.success = FALSE]
              /\ state' = "uninitialized"
              /\ encoder' = "off"
              /\ spinning' = FALSE
              /\ NoRotation
              /\ pc' = "poll"

\* One spin of execute_homing towards the next bump
HomeSpin(h, ok) ==
    /\ current' = 0
    /\ encoderSem' = 0
    /\ StepRelative(0, 2 * Third, ok)
    /\ IF ok
       THEN /\ homing' = h
            /\ state' = "homing"
            /\ encoder' = "rising"
            /\ NoRotation
            /\ pc' = "home_wait"
       ELSE HomingFail
    /\ UNCHANGED <<wheelVars, stepSem, triggered, edge, cal, requests, drift, overrun>>

\* execute_homing begins
HomeBegin(ok) == /\ goal' = "pass_through"
                 /\ report' = "none"
                 /\ HomeSpin([homing EXCEPT !.notches = 0, !.attempts = 0], ok)
                 /\ UNCHANGED lost

ThreadHome(ok) == Takes("home") /\ HomeBegin(ok)
HomeAgain(ok) == pc = "home_start" /\ HomeBegin(ok) /\ UNCHANGED command

\* Mutant: any bump is taken for the second of the close ones
AnyPair == homing.notches # 0

\* The second of the two close bumps: the count since the bump before is in the window
ClosePair == /\ homing.notches # 0
             /\ CloseMin < current
             /\ current < CloseMax

\* A bump: either the pair is found and the wheel goes on to pass-through, or
\* the next bump is looked for
HomeNotch(ok) ==
    /\ pc = "home_wait"
    /\ encoderSem = 1
    /\ IF ClosePair
       THEN /\ current' = 0
            /\ encoderSem' = 0
            /\ StepRelative(0, EdgeToCenter + Third, ok)
            /\ homing' = [homing EXCEPT !.notches = @ + 1]
            /\ pc' = "pass_wait"
            /\ UNCHANGED <<wheelVars, state, stepSem, encoder, positioning, cal, requests,
                           drift, overrun>>
       ELSE /\ UNCHANGED goal
            /\ IF homing.notches + 1 < NotchAttempts
               THEN HomeSpin([homing EXCEPT !.notches = @ + 1, !.attempts = 0], ok)
               ELSE /\ ok
                    /\ HomingFail
                    /\ current' = 0
                    /\ encoderSem' = 0
                    /\ UNCHANGED <<wheelVars, target, direction, spun, stepSem, triggered, edge,
                                   cal, bounds, drift, overrun>>
    /\ UNCHANGED <<command, report, lost>>

\* No bump in four seconds: the wheel spins again, a few times
HomeTimeout(ok) ==
    /\ pc = "home_wait"
    /\ encoderSem = 0
    /\ spun >= FourSeconds
    /\ IF homing.attempts + 1 < SpinAttempts
       THEN HomeSpin([homing EXCEPT !.attempts = @ + 1], ok)
       ELSE /\ ok
            /\ HomingFail
            /\ UNCHANGED <<wheelVars, current, target, direction, spun, signals, triggered, edge,
                           cal, bounds, drift, overrun>>
    /\ UNCHANGED <<command, goal, report, lost>>

\* The edge of pass-through: the count is set and the wheel goes on to the center
PassNotch == /\ pc = "pass_wait"
             /\ encoderSem = 1
             /\ encoderSem' = 0
             /\ current' = Third
             /\ target' = Third + EdgeToCenter
             /\ spun' = 0
             /\ pc' = "home_finish"
             /\ drift' = overrun
             /\ lost' = "no"
             /\ UNCHANGED <<wheelVars, spinning, direction, state, stepSem, command, encoder,
                            positioning, homing, cal, bounds, report, overrun>>

\* Homing ends, and a calibration follows the first one
Homed == /\ encoder' = "off"
         /\ spinning' = FALSE
         /\ NoRotation
         /\ state' = "idle"
         /\ homing' = [homing EXCEPT !.success = TRUE]
         /\ current' = 0
         /\ report' = goal
         /\ cal' = [cal EXCEPT !.needed = FALSE]
         /\ pc' = IF cal.needed THEN "cal_start" ELSE "poll"
         /\ UNCHANGED <<wheelVars, spun, target, direction, encoderSem, command, triggered, edge,
                        goal, bounds, drift, overrun>>

\* The remaining steps are awaited one by one
HomeFinish == /\ pc = "home_finish"
              /\ stepSem = 1
              /\ stepSem' = 0
              /\ UNCHANGED lost
              /\ IF current = target
                 THEN Homed
                 ELSE UNCHANGED <<wheelVars, motor, state, pc, encoderSem, command, encoder,
                                  positioning, homing, cal, bounds, report, drift, overrun>>

\* Pass-through, or its center, is not seen in time: the wheel is homed all the same
HomeGivesUp == /\ \/ pc = "home_finish" /\ spun >= OneSecond
                  \/ pc = "pass_wait" /\ encoderSem = 0 /\ (spun >= FourSeconds \/ ~spinning)
               /\ lost' = "gave_up"
               /\ Homed
               /\ UNCHANGED stepSem

-----------------------------------------------------------------------------
(* The thread: calibration *)

BumpOrder == <<"vertical", "extra", "horizontal", "pass_through">>

\* One spin of execute_calibration, of three quarters of a turn
CalSpin(c, ok) == /\ encoderSem' = 0
                  /\ StepRelative(current, (3 * Turn) \div 4, ok)
                  /\ cal' = [c EXCEPT !.spins = @ + 1]
                  /\ pc' = IF ok THEN "cal_wait" ELSE "poll"
                  /\ state' = IF ok THEN "calibrating" ELSE "idle"
                  /\ encoder' = IF ok THEN "both" ELSE "off"
                  /\ NoRotation
                  /\ UNCHANGED homing

ThreadCalibrate == /\ Takes("calibrate")
                   /\ pc' = "cal_start"
                   /\ UNCHANGED <<wheelVars, motor, state, signals, encoder, positioning, homing,
                                  cal, bounds, history>>

\* execute_calibration begins, or finds that it may not
CalBegin(ok) ==
    /\ pc = "cal_start"
    /\ IF Idle /\ homing.success /\ PositionAt(current) = "pass_through"
       THEN /\ report' = "none"
            /\ CalSpin([needed |-> cal.needed, complete |-> FALSE, width |-> NoWidths,
                        index |-> 0, inside |-> FALSE, entry |-> 0, spins |-> 0,
                        sure |-> lost = "no" /\ OnBump("pass_through", wheel)], ok)
       ELSE /\ ok
            /\ pc' = "poll"
            /\ UNCHANGED <<motor, state, encoderSem, encoder, ramp, homing, cal, faults, report>>
    /\ UNCHANGED <<wheelVars, current, stepSem, command, triggered, edge, goal, requests,
                   drift, overrun, lost>>

\* The spins are over: the widths are kept, and the wheel is homed again
CalEnd(c) == /\ spinning' = FALSE
             /\ NoRotation
             /\ encoder' = "off"
             /\ cal' = [c EXCEPT !.complete = \A p \in Positions : c.width[p] > 0,
                                 !.needed = FALSE]
             /\ state' = "idle"
             /\ homing' = [homing EXCEPT !.success = FALSE]
             /\ pc' = "home_start"
             /\ encoderSem' = 0
             /\ UNCHANGED <<spun, target, direction, faults>>

SpinEnd(c, ok) == IF c.spins < 2 THEN CalSpin(c, ok) ELSE ok /\ CalEnd(c)

\* Mutant: the sign is dropped instead of the wrap around the zero of the count undone
StraightWidth == Abs(current - cal.entry)

\* The width of the bump the wheel leaves
BumpWidth == (current - cal.entry) % Turn

\* What an edge adds to the calibration: a bump is entered, or left and measured
Measured ==
    LET bump == BumpOrder[(cal.index % 4) + 1]
    IN  IF High(wheel) THEN [cal EXCEPT !.entry = current, !.inside = TRUE]
        ELSE IF ~cal.inside THEN cal
        ELSE [cal EXCEPT !.index = @ + 1, !.inside = FALSE,
                         !.width = [p \in Positions |-> IF p = bump /\ @[p] = 0 THEN BumpWidth
                                                        ELSE @[p]]]

\* All bumps are measured, which is only looked at when one has been left
AllMeasured(c) == c.index # cal.index /\ \A p \in Positions : c.width[p] > PerStep

CalEdge(ok) ==
    /\ pc = "cal_wait"
    /\ encoderSem = 1
    /\ IF AllMeasured(Measured) THEN ok /\ CalEnd(Measured)
       ELSE IF current = target THEN SpinEnd(Measured, ok)
       ELSE /\ ok
            /\ encoderSem' = 0
            /\ cal' = Measured
            /\ UNCHANGED <<spinning, spun, target, direction, state, pc, encoder, ramp, homing,
                           faults>>
    /\ UNCHANGED <<wheelVars, current, stepSem, command, triggered, edge, goal, requests,
                   history>>

\* The thread looks every 50 ms, and may see the count at the target, or the time over
CalSpinOver(ok) ==
    /\ pc = "cal_wait"
    /\ encoderSem = 0
    /\ current = target \/ spun >= FourSeconds
    /\ SpinEnd(cal, ok)
    /\ UNCHANGED <<wheelVars, current, stepSem, command, triggered, edge, goal, requests,
                   history>>

-----------------------------------------------------------------------------
(* The specification *)

Thread(ok) == \/ ThreadSetAngle(ok) \/ ThreadHome(ok) \/ HomeAgain(ok)
              \/ HomeNotch(ok) \/ HomeTimeout(ok)
              \/ CalBegin(ok) \/ CalEdge(ok) \/ CalSpinOver(ok)

ThreadAlone == \/ ThreadStep \/ ThreadEncoder \/ ThreadCalibrate
               \/ PassNotch \/ HomeFinish \/ HomeGivesUp

Requests == \/ \E angle \in Angles, constant, shortest \in BOOLEAN :
                   SetAngle(angle, constant, shortest)
            \/ HomeAsync
            \/ CalibrateAsync

Next == \/ \E moves \in BOOLEAN : Pulse(moves)
        \/ Jam
        \/ Requests
        \/ \E ok \in BOOLEAN : Thread(ok)
        \/ ThreadAlone

Spec == Init /\ [][Next]_vars

\* The timer gives pulses for as long as it is on, and the thread runs
Fairness == /\ WF_vars(\E moves \in BOOLEAN : Pulse(moves))
            /\ WF_vars((\E ok \in BOOLEAN : Thread(ok)) \/ ThreadAlone)

FairSpec == Spec /\ Fairness

-----------------------------------------------------------------------------
(* Properties *)

(* The position last reported to the Jetson (report_reached_state) is the one
   the wheel is at, up to the pulses that were lost or came late since the
   encoder last set the count and to what EdgeToCenter is off.  Not when the
   count was set at the bump of another position or from widths that were
   measured from a place that was not pass-through, or homing gave up waiting
   for pass-through. *)
ReportedIsThere ==
    (report # "none" /\ lost = "no")
        => Abs(CircularDistance(Center[report], wheel)) <= drift + Tolerance

(* A calibration that began at pass-through and is declared complete has
   measured each position's own bump, also the one that spans the zero of the
   step count and whichever spin each edge came in. *)
CalibrationMeasuresItsBump ==
    (cal.complete /\ cal.sure) => \A p \in Positions : cal.width[p] = 2 * Half[p] + 1

(* Every command ends: after a homing, a calibration or a course, also on a
   wheel that is stuck or missed its edge, the wheel is at rest in a state that
   accepts a command. *)
CommandsEnd == (command.type # "none") ~> (/\ command.type = "none"
                                           /\ pc = "poll"
                                           /\ state \in {"idle", "uninitialized"})

=============================================================================
