-------------------------- MODULE PolarizerProofs --------------------------
(***************************************************************************)
(* The position reported by Polarizer and the widths its calibration       *)
(* measures, for every size of the turn and of the bumps that keeps their  *)
(* order, every number of attempts and every number of faults.             *)
(***************************************************************************)
EXTENDS Polarizer, TLAPS

-----------------------------------------------------------------------------
(* The turn *)

\* The bump of pass-through spans the zero of the count: seen from the bump
\* before it, it is one turn on
Mid(b) == IF b = "pass_through" THEN Turn ELSE Center[b]
First(b) == Mid(b) - Half[b]
Last(b) == Mid(b) + Half[b]

\* Where the wheel is, counted from the end of the bump of pass-through
Past(w) == IF w > Half["pass_through"] THEN w ELSE w + Turn

Places == 0..(Turn - 1)
Onward(w) == IF w = Turn - 1 THEN 0 ELSE w + 1
Back(w) == IF w = 0 THEN Turn - 1 ELSE w - 1

\* The four bumps in their order
LEMMA Geometry ==
    /\ Turn \in Nat /\ Third \in Nat /\ Turn = 3 * Third /\ Third > 0
    /\ \A b \in Bumps : Half[b] \in Nat /\ Mid(b) \in Nat
    /\ Half["pass_through"] > 0
    /\ Mid("pass_through") = Turn /\ Mid("vertical") = Third /\ Mid("horizontal") = 2 * Third
    /\ Half["pass_through"] + 1 < First("vertical")
    /\ Last("vertical") + 1 < First("extra")
    /\ Last("extra") + 1 < First("horizontal")
    /\ Last("horizontal") + 1 < First("pass_through")
PROOF
  <1>1. Turn \in Nat /\ Third \in Nat /\ Turn = 3 * Third /\ Third > 0
    BY PolarizerConstants DEF Third
  <1>2. /\ Center["pass_through"] = 0 /\ Center["vertical"] = Third
        /\ Center["horizontal"] = 2 * Third /\ Center["extra"] = ExtraCenter
    BY DEF Center, Bumps, Positions
  <1>3. \A b \in Bumps : Half[b] \in Nat
    BY PolarizerConstants
  <1>4. /\ Mid("pass_through") = Turn /\ Mid("vertical") = Third
        /\ Mid("horizontal") = 2 * Third /\ Mid("extra") = ExtraCenter
    BY <1>2 DEF Mid
  <1>5. ExtraCenter \in Nat
    BY PolarizerConstants
  <1>6. \A b \in Bumps : Mid(b) \in Nat
    BY <1>1, <1>4, <1>5 DEF Bumps, Positions
  <1> QED
    BY <1>1, <1>3, <1>4, <1>5, <1>6, WheelAssumption DEF First, Last, Bumps, Positions

\* One step on, and one step back
LEMMA Steps ==
    ASSUME NEW w \in Places
    PROVE  /\ (w + 1) % Turn = Onward(w)
           /\ (w + Forward) % Turn = Onward(w)
           /\ (w + Backward) % Turn = Back(w)
PROOF
  <1>1. Turn \in Nat /\ Turn > 0 /\ w \in Nat /\ w < Turn
    BY Geometry DEF Places
  <1>2. (w + 1) % Turn = Onward(w)
    BY <1>1 DEF Onward
  <1>3. (w + -1) % Turn = Back(w)
    BY <1>1 DEF Back
  <1> QED
    BY <1>2, <1>3 DEF Forward, Backward

\* What is less than a turn out of the turn is brought back into it
LEMMA Wrap ==
    ASSUME NEW x \in Int, -Turn <= x, x < 2 * Turn
    PROVE  x % Turn = IF x < 0 THEN x + Turn ELSE IF x < Turn THEN x ELSE x - Turn
PROOF
  <1>1. Turn \in Nat /\ Turn > 0
    BY Geometry
  <1> QED
    BY <1>1

\* The bumps follow each other within one turn of Past
LEMMA PastSteps ==
    ASSUME NEW w \in Places
    PROVE  /\ Onward(w) \in Places /\ Back(w) \in Places
           /\ Past(w) \in Int
           /\ Past(w) > Half["pass_through"] /\ Past(w) <= Last("pass_through")
           /\ Past(Onward(w)) = IF Past(w) = Last("pass_through")
                                THEN Half["pass_through"] + 1 ELSE Past(w) + 1
           /\ Past(Back(w)) = IF Past(w) = Half["pass_through"] + 1
                              THEN Last("pass_through") ELSE Past(w) - 1
PROOF
  <1>1. /\ Half["pass_through"] \in Nat /\ Half["pass_through"] > 0
        /\ Turn \in Nat /\ 2 * Half["pass_through"] < Turn
        /\ Last("pass_through") = Turn + Half["pass_through"]
    BY Geometry DEF First, Last, Bumps, Positions
  <1>2. w \in Int /\ 0 <= w /\ w <= Turn - 1
    BY <1>1 DEF Places
  <1> QED
    BY <1>1, <1>2 DEF Onward, Back, Past, Places

\* The distance of two places around the wheel is the lesser of two
LEMMA NearIs ==
    ASSUME NEW c \in Places, NEW w \in Places, NEW d \in Nat
    PROVE  Abs(CircularDistance(c, w)) <= d
               <=> \/ w - c <= d /\ c - w <= d
                   \/ Turn - (w - c) <= d
                   \/ Turn - (c - w) <= d
PROOF
  <1>1. Turn \in Nat /\ Turn > 0
    BY Geometry
  <1> QED
    BY <1>1 DEF Places, Abs, CircularDistance

\* A place is on a bump when it is between its edges
LEMMA OnBumpIs ==
    ASSUME NEW b \in Bumps, NEW w \in Places
    PROVE  OnBump(b, w) <=> First(b) <= Past(w) /\ Past(w) <= Last(b)
PROOF
  <1>1. /\ Center[b] \in Places /\ Half[b] \in Nat
        /\ b # "pass_through" => /\ Mid(b) = Center[b]
                                 /\ First(b) > Half["pass_through"]
                                 /\ Last(b) < Turn - Half["pass_through"]
        /\ b = "pass_through" => Mid(b) = Turn /\ Center[b] = 0
    <2>1. CASE b = "pass_through"
      BY <2>1, Geometry DEF Center, Places, Bumps, Positions
    <2>2. CASE b = "vertical"
      BY <2>2, Geometry DEF Center, Places, First, Last, Mid, Bumps, Positions
    <2>3. CASE b = "horizontal"
      BY <2>3, Geometry DEF Center, Places, First, Last, Mid, Bumps, Positions
    <2>4. CASE b = "extra"
      BY <2>4, Geometry DEF Center, Places, First, Last, Mid, Bumps, Positions
    <2> QED
      BY <2>1, <2>2, <2>3, <2>4 DEF Bumps, Positions
  <1>2. OnBump(b, w) <=> \/ w - Center[b] <= Half[b] /\ Center[b] - w <= Half[b]
                         \/ Turn - (w - Center[b]) <= Half[b]
                         \/ Turn - (Center[b] - w) <= Half[b]
    BY <1>1, NearIs DEF OnBump
  <1>3. /\ Turn \in Nat /\ w \in Nat /\ w < Turn /\ Center[b] \in Nat
        /\ Half["pass_through"] \in Nat /\ 2 * Half["pass_through"] < Turn
    BY <1>1, Geometry DEF Places, First, Last, Bumps, Positions
  <1>4. CASE b = "pass_through"
    BY <1>1, <1>2, <1>3, <1>4 DEF Past, First, Last
  <1>5. CASE b # "pass_through"
    BY <1>1, <1>2, <1>3, <1>5 DEF Past, First, Last
  <1> QED
    BY <1>4, <1>5

-----------------------------------------------------------------------------
(* The thread and its data *)

ThreadPoints == {"poll", "home_start", "home_wait", "pass_wait", "home_finish",
                 "cal_start", "cal_wait"}
Courses == {"encoder", "open"}
Homings == {"home_wait", "pass_wait", "home_finish"}

Commands == [type : {"none", "home", "angle", "calibrate"}, step : 0..Turn,
             constant : BOOLEAN, shortest : BOOLEAN]
Homing == [notches : Nat, attempts : Nat, success : BOOLEAN]
Calibration == [needed : BOOLEAN, complete : BOOLEAN, width : [Positions -> Places],
                index : Nat, inside : BOOLEAN, entry : Places, spins : Nat,
                sure : BOOLEAN]

MotorTypes == /\ wheel \in Places /\ stuck \in BOOLEAN /\ spinning \in BOOLEAN
              /\ spun \in Nat /\ current \in Places /\ target \in Nat
              /\ direction \in {Forward, Backward}
ThreadTypes == /\ pc \in ThreadPoints
               /\ stepSem \in {0, 1} /\ encoderSem \in {0, 1}
               /\ command \in Commands /\ homing \in Homing
               /\ edge \in Places /\ goal \in Positions \cup {"unknown"}
CalTypes == cal \in Calibration
HistoryTypes == /\ report \in Positions \cup {"none"}
                /\ drift \in Nat /\ overrun \in Nat

Types == MotorTypes /\ ThreadTypes /\ CalTypes /\ HistoryTypes

\* The edge that a position is expected at is a place of the turn
LEMMA EdgeType ==
    ASSUME CalTypes, NEW p \in Positions, NEW dir \in {Forward, Backward}
    PROVE  /\ NotchEdge(p, dir) \in Places
           /\ EdgeDistance(p) \in Nat /\ EdgeDistance(p) < Turn
           /\ NotchEdge(p, dir) = (Center[p] - dir * EdgeDistance(p)) % Turn
PROOF
  <1>1. Turn \in Nat /\ Turn > 0 /\ Third \in Nat /\ Turn = 3 * Third
    BY Geometry
  <1>2. cal.complete \in BOOLEAN /\ cal.width[p] \in Places
    BY DEF CalTypes, Calibration
  <1>3. EdgeToCenter \in Nat /\ EdgeToCenter <= Third
    BY PolarizerConstants, WheelAssumption
  <1>4. EdgeDistance(p) \in Nat /\ EdgeDistance(p) < Turn
    BY <1>1, <1>2, <1>3 DEF EdgeDistance, Places
  <1>5. Center[p] \in Int
    BY <1>1 DEF Center, Bumps, Positions
  <1>6. Center[p] - dir * EdgeDistance(p) \in Int
    BY <1>4, <1>5 DEF Forward, Backward
  <1>7. (Center[p] - dir * EdgeDistance(p)) % Turn \in Places
    BY <1>1, <1>6 DEF Places
  <1> QED
    BY <1>4, <1>7 DEF NotchEdge

\* What a pulse does to the place of the wheel and to the count
LEMMA PulseIs ==
    ASSUME Types, NEW moves \in BOOLEAN, Pulse(moves)
    PROVE  /\ current' = IF direction = Forward THEN Onward(current) ELSE Back(current)
           /\ wheel' = IF ~moves THEN wheel
                       ELSE IF direction = Forward THEN Onward(wheel) ELSE Back(wheel)
PROOF
  <1> USE DEF Types, MotorTypes
  <1>1. Turn \in Nat /\ Turn > 0
    BY Geometry
  <1>2. current' = IF direction = Forward THEN Onward(current) ELSE Back(current)
    BY <1>1 DEF Pulse, Counted, Onward, Back, Places, Forward, Backward
  <1>3. wheel' = IF moves THEN (wheel + direction) % Turn ELSE wheel
    BY DEF Pulse
  <1> QED
    BY <1>2, <1>3, Steps DEF Forward, Backward

\* A relative rotation goes forward, to a place of the turn
LEMMA RotationIs ==
    ASSUME NEW from \in Places, NEW steps \in Nat, NEW ok \in BOOLEAN,
           StepRelative(from, steps, ok)
    PROVE  direction' = Forward /\ target' \in Nat /\ spinning' = ok /\ spun' = 0
PROOF
  <1>1. Turn \in Nat /\ Turn > 0 /\ from + steps \in Int
    BY Geometry DEF Places
  <1>2. (from + steps) % Turn \in Nat
    BY <1>1
  <1> QED
    BY <1>2 DEF StepRelative, Rotate

\* The distances the wheel is turned by
LEMMA Distances ==
    /\ 0 \in Places /\ Third \in Places
    /\ 2 * Third \in Nat /\ EdgeToCenter + Third \in Nat /\ (3 * Turn) \div 4 \in Nat
    /\ Third + EdgeToCenter \in Nat
PROOF
  BY Geometry, PolarizerConstants DEF Places

\* What a spin towards the next bump leaves behind, also when it is refused
LEMMA HomeSpinIs ==
    ASSUME Types, NEW h \in Homing, NEW ok \in BOOLEAN, HomeSpin(h, ok)
    PROVE  /\ current' = 0 /\ encoderSem' = 0
           /\ direction' = Forward /\ target' \in Nat /\ spinning' = ok /\ spun' = 0
           /\ homing' \in Homing
           /\ ok => homing' = h /\ state' = "homing" /\ encoder' = "rising" /\ pc' = "home_wait"
           /\ ~ok => state' = "uninitialized" /\ encoder' = "off" /\ pc' = "poll"
           /\ UNCHANGED <<wheelVars, stepSem, triggered, edge, cal, requests, drift, overrun>>
PROOF
  <1>1. StepRelative(0, 2 * Third, ok)
    BY DEF HomeSpin
  <1>2. direction' = Forward /\ target' \in Nat /\ spinning' = ok /\ spun' = 0
    BY <1>1, RotationIs, Distances
  <1>3. ~ok => homing' = [homing EXCEPT !.success = FALSE]
    BY DEF HomeSpin, HomingFail
  <1>4. homing' \in Homing
    BY <1>3 DEF HomeSpin, Types, ThreadTypes, Homing
  <1> QED
    BY <1>2, <1>4 DEF HomeSpin, HomingFail

\* What a spin of the calibration leaves behind
LEMMA CalSpinIs ==
    ASSUME Types, NEW c \in Calibration, NEW ok \in BOOLEAN, CalSpin(c, ok)
    PROVE  /\ encoderSem' = 0 /\ UNCHANGED homing
           /\ direction' = Forward /\ target' \in Nat /\ spinning' = ok /\ spun' = 0
           /\ cal' = [c EXCEPT !.spins = @ + 1] /\ cal' \in Calibration
           /\ ok => state' = "calibrating" /\ encoder' = "both" /\ pc' = "cal_wait"
           /\ ~ok => state' = "idle" /\ encoder' = "off" /\ pc' = "poll"
PROOF
  <1>1. StepRelative(current, (3 * Turn) \div 4, ok)
    BY DEF CalSpin
  <1>2. direction' = Forward /\ target' \in Nat /\ spinning' = ok /\ spun' = 0
    BY <1>1, RotationIs, Distances DEF Types, MotorTypes
  <1>3. cal' = [c EXCEPT !.spins = @ + 1] /\ cal' \in Calibration
    BY DEF CalSpin, Calibration
  <1> QED
    BY <1>2, <1>3 DEF CalSpin

\* What the end of the calibration leaves behind
LEMMA CalEndIs ==
    ASSUME Types, NEW c \in Calibration, CalEnd(c)
    PROVE  /\ spinning' = FALSE /\ encoder' = "off" /\ state' = "idle" /\ pc' = "home_start"
           /\ encoderSem' = 0 /\ homing' \in Homing
           /\ cal' = [c EXCEPT !.complete = \A p \in Positions : c.width[p] > 0,
                               !.needed = FALSE]
           /\ cal' \in Calibration
           /\ UNCHANGED <<spun, target, direction>>
PROOF
  <1>1. homing' \in Homing
    BY DEF CalEnd, Types, ThreadTypes, Homing
  <1>2. (\A p \in Positions : c.width[p] > 0) \in BOOLEAN
    OBVIOUS
  <1>3. cal' \in Calibration
    BY <1>2 DEF CalEnd, Calibration
  <1> QED
    BY <1>1, <1>3 DEF CalEnd

\* A width is counted modulo the turn
LEMMA WidthIs ==
    ASSUME Types
    PROVE  /\ BumpWidth \in Places
           /\ BumpWidth = IF current >= cal.entry THEN current - cal.entry
                          ELSE current - cal.entry + Turn
PROOF
  <1>1. current \in Places /\ cal.entry \in Places /\ Turn \in Nat /\ Turn > 0
    BY Geometry DEF Types, MotorTypes, CalTypes, Calibration
  <1>2. /\ current - cal.entry \in Int
        /\ -Turn <= current - cal.entry /\ current - cal.entry < Turn
    BY <1>1 DEF Places
  <1>3. BumpWidth = IF current - cal.entry < 0 THEN current - cal.entry + Turn
                    ELSE current - cal.entry
    BY <1>1, <1>2, Wrap DEF BumpWidth
  <1> QED
    BY <1>1, <1>3 DEF Places

\* What an edge adds to the calibration
LEMMA MeasuredIs ==
    ASSUME Types
    PROVE  /\ Measured \in Calibration
           /\ Measured.sure = cal.sure /\ Measured.complete = cal.complete
           /\ High(wheel) => /\ Measured.inside /\ Measured.entry = current
                             /\ Measured.index = cal.index /\ Measured.width = cal.width
           /\ ~High(wheel) /\ ~cal.inside => Measured = cal
           /\ ~High(wheel) /\ cal.inside =>
                  /\ ~Measured.inside /\ Measured.index = cal.index + 1
                  /\ Measured.width = [p \in Positions |->
                         IF p = BumpOrder[(cal.index % 4) + 1] /\ cal.width[p] = 0
                         THEN BumpWidth ELSE cal.width[p]]
PROOF
  <1>1. /\ cal \in Calibration /\ current \in Places /\ BumpWidth \in Places
    BY WidthIs DEF Types, MotorTypes, CalTypes
  <1>2. CASE High(wheel)
    <2>1. Measured = [cal EXCEPT !.entry = current, !.inside = TRUE]
      BY <1>2 DEF Measured
    <2> QED
      BY <1>1, <1>2, <2>1 DEF Calibration
  <1>3. CASE ~High(wheel) /\ ~cal.inside
    BY <1>1, <1>3 DEF Measured
  <1>4. CASE ~High(wheel) /\ cal.inside
    <2> DEFINE b == BumpOrder[(cal.index % 4) + 1]
               w == [p \in Positions |-> IF p = b /\ cal.width[p] = 0 THEN BumpWidth
                                         ELSE cal.width[p]]
    <2>1. Measured = [cal EXCEPT !.index = cal.index + 1, !.inside = FALSE, !.width = w]
      BY <1>1, <1>4 DEF Measured, Calibration
    <2>2. w \in [Positions -> Places]
      BY <1>1 DEF Calibration
    <2> HIDE DEF w
    <2>3. cal.index + 1 \in Nat
      BY <1>1 DEF Calibration
    <2>4. /\ Measured \in Calibration
          /\ Measured.sure = cal.sure /\ Measured.complete = cal.complete
          /\ ~Measured.inside /\ Measured.index = cal.index + 1 /\ Measured.width = w
      BY <1>1, <2>1, <2>2, <2>3 DEF Calibration
    <2> QED
      BY <1>4, <2>4 DEF w
  <1> QED
    BY <1>2, <1>3, <1>4

\* Every pulse keeps the types
LEMMA PulseKeepsTypes ==
    ASSUME Types, NEW moves \in BOOLEAN, Pulse(moves)
    PROVE  Types'
PROOF
  <1> USE DEF Types
  <1>1. MotorTypes'
    <2>1. current' \in Places /\ wheel' \in Places
      BY PulseIs, PastSteps DEF MotorTypes
    <2>2. spun' \in Nat /\ UNCHANGED <<stuck, spinning, target, direction>>
      BY DEF Pulse, MotorTypes
    <2> QED
      BY <2>1, <2>2 DEF MotorTypes
  <1>2. ThreadTypes' /\ CalTypes'
    BY DEF Pulse, ThreadTypes, CalTypes, positioning
  <1>3. HistoryTypes'
    BY DEF Pulse, HistoryTypes
  <1> QED
    BY <1>1, <1>2, <1>3

\* So does every command
LEMMA RequestsKeepTypes ==
    ASSUME Types, Requests \/ Jam
    PROVE  Types'
PROOF
  <1> USE DEF Types, wheelVars, motor, signals, positioning, history
  <1>1. CASE Jam
    BY <1>1 DEF Jam, MotorTypes, ThreadTypes, CalTypes, HistoryTypes
  <1>2. CASE HomeAsync \/ CalibrateAsync
    <2>1. command' \in Commands /\ homing' \in Homing
      <3>1. 0 \in 0..Turn
        BY Geometry
      <3> QED
        BY <1>2, <3>1 DEF HomeAsync, CalibrateAsync, NoCommand, Commands, Homing, ThreadTypes
    <2> QED
      BY <1>2, <2>1 DEF HomeAsync, CalibrateAsync, MotorTypes, ThreadTypes, CalTypes,
                        HistoryTypes
  <1>3. ASSUME NEW angle \in Angles, NEW constant \in BOOLEAN, NEW shortest \in BOOLEAN,
               SetAngle(angle, constant, shortest)
        PROVE  Types'
    <2>1. angle \in 0..Turn
      BY PolarizerConstants
    <2>2. command' \in Commands
      BY <1>3, <2>1 DEF SetAngle, Commands
    <2> QED
      BY <1>3, <2>2 DEF SetAngle, MotorTypes, ThreadTypes, CalTypes, HistoryTypes
  <1> QED
    BY <1>1, <1>2, <1>3 DEF Requests

\* A position is where its center is
LEMMA PositionIs ==
    ASSUME NEW step \in Int
    PROVE  /\ PositionAt(step) \in Positions \cup {"unknown"}
           /\ PositionAt(step) # "unknown" => Center[PositionAt(step)] = step
           /\ step = 0 => PositionAt(step) = "pass_through"
PROOF
  <1>1. /\ Center["pass_through"] = 0 /\ Center["vertical"] = Third
        /\ Center["horizontal"] = 2 * Third /\ Third > 0 /\ Third \in Nat
    BY Geometry DEF Center, Bumps, Positions
  <1>2. CASE \E p \in Positions : Center[p] = step
    <2>1. PositionAt(step) = CHOOSE p \in Positions : Center[p] = step
      BY <1>2 DEF PositionAt
    <2>2. PositionAt(step) \in Positions /\ Center[PositionAt(step)] = step
      BY <1>2, <2>1
    <2> QED
      BY <1>1, <2>2 DEF Positions
  <1>3. CASE ~ \E p \in Positions : Center[p] = step
    BY <1>1, <1>3 DEF PositionAt, Positions
  <1> QED
    BY <1>2, <1>3

\* What the thread does when it sees a step
LEMMA ThreadStepIs ==
    ASSUME Types, ThreadStep
    PROVE  /\ UNCHANGED <<wheelVars, spun, current, target, direction, pc, encoderSem, edge, goal,
                          homing, cal, drift, overrun, lost>>
           /\ stepSem' = 0 /\ pc = "poll"
           /\ \/ UNCHANGED <<spinning, command, report, encoder, state>>
              \/ /\ state \in Courses /\ spinning' = FALSE
                 /\ command' = [command EXCEPT !.type = "home"]
                 /\ UNCHANGED <<report, encoder, state>>
              \/ /\ state \in Courses /\ current = target /\ spinning' = FALSE
                 /\ report' = IF goal # "unknown" THEN goal ELSE report
                 /\ encoder' = "off" /\ state' = "idle" /\ UNCHANGED command
PROOF
  <1>1. /\ UNCHANGED <<wheelVars, spun, current, target, direction, pc, encoderSem, edge, goal,
                       homing, cal, drift, overrun, lost>>
        /\ stepSem' = 0 /\ pc = "poll"
    BY DEF ThreadStep
  <1>2. CASE state \in Courses /\ current = target
    <2>1. Reached
      BY <1>2 DEF ThreadStep, Courses
    <2>2. CASE state = "encoder" /\ ~triggered
      BY <1>1, <1>2, <2>1, <2>2 DEF Reached
    <2>3. CASE ~(state = "encoder" /\ ~triggered)
      BY <1>1, <1>2, <2>1, <2>3 DEF Reached
    <2> QED
      BY <2>2, <2>3
  <1>3. CASE ~(state \in Courses /\ current = target)
    <2>1. UNCHANGED <<spinning, command, report, encoder, state>>
      BY <1>3 DEF ThreadStep, Courses
    <2> QED
      BY <1>1, <2>1
  <1> QED
    BY <1>2, <1>3

\* The steps of positioning keep the types
LEMMA PositioningKeepsTypes ==
    ASSUME Types, ThreadStep \/ ThreadEncoder \/ ThreadCalibrate
    PROVE  Types'
PROOF
  <1> USE DEF Types, wheelVars, motor, signals, positioning, history, bounds
  <1>1. CASE ThreadStep
    <2>1. /\ UNCHANGED <<wheelVars, spun, current, target, direction, pc, encoderSem, edge, goal,
                         homing, cal, drift, overrun>>
          /\ spinning' \in {spinning, FALSE} /\ stepSem' = 0
          /\ report' \in {report, goal} \ {"unknown"}
          /\ \/ command' = command
             \/ command' = [command EXCEPT !.type = "home"]
      BY <1>1, ThreadStepIs DEF HistoryTypes, Positions
    <2>2. command' \in Commands
      BY <2>1 DEF ThreadTypes, Commands
    <2>3. MotorTypes' /\ ThreadTypes' /\ CalTypes' /\ HistoryTypes'
      BY <2>1, <2>2 DEF MotorTypes, ThreadTypes, CalTypes, HistoryTypes
    <2> QED
      BY <2>3
  <1>2. CASE ThreadEncoder
    BY <1>2 DEF ThreadEncoder, MotorTypes, ThreadTypes, CalTypes, HistoryTypes
  <1>3. CASE ThreadCalibrate
    <2>1. command' \in Commands
      BY <1>3 DEF ThreadCalibrate, Takes, ThreadTypes, Commands
    <2> QED
      BY <1>3, <2>1 DEF ThreadCalibrate, ThreadPoints, MotorTypes, ThreadTypes, CalTypes,
                        HistoryTypes
  <1> QED
    BY <1>1, <1>2, <1>3

\* What the thread does with a new angle: nothing, for it is not idle; nothing,
\* for it is there; or a course, which the motor driver may refuse
NoCourse == /\ ~Idle
            /\ UNCHANGED <<motor, state, encoder, edge, goal, report>>
IsThere == /\ goal' \in Positions /\ Center[goal'] = current /\ report' = goal'
           /\ UNCHANGED <<motor, state, encoder, edge>>
SetsOut == /\ goal' \in Positions \cup {"unknown"} /\ report' = "none"
           /\ direction' \in {Forward, Backward} /\ target' \in Nat /\ edge' \in Places
           /\ spinning' \in BOOLEAN /\ spun' = 0
           /\ state' \in {"idle"} \cup Courses
           /\ spinning' => state' # "idle"
           /\ goal' # "unknown" => target' = Center[goal']
           /\ state' = "encoder" => goal' # "unknown" /\ edge' = NotchEdge(goal', direction')

\* A new angle is one of the three
LEMMA SetAngleIs ==
    ASSUME Types, NEW ok \in BOOLEAN, ThreadSetAngle(ok)
    PROVE  /\ pc = "poll" /\ encoderSem = 0
           /\ command.type = "angle" /\ command' = [command EXCEPT !.type = "none"]
           /\ UNCHANGED <<wheelVars, current, pc, signals, homing, cal, drift, overrun, lost>>
           /\ NoCourse \/ (Idle /\ IsThere) \/ (Idle /\ SetsOut)
PROOF
  <1> DEFINE to == command.step % Turn
             place == PositionAt(command.step)
             course == Course(to, command.shortest)
             assisted == place # "unknown" /\ command.constant
  <1>1. Turn \in Nat /\ Turn > 0 /\ command.step \in Int /\ 0 <= command.step
        /\ command.step <= Turn
    BY Geometry DEF Types, ThreadTypes, Commands
  <1>2. /\ pc = "poll" /\ encoderSem = 0
        /\ command.type = "angle" /\ command' = [command EXCEPT !.type = "none"]
        /\ UNCHANGED <<wheelVars, current, pc, signals, homing, cal, drift, overrun, lost>>
    BY DEF ThreadSetAngle, Takes
  <1>3. /\ place \in Positions \cup {"unknown"}
        /\ place # "unknown" => Center[place] = command.step
    BY <1>1, PositionIs
  <1>4. CASE ~Idle
    BY <1>2, <1>4 DEF ThreadSetAngle, NoCourse, positioning
  <1>5. CASE Idle /\ PositionAt(current) = place /\ place # "unknown"
    <2>1. goal' = place /\ report' = place /\ UNCHANGED <<motor, state, encoder, edge>>
      BY <1>5 DEF ThreadSetAngle
    <2>2. Center[place] = current
      BY <1>1, <1>5, PositionIs DEF Types, MotorTypes, Places
    <2> QED
      BY <1>2, <1>3, <1>5, <2>1, <2>2 DEF IsThere
  <1>6. CASE Idle /\ ~(PositionAt(current) = place /\ place # "unknown")
    <2>1. /\ goal' = place /\ report' = "none"
          /\ direction' = course.dir /\ target' = to
          /\ edge' = IF assisted THEN NotchEdge(place, course.dir) ELSE edge
          /\ spinning' = ok /\ spun' = 0
          /\ state' = IF ~ok THEN "idle" ELSE IF assisted THEN "encoder" ELSE "open"
      BY <1>6 DEF ThreadSetAngle, Rotate
    <2>2. course.dir \in {Forward, Backward}
      BY DEF Course
    <2>3. to \in Nat /\ (place # "unknown" => to = Center[place])
      <3>1. to \in Nat /\ (command.step < Turn => to = command.step)
        BY <1>1, Wrap
      <3>2. place # "unknown" => command.step < Turn
        BY <1>3, Geometry DEF Center, Bumps, Positions
      <3> QED
        BY <1>3, <3>1, <3>2
    <2>4. place # "unknown" => NotchEdge(place, course.dir) \in Places
      BY <1>3, <2>2, EdgeType DEF Types
    <2>5. edge \in Places
      BY DEF Types, ThreadTypes
    <2> HIDE DEF to, place, course
    <2> QED
      BY <1>2, <1>3, <1>6, <2>1, <2>2, <2>3, <2>4, <2>5 DEF SetsOut, Courses
  <1> QED
    BY <1>4, <1>5, <1>6

\* A course, too, keeps the types
LEMMA SetAngleKeepsTypes ==
    ASSUME Types, NEW ok \in BOOLEAN, ThreadSetAngle(ok)
    PROVE  Types'
PROOF
  <1>1. /\ command' = [command EXCEPT !.type = "none"]
        /\ UNCHANGED <<wheelVars, current, pc, signals, homing, cal, drift, overrun>>
        /\ NoCourse \/ IsThere \/ SetsOut
    BY SetAngleIs
  <1>2. command' \in Commands
    BY <1>1 DEF Types, ThreadTypes, Commands
  <1>3. MotorTypes'
    BY <1>1 DEF Types, MotorTypes, NoCourse, IsThere, SetsOut, motor, wheelVars
  <1>4. ThreadTypes' /\ CalTypes' /\ HistoryTypes'
    BY <1>1, <1>2 DEF Types, ThreadTypes, CalTypes, HistoryTypes, NoCourse, IsThere, SetsOut,
                      signals
  <1> QED
    BY <1>3, <1>4 DEF Types

\* The homing begins with a spin that counts no bump yet
LEMMA HomeBeginIs ==
    ASSUME Types, NEW ok \in BOOLEAN, ThreadHome(ok) \/ HomeAgain(ok)
    PROVE  /\ goal' = "pass_through" /\ report' = "none" /\ UNCHANGED lost
           /\ command' \in Commands
           /\ \E h \in Homing : h.notches = 0 /\ HomeSpin(h, ok)
PROOF
  <1> DEFINE h == [homing EXCEPT !.notches = 0, !.attempts = 0]
  <1>1. HomeBegin(ok)
    BY DEF ThreadHome, HomeAgain
  <1>2. h \in Homing /\ h.notches = 0
    BY DEF Types, ThreadTypes, Homing
  <1>3. command' \in Commands
    BY DEF ThreadHome, HomeAgain, Takes, Types, ThreadTypes, Commands
  <1>4. HomeSpin(h, ok) /\ goal' = "pass_through" /\ report' = "none" /\ UNCHANGED lost
    BY <1>1 DEF HomeBegin
  <1> QED
    BY <1>2, <1>3, <1>4

\* What the thread does with a bump it has found, or not found in time
PairFound(ok) == /\ ClosePair
                 /\ current' = 0 /\ encoderSem' = 0
                 /\ direction' = Forward /\ target' \in Nat /\ spinning' = ok /\ spun' = 0
                 /\ homing' \in Homing /\ pc' = "pass_wait"
                 /\ UNCHANGED <<wheelVars, state, stepSem, encoder, edge, goal, cal, drift,
                                overrun>>
NoHoming == /\ homing' \in Homing /\ state' = "uninitialized" /\ encoder' = "off"
            /\ spinning' = FALSE /\ pc' = "poll"
            /\ current' \in {0, current} /\ encoderSem' \in {0, encoderSem}
            /\ UNCHANGED <<wheelVars, target, direction, spun, stepSem, edge, goal, cal, drift,
                           overrun>>

\* A bump is the second of the close pair, one to go on from, or one too many
LEMMA HomeNotchIs ==
    ASSUME Types, NEW ok \in BOOLEAN, HomeNotch(ok)
    PROVE  /\ pc = "home_wait" /\ encoderSem = 1 /\ UNCHANGED <<command, report, lost>>
           /\ \/ PairFound(ok)
              \/ /\ ~ClosePair /\ UNCHANGED goal
                 /\ \E h \in Homing : h.notches # 0 /\ HomeSpin(h, ok)
              \/ NoHoming
PROOF
  <1>1. pc = "home_wait" /\ encoderSem = 1 /\ UNCHANGED <<command, report, lost>>
    BY DEF HomeNotch
  <1>2. homing \in Homing
    BY DEF Types, ThreadTypes
  <1>3. CASE ClosePair
    <2>1. StepRelative(0, EdgeToCenter + Third, ok)
      BY <1>3 DEF HomeNotch
    <2>2. direction' = Forward /\ target' \in Nat /\ spinning' = ok /\ spun' = 0
      BY <2>1, RotationIs, Distances
    <2>3. homing' \in Homing
      BY <1>2, <1>3 DEF HomeNotch, Homing
    <2>4. PairFound(ok)
      BY <1>3, <2>2, <2>3 DEF HomeNotch, PairFound, positioning
    <2> QED
      BY <1>1, <2>4
  <1>4. CASE ~ClosePair /\ homing.notches + 1 < NotchAttempts
    <2> DEFINE h == [homing EXCEPT !.notches = homing.notches + 1, !.attempts = 0]
    <2>1. UNCHANGED goal /\ HomeSpin(h, ok)
      BY <1>4 DEF HomeNotch
    <2>2. homing.notches + 1 \in Nat /\ homing.notches + 1 # 0
      BY <1>2 DEF Homing
    <2>3. h \in Homing /\ h.notches # 0
      BY <1>2, <2>2 DEF Homing
    <2> QED
      BY <1>1, <1>4, <2>1, <2>3
  <1>5. CASE ~ClosePair /\ ~(homing.notches + 1 < NotchAttempts)
    <2>1. /\ HomingFail /\ UNCHANGED goal /\ current' = 0 /\ encoderSem' = 0
          /\ UNCHANGED <<wheelVars, target, direction, spun, stepSem, edge, cal, drift, overrun>>
      BY <1>5 DEF HomeNotch
    <2>2. homing' \in Homing
      BY <1>2, <2>1 DEF HomingFail, Homing
    <2>3. NoHoming
      BY <2>1, <2>2 DEF HomingFail, NoHoming
    <2> QED
      BY <1>1, <2>3
  <1> QED
    BY <1>3, <1>4, <1>5

\* A spin that met no bump is repeated, or the homing ends
LEMMA HomeTimeoutIs ==
    ASSUME Types, NEW ok \in BOOLEAN, HomeTimeout(ok)
    PROVE  /\ pc = "home_wait" /\ encoderSem = 0 /\ spun >= FourSeconds
           /\ UNCHANGED <<command, goal, report, lost>>
           /\ \/ \E h \in Homing : h.notches = homing.notches /\ HomeSpin(h, ok)
              \/ NoHoming
PROOF
  <1>1. /\ pc = "home_wait" /\ encoderSem = 0 /\ spun >= FourSeconds
        /\ UNCHANGED <<command, goal, report, lost>>
    BY DEF HomeTimeout
  <1>2. homing \in Homing
    BY DEF Types, ThreadTypes
  <1>3. CASE homing.attempts + 1 < SpinAttempts
    <2> DEFINE h == [homing EXCEPT !.attempts = @ + 1]
    <2>1. HomeSpin(h, ok)
      BY <1>3 DEF HomeTimeout
    <2>2. h \in Homing /\ h.notches = homing.notches
      BY <1>2 DEF Homing
    <2> QED
      BY <1>1, <2>1, <2>2
  <1>4. CASE ~(homing.attempts + 1 < SpinAttempts)
    <2>1. /\ HomingFail
          /\ UNCHANGED <<wheelVars, current, target, direction, spun, signals, edge, cal, drift,
                         overrun>>
      BY <1>4 DEF HomeTimeout
    <2>2. homing' \in Homing
      BY <1>2, <2>1 DEF HomingFail, Homing
    <2>3. NoHoming
      BY <1>1, <2>1, <2>2 DEF HomingFail, NoHoming, signals
    <2> QED
      BY <1>1, <2>3
  <1> QED
    BY <1>3, <1>4

\* The calibration begins at pass-through, or not at all
CalRest == <<wheelVars, current, stepSem, command, edge, goal, drift, overrun, lost>>
Begins(c, ok) == /\ CalSpin(c, ok) /\ ~c.complete /\ c.width = NoWidths
                 /\ c.index = 0 /\ ~c.inside
                 /\ c.sure <=> lost = "no" /\ OnBump("pass_through", wheel)

\* It numbers its bumps from pass-through on, when that is where the wheel is
LEMMA CalBeginIs ==
    ASSUME Types, NEW ok \in BOOLEAN, CalBegin(ok)
    PROVE  /\ pc = "cal_start" /\ UNCHANGED CalRest
           /\ \/ /\ pc' = "poll"
                 /\ UNCHANGED <<motor, state, encoderSem, encoder, homing, cal, report>>
              \/ /\ Idle /\ report' = "none"
                 /\ \E c \in Calibration : Begins(c, ok)
PROOF
  <1> DEFINE c == [needed |-> cal.needed, complete |-> FALSE, width |-> NoWidths,
                   index |-> 0, inside |-> FALSE, entry |-> 0, spins |-> 0,
                   sure |-> lost = "no" /\ OnBump("pass_through", wheel)]
  <1>1. pc = "cal_start" /\ UNCHANGED CalRest
    BY DEF CalBegin, CalRest
  <1>2. CASE Idle /\ homing.success /\ PositionAt(current) = "pass_through"
    <2>1. report' = "none" /\ CalSpin(c, ok)
      BY <1>2 DEF CalBegin
    <2>2. NoWidths \in [Positions -> Places] /\ 0 \in Places
      BY Distances DEF NoWidths
    <2>3. cal.needed \in BOOLEAN
      BY DEF Types, CalTypes, Calibration
    <2>4. c \in Calibration
      BY <2>2, <2>3 DEF Calibration
    <2>5. Begins(c, ok)
      BY <2>1 DEF Begins
    <2> QED
      BY <1>1, <1>2, <2>1, <2>4, <2>5
  <1>3. CASE ~(Idle /\ homing.success /\ PositionAt(current) = "pass_through")
    BY <1>1, <1>3 DEF CalBegin
  <1> QED
    BY <1>2, <1>3

\* An edge of the calibration, and the end of a spin of it
LEMMA CalEdgeIs ==
    ASSUME Types, NEW ok \in BOOLEAN, CalEdge(ok)
    PROVE  /\ pc = "cal_wait" /\ encoderSem = 1 /\ UNCHANGED CalRest /\ UNCHANGED report
           /\ \/ CalEnd(Measured)
              \/ CalSpin(Measured, ok)
              \/ /\ encoderSem' = 0 /\ cal' = Measured
                 /\ UNCHANGED <<spinning, spun, target, direction, state, pc, encoder, homing>>
PROOF
  BY DEF CalEdge, SpinEnd, CalRest, history

\* A spin that is over adds no edge
LEMMA CalSpinOverIs ==
    ASSUME Types, NEW ok \in BOOLEAN, CalSpinOver(ok)
    PROVE  /\ pc = "cal_wait" /\ encoderSem = 0 /\ UNCHANGED CalRest /\ UNCHANGED report
           /\ CalEnd(cal) \/ CalSpin(cal, ok)
PROOF
  BY DEF CalSpinOver, SpinEnd, CalRest, history

\* The steps of the homing keep the types
LEMMA HomingKeepsTypes ==
    ASSUME Types, NEW ok \in BOOLEAN,
           ThreadHome(ok) \/ HomeAgain(ok) \/ HomeNotch(ok) \/ HomeTimeout(ok)
    PROVE  Types'
PROOF
  <1>1. \/ /\ goal' \in Positions \cup {"unknown"} /\ command' \in Commands
           /\ report' \in Positions \cup {"none"}
           /\ \E h \in Homing : HomeSpin(h, ok)
        \/ /\ UNCHANGED <<command, report>>
           /\ PairFound(ok) \/ NoHoming
    BY HomeBeginIs, HomeNotchIs, HomeTimeoutIs DEF Types, ThreadTypes, HistoryTypes, Positions
  <1>2. ASSUME NEW h \in Homing, HomeSpin(h, ok),
               goal' \in Positions \cup {"unknown"}, command' \in Commands,
               report' \in Positions \cup {"none"}
        PROVE  Types'
    <2>1. /\ current' = 0 /\ encoderSem' = 0 /\ pc' \in {"home_wait", "poll"}
          /\ direction' = Forward /\ target' \in Nat /\ spinning' = ok /\ spun' = 0
          /\ homing' \in Homing
          /\ UNCHANGED <<wheelVars, stepSem, edge, cal, drift, overrun>>
      BY <1>2, HomeSpinIs
    <2>2. MotorTypes'
      BY <2>1, Distances DEF Types, MotorTypes, wheelVars
    <2>3. ThreadTypes' /\ CalTypes' /\ HistoryTypes'
      BY <1>2, <2>1 DEF Types, ThreadTypes, CalTypes, HistoryTypes, ThreadPoints
    <2> QED
      BY <2>2, <2>3 DEF Types
  <1>3. ASSUME PairFound(ok) \/ NoHoming, UNCHANGED <<command, report>>
        PROVE  Types'
    <2>1. MotorTypes'
      <3>1. CASE PairFound(ok)
        BY <3>1, Distances DEF Types, MotorTypes, wheelVars, PairFound
      <3>2. CASE NoHoming
        BY <3>2, Distances DEF Types, MotorTypes, wheelVars, NoHoming
      <3> QED
        BY <1>3, <3>1, <3>2
    <2>2. ThreadTypes' /\ CalTypes' /\ HistoryTypes'
      BY <1>3 DEF Types, ThreadTypes, CalTypes, HistoryTypes, ThreadPoints, PairFound, NoHoming
    <2> QED
      BY <2>1, <2>2 DEF Types
  <1> QED
    BY <1>1, <1>2, <1>3

\* So do the last steps of it, once pass-through is seen
LEMMA HomedKeepsTypes ==
    ASSUME Types, PassNotch \/ HomeFinish \/ HomeGivesUp,
           pc \in {"pass_wait", "home_finish"} => goal \in Positions
    PROVE  Types'
PROOF
  <1>1. CASE PassNotch
    BY <1>1, Distances DEF PassNotch, Types, MotorTypes, ThreadTypes, CalTypes, HistoryTypes,
                           ThreadPoints, wheelVars, positioning
  <1>2. CASE Homed /\ stepSem' \in {0, stepSem} /\ goal \in Positions
    <2>1. /\ homing' \in Homing /\ cal' \in Calibration
          /\ pc' \in ThreadPoints
      BY <1>2 DEF Homed, Types, ThreadTypes, CalTypes, Homing, Calibration, ThreadPoints
    <2>2. MotorTypes'
      BY <1>2, Distances DEF Homed, Types, MotorTypes, wheelVars
    <2>3. ThreadTypes' /\ CalTypes' /\ HistoryTypes'
      BY <1>2, <2>1 DEF Homed, Types, ThreadTypes, CalTypes, HistoryTypes
    <2> QED
      BY <2>2, <2>3 DEF Types
  <1>3. CASE stepSem' = 0 /\ UNCHANGED <<wheelVars, motor, pc, encoderSem, command, positioning,
                                         homing, cal, report, drift, overrun>>
    BY <1>3 DEF Types, MotorTypes, ThreadTypes, CalTypes, HistoryTypes, wheelVars, motor,
                positioning
  <1> QED
    BY <1>1, <1>2, <1>3 DEF HomeFinish, HomeGivesUp

\* And the steps of the calibration
LEMMA CalibrationKeepsTypes ==
    ASSUME Types, NEW ok \in BOOLEAN, CalBegin(ok) \/ CalEdge(ok) \/ CalSpinOver(ok)
    PROVE  Types'
PROOF
  <1>1. /\ UNCHANGED CalRest /\ report' \in {report, "none"}
        /\ \/ pc' = "poll" /\ UNCHANGED <<motor, encoderSem, homing, cal>>
           \/ \E c \in Calibration : CalSpin(c, ok) \/ CalEnd(c)
           \/ /\ encoderSem' = 0 /\ cal' = Measured
              /\ UNCHANGED <<spinning, spun, target, direction, pc, homing>>
    BY CalBeginIs, CalEdgeIs, CalSpinOverIs, MeasuredIs DEF Types, CalTypes, Begins
  <1> DEFINE Result == /\ spinning' \in BOOLEAN /\ spun' \in Nat /\ target' \in Nat
                       /\ direction' \in {Forward, Backward} /\ encoderSem' \in {0, 1}
                       /\ pc' \in ThreadPoints /\ homing' \in Homing /\ cal' \in Calibration
  <1>2. Result
    <2>1. CASE pc' = "poll" /\ UNCHANGED <<motor, encoderSem, homing, cal>>
      BY <2>1 DEF Types, MotorTypes, ThreadTypes, CalTypes, motor, ThreadPoints
    <2>2. ASSUME NEW c \in Calibration, CalSpin(c, ok)
          PROVE  Result
      BY <2>2, CalSpinIs DEF Types, MotorTypes, ThreadTypes, ThreadPoints
    <2>3. ASSUME NEW c \in Calibration, CalEnd(c)
          PROVE  Result
      BY <2>3, CalEndIs DEF Types, MotorTypes, ThreadTypes, ThreadPoints
    <2>4. CASE /\ encoderSem' = 0 /\ cal' = Measured
               /\ UNCHANGED <<spinning, spun, target, direction, pc, homing>>
      BY <2>4, MeasuredIs DEF Types, MotorTypes, ThreadTypes
    <2> QED
      BY <1>1, <2>1, <2>2, <2>3, <2>4
  <1>3. MotorTypes'
    BY <1>1, <1>2 DEF Types, MotorTypes, CalRest, wheelVars
  <1>4. ThreadTypes' /\ CalTypes' /\ HistoryTypes'
    BY <1>1, <1>2 DEF Types, ThreadTypes, CalTypes, HistoryTypes, CalRest
  <1> QED
    BY <1>3, <1>4 DEF Types

-----------------------------------------------------------------------------
(* The thread and the state machine *)

\* Between two commands the state is one that a course or a command begins in
Polls == /\ pc = "poll" => state \in {"uninitialized", "idle"} \cup Courses
         /\ pc = "home_start" => state = "idle" /\ report = "none"
         /\ pc = "cal_start" => state \in {"idle", "uninitialized"}

\* The wheel is homed and calibrated forward, with the encoder on
Homes == /\ pc \in Homings => /\ state = "homing" /\ goal = "pass_through"
                              /\ direction = Forward /\ report = "none"
                              /\ encoder = "rising"
         /\ pc = "home_finish" => target = Third + EdgeToCenter
Calibrates == pc = "cal_wait" => /\ state = "calibrating" /\ direction = Forward
                                 /\ report = "none" /\ ~cal.complete /\ encoder = "both"

\* The motor is driven only while the thread waits for it
Spins == spinning => pc \in Homings \cup {"cal_wait"} \/ (pc = "poll" /\ state \in Courses)
Reports == report # "none" => state = "idle" /\ ~spinning

\* A course is to its goal, from the edge that its direction meets first
OnCourse == /\ state \in Courses =>
                  /\ pc = "poll" /\ command.type \in {"none", "home"}
                  /\ goal # "unknown" => target = Center[goal]
            /\ state = "encoder" => goal # "unknown" /\ edge = NotchEdge(goal, direction)

Control == Polls /\ Homes /\ Calibrates /\ Spins /\ Reports /\ OnCourse
Structure == Types /\ Control

\* The steps that leave all of it but the signals as it is
LEMMA StructureKept ==
    ASSUME Structure, Types',
           UNCHANGED <<spinning, target, direction, state, pc, encoder, edge, goal, cal, report>>,
           state \in Courses => command'.type \in {"none", "home"}
    PROVE  Structure'
PROOF
  <1>1. NotchEdge(goal, direction)' = NotchEdge(goal, direction)
    BY DEF NotchEdge, EdgeDistance
  <1> QED
    BY <1>1 DEF Structure, Control, Polls, Homes, Calibrates, Spins, Reports, OnCourse

\* Pulses, jams and commands
LEMMA OutsideKeepsStructure ==
    ASSUME Structure, Requests \/ Jam \/ \E moves \in BOOLEAN : Pulse(moves)
    PROVE  Structure'
PROOF
  <1>1. Types'
    BY PulseKeepsTypes, RequestsKeepTypes DEF Structure
  <1>2. UNCHANGED <<spinning, target, direction, state, pc, encoder, edge, goal, cal, report>>
    BY DEF Requests, SetAngle, HomeAsync, CalibrateAsync, Jam, Pulse, motor, positioning, history
  <1>3. state \in Courses => command' = command
    BY DEF Requests, SetAngle, HomeAsync, CalibrateAsync, Idle, Jam, Pulse, Courses
  <1> QED
    BY <1>1, <1>2, <1>3, StructureKept DEF Structure, Control, OnCourse

\* The steps of positioning
LEMMA PositioningKeepsStructure ==
    ASSUME Structure, NEW ok \in BOOLEAN,
           ThreadStep \/ ThreadEncoder \/ ThreadCalibrate \/ ThreadSetAngle(ok)
    PROVE  Structure'
PROOF
  <1>1. Types'
    BY PositioningKeepsTypes, SetAngleKeepsTypes DEF Structure
  <1>2. CASE ThreadStep
    <2>1. /\ UNCHANGED <<target, direction, pc, edge, goal, cal>> /\ pc = "poll"
          /\ \/ UNCHANGED <<spinning, command, report, encoder, state>>
             \/ /\ spinning' = FALSE /\ command' = [command EXCEPT !.type = "home"]
                /\ UNCHANGED <<report, encoder, state>>
             \/ spinning' = FALSE /\ encoder' = "off" /\ state' = "idle"
      BY <1>2, ThreadStepIs DEF Structure
    <2>2. CASE UNCHANGED <<spinning, command, report, encoder, state>>
      BY <1>1, <2>1, <2>2, StructureKept DEF Structure, Control, OnCourse
    <2>3. CASE /\ spinning' = FALSE /\ command' = [command EXCEPT !.type = "home"]
               /\ UNCHANGED <<report, encoder, state>>
      <3>1. command'.type = "home"
        BY <2>3 DEF Structure, Types, ThreadTypes, Commands
      <3>2. NotchEdge(goal, direction)' = NotchEdge(goal, direction)
        BY <2>1 DEF NotchEdge, EdgeDistance
      <3> QED
        BY <1>1, <2>1, <2>3, <3>1, <3>2
           DEF Structure, Control, Polls, Homes, Calibrates, Spins, Reports, OnCourse, Homings
    <2>4. CASE spinning' = FALSE /\ encoder' = "off" /\ state' = "idle"
      BY <1>1, <2>1, <2>4
         DEF Structure, Control, Polls, Homes, Calibrates, Spins, Reports, OnCourse, Courses,
             Homings
    <2> QED
      BY <2>1, <2>2, <2>3, <2>4
  <1>3. CASE ThreadEncoder
    <2>1. /\ UNCHANGED <<spinning, target, direction, state, pc, encoder, edge, goal, cal, report>>
          /\ command' = command
      BY <1>3 DEF ThreadEncoder
    <2> QED
      BY <1>1, <2>1, StructureKept DEF Structure, Control, OnCourse
  <1>4. CASE ThreadCalibrate
    <2>1. /\ pc = "poll" /\ pc' = "cal_start" /\ command.type = "calibrate"
          /\ UNCHANGED <<motor, state, encoder, edge, goal, cal, report>>
      BY <1>4 DEF ThreadCalibrate, Takes, positioning, history
    <2>2. state \notin Courses /\ ~spinning /\ state \in {"uninitialized", "idle"}
      BY <2>1 DEF Structure, Control, OnCourse, Spins, Polls, Homings
    <2> QED
      BY <1>1, <2>1, <2>2
         DEF Structure, Control, Polls, Homes, Calibrates, Spins, Reports, OnCourse, Courses,
             Homings, motor
  <1>5. CASE ThreadSetAngle(ok)
    <2>1. /\ pc = "poll" /\ command.type = "angle" /\ command' = [command EXCEPT !.type = "none"]
          /\ pc' = "poll" /\ cal' = cal
          /\ NoCourse \/ (Idle /\ IsThere) \/ (Idle /\ SetsOut)
      BY <1>5, SetAngleIs DEF Structure
    <2>2. command'.type = "none"
      BY <2>1 DEF Structure, Types, ThreadTypes, Commands
    <2>3. state \notin Courses /\ ~spinning /\ state \in {"uninitialized", "idle"}
      BY <2>1 DEF Structure, Control, OnCourse, Spins, Polls, Homings
    <2>4. CASE NoCourse
      BY <1>1, <2>1, <2>2, <2>4, StructureKept DEF NoCourse, motor
    <2>5. CASE Idle /\ IsThere
      BY <1>1, <2>1, <2>2, <2>3, <2>5
         DEF Structure, Control, Polls, Homes, Calibrates, Spins, Reports, OnCourse, Courses,
             Homings, motor, IsThere, Idle
    <2>6. CASE Idle /\ SetsOut
      <3>1. state' = "encoder" => edge' = NotchEdge(goal', direction')
        BY <2>6 DEF SetsOut
      <3>2. NotchEdge(goal', direction') = NotchEdge(goal, direction)'
        BY <2>1 DEF NotchEdge, EdgeDistance
      <3>3. OnCourse'
        <4>1. state' = "encoder" => goal' # "unknown" /\ edge' = NotchEdge(goal, direction)'
          BY <2>6, <3>1, <3>2 DEF SetsOut
        <4>2. state' \in Courses =>
                  /\ pc' = "poll" /\ command'.type \in {"none", "home"}
                  /\ goal' # "unknown" => target' = Center[goal']
          BY <2>1, <2>2, <2>6 DEF SetsOut
        <4> QED
          BY <4>1, <4>2, Zenon DEF OnCourse
      <3>4. Polls' /\ Spins' /\ Reports'
        BY <2>1, <2>6 DEF SetsOut, Polls, Spins, Reports
      <3>5. Homes' /\ Calibrates'
        BY <2>1 DEF Homes, Calibrates, Homings
      <3> QED
        BY <1>1, <3>3, <3>4, <3>5 DEF Structure, Control
    <2> QED
      BY <2>1, <2>4, <2>5, <2>6
  <1> QED
    BY <1>2, <1>3, <1>4, <1>5

\* The steps of the homing
LEMMA HomingKeepsStructure ==
    ASSUME Structure, NEW ok \in BOOLEAN,
           ThreadHome(ok) \/ HomeAgain(ok) \/ HomeNotch(ok) \/ HomeTimeout(ok)
    PROVE  Structure'
PROOF
  <1> USE DEF Structure
  <1>1. Types'
    BY HomingKeepsTypes
  <1>2. \/ /\ goal' = "pass_through" /\ report' = "none"
           /\ \E h \in Homing : HomeSpin(h, ok)
        \/ /\ pc = "home_wait" /\ UNCHANGED report
           /\ PairFound(ok) \/ NoHoming
    BY HomeBeginIs, HomeNotchIs, HomeTimeoutIs DEF Control, Homes, Homings
  <1>3. ASSUME NEW h \in Homing, HomeSpin(h, ok), goal' = "pass_through", report' = "none"
        PROVE  Structure'
    <2>1. /\ direction' = Forward /\ spinning' = ok
          /\ ok => state' = "homing" /\ encoder' = "rising" /\ pc' = "home_wait"
          /\ ~ok => state' = "uninitialized" /\ encoder' = "off" /\ pc' = "poll"
      BY <1>3, HomeSpinIs
    <2> QED
      BY <1>1, <1>3, <2>1
         DEF Control, Polls, Homes, Calibrates, Spins, Reports, OnCourse, Courses, Homings
  <1>4. CASE pc = "home_wait" /\ UNCHANGED report /\ (PairFound(ok) \/ NoHoming)
    <2>1. state = "homing" /\ goal = "pass_through" /\ report = "none" /\ encoder = "rising"
      BY <1>4 DEF Control, Homes, Homings
    <2> QED
      BY <1>1, <1>4, <2>1
         DEF Control, Polls, Homes, Calibrates, Spins, Reports, OnCourse, Courses, Homings,
             PairFound, NoHoming
  <1> QED
    BY <1>2, <1>3, <1>4

\* The end of the homing leaves the wheel at rest
LEMMA HomedKeepsStructure ==
    ASSUME Structure, PassNotch \/ HomeFinish \/ HomeGivesUp
    PROVE  Structure'
PROOF
  <1> USE DEF Structure
  <1>1. pc \in Homings
    BY DEF PassNotch, HomeFinish, HomeGivesUp, Homings
  <1>2. /\ state = "homing" /\ goal = "pass_through" /\ direction = Forward
        /\ report = "none" /\ encoder = "rising"
    BY <1>1 DEF Control, Homes
  <1>3. Types'
    BY <1>2, HomedKeepsTypes DEF Positions
  <1>4. CASE PassNotch
    BY <1>2, <1>3, <1>4
       DEF PassNotch, Control, Polls, Homes, Calibrates, Spins, Reports, OnCourse, Courses,
           Homings, positioning
  <1>5. CASE Homed
    BY <1>2, <1>3, <1>5
       DEF Homed, Control, Polls, Homes, Calibrates, Spins, Reports, OnCourse, Courses, Homings
  <1>6. CASE HomeFinish /\ ~Homed
    <2>1. UNCHANGED <<motor, state, pc, command, encoder, positioning, cal, report>>
      BY <1>6 DEF HomeFinish
    <2> QED
      BY <1>2, <1>3, <2>1, StructureKept DEF motor, positioning, Courses
  <1> QED
    BY <1>4, <1>5, <1>6 DEF HomeGivesUp

\* The steps of the calibration
LEMMA CalibrationKeepsStructure ==
    ASSUME Structure, NEW ok \in BOOLEAN, CalBegin(ok) \/ CalEdge(ok) \/ CalSpinOver(ok)
    PROVE  Structure'
PROOF
  <1> USE DEF Structure
  <1>1. Types'
    BY CalibrationKeepsTypes
  <1>2. /\ UNCHANGED <<command, goal, edge>>
        /\ pc \in {"cal_start", "cal_wait"}
        /\ \/ pc = "cal_start" /\ pc' = "poll" /\ UNCHANGED <<motor, state, encoder, cal, report>>
           \/ /\ report' = "none"
              /\ \E c \in Calibration : ~c.complete /\ (CalSpin(c, ok) \/ CalEnd(c))
           \/ /\ pc = "cal_wait" /\ ~cal'.complete
              /\ UNCHANGED <<spinning, direction, state, pc, encoder, report>>
    BY CalBeginIs, CalEdgeIs, CalSpinOverIs, MeasuredIs
       DEF CalRest, Begins, Control, Calibrates, Types, CalTypes
  <1>3. CASE pc = "cal_start" /\ pc' = "poll" /\ UNCHANGED <<motor, state, encoder, cal, report>>
    <2>1. state \in {"idle", "uninitialized"} /\ ~spinning
      BY <1>3 DEF Control, Polls, Spins, Homings
    <2> QED
      BY <1>1, <1>2, <1>3, <2>1
         DEF Control, Polls, Homes, Calibrates, Spins, Reports, OnCourse, Courses, Homings, motor
  <1>4. ASSUME report' = "none", NEW c \in Calibration, ~c.complete, CalSpin(c, ok) \/ CalEnd(c)
        PROVE  Structure'
    <2>1. CASE CalSpin(c, ok)
      <3>1. /\ direction' = Forward /\ spinning' = ok /\ cal' = [c EXCEPT !.spins = @ + 1]
            /\ ok => state' = "calibrating" /\ encoder' = "both" /\ pc' = "cal_wait"
            /\ ~ok => state' = "idle" /\ encoder' = "off" /\ pc' = "poll"
        BY <2>1, CalSpinIs
      <3>2. ~cal'.complete
        BY <1>4, <3>1 DEF Calibration
      <3> QED
        BY <1>1, <1>4, <3>1, <3>2
           DEF Control, Polls, Homes, Calibrates, Spins, Reports, OnCourse, Courses, Homings
    <2>2. CASE CalEnd(c)
      <3>1. /\ spinning' = FALSE /\ encoder' = "off" /\ state' = "idle" /\ pc' = "home_start"
        BY <2>2, CalEndIs
      <3> QED
        BY <1>1, <1>4, <3>1
           DEF Control, Polls, Homes, Calibrates, Spins, Reports, OnCourse, Courses, Homings
    <2> QED
      BY <1>4, <2>1, <2>2
  <1>5. CASE /\ pc = "cal_wait" /\ ~cal'.complete
             /\ UNCHANGED <<spinning, direction, state, pc, encoder, report>>
    BY <1>1, <1>2, <1>5
       DEF Control, Polls, Homes, Calibrates, Spins, Reports, OnCourse, Courses, Homings
  <1> QED
    BY <1>2, <1>3, <1>4, <1>5

\* The thread and the state machine go together in every reachable state
LEMMA StructureInvariant == Spec => []Structure
PROOF
  <1>1. Init => Structure
    <2> SUFFICES ASSUME Init PROVE Structure
      OBVIOUS
    <2>1. MotorTypes
      BY PolarizerConstants, Distances DEF Init, MotorTypes, Places
    <2>2. command \in Commands
      <3>1. 0 \in 0..Turn
        BY Geometry
      <3>2. command = [type |-> "home", step |-> 0, constant |-> FALSE, shortest |-> FALSE]
        BY DEF Init, NoCommand
      <3> QED
        BY <3>1, <3>2 DEF Commands
    <2>3. cal \in Calibration
      <3>1. NoWidths \in [Positions -> Places]
        BY Distances DEF NoWidths
      <3> QED
        BY <3>1, Distances DEF Init, Calibration
    <2>4. Types
      BY <2>1, <2>2, <2>3, Distances
         DEF Init, Types, ThreadTypes, CalTypes, HistoryTypes, ThreadPoints, Homing
    <2> QED
      BY <2>4 DEF Init, Structure, Control, Polls, Homes, Calibrates, Spins, Reports, OnCourse,
                  Courses, Homings
  <1>2. Structure /\ [Next]_vars => Structure'
    <2> SUFFICES ASSUME Structure, [Next]_vars PROVE Structure'
      OBVIOUS
    <2>1. CASE Requests \/ Jam \/ \E moves \in BOOLEAN : Pulse(moves)
      BY <2>1, OutsideKeepsStructure
    <2>2. ASSUME NEW ok \in BOOLEAN, Thread(ok) PROVE Structure'
      BY <2>2, PositioningKeepsStructure, HomingKeepsStructure, CalibrationKeepsStructure
         DEF Thread
    <2>3. CASE ThreadAlone
      BY <2>3, PositioningKeepsStructure, HomedKeepsStructure DEF ThreadAlone
    <2>4. CASE UNCHANGED vars
      <3>1. Types'
        BY <2>4 DEF vars, Structure, Types, MotorTypes, ThreadTypes, CalTypes, HistoryTypes,
                    wheelVars, motor, signals, positioning, history
      <3> QED
        BY <2>4, <3>1, StructureKept
           DEF vars, motor, positioning, history, Structure, Control, OnCourse
    <2> QED
      BY <2>1, <2>2, <2>3, <2>4 DEF Next
  <1> QED
    BY <1>1, <1>2, PTL DEF Spec

-----------------------------------------------------------------------------
(* The bumps in their order *)

After(b) == IF b = "pass_through" THEN "vertical"
            ELSE IF b = "vertical" THEN "extra"
            ELSE IF b = "extra" THEN "horizontal" ELSE "pass_through"

\* The last place of the bump before
EndBefore(b) == IF b = "vertical" THEN Half["pass_through"]
                ELSE IF b = "extra" THEN Last("vertical")
                ELSE IF b = "horizontal" THEN Last("extra") ELSE Last("horizontal")

InGap(b, w) == EndBefore(b) < Past(w) /\ Past(w) < First(b)

\* Between two bumps there is a gap, and a bump is less than a turn
LEMMA BumpIs ==
    ASSUME NEW b \in Bumps
    PROVE  /\ After(b) \in Bumps
           /\ First(b) \in Int /\ Last(b) \in Int /\ EndBefore(b) \in Int /\ Half[b] \in Nat
           /\ Half["pass_through"] <= EndBefore(b) /\ EndBefore(b) + 1 < First(b)
           /\ Last(b) = First(b) + 2 * Half[b] /\ 2 * Half[b] + 1 < Turn
           /\ Last(b) <= Last("pass_through")
           /\ EndBefore(After(b)) = IF b = "pass_through" THEN Last(b) - Turn ELSE Last(b)
PROOF
  <1>1. /\ Turn \in Nat /\ Half["pass_through"] \in Nat /\ Half["vertical"] \in Nat
        /\ Half["extra"] \in Nat /\ Half["horizontal"] \in Nat
        /\ Mid("pass_through") = Turn /\ Mid("vertical") \in Nat /\ Mid("extra") \in Nat
        /\ Mid("horizontal") \in Nat
    BY Geometry DEF Bumps, Positions
  <1>2. CASE b = "pass_through"
    BY <1>1, <1>2, Geometry DEF First, Last, EndBefore, After, Bumps, Positions
  <1>3. CASE b = "vertical"
    BY <1>1, <1>3, Geometry DEF First, Last, EndBefore, After, Bumps, Positions
  <1>4. CASE b = "extra"
    BY <1>1, <1>4, Geometry DEF First, Last, EndBefore, After, Bumps, Positions
  <1>5. CASE b = "horizontal"
    BY <1>1, <1>5, Geometry DEF First, Last, EndBefore, After, Bumps, Positions
  <1> QED
    BY <1>2, <1>3, <1>4, <1>5 DEF Bumps, Positions

\* The encoder is low in a gap
LEMMA GapIsLow ==
    ASSUME NEW b \in Bumps, NEW w \in Places, InGap(b, w)
    PROVE  ~High(w)
PROOF
  <1>1. \A a \in Bumps : First(a) <= Past(w) /\ Past(w) <= Last(a) => FALSE
    <2> SUFFICES ASSUME NEW a \in Bumps, First(a) <= Past(w), Past(w) <= Last(a) PROVE FALSE
      OBVIOUS
    <2>1. Past(w) \in Int
      BY PastSteps
    <2>2. /\ Half["pass_through"] \in Int /\ First("vertical") \in Int /\ Last("vertical") \in Int
          /\ First("extra") \in Int /\ Last("extra") \in Int
          /\ First("horizontal") \in Int /\ Last("horizontal") \in Int
          /\ First("pass_through") \in Int /\ Last("pass_through") \in Int
          /\ First("vertical") <= Last("vertical") /\ First("extra") <= Last("extra")
          /\ First("horizontal") <= Last("horizontal")
      BY BumpIs DEF Bumps, Positions
    <2>3. /\ Half["pass_through"] + 1 < First("vertical")
          /\ Last("vertical") + 1 < First("extra")
          /\ Last("extra") + 1 < First("horizontal")
          /\ Last("horizontal") + 1 < First("pass_through")
      BY Geometry
    <2>4. b \in {"pass_through", "vertical", "horizontal", "extra"}
          /\ a \in {"pass_through", "vertical", "horizontal", "extra"}
      BY DEF Bumps, Positions
    <2> QED
      BY <2>1, <2>2, <2>3, <2>4 DEF InGap, EndBefore
  <1> QED
    BY <1>1, OnBumpIs DEF High

\* One step on from a gap: the gap, or the edge of the bump after it
LEMMA GapStep ==
    ASSUME NEW b \in Bumps, NEW w \in Places, InGap(b, w)
    PROVE  /\ ~High(w) /\ Past(Onward(w)) = Past(w) + 1
           /\ \/ InGap(b, Onward(w)) /\ ~High(Onward(w))
              \/ /\ Past(Onward(w)) = First(b) /\ High(Onward(w)) /\ OnBump(b, Onward(w))
PROOF
  <1>1. ~High(w)
    BY GapIsLow
  <1>2. /\ Onward(w) \in Places /\ Past(w) \in Int
        /\ Past(w) < First(b) /\ First(b) \in Int /\ Last(b) \in Int /\ EndBefore(b) \in Int
        /\ First(b) <= Last(b) /\ Last(b) <= Last("pass_through")
        /\ Last("pass_through") \in Int
    BY PastSteps, BumpIs DEF InGap, Bumps, Positions
  <1>3. Past(Onward(w)) = Past(w) + 1
    BY <1>2, PastSteps
  <1>4. CASE Past(w) + 1 < First(b)
    <2>1. InGap(b, Onward(w))
      BY <1>2, <1>3, <1>4 DEF InGap
    <2> QED
      BY <1>1, <1>2, <1>3, <2>1, GapIsLow
  <1>5. CASE Past(w) + 1 = First(b)
    <2>1. OnBump(b, Onward(w))
      BY <1>2, <1>3, <1>5, OnBumpIs
    <2> QED
      BY <1>1, <1>3, <1>5, <2>1 DEF High
  <1> QED
    BY <1>2, <1>4, <1>5

\* One step on from a bump: the bump, or the first place of the gap after it
LEMMA BumpStep ==
    ASSUME NEW b \in Bumps, NEW w \in Places, OnBump(b, w)
    PROVE  /\ High(w)
           /\ \/ /\ OnBump(b, Onward(w)) /\ High(Onward(w))
                 /\ Past(Onward(w)) = Past(w) + 1
              \/ /\ Past(w) = Last(b) /\ Past(Onward(w)) = EndBefore(After(b)) + 1
                 /\ InGap(After(b), Onward(w)) /\ ~High(Onward(w))
PROOF
  <1>1. /\ Onward(w) \in Places /\ Past(w) \in Int
        /\ First(b) <= Past(w) /\ Past(w) <= Last(b)
        /\ First(b) \in Int /\ Last(b) \in Int /\ Last(b) <= Last("pass_through")
        /\ Last("pass_through") \in Int /\ After(b) \in Bumps
    BY PastSteps, OnBumpIs, BumpIs DEF Bumps, Positions
  <1>2. Past(Onward(w)) = IF Past(w) = Last("pass_through")
                          THEN Half["pass_through"] + 1 ELSE Past(w) + 1
    BY PastSteps
  <1>3. CASE Past(w) < Last(b)
    <2>1. OnBump(b, Onward(w)) /\ Past(Onward(w)) = Past(w) + 1
      BY <1>1, <1>2, <1>3, OnBumpIs
    <2> QED
      BY <2>1 DEF High
  <1>4. CASE Past(w) = Last(b)
    <2>1. b # "pass_through" => Last(b) # Last("pass_through")
      BY Geometry, BumpIs DEF Bumps, Positions
    <2>2. Last("pass_through") - Turn = Half["pass_through"] /\ Half["pass_through"] \in Int
      BY Geometry DEF Last, Bumps, Positions
    <2>3. Past(Onward(w)) = EndBefore(After(b)) + 1
      BY <1>1, <1>2, <1>4, <2>1, <2>2, BumpIs
    <2>4. InGap(After(b), Onward(w))
      BY <1>1, <2>3, BumpIs DEF InGap
    <2>5. ~High(Onward(w))
      BY <1>1, <2>4, GapIsLow
    <2> QED
      BY <1>4, <2>3, <2>4, <2>5 DEF High
  <1> QED
    BY <1>1, <1>3, <1>4

-----------------------------------------------------------------------------
(* The calibration *)

\* The bump that the calibration takes the next one for
BumpAt(i) == BumpOrder[(i % 4) + 1]
Bump == BumpAt(cal.index)

\* Where the wheel is when that bump is to be met, has been met, is being
\* crossed, and has been left.  It starts on the bump of pass-through
Approaches == \/ InGap(Bump, wheel)
              \/ cal.index = 0 /\ OnBump("pass_through", wheel)
Enters == \/ Past(wheel) = First(Bump)
          \/ cal.index = 0 /\ InGap("vertical", wheel)
Crosses == /\ OnBump(Bump, wheel)
           /\ stuck \/ BumpWidth = Past(wheel) - First(Bump)
Leaves == /\ InGap(After(Bump), wheel)
          /\ BumpWidth = 2 * Half[Bump] + 1

\* An edge is handled before the next pulse
Tracks == /\ ~cal.inside /\ encoderSem = 0 => Approaches
          /\ ~cal.inside /\ encoderSem = 1 => Enters
          /\ cal.inside /\ encoderSem = 0 => Crosses
          /\ cal.inside /\ encoderSem = 1 => Leaves

CalTrack == pc = "cal_wait" /\ cal.sure => Tracks

\* Every width is that of its own bump, or is still to be measured
OwnWidths == cal.sure => \A p \in Positions : cal.width[p] \in {0, 2 * Half[p] + 1}
Completed == cal.complete => \A p \in Positions : cal.width[p] > 0

CalInductive == CalTrack /\ OwnWidths /\ Completed

\* The bumps are met in their order
LEMMA BumpAtIs ==
    ASSUME NEW i \in Nat
    PROVE  BumpAt(i) \in Bumps /\ BumpAt(0) = "vertical" /\ BumpAt(i + 1) = After(BumpAt(i))
PROOF
  <1>1. /\ BumpOrder[1] = "vertical" /\ BumpOrder[2] = "extra"
        /\ BumpOrder[3] = "horizontal" /\ BumpOrder[4] = "pass_through"
    BY DEF BumpOrder
  <1>2. i % 4 \in 0..3 /\ (i + 1) % 4 = IF i % 4 = 3 THEN 0 ELSE (i % 4) + 1
    OBVIOUS
  <1>3. i % 4 = 0 \/ i % 4 = 1 \/ i % 4 = 2 \/ i % 4 = 3
    BY <1>2
  <1>4. 0 % 4 = 0
    OBVIOUS
  <1>5. BumpAt(0) = "vertical"
    BY <1>1, <1>4 DEF BumpAt
  <1> QED
    BY <1>1, <1>2, <1>3, <1>5 DEF BumpAt, After, Bumps, Positions

\* A pulse of the calibration moves the wheel and the count, unless the wheel
\* is stuck, and comes only once the last edge is handled
LEMMA CalPulseIs ==
    ASSUME Structure, NEW moves \in BOOLEAN, Pulse(moves), pc = "cal_wait"
    PROVE  /\ encoderSem = 0
           /\ wheel' = IF moves THEN Onward(wheel) ELSE wheel
           /\ moves \/ stuck
           /\ ~(moves /\ stuck)
           /\ current' = Onward(current)
           /\ encoderSem' = IF moves /\ High(wheel) # High(Onward(wheel)) THEN 1 ELSE 0
           /\ UNCHANGED <<pc, cal, stuck>>
PROOF
  <1>1. encoderSem \in {0, 1} /\ direction = Forward /\ encoder = "both"
    BY DEF Structure, Control, Calibrates, Types, ThreadTypes
  <1>2. wheel' = (IF moves THEN Onward(wheel) ELSE wheel) /\ current' = Onward(current)
    BY <1>1, PulseIs DEF Structure
  <1> DEFINE costs == (IF Waited THEN 1 ELSE 0) + (IF moves \/ stuck THEN 0 ELSE 1)
  <1>3. costs > 0 => FALSE
    BY DEF Pulse
  <1>4. ~Waited /\ (moves \/ stuck)
    BY <1>3
  <1>5. encoderSem = 0
    BY <1>1, <1>4 DEF Waited
  <1>6. High(wheel) \in BOOLEAN /\ High(Onward(wheel)) \in BOOLEAN
    BY DEF High
  <1>7. encoderSem' = IF Signals(wheel, wheel') THEN 1 ELSE encoderSem
    BY DEF Pulse
  <1>8. Signals(wheel, wheel') <=> moves /\ High(wheel) # High(Onward(wheel))
    BY <1>1, <1>2, <1>6 DEF Signals
  <1>9. (moves => ~stuck) /\ UNCHANGED <<pc, cal, stuck>>
    BY DEF Pulse
  <1> QED
    BY <1>2, <1>4, <1>5, <1>7, <1>8, <1>9

\* A width grows with the count, also over the zero of it
LEMMA WidthGrows ==
    ASSUME NEW c \in Places, NEW e \in Places, ((c - e) % Turn) + 1 < Turn
    PROVE  (Onward(c) - e) % Turn = ((c - e) % Turn) + 1
PROOF
  <1>1. Turn \in Nat /\ Turn > 0 /\ c \in Int /\ e \in Int /\ 0 <= c /\ c < Turn
        /\ 0 <= e /\ e < Turn
    BY Geometry DEF Places
  <1>2. (c - e) % Turn = IF c - e < 0 THEN c - e + Turn ELSE c - e
    BY <1>1, Wrap
  <1>3. CASE c = Turn - 1
    <2>1. (0 - e) % Turn = IF 0 - e < 0 THEN 0 - e + Turn ELSE 0 - e
      BY <1>1, Wrap
    <2>2. e # 0
      BY <1>1, <1>2, <1>3
    <2> QED
      BY <1>1, <1>2, <1>3, <2>1, <2>2 DEF Onward
  <1>4. CASE c # Turn - 1
    <2>1. (c + 1 - e) % Turn = IF c + 1 - e < 0 THEN c + 1 - e + Turn ELSE c + 1 - e
      BY <1>1, <1>4, Wrap
    <2> QED
      BY <1>1, <1>2, <1>4, <2>1 DEF Onward
  <1> QED
    BY <1>3, <1>4

\* The wheel is followed from pulse to pulse
LEMMA PulseTracks ==
    ASSUME Structure, NEW moves \in BOOLEAN, Pulse(moves), pc = "cal_wait", Tracks
    PROVE  Tracks'
PROOF
  <1>1. /\ encoderSem = 0
        /\ wheel' = IF moves THEN Onward(wheel) ELSE wheel
        /\ moves \/ stuck
        /\ ~(moves /\ stuck)
        /\ current' = Onward(current)
        /\ cal' = cal /\ stuck' = stuck
    BY CalPulseIs
  <1>9. encoderSem' = IF moves /\ ~(High(wheel) <=> High(Onward(wheel))) THEN 1 ELSE 0
    <2>1. High(wheel) \in BOOLEAN /\ High(Onward(wheel)) \in BOOLEAN
      BY DEF High
    <2> QED
      BY <2>1, CalPulseIs
  <1>2. wheel \in Places /\ current \in Places /\ cal.entry \in Places /\ cal.index \in Nat
    BY DEF Structure, Types, MotorTypes, CalTypes, Calibration
  <1>3. Bump \in Bumps /\ Bump' = Bump
    BY <1>1, <1>2, BumpAtIs DEF Bump
  <1>4. /\ ~cal.inside => Approaches
        /\ cal.inside => Crosses
    BY <1>1 DEF Tracks
  <1>5. CASE ~moves
    <2>1. encoderSem' = 0 /\ wheel' = wheel /\ stuck'
      BY <1>1, <1>5, <1>9
    <2>2. ~cal.inside => Approaches'
      BY <1>1, <1>3, <1>4, <2>1 DEF Approaches
    <2>3. cal.inside => Crosses'
      BY <1>1, <1>3, <1>4, <2>1 DEF Crosses
    <2> QED
      BY <1>1, <2>1, <2>2, <2>3 DEF Tracks
  <1>6. CASE moves /\ ~cal.inside /\ InGap(Bump, wheel)
    <2>1. wheel' = Onward(wheel)
      BY <1>1, <1>6
    <2>2. CASE InGap(Bump, Onward(wheel)) /\ ~High(Onward(wheel))
      <3>1. encoderSem' = 0
        BY <1>9, <1>1, <1>2, <1>3, <1>6, <2>2, GapIsLow
      <3>2. Approaches'
        BY <1>3, <2>1, <2>2 DEF Approaches
      <3> QED
        BY <1>1, <1>6, <3>1, <3>2 DEF Tracks
    <2>3. CASE Past(Onward(wheel)) = First(Bump) /\ High(Onward(wheel))
      <3>1. encoderSem' = 1
        BY <1>9, <1>1, <1>2, <1>3, <1>6, <2>3, GapIsLow
      <3>2. Enters'
        BY <1>3, <2>1, <2>3 DEF Enters
      <3> QED
        BY <1>1, <1>6, <3>1, <3>2 DEF Tracks
    <2> QED
      BY <1>2, <1>3, <1>6, <2>2, <2>3, GapStep
  <1>7. CASE moves /\ ~cal.inside /\ cal.index = 0 /\ OnBump("pass_through", wheel)
    <2>1. wheel' = Onward(wheel) /\ "pass_through" \in Bumps /\ After("pass_through") = "vertical"
      BY <1>1, <1>7 DEF Bumps, Positions, After
    <2>2. CASE OnBump("pass_through", Onward(wheel)) /\ High(Onward(wheel))
      <3>1. encoderSem' = 0
        BY <1>9, <1>1, <1>2, <1>7, <2>1, <2>2, BumpStep
      <3>2. Approaches'
        BY <1>1, <1>7, <2>1, <2>2 DEF Approaches
      <3> QED
        BY <1>1, <1>7, <3>1, <3>2 DEF Tracks
    <2>3. CASE InGap("vertical", Onward(wheel)) /\ ~High(Onward(wheel))
      <3>1. encoderSem' = 1
        BY <1>9, <1>1, <1>2, <1>7, <2>1, <2>3, BumpStep
      <3>2. Enters'
        BY <1>1, <1>7, <2>1, <2>3 DEF Enters
      <3> QED
        BY <1>1, <1>7, <3>1, <3>2 DEF Tracks
    <2> QED
      BY <1>2, <1>7, <2>1, <2>2, <2>3, BumpStep
  <1>8. CASE moves /\ cal.inside
    <2>1. /\ wheel' = Onward(wheel) /\ OnBump(Bump, wheel)
          /\ BumpWidth = Past(wheel) - First(Bump)
      BY <1>1, <1>4, <1>8 DEF Crosses
    <2>2. /\ Past(wheel) \in Int /\ First(Bump) \in Int /\ Half[Bump] \in Nat /\ Turn \in Nat
          /\ First(Bump) <= Past(wheel) /\ Past(wheel) <= Last(Bump)
          /\ Last(Bump) = First(Bump) + 2 * Half[Bump] /\ 2 * Half[Bump] + 1 < Turn
      BY <1>2, <1>3, <2>1, PastSteps, OnBumpIs, BumpIs, Geometry
    <2>3. BumpWidth + 1 < Turn
      BY <2>1, <2>2
    <2>4. BumpWidth' = BumpWidth + 1
      BY <1>1, <1>2, <2>3, WidthGrows DEF BumpWidth
    <2>5. CASE /\ OnBump(Bump, Onward(wheel)) /\ High(Onward(wheel))
               /\ Past(Onward(wheel)) = Past(wheel) + 1
      <3>1. encoderSem' = 0
        BY <1>9, <1>1, <1>2, <1>3, <2>1, <2>5, BumpStep
      <3>2. BumpWidth' = Past(Onward(wheel)) - First(Bump)
        BY <2>1, <2>2, <2>4, <2>5
      <3>3. Crosses'
        BY <1>3, <2>1, <2>5, <3>2 DEF Crosses
      <3> QED
        BY <1>1, <1>8, <3>1, <3>3 DEF Tracks
    <2>6. CASE /\ Past(wheel) = Last(Bump) /\ InGap(After(Bump), Onward(wheel))
               /\ ~High(Onward(wheel))
      <3>1. encoderSem' = 1
        BY <1>9, <1>1, <1>2, <1>3, <1>8, <2>1, <2>6, BumpStep
      <3>2. BumpWidth' = 2 * Half[Bump] + 1
        BY <2>1, <2>2, <2>4, <2>6
      <3>3. Leaves'
        BY <1>3, <2>1, <2>6, <3>2 DEF Leaves
      <3> QED
        BY <1>1, <1>8, <3>1, <3>3 DEF Tracks
    <2> QED
      BY <1>2, <1>3, <2>1, <2>5, <2>6, BumpStep
  <1> QED
    BY <1>2, <1>4, <1>5, <1>6, <1>7, <1>8 DEF Approaches, Structure, Types, CalTypes, Calibration

\* And from edge to edge: a bump is entered or left, or the gap after
\* pass-through is met
LEMMA EdgeTracks ==
    ASSUME Structure, pc = "cal_wait", encoderSem = 1, Tracks,
           UNCHANGED <<wheel, current, stuck>>, encoderSem' = 0,
           cal'.inside = Measured.inside, cal'.index = Measured.index,
           cal'.entry = Measured.entry
    PROVE  Tracks'
PROOF
  <1>1. wheel \in Places /\ current \in Places /\ cal.index \in Nat /\ cal.inside \in BOOLEAN
    BY DEF Structure, Types, MotorTypes, CalTypes, Calibration
  <1>2. Bump \in Bumps /\ Bump' = BumpAt(cal'.index)
    BY <1>1, BumpAtIs DEF Bump
  <1>3. wheel' = wheel /\ current' = current
    OBVIOUS
  <1>4. CASE ~cal.inside /\ Past(wheel) = First(Bump)
    <2>1. OnBump(Bump, wheel)
      BY <1>1, <1>2, <1>4, BumpIs, OnBumpIs
    <2>2. High(wheel)
      BY <1>2, <2>1 DEF High
    <2>3. cal'.inside /\ cal'.entry = current /\ cal'.index = cal.index
      BY <2>2, MeasuredIs DEF Structure
    <2>4. Bump' = Bump
      BY <1>2, <2>3 DEF Bump
    <2>5. BumpWidth' = Past(wheel) - First(Bump)
      <3>1. current - current = 0 /\ Past(wheel) - First(Bump) = 0
        BY <1>1, <1>2, <1>4, BumpIs DEF Places
      <3>2. 0 % Turn = 0
        BY Geometry
      <3> QED
        BY <1>3, <2>3, <3>1, <3>2 DEF BumpWidth
    <2>6. Crosses'
      BY <1>3, <2>1, <2>4, <2>5 DEF Crosses
    <2> QED
      BY <2>3, <2>6 DEF Tracks
  <1>5. CASE ~cal.inside /\ cal.index = 0 /\ InGap("vertical", wheel)
    <2>1. ~High(wheel)
      BY <1>1, <1>5, GapIsLow DEF Bumps, Positions
    <2>2. ~cal'.inside /\ cal'.index = 0
      BY <1>5, <2>1, MeasuredIs DEF Structure
    <2>3. Bump' = "vertical"
      BY <1>1, <1>2, <2>2, BumpAtIs
    <2>4. Approaches'
      BY <1>3, <1>5, <2>3 DEF Approaches
    <2> QED
      BY <2>2, <2>4 DEF Tracks
  <1>6. CASE cal.inside
    <2>1. InGap(After(Bump), wheel)
      BY <1>6 DEF Tracks, Leaves
    <2>2. ~High(wheel)
      BY <1>1, <1>2, <2>1, BumpIs, GapIsLow
    <2>3. ~cal'.inside /\ cal'.index = cal.index + 1
      BY <1>6, <2>2, MeasuredIs DEF Structure
    <2>4. Bump' = After(Bump)
      BY <1>1, <1>2, <2>3, BumpAtIs DEF Bump
    <2>5. Approaches'
      BY <1>3, <2>1, <2>4 DEF Approaches
    <2> QED
      BY <2>3, <2>5 DEF Tracks
  <1>7. ~cal.inside => Enters
    BY DEF Tracks
  <1> QED
    BY <1>1, <1>4, <1>5, <1>6, <1>7 DEF Enters

\* The widths an edge adds are those of the bumps that are left
LEMMA MeasuredOwn ==
    ASSUME Structure, pc = "cal_wait", encoderSem = 1, CalInductive, cal.sure
    PROVE  \A p \in Positions : Measured.width[p] \in {0, 2 * Half[p] + 1}
PROOF
  <1>1. Tracks /\ \A p \in Positions : cal.width[p] \in {0, 2 * Half[p] + 1}
    BY DEF CalInductive, CalTrack, OwnWidths
  <1>2. CASE Measured.width = cal.width
    BY <1>1, <1>2
  <1>3. CASE ~High(wheel) /\ cal.inside
    <2>1. BumpWidth = 2 * Half[Bump] + 1
      BY <1>1, <1>3 DEF Tracks, Leaves
    <2>2. Measured.width = [p \in Positions |->
               IF p = Bump /\ cal.width[p] = 0 THEN BumpWidth ELSE cal.width[p]]
      BY <1>3, MeasuredIs DEF Structure, Bump, BumpAt
    <2> QED
      BY <1>1, <2>1, <2>2
  <1> QED
    BY <1>2, <1>3, MeasuredIs DEF Structure

\* A step that is not the calibration's
LEMMA CalKept ==
    ASSUME CalInductive, UNCHANGED cal,
           pc' = "cal_wait" => /\ pc = "cal_wait" /\ UNCHANGED <<wheel, current, encoderSem>>
                               /\ stuck => stuck'
    PROVE  CalInductive'
PROOF
  <1>1. Bump' = Bump
    BY DEF Bump
  <1>2. pc' = "cal_wait" => BumpWidth' = BumpWidth
    BY DEF BumpWidth
  <1>3. CalTrack'
    <2> SUFFICES ASSUME pc' = "cal_wait", cal'.sure PROVE Tracks'
      BY DEF CalTrack
    <2>1. Tracks /\ UNCHANGED <<wheel, current, encoderSem, cal>> /\ (stuck => stuck')
      BY DEF CalInductive, CalTrack
    <2>2. Approaches' = Approaches /\ Enters' = Enters /\ Leaves' = Leaves
      BY <1>1, <1>2, <2>1 DEF Approaches, Enters, Leaves
    <2>3. Crosses => Crosses'
      BY <1>1, <1>2, <2>1 DEF Crosses
    <2> QED
      BY <2>1, <2>2, <2>3 DEF Tracks
  <1> QED
    BY <1>3 DEF CalInductive, OwnWidths, Completed

\* A new spin goes on from where the one before it was
LEMMA SpinTracks ==
    ASSUME Structure, NEW c \in Calibration, NEW ok \in BOOLEAN, CalSpin(c, ok),
           UNCHANGED <<wheel, current>>
    PROVE  /\ cal'.inside = c.inside /\ cal'.index = c.index /\ cal'.entry = c.entry
           /\ cal'.sure = c.sure /\ cal'.width = c.width /\ cal'.complete = c.complete
           /\ encoderSem' = 0
PROOF
  BY CalSpinIs DEF Structure, Calibration

\* The steps of the calibration follow the wheel
LEMMA CalibrationKeepsWidths ==
    ASSUME Structure, CalInductive, NEW ok \in BOOLEAN,
           CalBegin(ok) \/ CalEdge(ok) \/ CalSpinOver(ok)
    PROVE  CalInductive'
PROOF
  <1>1. /\ cal \in Calibration /\ wheel \in Places
        /\ Measured \in Calibration /\ Measured.sure = cal.sure
        /\ Measured.complete = cal.complete
    BY MeasuredIs DEF Structure, Types, MotorTypes, CalTypes
  <1>2. CASE CalBegin(ok)
    <2>1. UNCHANGED <<wheel, current>>
      BY <1>2, CalBeginIs DEF Structure, CalRest, wheelVars
    <2>2. CASE pc' = "poll" /\ UNCHANGED cal
      BY <2>2, CalKept
    <2>3. ASSUME NEW c \in Calibration, Begins(c, ok)
          PROVE  CalInductive'
      <3>1. /\ CalSpin(c, ok) /\ ~c.complete /\ c.width = NoWidths
            /\ c.index = 0 /\ ~c.inside /\ (c.sure => OnBump("pass_through", wheel))
        BY <2>3 DEF Begins
      <3>2. /\ ~cal'.inside /\ cal'.index = 0 /\ encoderSem' = 0 /\ ~cal'.complete
            /\ cal'.sure => OnBump("pass_through", wheel)
            /\ cal'.width = NoWidths
        BY <2>1, <3>1, SpinTracks
      <3>3. cal'.sure => Approaches'
        BY <2>1, <3>2 DEF Approaches
      <3>4. \A p \in Positions : cal'.width[p] = 0
        BY <3>2 DEF NoWidths
      <3> QED
        BY <3>2, <3>3, <3>4 DEF CalInductive, CalTrack, Tracks, OwnWidths, Completed
    <2> QED
      BY <1>2, <2>2, <2>3, CalBeginIs DEF Structure
  <1>3. CASE CalEdge(ok) \/ CalSpinOver(ok)
    <2>1. /\ pc = "cal_wait" /\ UNCHANGED <<wheel, current, stuck>>
          /\ ~cal.complete
      BY <1>3, CalEdgeIs, CalSpinOverIs DEF Structure, Control, Calibrates, CalRest, wheelVars
    <2> DEFINE c == IF CalEdge(ok) THEN Measured ELSE cal
    <2>2. /\ c \in Calibration /\ ~c.complete /\ c.sure = cal.sure
          /\ c.sure => \A p \in Positions : c.width[p] \in {0, 2 * Half[p] + 1}
      BY <1>1, <1>3, <2>1, MeasuredOwn, CalEdgeIs DEF CalInductive, OwnWidths, Structure
    <2>3. \/ CalEnd(c) \/ CalSpin(c, ok)
          \/ CalEdge(ok) /\ cal' = c /\ encoderSem' = 0
      BY <1>3, CalEdgeIs, CalSpinOverIs DEF Structure
    <2> HIDE DEF c
    <2>4. CASE CalEnd(c)
      <3> DEFINE all == \A p \in Positions : c.width[p] > 0
      <3>1. pc' = "home_start" /\ cal' = [c EXCEPT !.complete = all, !.needed = FALSE]
        BY <2>2, <2>4, CalEndIs DEF Structure
      <3>2. all \in BOOLEAN
        OBVIOUS
      <3> HIDE DEF all
      <3>3. cal'.sure = c.sure /\ cal'.width = c.width /\ cal'.complete = all
        BY <2>2, <3>1 DEF Calibration
      <3>4. Completed'
        BY <3>3 DEF Completed, all
      <3> QED
        BY <2>2, <3>1, <3>3, <3>4 DEF CalInductive, CalTrack, OwnWidths
    <2>5. CASE ~CalEnd(c)
      <3>1. /\ cal'.inside = c.inside /\ cal'.index = c.index /\ cal'.entry = c.entry
            /\ cal'.sure = c.sure /\ cal'.width = c.width /\ cal'.complete = c.complete
            /\ encoderSem' = 0
        BY <2>1, <2>2, <2>3, <2>5, SpinTracks
      <3>2. OwnWidths' /\ Completed'
        BY <2>2, <3>1 DEF OwnWidths, Completed
      <3>3. ASSUME cal.sure PROVE Tracks'
        <4>1. Tracks
          BY <2>1, <3>3 DEF CalInductive, CalTrack
        <4>2. CASE CalEdge(ok)
          <5>1. encoderSem = 1 /\ c = Measured
            BY <4>2, CalEdgeIs DEF Structure, c
          <5> QED
            BY <2>1, <3>1, <4>1, <5>1, EdgeTracks
        <4>3. CASE ~CalEdge(ok)
          <5>1. encoderSem = 0 /\ c = cal
            BY <1>3, <4>3, CalSpinOverIs DEF Structure, c
          <5>2. Bump' = Bump /\ BumpWidth' = BumpWidth
            BY <2>1, <3>1, <5>1 DEF Bump, BumpWidth
          <5>3. Approaches' = Approaches /\ Crosses' = Crosses
            BY <2>1, <3>1, <5>1, <5>2 DEF Approaches, Crosses
          <5> QED
            BY <3>1, <4>1, <5>1, <5>3 DEF Tracks
        <4> QED
          BY <4>2, <4>3
      <3> QED
        BY <2>2, <3>1, <3>2, <3>3 DEF CalInductive, CalTrack
    <2> QED
      BY <2>4, <2>5
  <1> QED
    BY <1>2, <1>3

\* Every other step leaves the calibration as it is
LEMMA OthersKeepWidths ==
    ASSUME Structure, CalInductive, NEW ok \in BOOLEAN,
           \/ Requests \/ Jam \/ ThreadStep \/ ThreadEncoder \/ ThreadCalibrate
           \/ ThreadSetAngle(ok) \/ ThreadHome(ok) \/ HomeAgain(ok)
           \/ HomeNotch(ok) \/ HomeTimeout(ok)
           \/ PassNotch \/ HomeFinish \/ HomeGivesUp
    PROVE  CalInductive'
PROOF
  <1> USE DEF Structure
  <1>1. CASE Requests \/ Jam
    <2>1. UNCHANGED <<wheel, current, encoderSem, pc, cal>> /\ (stuck => stuck')
      BY <1>1 DEF Requests, SetAngle, HomeAsync, CalibrateAsync, Jam, wheelVars, motor, signals
    <2> QED
      BY <2>1, CalKept
  <1>2. CASE ThreadStep \/ ThreadEncoder \/ ThreadCalibrate \/ ThreadSetAngle(ok)
    <2>1. pc' \in {"poll", "cal_start"} /\ UNCHANGED cal
      BY <1>2, ThreadStepIs, SetAngleIs DEF ThreadEncoder, ThreadCalibrate
    <2> QED
      BY <2>1, CalKept
  <1>3. CASE ThreadHome(ok) \/ HomeAgain(ok) \/ HomeNotch(ok) \/ HomeTimeout(ok)
    <2>1. PairFound(ok) \/ NoHoming \/ \E h \in Homing : HomeSpin(h, ok)
      BY <1>3, HomeBeginIs, HomeNotchIs, HomeTimeoutIs
    <2>2. pc' \in {"poll", "home_wait", "pass_wait"} /\ UNCHANGED cal
      BY <2>1, HomeSpinIs DEF PairFound, NoHoming
    <2> QED
      BY <2>2, CalKept
  <1>4. CASE Homed
    <2>1. /\ pc' \in {"cal_start", "poll"} /\ cal'.sure = cal.sure /\ cal'.width = cal.width
          /\ cal'.complete = cal.complete
      BY <1>4 DEF Homed, Types, CalTypes, Calibration
    <2> QED
      BY <2>1 DEF CalInductive, CalTrack, OwnWidths, Completed
  <1>5. CASE PassNotch
    BY <1>5, CalKept DEF PassNotch
  <1>6. CASE HomeFinish /\ ~Homed
    BY <1>6, CalKept DEF HomeFinish
  <1> QED
    BY <1>1, <1>2, <1>3, <1>4, <1>5, <1>6 DEF HomeGivesUp

\* The wheel is where the calibration takes it to be in every reachable state
LEMMA WidthsInvariant == Spec => []CalInductive
PROOF
  <1>1. Init => CalInductive
    BY DEF Init, CalInductive, CalTrack, OwnWidths, Completed
  <1>2. Structure /\ CalInductive /\ [Next]_vars => CalInductive'
    <2> SUFFICES ASSUME Structure, CalInductive, [Next]_vars PROVE CalInductive'
      OBVIOUS
    <2>1. ASSUME NEW moves \in BOOLEAN, Pulse(moves) PROVE CalInductive'
      <3>1. pc' = pc /\ cal' = cal
        BY <2>1 DEF Pulse
      <3>2. pc = "cal_wait" /\ cal.sure => Tracks'
        BY <2>1, PulseTracks DEF CalInductive, CalTrack
      <3> QED
        BY <3>1, <3>2 DEF CalInductive, CalTrack, OwnWidths, Completed
    <2>2. CASE Requests \/ Jam \/ ThreadAlone
      BY <2>2, OthersKeepWidths DEF ThreadAlone
    <2>3. ASSUME NEW ok \in BOOLEAN, Thread(ok) PROVE CalInductive'
      BY <2>3, OthersKeepWidths, CalibrationKeepsWidths DEF Thread
    <2>4. CASE UNCHANGED vars
      <3>1. UNCHANGED <<wheel, current, encoderSem, pc, cal, stuck>>
        BY <2>4 DEF vars, wheelVars, motor, signals
      <3> QED
        BY <3>1, CalKept
    <2> QED
      BY <2>1, <2>2, <2>3, <2>4 DEF Next
  <1> QED
    BY <1>1, <1>2, StructureInvariant, PTL DEF Spec

(* A calibration that began at pass-through and is declared complete has
   measured every position's own bump, whatever the widths of the bumps, the
   faults and the commands (execute_calibration). *)
THEOREM CalibrationIsRight == Spec => []CalibrationMeasuresItsBump
PROOF
  <1>1. CalInductive => CalibrationMeasuresItsBump
    <2> SUFFICES ASSUME CalInductive, cal.complete, cal.sure, NEW p \in Positions
                 PROVE  cal.width[p] = 2 * Half[p] + 1
      BY DEF CalibrationMeasuresItsBump
    <2>1. cal.width[p] \in {0, 2 * Half[p] + 1} /\ cal.width[p] > 0
      BY DEF CalInductive, OwnWidths, Completed
    <2> QED
      BY <2>1
  <1> QED
    BY <1>1, WidthsInvariant, PTL

-----------------------------------------------------------------------------
(* The way from bump to bump *)

\* From the edge of a bump to that of the next one
Pitch(b) == IF b = "pass_through" THEN First("vertical") - First("pass_through") + Turn
            ELSE First(After(b)) - First(b)

\* The wheel is n pulses after the edge of b, and not yet at that of the next bump
Ahead(b, n, w) == /\ n < Pitch(b)
                  /\ Past(w) - First(b) \in {n, n - Turn}

\* The edges in numbers
LEMMA EdgesAre ==
    /\ Turn \in Int /\ Half["pass_through"] \in Int
    /\ First("vertical") \in Int /\ First("extra") \in Int
    /\ First("horizontal") \in Int /\ First("pass_through") \in Int
    /\ Half["pass_through"] + 1 < First("vertical")
    /\ 0 < Half["pass_through"] /\ Half["pass_through"] < Turn
    /\ First("vertical") < First("extra") /\ First("extra") < First("horizontal")
    /\ First("horizontal") < First("pass_through")
    /\ First("pass_through") = Turn - Half["pass_through"]
    /\ Last("pass_through") = Turn + Half["pass_through"]
PROOF
  <1>1. /\ "vertical" \in Bumps /\ "extra" \in Bumps /\ "horizontal" \in Bumps
        /\ "pass_through" \in Bumps
    BY DEF Bumps, Positions
  <1>2. /\ First("vertical") \in Int /\ First("extra") \in Int
        /\ First("horizontal") \in Int /\ First("pass_through") \in Int
        /\ First("vertical") <= Last("vertical") /\ First("extra") <= Last("extra")
        /\ First("horizontal") <= Last("horizontal")
        /\ Last("vertical") \in Int /\ Last("extra") \in Int /\ Last("horizontal") \in Int
        /\ 2 * Half["pass_through"] + 1 < Turn /\ Half["pass_through"] \in Nat
    BY <1>1, BumpIs
  <1>3. First("pass_through") = Turn - Half["pass_through"]
        /\ Last("pass_through") = Turn + Half["pass_through"]
    BY Geometry DEF First, Last
  <1> QED
    BY <1>2, <1>3, Geometry

\* From one bump to the next there is no other, and less than a turn
LEMMA PitchIs ==
    ASSUME NEW b \in Bumps
    PROVE  /\ Pitch(b) \in Int /\ 0 < Pitch(b) /\ Pitch(b) < Turn
           /\ First(After(b)) - First(b) \in {Pitch(b), Pitch(b) - Turn}
           /\ \A a \in Bumps : \A n \in Int :
                  0 < n /\ n < Pitch(b) => First(a) - First(b) \notin {n, n - Turn}
PROOF
  <1> USE EdgesAre
  <1>1. CASE b = "pass_through"
    BY <1>1 DEF Pitch, After, Bumps, Positions
  <1>2. CASE b = "vertical"
    BY <1>2 DEF Pitch, After, Bumps, Positions
  <1>3. CASE b = "extra"
    BY <1>3 DEF Pitch, After, Bumps, Positions
  <1>4. CASE b = "horizontal"
    BY <1>4 DEF Pitch, After, Bumps, Positions
  <1> QED
    BY <1>1, <1>2, <1>3, <1>4 DEF Bumps, Positions

\* A bump is entered at its edge, in either direction
LEMMA EntersAtEdge ==
    ASSUME NEW b \in Bumps, NEW w \in Places
    PROVE  /\ OnBump(b, Onward(w)) => \/ Past(Onward(w)) = First(b)
                                      \/ OnBump(b, w) /\ Past(Onward(w)) = Past(w) + 1
           /\ OnBump(b, Back(w)) => \/ Past(Back(w)) = Last(b)
                                    \/ OnBump(b, w) /\ Past(Back(w)) = Past(w) - 1
PROOF
  <1>1. /\ Onward(w) \in Places /\ Back(w) \in Places /\ Past(w) \in Int
        /\ Past(w) > Half["pass_through"] /\ Past(w) <= Last("pass_through")
        /\ Past(Onward(w)) = IF Past(w) = Last("pass_through")
                             THEN Half["pass_through"] + 1 ELSE Past(w) + 1
        /\ Past(Back(w)) = IF Past(w) = Half["pass_through"] + 1
                           THEN Last("pass_through") ELSE Past(w) - 1
    BY PastSteps
  <1>2. /\ OnBump(b, w) <=> First(b) <= Past(w) /\ Past(w) <= Last(b)
        /\ OnBump(b, Onward(w)) <=> First(b) <= Past(Onward(w)) /\ Past(Onward(w)) <= Last(b)
        /\ OnBump(b, Back(w)) <=> First(b) <= Past(Back(w)) /\ Past(Back(w)) <= Last(b)
    BY <1>1, OnBumpIs
  <1>3. /\ First(b) \in Int /\ Last(b) \in Int /\ Half["pass_through"] + 1 < First(b)
        /\ Last(b) <= Last("pass_through")
        /\ Half["pass_through"] \in Int /\ Last("pass_through") \in Int
    BY BumpIs, EdgesAre
  <1> QED
    BY <1>1, <1>2, <1>3

\* So the encoder rises at the edge of a bump
LEMMA RisesAtEdge ==
    ASSUME NEW w \in Places, ~High(w), High(Onward(w))
    PROVE  \E b \in Bumps : Past(Onward(w)) = First(b)
PROOF
  BY EntersAtEdge DEF High

\* One step on from a bump to the next: it rises there, and not before
LEMMA AheadStep ==
    ASSUME NEW b \in Bumps, NEW n \in Nat, NEW w \in Places, Ahead(b, n, w)
    PROVE  \/ Ahead(b, n + 1, Onward(w)) /\ ~(~High(w) /\ High(Onward(w)))
           \/ /\ n + 1 = Pitch(b) /\ Past(Onward(w)) = First(After(b))
              /\ ~High(w) /\ High(Onward(w))
PROOF
  <1>1. /\ Onward(w) \in Places /\ Past(w) \in Int /\ Past(Onward(w)) \in Int
        /\ Past(w) > Half["pass_through"] /\ Past(w) <= Last("pass_through")
        /\ Past(Onward(w)) > Half["pass_through"] /\ Past(Onward(w)) <= Last("pass_through")
        /\ Past(Onward(w)) = IF Past(w) = Last("pass_through")
                             THEN Half["pass_through"] + 1 ELSE Past(w) + 1
    BY PastSteps
  <1>2. /\ After(b) \in Bumps /\ First(b) \in Int /\ First(After(b)) \in Int
        /\ Half["pass_through"] + 1 < First(b) /\ Half["pass_through"] + 1 < First(After(b))
        /\ First(b) < Last("pass_through") /\ First(After(b)) < Last("pass_through")
        /\ EndBefore(After(b)) \in Int /\ EndBefore(After(b)) + 1 < First(After(b))
        /\ First(After(b)) <= Last(After(b))
    <2>1. After(b) \in Bumps
      BY BumpIs
    <2>2. \A a \in Bumps : First(a) \in Int /\ Half["pass_through"] + 1 < First(a)
                           /\ First(a) < Last("pass_through")
      BY EdgesAre DEF Bumps, Positions
    <2>3. /\ EndBefore(After(b)) \in Int /\ EndBefore(After(b)) + 1 < First(After(b))
          /\ First(After(b)) <= Last(After(b))
      BY <2>1, BumpIs
    <2> QED
      BY <2>1, <2>2, <2>3
  <1>3. /\ Turn \in Int /\ Turn > 0 /\ Half["pass_through"] \in Int
        /\ Last("pass_through") \in Int /\ Last("pass_through") = Turn + Half["pass_through"]
        /\ Pitch(b) \in Int /\ Pitch(b) < Turn
        /\ First(After(b)) - First(b) \in {Pitch(b), Pitch(b) - Turn}
    BY EdgesAre, PitchIs
  <1>4. n < Pitch(b) /\ Past(w) - First(b) \in {n, n - Turn}
    BY DEF Ahead
  <1> PICK m \in Int : m = n + 1
    OBVIOUS
  <1>5. Past(Onward(w)) - First(b) \in {m, m - Turn} /\ 0 < m
    BY <1>1, <1>2, <1>3, <1>4
  <1>6. CASE m < Pitch(b)
    <2>1. Ahead(b, m, Onward(w))
      BY <1>5, <1>6 DEF Ahead
    <2>2. \A a \in Bumps : Past(Onward(w)) # First(a)
      <3> SUFFICES ASSUME NEW a \in Bumps, Past(Onward(w)) = First(a) PROVE FALSE
        OBVIOUS
      <3>1. First(a) - First(b) \in {m, m - Turn} /\ 0 < m
        BY <1>5
      <3> QED
        BY <1>6, <3>1, PitchIs
    <2> QED
      BY <2>1, <2>2, RisesAtEdge
  <1>7. CASE m = Pitch(b)
    <2>1. Past(Onward(w)) = First(After(b))
      BY <1>1, <1>2, <1>3, <1>5, <1>7
    <2>2. Past(w) + 1 = First(After(b))
      BY <1>1, <1>2, <2>1
    <2>3. ~High(w)
      <3>1. InGap(After(b), w)
        BY <1>1, <1>2, <2>2 DEF InGap
      <3> QED
        BY <1>2, <3>1, GapIsLow
    <2>4. High(Onward(w))
      <3>1. OnBump(After(b), Onward(w))
        BY <1>1, <1>2, <2>1, OnBumpIs, BumpIs
      <3> QED
        BY <1>2, <3>1 DEF High
    <2> QED
      BY <1>7, <2>1, <2>3, <2>4
  <1> QED
    BY <1>3, <1>4, <1>6, <1>7

-----------------------------------------------------------------------------
(* The count and the wheel *)

Near(c, w, d) == Abs(CircularDistance(c, w)) <= d

\* The distance is kept while both turn, and grows by a pulse that is lost
LEMMA NearStep ==
    ASSUME NEW c \in Places, NEW w \in Places, NEW d \in Nat, Near(c, w, d)
    PROVE  /\ Near(Onward(c), Onward(w), d) /\ Near(Back(c), Back(w), d)
           /\ Near(Onward(c), w, d + 1) /\ Near(Back(c), w, d + 1)
PROOF
  <1>1. /\ Onward(c) \in Places /\ Back(c) \in Places
        /\ Onward(w) \in Places /\ Back(w) \in Places /\ d + 1 \in Nat
    BY PastSteps
  <1>2. /\ Turn \in Int /\ Turn > 0 /\ c \in Int /\ w \in Int /\ 0 <= c /\ c < Turn
        /\ 0 <= w /\ w < Turn
    BY Geometry DEF Places
  <1>3. \/ w - c <= d /\ c - w <= d
        \/ Turn - (w - c) <= d
        \/ Turn - (c - w) <= d
    BY NearIs DEF Near
  <1>4. Near(Onward(c), Onward(w), d)
    <2>1. \/ Onward(w) - Onward(c) <= d /\ Onward(c) - Onward(w) <= d
          \/ Turn - (Onward(w) - Onward(c)) <= d
          \/ Turn - (Onward(c) - Onward(w)) <= d
      BY <1>2, <1>3 DEF Onward
    <2> QED
      BY <1>1, <2>1, NearIs DEF Near
  <1>5. Near(Back(c), Back(w), d)
    <2>1. \/ Back(w) - Back(c) <= d /\ Back(c) - Back(w) <= d
          \/ Turn - (Back(w) - Back(c)) <= d
          \/ Turn - (Back(c) - Back(w)) <= d
      BY <1>2, <1>3 DEF Back
    <2> QED
      BY <1>1, <2>1, NearIs DEF Near
  <1>6. Near(Onward(c), w, d + 1)
    <2>1. \/ w - Onward(c) <= d + 1 /\ Onward(c) - w <= d + 1
          \/ Turn - (w - Onward(c)) <= d + 1
          \/ Turn - (Onward(c) - w) <= d + 1
      BY <1>2, <1>3 DEF Onward
    <2> QED
      BY <1>1, <2>1, NearIs DEF Near
  <1>7. Near(Back(c), w, d + 1)
    <2>1. \/ w - Back(c) <= d + 1 /\ Back(c) - w <= d + 1
          \/ Turn - (w - Back(c)) <= d + 1
          \/ Turn - (Back(c) - w) <= d + 1
      BY <1>2, <1>3 DEF Back
    <2> QED
      BY <1>1, <2>1, NearIs DEF Near
  <1> QED
    BY <1>4, <1>5, <1>6, <1>7

\* Nothing is farther away than a turn
LEMMA NearAll ==
    ASSUME NEW c \in Places, NEW w \in Places, NEW d \in Nat, d >= Turn
    PROVE  Near(c, w, d)
PROOF
  <1>1. w - c <= d /\ c - w <= d
    BY Geometry DEF Places
  <1> QED
    BY <1>1, NearIs DEF Near

\* A count modulo the turn is as near as the place it is taken from
LEMMA NearPast ==
    ASSUME NEW x \in Int, NEW w \in Places, NEW d \in Nat,
           -Turn <= x, x < 2 * Turn, Past(w) - x <= d, x - Past(w) <= d
    PROVE  Near(x % Turn, w, d)
PROOF
  <1>1. Turn \in Int /\ Turn > 0
    BY Geometry
  <1>2. x % Turn = IF x < 0 THEN x + Turn ELSE IF x < Turn THEN x ELSE x - Turn
    BY Wrap
  <1>3. w \in Int /\ 0 <= w /\ w < Turn
    BY <1>1 DEF Places
  <1>4. x % Turn \in Places
    BY <1>1, <1>2 DEF Places
  <1>5. Past(w) = w \/ Past(w) = w + Turn
    BY DEF Past
  <1>6. \/ w - (x % Turn) <= d /\ (x % Turn) - w <= d
        \/ Turn - (w - (x % Turn)) <= d
        \/ Turn - ((x % Turn) - w) <= d
    BY <1>1, <1>2, <1>3, <1>5
  <1> QED
    BY <1>4, <1>6, NearIs DEF Near

\* The count with the zero that the homing is about to give it
Zeroed == IF pc = "home_finish" THEN (current - Third - EdgeToCenter) % Turn ELSE current

\* What is counted from another zero goes on in step
LEMMA ZeroStep ==
    ASSUME NEW c \in Places
    PROVE  /\ (c - Third - EdgeToCenter) % Turn \in Places
           /\ (Onward(c) - Third - EdgeToCenter) % Turn
                  = Onward((c - Third - EdgeToCenter) % Turn)
           /\ c = Third + EdgeToCenter => (c - Third - EdgeToCenter) % Turn = 0
           /\ (Third - Third - EdgeToCenter) % Turn = (-EdgeToCenter) % Turn
           /\ -EdgeToCenter \in Int /\ -Turn <= -EdgeToCenter /\ -EdgeToCenter <= 0
PROOF
  <1>1. /\ Turn \in Int /\ Turn > 0 /\ c \in Int /\ 0 <= c /\ c < Turn
        /\ Third \in Int /\ Turn = 3 * Third
        /\ EdgeToCenter \in Int /\ 0 < EdgeToCenter /\ EdgeToCenter <= Third
    BY Geometry, PolarizerConstants, WheelAssumption DEF Places
  <1> DEFINE x == c - Third - EdgeToCenter
  <1>2. x \in Int /\ -Turn <= x /\ x < Turn
    BY <1>1
  <1>3. x % Turn = IF x < 0 THEN x + Turn ELSE x
    <2> HIDE DEF x
    <2> QED
      BY <1>1, <1>2, Wrap
  <1>4. x % Turn \in Places
    BY <1>1, <1>2, <1>3 DEF Places
  <1>5. (Onward(c) - Third - EdgeToCenter) % Turn = Onward(x % Turn)
    <2> DEFINE y == Onward(c) - Third - EdgeToCenter
    <2>1. y \in Int /\ -Turn <= y /\ y < Turn
      BY <1>1 DEF Onward
    <2>2. y % Turn = IF y < 0 THEN y + Turn ELSE y
      <3> HIDE DEF y
      <3> QED
        BY <1>1, <2>1, Wrap
    <2> QED
      BY <1>1, <1>3, <2>2 DEF Onward
  <1>6. c = Third + EdgeToCenter => x % Turn = 0
    BY <1>1, <1>3
  <1>7. Third - Third - EdgeToCenter = -EdgeToCenter
    BY <1>1
  <1> QED
    BY <1>1, <1>4, <1>5, <1>6, <1>7

-----------------------------------------------------------------------------
(* The homing and the courses *)

\* The homing has counted from the edge of b, to the next edge once it is seen
FromBump(b) == /\ encoderSem = 0 => \/ stuck
                                    \/ spun = current /\ Ahead(b, current, wheel)
               /\ encoderSem = 1 => current = Pitch(b) /\ Past(wheel) = First(After(b))
HomeTrack == pc = "home_wait" =>
    IF homing.notches = 0 THEN encoderSem = 1 => \E b \in Bumps : Past(wheel) = First(b)
    ELSE \E b \in Bumps : FromBump(b)

\* After the pair that is close, the next bump is that of pass-through
PassTrack == pc = "pass_wait" =>
    /\ encoderSem = 0 => stuck \/ \E n \in Nat : Ahead("horizontal", n, wheel)
    /\ encoderSem = 1 => Past(wheel) = First("pass_through")

\* The thread may see the edge late, and the wheel is then as far past it
EdgeSeen == encoderSem = 1 /\ state = "encoder" =>
    \A b \in Bumps : OnBump(b, wheel) =>
        IF direction = Forward THEN Past(wheel) - First(b) <= overrun
        ELSE Last(b) - Past(wheel) <= overrun

\* The count is the place of the wheel, wherever it is used as one
Known == /\ lost = "no" /\ state # "uninitialized"
         /\ pc \in {"poll", "cal_start", "cal_wait", "home_finish"}
Counts == Known => Near(Zeroed, wheel, drift + Tolerance)

PositionInductive == HomeTrack /\ PassTrack /\ EdgeSeen /\ Counts /\ ReportedIsThere

\* A pulse of the homing moves the wheel and the count, unless the wheel is
\* stuck, and comes only once the last edge is handled
LEMMA HomePulseIs ==
    ASSUME Structure, NEW moves \in BOOLEAN, Pulse(moves), pc \in {"home_wait", "pass_wait"}
    PROVE  /\ encoderSem = 0
           /\ wheel' = IF moves THEN Onward(wheel) ELSE wheel
           /\ moves \/ stuck
           /\ ~(moves /\ stuck)
           /\ current' = Onward(current) /\ spun' = spun + 1
           /\ encoderSem' = IF moves /\ ~High(wheel) /\ High(Onward(wheel)) THEN 1 ELSE 0
           /\ UNCHANGED <<pc, homing, stuck>>
PROOF
  <1>1. encoderSem \in {0, 1} /\ direction = Forward /\ encoder = "rising"
    BY DEF Structure, Control, Homes, Homings, Types, ThreadTypes
  <1>2. wheel' = (IF moves THEN Onward(wheel) ELSE wheel) /\ current' = Onward(current)
    BY <1>1, PulseIs DEF Structure
  <1> DEFINE costs == (IF Waited THEN 1 ELSE 0) + (IF moves \/ stuck THEN 0 ELSE 1)
  <1>3. costs > 0 => FALSE
    BY DEF Pulse
  <1>4. ~Waited /\ (moves \/ stuck)
    BY <1>3
  <1>5. encoderSem = 0
    BY <1>1, <1>4 DEF Waited
  <1>6. encoderSem' = IF Signals(wheel, wheel') THEN 1 ELSE encoderSem
    BY DEF Pulse
  <1>7. Signals(wheel, wheel') <=> moves /\ ~High(wheel) /\ High(Onward(wheel))
    <2>1. High(wheel) \in BOOLEAN /\ High(Onward(wheel)) \in BOOLEAN
      BY DEF High
    <2> QED
      BY <1>1, <1>2, <2>1 DEF Signals
  <1>8. (moves => ~stuck) /\ UNCHANGED <<pc, homing, stuck>> /\ spun' = spun + 1
    BY DEF Pulse
  <1> QED
    BY <1>2, <1>4, <1>5, <1>6, <1>7, <1>8

\* From pulse to pulse the homing follows the wheel to the next bump
LEMMA PulseHomes ==
    ASSUME Structure, NEW moves \in BOOLEAN, Pulse(moves), HomeTrack, PassTrack
    PROVE  HomeTrack' /\ PassTrack'
PROOF
  <1>1. wheel \in Places /\ current \in Places /\ current \in Nat /\ spun \in Nat
    BY DEF Structure, Types, MotorTypes, Places
  <1>2. pc' = pc
    BY DEF Pulse
  <1>3. ASSUME pc \in {"home_wait", "pass_wait"}
        PROVE  /\ encoderSem = 0
               /\ moves \/ (stuck /\ stuck' /\ encoderSem' = 0)
               /\ moves => wheel' = Onward(wheel) /\ ~stuck
               /\ current' = Onward(current) /\ spun' = spun + 1
               /\ moves /\ ~High(wheel) /\ High(Onward(wheel)) => encoderSem' = 1
               /\ ~(~High(wheel) /\ High(Onward(wheel))) => encoderSem' = 0
               /\ encoderSem' \in {0, 1} /\ homing' = homing
    BY <1>3, HomePulseIs
  <1>4. HomeTrack'
    <2> SUFFICES ASSUME pc = "home_wait"
                 PROVE  IF homing.notches = 0
                        THEN encoderSem' = 1 => \E b \in Bumps : Past(wheel') = First(b)
                        ELSE \E b \in Bumps : FromBump(b)'
      BY <1>2, <1>3 DEF HomeTrack
    <2>1. CASE homing.notches = 0
      <3> SUFFICES ASSUME encoderSem' = 1 PROVE \E b \in Bumps : Past(wheel') = First(b)
        BY <2>1
      <3>1. wheel' = Onward(wheel) /\ ~High(wheel) /\ High(Onward(wheel))
        BY <1>3
      <3> QED
        BY <1>1, <3>1, RisesAtEdge
    <2>2. CASE homing.notches # 0
      <3>1. PICK b \in Bumps : FromBump(b)
        BY <2>2 DEF HomeTrack
      <3>2. CASE ~moves
        BY <1>3, <2>2, <3>1, <3>2 DEF FromBump
      <3>3. CASE moves
        <4>1. spun = current /\ Ahead(b, current, wheel)
          BY <1>3, <3>1, <3>3 DEF FromBump
        <4>2. current + 1 <= Pitch(b) /\ Pitch(b) < Turn /\ Turn \in Int
          BY <1>1, <4>1, PitchIs, Geometry DEF Ahead
        <4>3. current' = current + 1 /\ spun' = current + 1
          BY <1>1, <1>3, <4>1, <4>2, PitchIs DEF Onward
        <4>4. CASE Ahead(b, current + 1, Onward(wheel)) /\ ~(~High(wheel) /\ High(Onward(wheel)))
          <5>1. encoderSem' = 0 /\ wheel' = Onward(wheel)
            BY <1>3, <3>3, <4>4
          <5>2. spun' = current' /\ Ahead(b, current', wheel')
            BY <4>3, <4>4, <5>1
          <5> QED
            BY <2>2, <5>1, <5>2 DEF FromBump
        <4>5. CASE /\ current + 1 = Pitch(b) /\ Past(Onward(wheel)) = First(After(b))
                   /\ ~High(wheel) /\ High(Onward(wheel))
          <5>1. encoderSem' = 1 /\ wheel' = Onward(wheel)
            BY <1>3, <3>3, <4>5
          <5> QED
            BY <2>2, <4>3, <4>5, <5>1 DEF FromBump
        <4> QED
          BY <1>1, <4>1, <4>4, <4>5, AheadStep
      <3> QED
        BY <3>2, <3>3
    <2> QED
      BY <2>1, <2>2
  <1>5. PassTrack'
    <2> SUFFICES ASSUME pc = "pass_wait"
                 PROVE  /\ encoderSem' = 0 =>
                               stuck' \/ \E n \in Nat : Ahead("horizontal", n, wheel')
                        /\ encoderSem' = 1 => Past(wheel') = First("pass_through")
      BY <1>2 DEF PassTrack
    <2>1. CASE ~moves
      BY <1>3, <2>1
    <2>2. CASE moves
      <3>1. PICK n \in Nat : Ahead("horizontal", n, wheel)
        BY <1>3, <2>2 DEF PassTrack
      <3>2. wheel' = Onward(wheel) /\ n + 1 \in Nat
        BY <1>3, <2>2
      <3>3. "horizontal" \in Bumps /\ After("horizontal") = "pass_through"
        BY DEF Bumps, Positions, After
      <3>4. CASE /\ Ahead("horizontal", n + 1, Onward(wheel))
                 /\ ~(~High(wheel) /\ High(Onward(wheel)))
        BY <1>3, <3>2, <3>4
      <3>5. CASE /\ Past(Onward(wheel)) = First(After("horizontal"))
                 /\ ~High(wheel) /\ High(Onward(wheel))
        BY <1>3, <2>2, <3>2, <3>3, <3>5
      <3> QED
        BY <1>1, <3>1, <3>3, <3>4, <3>5, AheadStep
    <2> QED
      BY <2>1, <2>2
  <1> QED
    BY <1>4, <1>5

\* A pulse moves the wheel past the edge by one at most
LEMMA PulseSees ==
    ASSUME Structure, NEW moves \in BOOLEAN, Pulse(moves), EdgeSeen
    PROVE  EdgeSeen'
PROOF
  <1>1. /\ wheel \in Places /\ overrun \in Nat /\ encoderSem \in {0, 1}
        /\ direction \in {Forward, Backward}
    BY DEF Structure, Types, MotorTypes, ThreadTypes, HistoryTypes
  <1>2. /\ state' = state /\ direction' = direction
        /\ overrun' = (IF encoderSem = 0 THEN 0 ELSE overrun + 1)
        /\ encoderSem' = (IF Signals(wheel, wheel') THEN 1 ELSE encoderSem)
    BY DEF Pulse
  <1>3. wheel' = IF ~moves THEN wheel
                 ELSE IF direction = Forward THEN Onward(wheel) ELSE Back(wheel)
    BY PulseIs DEF Structure
  <1> SUFFICES ASSUME encoderSem' = 1, state = "encoder", NEW b \in Bumps, OnBump(b, wheel')
               PROVE  IF direction = Forward THEN Past(wheel') - First(b) <= overrun'
                      ELSE Last(b) - Past(wheel') <= overrun'
    BY <1>2 DEF EdgeSeen
  <1>4. /\ Past(wheel) \in Int /\ First(b) \in Int /\ Last(b) \in Int
        /\ overrun' \in Nat
    BY <1>1, <1>2, PastSteps, BumpIs
  <1>5. CASE OnBump(b, wheel)
    <2>1. High(wheel) /\ High(wheel')
      BY <1>5 DEF High
    <2>2. encoderSem = 1
      BY <1>1, <1>2, <2>1 DEF Signals
    <2>3. /\ overrun' = overrun + 1
          /\ IF direction = Forward THEN Past(wheel) - First(b) <= overrun
             ELSE Last(b) - Past(wheel) <= overrun
      BY <1>2, <1>5, <2>2 DEF EdgeSeen
    <2>4. \/ Past(wheel') = Past(wheel)
          \/ direction = Forward
             /\ (Past(wheel') = Past(wheel) + 1 \/ Past(wheel') = First(b))
          \/ direction # Forward
             /\ (Past(wheel') = Past(wheel) - 1 \/ Past(wheel') = Last(b))
      BY <1>1, <1>3, EntersAtEdge
    <2> QED
      BY <1>1, <1>4, <2>3, <2>4
  <1>6. CASE ~OnBump(b, wheel)
    <2>1. \/ direction = Forward /\ Past(wheel') = First(b)
          \/ direction # Forward /\ Past(wheel') = Last(b)
      BY <1>1, <1>3, <1>6, EntersAtEdge
    <2> QED
      BY <1>4, <2>1
  <1> QED
    BY <1>5, <1>6

\* The count and the wheel turn together, or a pulse is lost
LEMMA PulseCounts ==
    ASSUME Structure, NEW moves \in BOOLEAN, Pulse(moves), Counts
    PROVE  Counts'
PROOF
  <1>1. /\ wheel \in Places /\ current \in Places /\ drift \in Nat /\ Tolerance \in Nat
        /\ direction \in {Forward, Backward}
    BY PolarizerConstants DEF Structure, Types, MotorTypes, HistoryTypes
  <1>2. /\ pc' = pc /\ state' = state /\ lost' = lost
        /\ drift' = IF moves \/ drift >= Turn THEN drift ELSE drift + 1
    BY DEF Pulse
  <1>3. /\ current' = (IF direction = Forward THEN Onward(current) ELSE Back(current))
        /\ wheel' = IF ~moves THEN wheel
                    ELSE IF direction = Forward THEN Onward(wheel) ELSE Back(wheel)
    BY PulseIs DEF Structure
  <1> SUFFICES ASSUME Known PROVE Near(Zeroed', wheel', drift' + Tolerance)
    BY <1>2 DEF Counts, Known
  <1>4. Near(Zeroed, wheel, drift + Tolerance)
    BY DEF Counts
  <1>5. Zeroed \in Places
    BY <1>1, ZeroStep DEF Zeroed
  <1>6. Zeroed' = IF direction = Forward THEN Onward(Zeroed) ELSE Back(Zeroed)
    <2>1. CASE pc = "home_finish"
      <3>1. direction = Forward
        BY <2>1 DEF Structure, Control, Homes, Homings
      <3> QED
        BY <1>1, <1>2, <1>3, <2>1, <3>1, ZeroStep DEF Zeroed
    <2>2. CASE pc # "home_finish"
      BY <1>2, <1>3, <2>2 DEF Zeroed
    <2> QED
      BY <2>1, <2>2
  <1> DEFINE d == drift + Tolerance
  <1>7. d \in Nat
    BY <1>1
  <1>8. CASE moves
    <2> HIDE DEF d
    <2>1. Near(Zeroed, wheel, d)
      BY <1>4 DEF d
    <2>2. Near(Zeroed', wheel', d)
      BY <1>1, <1>3, <1>5, <1>6, <1>7, <1>8, <2>1, NearStep
    <2> QED
      BY <1>2, <1>8, <2>2 DEF d
  <1>9. CASE ~moves /\ drift < Turn
    <2>1. drift' + Tolerance = d + 1
      BY <1>1, <1>2, <1>9, Geometry
    <2> HIDE DEF d
    <2>2. Near(Zeroed, wheel, d)
      BY <1>4 DEF d
    <2>3. Near(Zeroed', wheel', d + 1)
      BY <1>1, <1>3, <1>5, <1>6, <1>7, <1>9, <2>2, NearStep
    <2> QED
      BY <2>1, <2>3
  <1>10. CASE ~moves /\ drift >= Turn
    <2>1. drift' + Tolerance = d /\ d >= Turn
      BY <1>1, <1>2, <1>10, Geometry
    <2>2. Zeroed' \in Places /\ wheel' \in Places
      BY <1>1, <1>3, <1>5, <1>6, PastSteps
    <2> HIDE DEF d
    <2>3. Near(Zeroed', wheel', d)
      BY <1>7, <2>1, <2>2, NearAll
    <2> QED
      BY <2>1, <2>3
  <1> QED
    BY <1>1, <1>8, <1>9, <1>10, Geometry

\* The steps that neither count nor signal
LEMMA PositionKept ==
    ASSUME PositionInductive,
           UNCHANGED <<wheel, current, encoderSem, spun, overrun, drift, lost, state, pc,
                       direction, report>>,
           homing'.notches = homing.notches, stuck => stuck'
    PROVE  PositionInductive'
PROOF
  <1>1. HomeTrack'
    <2>1. \A b \in Bumps : FromBump(b) => FromBump(b)'
      BY DEF FromBump
    <2> QED
      BY <2>1 DEF PositionInductive, HomeTrack
  <1>2. PassTrack'
    BY DEF PositionInductive, PassTrack
  <1>3. EdgeSeen'
    BY DEF PositionInductive, EdgeSeen
  <1>4. Counts' /\ ReportedIsThere'
    BY DEF PositionInductive, Counts, Known, Zeroed, ReportedIsThere
  <1> QED
    BY <1>1, <1>2, <1>3, <1>4 DEF PositionInductive

\* The edge of a bump that is measured, or taken to be as wide as the others
LEMMA EdgeIsNear ==
    ASSUME Structure, CalInductive, cal.complete => cal.sure, NEW p \in Positions
    PROVE  /\ EdgeDistance(p) \in Nat /\ EdgeDistance(p) < Turn
           /\ Half[p] - EdgeDistance(p) <= Tolerance /\ EdgeDistance(p) - Half[p] <= Tolerance
PROOF
  <1>1. EdgeDistance(p) \in Nat /\ EdgeDistance(p) < Turn
    BY EdgeType DEF Structure, Types, Forward
  <1>2. Half[p] \in Nat /\ Tolerance \in Nat
    BY PolarizerConstants DEF Bumps
  <1>3. CASE cal.complete
    <2>1. cal.width[p] \in {0, 2 * Half[p] + 1} /\ cal.width[p] > 0
      BY <1>3 DEF CalInductive, OwnWidths, Completed
    <2>2. cal.width[p] \div 2 = Half[p]
      BY <1>2, <2>1
    <2> QED
      BY <1>1, <1>2, <1>3, <2>2 DEF EdgeDistance
  <1>4. CASE ~cal.complete
    BY <1>1, <1>4, WheelAssumption DEF EdgeDistance
  <1> QED
    BY <1>1, <1>3, <1>4

\* The count is set at the edge of the bump of the goal, as far back as the
\* wheel has gone since
LEMMA EncoderSets ==
    ASSUME Structure, CalInductive, EdgeSeen, ThreadEncoder, state = "encoder", ~triggered,
           lost' = "no"
    PROVE  Near(current', wheel', drift' + Tolerance)
PROOF
  <1>1. /\ wheel' = wheel /\ current' = edge /\ drift' = overrun /\ encoderSem = 1
        /\ OnBump(goal, wheel) /\ (cal.complete => cal.sure)
    BY DEF ThreadEncoder, wheelVars
  <1>2. /\ goal \in Positions /\ edge = NotchEdge(goal, direction)
        /\ direction \in {Forward, Backward}
    BY DEF Structure, Control, OnCourse, Types, MotorTypes, ThreadTypes
  <1>3. wheel \in Places /\ overrun \in Nat /\ Tolerance \in Nat /\ goal \in Bumps
    BY <1>2, PolarizerConstants DEF Structure, Types, MotorTypes, HistoryTypes, Bumps
  <1>4. /\ EdgeDistance(goal) \in Nat /\ EdgeDistance(goal) < Turn
        /\ Half[goal] - EdgeDistance(goal) <= Tolerance
        /\ EdgeDistance(goal) - Half[goal] <= Tolerance
    BY <1>1, <1>2, EdgeIsNear
  <1>5. /\ Turn \in Int /\ Turn > 0 /\ Half[goal] \in Nat /\ Past(wheel) \in Int
        /\ First(goal) = Mid(goal) - Half[goal] /\ Last(goal) = Mid(goal) + Half[goal]
        /\ First(goal) <= Past(wheel) /\ Past(wheel) <= Last(goal)
    BY <1>1, <1>3, Geometry, PastSteps, OnBumpIs DEF First, Last
  <1>6. /\ Center[goal] \in Int /\ 0 <= Center[goal] /\ Center[goal] < Turn
        /\ Mid(goal) = Center[goal] \/ (Mid(goal) = Turn /\ Center[goal] = 0)
    <2>1. Third \in Int /\ Turn = 3 * Third /\ Third > 0
      BY Geometry
    <2> QED
      BY <1>2, <2>1 DEF Mid, Center, Bumps, Positions
  <1> DEFINE x == IF direction = Forward THEN Mid(goal) - EdgeDistance(goal)
                  ELSE Mid(goal) + EdgeDistance(goal)
             y == IF direction = Forward THEN Center[goal] - EdgeDistance(goal)
                  ELSE Center[goal] + EdgeDistance(goal)
  <1>7. edge = y % Turn
    <2>1. edge = (Center[goal] - direction * EdgeDistance(goal)) % Turn
      BY <1>2, EdgeType DEF Structure, Types
    <2>2. Center[goal] - direction * EdgeDistance(goal) = y
      BY <1>2, <1>4, <1>6 DEF Forward, Backward
    <2> QED
      BY <2>1, <2>2
  <1>8. /\ x \in Int /\ -Turn <= x /\ x < 2 * Turn
        /\ y \in Int /\ -Turn <= y /\ y < 2 * Turn
        /\ x = y \/ x = y + Turn
    BY <1>4, <1>5, <1>6
  <1>9. IF direction = Forward THEN Past(wheel) - First(goal) <= overrun
        ELSE Last(goal) - Past(wheel) <= overrun
    BY <1>1, <1>3 DEF EdgeSeen
  <1>10. /\ Past(wheel) - x <= overrun + Tolerance
         /\ x - Past(wheel) <= overrun + Tolerance
    BY <1>3, <1>4, <1>5, <1>6, <1>9
  <1>11. y % Turn = x % Turn
    <2> HIDE DEF x, y
    <2>1. /\ x % Turn = IF x < 0 THEN x + Turn ELSE IF x < Turn THEN x ELSE x - Turn
          /\ y % Turn = IF y < 0 THEN y + Turn ELSE IF y < Turn THEN y ELSE y - Turn
      BY <1>8, Wrap
    <2> QED
      BY <1>5, <1>8, <2>1
  <1> DEFINE d == overrun + Tolerance
  <1>12. d \in Nat /\ Past(wheel) - x <= d /\ x - Past(wheel) <= d
    BY <1>3, <1>10
  <1> HIDE DEF x, y, d
  <1>13. Near(x % Turn, wheel, d)
    BY <1>3, <1>8, <1>12, NearPast
  <1> QED
    BY <1>1, <1>7, <1>11, <1>13 DEF d

\* The steps of positioning: the count is set at an edge, and a position is
\* reported where the count is its center
LEMMA PositioningKeepsPosition ==
    ASSUME Structure, CalInductive, PositionInductive, NEW ok \in BOOLEAN,
           ThreadStep \/ ThreadEncoder \/ ThreadCalibrate \/ ThreadSetAngle(ok)
    PROVE  PositionInductive'
PROOF
  <1>1. CASE ThreadStep
    <2>1. /\ UNCHANGED <<wheel, stuck, spun, current, target, direction, pc, encoderSem, goal,
                         homing, drift, overrun, lost>>
          /\ pc = "poll"
      BY <1>1, ThreadStepIs DEF Structure, wheelVars
    <2>2. CASE UNCHANGED <<report, state>>
      BY <2>1, <2>2, PositionKept
    <2>3. CASE /\ state \in Courses /\ current = target /\ state' = "idle"
               /\ report' = IF goal # "unknown" THEN goal ELSE report
      <3>1. HomeTrack' /\ PassTrack' /\ EdgeSeen'
        BY <2>1, <2>3 DEF HomeTrack, PassTrack, EdgeSeen
      <3>2. Zeroed' = Zeroed /\ Zeroed = current
        BY <2>1 DEF Zeroed
      <3>3. Counts'
        BY <2>1, <2>3, <3>2 DEF PositionInductive, Counts, Known, Courses
      <3>4. ReportedIsThere'
        <4> SUFFICES ASSUME report' # "none", lost = "no"
                     PROVE  Near(Center[report'], wheel, drift + Tolerance)
          BY <2>1 DEF ReportedIsThere, Near
        <4>1. report = "none"
          BY <2>3 DEF Structure, Control, Reports, Courses
        <4>2. report' = goal /\ goal # "unknown"
          BY <2>3, <4>1
        <4>3. current = Center[goal]
          BY <2>3, <4>2 DEF Structure, Control, OnCourse
        <4>4. Near(Zeroed, wheel, drift + Tolerance)
          BY <2>1, <2>3 DEF PositionInductive, Counts, Known, Courses
        <4> QED
          BY <3>2, <4>2, <4>3, <4>4
      <3> QED
        BY <3>1, <3>3, <3>4 DEF PositionInductive
    <2> QED
      BY <1>1, <2>2, <2>3, ThreadStepIs DEF Structure
  <1>2. CASE ThreadEncoder
    <2>1. /\ UNCHANGED <<wheel, stuck, spun, direction, state, pc, homing, overrun, report>>
          /\ pc = "poll" /\ encoderSem' = 0
      BY <1>2 DEF ThreadEncoder, wheelVars
    <2>2. HomeTrack' /\ PassTrack' /\ EdgeSeen'
      BY <2>1 DEF HomeTrack, PassTrack, EdgeSeen
    <2>3. CASE UNCHANGED <<current, drift, lost>>
      <3>1. Counts' /\ ReportedIsThere'
        BY <2>1, <2>3 DEF PositionInductive, Counts, Known, Zeroed, ReportedIsThere
      <3> QED
        BY <2>2, <3>1 DEF PositionInductive
    <2>4. CASE state = "encoder" /\ ~triggered
      <3>1. lost' = "no" => Near(current', wheel', drift' + Tolerance)
        BY <1>2, <2>4, EncoderSets DEF PositionInductive
      <3>2. Counts'
        BY <2>1, <3>1 DEF Counts, Known, Zeroed
      <3>3. report' = "none"
        BY <2>1, <2>4 DEF Structure, Control, Reports
      <3> QED
        BY <2>2, <3>2, <3>3 DEF PositionInductive, ReportedIsThere
    <2> QED
      BY <1>2, <2>3, <2>4 DEF ThreadEncoder
  <1>3. CASE ThreadCalibrate
    <2>1. /\ UNCHANGED <<wheel, current, drift, lost, state, report>> /\ encoderSem' = 0
          /\ pc = "poll" /\ pc' = "cal_start"
      BY <1>3 DEF ThreadCalibrate, Takes, wheelVars, motor, signals, history
    <2> QED
      BY <2>1 DEF PositionInductive, HomeTrack, PassTrack, EdgeSeen, Counts, Known, Zeroed,
                  ReportedIsThere
  <1>4. CASE ThreadSetAngle(ok)
    <2>1. /\ pc = "poll" /\ pc' = "poll" /\ encoderSem' = 0
          /\ UNCHANGED <<wheel, stuck, current, encoderSem, homing, drift, overrun, lost>>
          /\ NoCourse \/ (Idle /\ IsThere) \/ (Idle /\ SetsOut)
      BY <1>4, SetAngleIs DEF Structure, signals, wheelVars
    <2>2. HomeTrack' /\ PassTrack' /\ EdgeSeen'
      BY <2>1 DEF HomeTrack, PassTrack, EdgeSeen
    <2>3. Zeroed' = Zeroed /\ Zeroed = current
      BY <2>1 DEF Zeroed
    <2>4. CASE NoCourse
      BY <2>1, <2>2, <2>3, <2>4 DEF NoCourse, PositionInductive, Counts, Known, ReportedIsThere
    <2>5. CASE Idle
      <3>1. lost = "no" => Near(current, wheel, drift + Tolerance)
        BY <2>1, <2>3, <2>5 DEF PositionInductive, Counts, Known, Idle
      <3>2. Counts'
        BY <2>1, <2>3, <3>1 DEF Counts, Known
      <3>3. ReportedIsThere'
        <4>1. CASE IsThere
          <5> SUFFICES ASSUME lost = "no" PROVE Near(Center[report'], wheel, drift + Tolerance)
            BY <2>1 DEF ReportedIsThere, Near
          <5> QED
            BY <3>1, <4>1 DEF IsThere
        <4>2. CASE report' = "none"
          BY <4>2 DEF ReportedIsThere
        <4>3. CASE NoCourse
          BY <2>1, <4>3 DEF NoCourse, PositionInductive, ReportedIsThere
        <4> QED
          BY <2>1, <4>1, <4>2, <4>3 DEF SetsOut
      <3> QED
        BY <2>2, <3>2, <3>3 DEF PositionInductive
    <2> QED
      BY <2>1, <2>4, <2>5
  <1> QED
    BY <1>1, <1>2, <1>3, <1>4

\* Only the bump that is near the next one is as close as the homing looks for
LEMMA CloseIs ==
    ASSUME NEW b \in Bumps, CloseMin < Pitch(b), Pitch(b) < CloseMax
    PROVE  b = "extra"
PROOF
  <1> DEFINE Close(d) == CloseMin < d /\ d < CloseMax
  <1>1. /\ ~Close(EdgeToEdge("pass_through", "vertical"))
        /\ ~Close(EdgeToEdge("vertical", "extra"))
        /\ ~Close(EdgeToEdge("horizontal", "pass_through") + Turn)
    BY WheelAssumption
  <1>2. /\ Center["pass_through"] = 0 /\ \A a \in Bumps : Center[a] \in Int /\ Half[a] \in Int
        /\ Mid("pass_through") = Turn /\ Turn \in Int
        /\ Mid("vertical") = Center["vertical"] /\ Mid("extra") = Center["extra"]
        /\ Mid("horizontal") = Center["horizontal"]
    <2>1. Third \in Int /\ ExtraCenter \in Int /\ Turn \in Int
      BY Geometry, PolarizerConstants
    <2>2. \A a \in Bumps : Half[a] \in Int
      BY Geometry
    <2> QED
      BY <2>1, <2>2 DEF Mid, Center, Bumps, Positions
  <1>3. /\ Pitch("pass_through") = EdgeToEdge("pass_through", "vertical")
        /\ Pitch("vertical") = EdgeToEdge("vertical", "extra")
        /\ Pitch("horizontal") = EdgeToEdge("horizontal", "pass_through") + Turn
    BY <1>2 DEF Pitch, After, First, EdgeToEdge, Bumps, Positions
  <1>4. b \in {"pass_through", "vertical", "horizontal", "extra"} /\ Close(Pitch(b))
    BY DEF Bumps, Positions
  <1> HIDE DEF Close
  <1> QED
    BY <1>1, <1>3, <1>4

\* A spin of the homing counts from the edge of the bump that was just seen
LEMMA SpinCounts ==
    ASSUME Structure, NEW h \in Homing, NEW ok \in BOOLEAN, HomeSpin(h, ok), report' = "none",
           h.notches # 0 => stuck \/ \E b \in Bumps : Past(wheel) = First(b)
    PROVE  PositionInductive'
PROOF
  <1>1. /\ current' = 0 /\ encoderSem' = 0 /\ spun' = 0 /\ wheel' = wheel /\ stuck' = stuck
        /\ ok => homing' = h /\ state' = "homing" /\ pc' = "home_wait"
        /\ ~ok => state' = "uninitialized" /\ pc' = "poll"
    BY HomeSpinIs DEF Structure, wheelVars
  <1>2. PassTrack' /\ EdgeSeen' /\ Counts' /\ ReportedIsThere'
    BY <1>1 DEF PassTrack, EdgeSeen, Counts, Known, ReportedIsThere
  <1>3. HomeTrack'
    <2>1. CASE ok /\ h.notches # 0
      <3>1. PICK b \in Bumps : stuck \/ Past(wheel) = First(b)
        BY <2>1 DEF Bumps
      <3>2. stuck \/ Ahead(b, 0, wheel)
        <4>1. 0 < Pitch(b) /\ First(b) \in Int
          BY PitchIs, BumpIs
        <4>2. Past(wheel) = First(b) => Past(wheel) - First(b) = 0
          BY <4>1
        <4> QED
          BY <3>1, <4>1, <4>2 DEF Ahead
      <3>3. FromBump(b)'
        BY <1>1, <3>2 DEF FromBump
      <3> QED
        BY <1>1, <2>1, <3>3 DEF HomeTrack
    <2>2. CASE ~(ok /\ h.notches # 0)
      BY <1>1, <2>2 DEF HomeTrack
    <2> QED
      BY <2>1, <2>2
  <1> QED
    BY <1>2, <1>3 DEF PositionInductive

\* The homing finds the pair that is close, and with it where it is
LEMMA HomingKeepsPosition ==
    ASSUME Structure, PositionInductive, NEW ok \in BOOLEAN,
           ThreadHome(ok) \/ HomeAgain(ok) \/ HomeNotch(ok) \/ HomeTimeout(ok)
    PROVE  PositionInductive'
PROOF
  <1>1. CASE ThreadHome(ok) \/ HomeAgain(ok)
    BY <1>1, HomeBeginIs, SpinCounts DEF Structure
  <1>2. ASSUME NoHoming, pc = "home_wait", UNCHANGED report
        PROVE  PositionInductive'
    <2>1. state' = "uninitialized" /\ pc' = "poll" /\ report' = "none"
      BY <1>2 DEF NoHoming, Structure, Control, Homes, Homings
    <2> QED
      BY <2>1 DEF PositionInductive, HomeTrack, PassTrack, EdgeSeen, Counts, Known,
                  ReportedIsThere
  <1>3. CASE HomeNotch(ok)
    <2>1. /\ pc = "home_wait" /\ encoderSem = 1 /\ UNCHANGED report /\ report = "none"
          /\ \/ PairFound(ok)
             \/ \E h \in Homing : HomeSpin(h, ok)
             \/ NoHoming
      BY <1>3, HomeNotchIs DEF Structure, Control, Homes, Homings
    <2>2. \E b \in Bumps : Past(wheel) = First(b)
      BY <2>1, BumpIs DEF PositionInductive, HomeTrack, FromBump
    <2>3. CASE PairFound(ok)
      <3>1. /\ homing.notches # 0 /\ CloseMin < current /\ current < CloseMax
            /\ pc' = "pass_wait" /\ encoderSem' = 0 /\ UNCHANGED <<wheel, state>>
        BY <2>3 DEF PairFound, ClosePair, wheelVars
      <3>2. PICK b \in Bumps : current = Pitch(b) /\ Past(wheel) = First(After(b))
        BY <2>1, <3>1 DEF PositionInductive, HomeTrack, FromBump
      <3>3. b = "extra"
        BY <3>1, <3>2, CloseIs
      <3>4. "horizontal" \in Bumps /\ Past(wheel) = First("horizontal")
        BY <3>2, <3>3 DEF After, Bumps, Positions
      <3>5. Ahead("horizontal", 0, wheel)
        <4>1. 0 < Pitch("horizontal") /\ First("horizontal") \in Int
          BY <3>4, PitchIs, BumpIs
        <4>2. Past(wheel) - First("horizontal") = 0
          BY <3>4, <4>1
        <4> QED
          BY <4>1, <4>2 DEF Ahead
      <3>6. \E n \in Nat : Ahead("horizontal", n, wheel)
        BY <3>5
      <3>7. PassTrack'
        BY <3>1, <3>6 DEF PassTrack
      <3> QED
        BY <2>1, <3>1, <3>7 DEF PositionInductive, HomeTrack, EdgeSeen, Counts, Known,
                                ReportedIsThere
    <2> QED
      BY <1>2, <2>1, <2>2, <2>3, SpinCounts
  <1>4. CASE HomeTimeout(ok)
    <2>1. /\ pc = "home_wait" /\ encoderSem = 0 /\ spun >= FourSeconds /\ UNCHANGED report
          /\ report = "none"
          /\ \/ \E h \in Homing : h.notches = homing.notches /\ HomeSpin(h, ok)
             \/ NoHoming
      BY <1>4, HomeTimeoutIs DEF Structure, Control, Homes, Homings
    <2>2. homing.notches # 0 => stuck
      <3>1. spun # current
        <4>1. current \in Places /\ spun \in Nat /\ Turn \in Int /\ Third \in Nat
          BY Geometry DEF Structure, Types, MotorTypes
        <4> QED
          BY <2>1, <4>1 DEF FourSeconds, Places
      <3> QED
        BY <2>1, <3>1 DEF PositionInductive, HomeTrack, FromBump
    <2> QED
      BY <1>2, <2>1, <2>2, SpinCounts
  <1> QED
    BY <1>1, <1>2, <1>3, <1>4

\* The bump of pass-through gives the count its zero, which the homing ends at
LEMMA HomedKeepsPosition ==
    ASSUME Structure, PositionInductive, PassNotch \/ HomeFinish \/ HomeGivesUp
    PROVE  PositionInductive'
PROOF
  <1>1. /\ wheel \in Places /\ current \in Places /\ overrun \in Nat /\ Tolerance \in Nat
        /\ pc \in Homings /\ state = "homing" /\ goal = "pass_through" /\ report = "none"
    BY PolarizerConstants
       DEF PassNotch, HomeFinish, HomeGivesUp, Structure, Control, Homes, Homings, Types,
           MotorTypes, HistoryTypes
  <1>2. CASE PassNotch
    <2>1. /\ pc = "pass_wait" /\ encoderSem = 1 /\ current' = Third /\ pc' = "home_finish"
          /\ encoderSem' = 0 /\ wheel' = wheel /\ drift' = overrun /\ report' = report
      BY <1>2 DEF PassNotch, wheelVars
    <2>2. Past(wheel) = First("pass_through")
      BY <2>1 DEF PositionInductive, PassTrack
    <2> DEFINE x == -EdgeToCenter
    <2>3. Zeroed' = x % Turn /\ x \in Int /\ -Turn <= x /\ x <= 0
      BY <1>1, <2>1, ZeroStep DEF Zeroed
    <2>4. Near(Zeroed', wheel, overrun + Tolerance)
      <3>1. /\ Half["pass_through"] \in Int /\ Turn \in Int /\ EdgeToCenter \in Int
            /\ Half["pass_through"] - EdgeToCenter <= Tolerance
            /\ EdgeToCenter - Half["pass_through"] <= Tolerance
            /\ First("pass_through") = Turn - Half["pass_through"]
            /\ Turn > 0
        BY EdgesAre, Geometry, PolarizerConstants, WheelAssumption DEF Positions
      <3> DEFINE z == Turn - EdgeToCenter
                 d == overrun + Tolerance
      <3>2. /\ z \in Int /\ -Turn <= z /\ z < 2 * Turn /\ d \in Nat
            /\ Past(wheel) - z <= d /\ z - Past(wheel) <= d
        BY <1>1, <2>2, <2>3, <3>1, PolarizerConstants
      <3>3. z % Turn = x % Turn
        <4>1. z = x + Turn /\ 0 <= z /\ z < Turn /\ x < 0
          BY <2>3, <3>1, PolarizerConstants
        <4> HIDE DEF x, z
        <4>2. x % Turn = x + Turn /\ z % Turn = z
          BY <2>3, <3>1, <3>2, <4>1, Wrap
        <4> QED
          BY <4>1, <4>2
      <3> HIDE DEF x, z, d
      <3>4. Near(z % Turn, wheel, d)
        BY <1>1, <3>2, NearPast
      <3> QED
        BY <2>3, <3>3, <3>4 DEF d
    <2>5. Counts'
      BY <2>1, <2>4 DEF Counts
    <2>6. state' # "encoder"
      BY <1>1, <1>2 DEF PassNotch
    <2> QED
      BY <1>1, <2>1, <2>5, <2>6 DEF PositionInductive, HomeTrack, PassTrack, EdgeSeen,
                                    ReportedIsThere
  <1>3. CASE HomeFinish /\ ~Homed
    <2>1. UNCHANGED <<wheel, stuck, current, encoderSem, spun, overrun, drift, lost, state, pc,
                      direction, report, homing>>
      BY <1>3 DEF HomeFinish, wheelVars, motor
    <2> QED
      BY <2>1, PositionKept
  <1>4. CASE Homed
    <2>1. /\ state' = "idle" /\ current' = 0 /\ report' = "pass_through" /\ wheel' = wheel
          /\ drift' = drift /\ pc' \in {"cal_start", "poll"}
      BY <1>1, <1>4 DEF Homed, wheelVars
    <2>2. lost' = "no" => Near(0, wheel, drift + Tolerance)
      <3> SUFFICES ASSUME lost' = "no" PROVE Near(0, wheel, drift + Tolerance)
        OBVIOUS
      <3>1. /\ pc = "home_finish" /\ current = target /\ lost = "no"
        BY <1>1, <1>4
           DEF PassNotch, HomeFinish, HomeGivesUp, Homed
      <3>2. current = Third + EdgeToCenter
        BY <3>1 DEF Structure, Control, Homes
      <3>3. Zeroed = 0
        BY <1>1, <3>1, <3>2, ZeroStep DEF Zeroed
      <3> QED
        BY <1>1, <3>1, <3>3 DEF PositionInductive, Counts, Known
    <2>3. Zeroed' = 0
      BY <2>1 DEF Zeroed
    <2>4. Center["pass_through"] = 0
      BY DEF Center, Bumps, Positions
    <2>5. Counts' /\ ReportedIsThere'
      BY <2>1, <2>2, <2>3, <2>4 DEF Counts, Known, ReportedIsThere, Near
    <2> QED
      BY <2>1, <2>5 DEF PositionInductive, HomeTrack, PassTrack, EdgeSeen
  <1> QED
    BY <1>2, <1>3, <1>4 DEF HomeGivesUp

\* The calibration leaves the count as it is
LEMMA CalibrationKeepsPosition ==
    ASSUME Structure, PositionInductive, NEW ok \in BOOLEAN,
           CalBegin(ok) \/ CalEdge(ok) \/ CalSpinOver(ok)
    PROVE  PositionInductive'
PROOF
  <1>1. /\ UNCHANGED <<wheel, current, drift, lost>>
        /\ pc \in {"cal_start", "cal_wait"}
        /\ \/ pc' = "poll" /\ UNCHANGED <<state, report>>
           \/ /\ state # "uninitialized" /\ report' = "none"
              /\ \E c \in Calibration : CalSpin(c, ok) \/ CalEnd(c)
           \/ pc' = pc /\ encoderSem' = 0 /\ UNCHANGED <<state, report>>
    BY CalBeginIs, CalEdgeIs, CalSpinOverIs, MeasuredIs
       DEF CalRest, wheelVars, Begins, Idle, Structure, Control, Calibrates, Types, CalTypes
  <1>2. /\ pc' \notin Homings /\ state' # "encoder"
        /\ state = "uninitialized" => state' = "uninitialized"
        /\ report' \in {"none", report}
    <2>1. state # "encoder"
      BY <1>1 DEF Structure, Control, Polls, Calibrates
    <2> QED
      BY <1>1, <2>1, CalSpinIs, CalEndIs DEF Structure, Homings
  <1>3. Zeroed' = Zeroed
    BY <1>1, <1>2 DEF Zeroed, Homings
  <1>4. Counts'
    BY <1>1, <1>2, <1>3 DEF PositionInductive, Counts, Known
  <1>5. ReportedIsThere'
    BY <1>1, <1>2 DEF PositionInductive, ReportedIsThere
  <1> QED
    BY <1>2, <1>4, <1>5 DEF PositionInductive, HomeTrack, PassTrack, EdgeSeen, Homings

\* The count is the place of the wheel in every reachable state
LEMMA PositionInvariant == Spec => []PositionInductive
PROOF
  <1>1. Init => PositionInductive
    BY DEF Init, PositionInductive, HomeTrack, PassTrack, EdgeSeen, Counts, Known,
           ReportedIsThere
  <1>2. Structure /\ CalInductive /\ PositionInductive /\ [Next]_vars => PositionInductive'
    <2> SUFFICES ASSUME Structure, CalInductive, PositionInductive, [Next]_vars
                 PROVE  PositionInductive'
      OBVIOUS
    <2>1. ASSUME NEW moves \in BOOLEAN, Pulse(moves) PROVE PositionInductive'
      <3>1. HomeTrack' /\ PassTrack' /\ EdgeSeen' /\ Counts'
        BY <2>1, PulseHomes, PulseSees, PulseCounts DEF PositionInductive
      <3>2. report' = "none"
        BY <2>1 DEF Pulse, Structure, Control, Reports
      <3> QED
        BY <3>1, <3>2 DEF PositionInductive, ReportedIsThere
    <2>2. CASE Requests \/ Jam
      <3>1. /\ UNCHANGED <<wheel, current, encoderSem, spun, overrun, drift, lost, state, pc,
                           direction, report>>
            /\ stuck => stuck'
        BY <2>2 DEF Requests, SetAngle, HomeAsync, CalibrateAsync, Jam, wheelVars, motor, signals,
                    history
      <3>2. homing'.notches = homing.notches
        BY <2>2 DEF Requests, SetAngle, HomeAsync, CalibrateAsync, Jam, Structure, Types,
                    ThreadTypes, Homing
      <3> QED
        BY <3>1, <3>2, PositionKept
    <2>3. ASSUME NEW ok \in BOOLEAN, Thread(ok) PROVE PositionInductive'
      BY <2>3, PositioningKeepsPosition, HomingKeepsPosition, CalibrationKeepsPosition DEF Thread
    <2>4. CASE ThreadAlone
      BY <2>4, PositioningKeepsPosition, HomedKeepsPosition DEF ThreadAlone
    <2>5. CASE UNCHANGED vars
      <3>1. UNCHANGED <<wheel, stuck, current, encoderSem, spun, overrun, drift, lost, state, pc,
                        direction, report, homing>>
        BY <2>5 DEF vars, wheelVars, motor, signals, history
      <3> QED
        BY <3>1, PositionKept
    <2> QED
      BY <2>1, <2>2, <2>3, <2>4, <2>5 DEF Next
  <1> QED
    BY <1>1, <1>2, StructureInvariant, WidthsInvariant, PTL DEF Spec

(* The position that is reported to the Jetson (report_reached_state) is the
   one the wheel is at, up to the pulses that were lost since the encoder last
   set the count and to how well EdgeToCenter fits the bumps: through homings,
   calibrations and courses in either direction, jams and refused spins. *)
THEOREM ReportIsRight == Spec => []ReportedIsThere
PROOF
  <1>1. PositionInductive => ReportedIsThere
    BY DEF PositionInductive
  <1> QED
    BY <1>1, PositionInvariant, PTL

=============================================================================
