-------------------------- MODULE IrCameraProofs ---------------------------
(***************************************************************************)
(* The safety properties of IrCamera for every set of wavelengths, on-times*)
(* and frame rates the Jetson asks for, every sequence of strobe edges and *)
(* any number of requests: no LED flashes at somebody who is too close     *)
(* (EyeInductive), no flash is longer than allowed (FlashInductive), and a *)
(* focus sweep takes the frames it was asked for (SweepInductive).         *)
(***************************************************************************)
EXTENDS IrCamera, TLAPS

HwFields == {"run", "pre", "act", "over", "leds", "pulse", "long", "trig", "pvcc", "irq",
             "it", "exposing", "shots"}

\* The settings and the timers, as far as the proofs look into them.
Types ==
    /\ board \in {"pearl", "diamond"}
    /\ s \in [fps : Nat, on : Nat]
    /\ DOMAIN hw = HwFields /\ hw.pulse \in Int
    /\ hw.long \in BOOLEAN /\ hw.pvcc \in BOOLEAN /\ hw.run \in BOOLEAN
    /\ tof \in {"idle", "copy", "write", "apply"}
    /\ tof = "write" => tofCopy \in [fps : Nat, on : {0}]

\* The callback of the ToF thread runs only while somebody is too close. When it
\* is done, and from the moment it has written the settings, the on-time is zero
\* and nobody sets another one.
TooCloseIsDark ==
    /\ tof # "idle" => ~distance_is_safe
    /\ tof = "apply" => s.on = 0
    /\ ~distance_is_safe /\ tof = "idle" => s.on = 0 /\ hw.leds = {}

EyeInductive == Types /\ TooCloseIsDark

\* The on-time in force is one the checks accept at the frame rate in force.
SettingsWithinLimits == s.on <= MaxOn /\ DutyOk(s.fps, s.on)

\* The frame rate the ToF thread writes back is the one in force, or the LEDs
\* are off and stay off.
StaleIsDark ==
    tof = "write" => tofCopy.fps = s.fps \/ (hw.leds = {} /\ s.on = 0)

\* A runner that sleeps has written the pulse it is about to switch on.
SleeperIsReady ==
    run \in {"apply", "leds"} /\ s.on # 0 =>
        /\ s.fps > 0 /\ hw.pvcc
        /\ ~hw.long => hw.pulse = s.on + TriggerDelay

\* Without a frame rate the master timer is stopped, or has never had a period.
StoppedAtZero ==
    \/ tof = "apply" /\ hw.leds = {}
    \/ s.fps = 0 => ~hw.run \/ (hw.act = 0 /\ hw.pre = 0)

PulseWithinLimits ==
    /\ hw.pulse - TriggerDelay <= MaxOn
    /\ hw.leds # {} =>
        /\ hw.pulse > 0 /\ ~hw.long => DutyOk(s.fps, hw.pulse - TriggerDelay)
        /\ s.fps > 0 => hw.pvcc

FlashInductive ==
    /\ EyeInductive
    /\ SettingsWithinLimits /\ StaleIsDark /\ SleeperIsReady /\ StoppedAtZero
    /\ PulseWithinLimits

\* The first n exposures of a sweep: each is a frame at its own value, or ended
\* before the trigger of the eye camera was on.
Shots(n) ==
    /\ hw.shots \in Seq(Int) /\ Len(hw.shots) = n
    /\ \A i \in 1..n : hw.shots[i] \in {i - 1, NoFrame}

\* A focus sweep that nobody disturbed has one entry for each exposure so far,
\* the one in progress included if the trigger is on. It is off in the start of
\* the sweep. Afterwards only a frame rate of zero that the ToF thread brought
\* back takes it from the camera, and stops the timer.
Taken == IF hw.exposing /\ run # "sweep" THEN index ELSE index - 1
Stopped == s.fps = 0 /\ ~hw.run /\ (tof = "write" => tofCopy.fps = 0)
Triggered ==
    IF run = "sweep" THEN s.fps # 0 /\ "eye" \notin cams /\ "eye" \notin hw.trig
    ELSE "eye" \in cams /\ ("eye" \in hw.trig \/ Stopped)
Undisturbed ==
    /\ index \in 1..frames.focus /\ focus = index - 1
    /\ hw.it /\ Shots(Taken)
    /\ s.fps = 0 => board = "pearl" /\ (tof = "write" => tofCopy.fps = 0)
    /\ Triggered

SweepInductive ==
    /\ hw.irq => board = "diamond"
    /\ sweep \in {"none", "focus", "mirror"}
    /\ hw.it <=> sweep # "none"
    /\ frames \in [focus : Nat, mirror : Nat]
    /\ sweep = "focus" /\ ~disturbed => Undisturbed

\* What Init sets, and a restart sets again.
Booted ==
    /\ board \in {"pearl", "diamond"}
    /\ DOMAIN hw = HwFields /\ hw.pulse = 0 /\ hw.long = FALSE /\ hw.pvcc = FALSE
    /\ hw.run \in BOOLEAN /\ hw.act = 0 /\ hw.pre = 0 /\ hw.irq = FALSE /\ hw.it = FALSE
    /\ s = [fps |-> 0, on |-> 0]
    /\ close = 0 /\ tof = "idle" /\ run = "idle"
    /\ sweep = "none" /\ frames = [focus |-> 0, mirror |-> 0]

-----------------------------------------------------------------------------
(* What the operations do to the fields of the hardware.                    *)

Light(h) == <<h.leds, h.pulse, h.long, h.pvcc>>
Timing(h) == <<h.run, h.pre, h.act>>
Shooting(h) == <<h.trig, h.it, h.irq, h.exposing, h.shots>>

\* What the settings st and the wavelength w make of the LEDs.
Relit(h, r, st, w) ==
    /\ DOMAIN r = HwFields
    /\ r.leds # {} => st.on # 0 /\ w # "none"
    /\ r.pulse = IF st.on # 0 THEN st.on + TriggerDelay ELSE h.pulse
    /\ r.long = IF st.on # 0 THEN FALSE ELSE h.long
    /\ r.pvcc = ((st.on > 0 /\ st.fps > 0) /\ (w # "none" \/ h.pvcc))

\* ir_leds_set_pulse_length switches every channel off first.
LEMMA PulseLength ==
    ASSUME NEW h, DOMAIN h = HwFields, NEW st, NEW w
    PROVE  LET r == ir_leds_set_pulse_length(h, st, w) IN
           /\ Relit(h, r, st, w) /\ r.leds = {}
           /\ Timing(r) = Timing(h) /\ Shooting(r) = Shooting(h)
PROOF
  BY DEF ir_leds_set_pulse_length, Relit, HwFields, Timing, Shooting

\* ir_leds_enable_pulse adds the channels of a wavelength, if there is an on-time.
LEMMA EnablePulse ==
    ASSUME NEW h, DOMAIN h = HwFields, NEW st, NEW w
    PROVE  LET r == ir_leds_enable_pulse(h, st, w) IN
           /\ DOMAIN r = HwFields
           /\ r.leds = h.leds \/ (st.on # 0 /\ w # "none")
           /\ r.pulse = h.pulse /\ r.long = h.long /\ r.pvcc = h.pvcc
           /\ Timing(r) = Timing(h) /\ Shooting(r) = Shooting(h)
PROOF
  <1>1. Channels("none") = {}
    BY DEF Channels
  <1> QED
    BY <1>1 DEF ir_leds_enable_pulse, HwFields, Timing, Shooting

\* The eye camera is triggered if it is one of the cameras cs and enabled; it
\* takes a frame of a sweep only if it was not triggered before.
EyeTrigger(h, r, st, cs, on) ==
    /\ "eye" \in r.trig <=> IF "eye" \in cs THEN st.fps > 0 /\ "eye" \in on
                                            ELSE "eye" \in h.trig
    /\ "eye" \in h.trig \/ "eye" \notin r.trig => r.shots = h.shots

\* camera_enable_trigger leaves the LEDs and the master timer alone.
LEMMA EnableTrigger ==
    ASSUME NEW h, DOMAIN h = HwFields, NEW st, NEW cs, NEW on
    PROVE  LET r == camera_enable_trigger(h, st, cs, on) IN
           /\ DOMAIN r = HwFields
           /\ Light(r) = Light(h) /\ Timing(r) = Timing(h)
           /\ EyeTrigger(h, r, st, cs, on)
           /\ r.it = h.it /\ r.irq = h.irq /\ r.exposing = h.exposing
PROOF
  BY DEF camera_enable_trigger, HwFields, Timing, Light, EyeTrigger

\* An exposure that begins is a frame of the sweep at the current focus.
Shot(h, r) == r.shots = IF h.it /\ "eye" \in h.trig /\ ~h.exposing
                        THEN Append(h.shots, focus) ELSE h.shots

\* The update event takes the preloaded period and starts an exposure.
LEMMA Updates ==
    ASSUME NEW h, DOMAIN h = HwFields
    PROVE  LET r == UpdateEvent(h) IN
           /\ DOMAIN r = HwFields
           /\ Light(r) = Light(h) /\ r.run = h.run /\ r.pre = h.pre /\ r.act = h.pre
           /\ r.trig = h.trig /\ r.it = h.it /\ r.irq = h.irq /\ r.exposing = TRUE
           /\ Shot(h, r)
PROOF
  BY DEF UpdateEvent, HwFields, Light, Shot

\* The cameras whose triggers the settings drive.
Driven == IF board = "pearl" THEN {"eye", "face", "tof"}
          ELSE IF FaceDriven THEN {"tof"} ELSE {"eye", "tof"}

\* The first half of apply_new_timer_settings leaves the LEDs off.
LEMMA FirstHalf ==
    ASSUME NEW h, DOMAIN h = HwFields, NEW st
    PROVE  LET r == ApplyFirst(h, st) IN
           /\ Relit(h, r, Overridden(st), wave) /\ r.leds = {}
           /\ r.run = (st.fps > 0) /\ r.pre = st.fps /\ r.act = h.act
           /\ EyeTrigger(h, r, st, Driven, cams)
           /\ r.it = h.it /\ r.irq = h.irq /\ r.exposing = h.exposing
PROOF
  <1> DEFINE r == ApplyFirst(h, st)
             a == [h EXCEPT !.run = st.fps > 0, !.pre = st.fps]
             b == camera_enable_trigger(a, st, Driven, cams)
  <1>1. /\ DOMAIN a = HwFields /\ Light(a) = Light(h) /\ Shooting(a) = Shooting(h)
        /\ a.run = (st.fps > 0) /\ a.pre = st.fps /\ a.act = h.act
    BY DEF HwFields, Light, Shooting
  <1>2. r = ir_leds_set_pulse_length(b, Overridden(st), wave)
    BY DEF ApplyFirst, Driven
  <1> HIDE DEF a, r
  <1>3. /\ DOMAIN b = HwFields
        /\ Light(b) = Light(a) /\ Timing(b) = Timing(a)
        /\ EyeTrigger(a, b, st, Driven, cams)
        /\ b.it = a.it /\ b.irq = a.irq /\ b.exposing = a.exposing
    BY <1>1, EnableTrigger
  <1> HIDE DEF b
  <1>4. /\ Relit(b, r, Overridden(st), wave) /\ r.leds = {}
        /\ Timing(r) = Timing(b) /\ Shooting(r) = Shooting(b)
    BY <1>2, <1>3, PulseLength
  <1>5. b.pulse = h.pulse /\ b.long = h.long /\ b.pvcc = h.pvcc
    BY <1>1, <1>3 DEF Light
  <1>6. Relit(h, r, Overridden(st), wave)
    BY <1>4, <1>5 DEF Relit
  <1> QED
    BY <1>1, <1>3, <1>4, <1>6 DEF Timing, Shooting, r, EyeTrigger

\* The second half switches the LEDs on and may start the first frame.
LEMMA SecondHalf ==
    ASSUME NEW h, DOMAIN h = HwFields, NEW st
    PROVE  LET r == ApplyRest(h, st) IN
           /\ DOMAIN r = HwFields
           /\ r.leds = h.leds \/ (st.on # 0 /\ wave # "none")
           /\ r.pulse = h.pulse /\ r.long = h.long /\ r.pvcc = h.pvcc
           /\ r.run = h.run /\ r.pre = h.pre
           /\ r.trig = h.trig /\ r.it = h.it /\ r.irq = h.irq
           /\ \/ /\ r.act = h.act /\ r.exposing = h.exposing /\ r.shots = h.shots
              \/ /\ st.fps > 0 /\ r.act = h.pre /\ r.exposing = TRUE
                 /\ Shot(h, r)
PROOF
  <1> DEFINE r == ApplyRest(h, st)
             a == IF FaceDriven THEN h ELSE ir_leds_enable_pulse(h, st, wave)
  <1>1. /\ DOMAIN a = HwFields
        /\ a.leds = h.leds \/ (st.on # 0 /\ wave # "none")
        /\ a.pulse = h.pulse /\ a.long = h.long /\ a.pvcc = h.pvcc
        /\ Timing(a) = Timing(h) /\ Shooting(a) = Shooting(h)
    BY EnablePulse
  <1>2. r = a \/ (st.fps > 0 /\ r = UpdateEvent(a))
    BY DEF ApplyRest
  <1> HIDE DEF a, r
  <1>3. CASE r = a
    BY <1>1, <1>3 DEF Timing, Shooting, r
  <1>4. CASE st.fps > 0 /\ r = UpdateEvent(a)
    <2>1. /\ DOMAIN r = HwFields
          /\ Light(r) = Light(a) /\ r.run = a.run /\ r.pre = a.pre /\ r.act = a.pre
          /\ r.trig = a.trig /\ r.it = a.it /\ r.irq = a.irq /\ r.exposing = TRUE
          /\ Shot(a, r)
      BY <1>1, <1>4, Updates
    <2> QED
      BY <1>1, <1>4, <2>1 DEF Timing, Shooting, Light, Shot, r
  <1> QED
    BY <1>2, <1>3, <1>4 DEF r

-----------------------------------------------------------------------------
(* The LEDs.                                                                *)

\* The limits of a board.
LEMMA Limits ==
    ASSUME board \in {"pearl", "diamond"}
    PROVE  TriggerDelay \in Nat \ {0} /\ MaxOn \in Nat
PROOF
  BY DEF TriggerDelay, MaxOn

\* The distance only ever takes the on-time away.
LEMMA Override ==
    ASSUME NEW st \in [fps : Nat, on : Nat]
    PROVE  /\ Overridden(st) \in [fps : Nat, on : Nat]
           /\ Overridden(st).fps = st.fps
           /\ Overridden(st).on = IF distance_is_safe THEN st.on ELSE 0
PROOF
  BY DEF Overridden

\* What apply_new_timer_settings makes of the settings st, in one or two steps.
LEMMA Applies ==
    ASSUME Types, NEW st \in [fps : Nat, on : Nat], apply_new_timer_settings(st)
    PROVE  /\ s' = Overridden(st) /\ Relit(hw, hw', s', wave)
           /\ hw'.run = (st.fps > 0) /\ hw'.pre = st.fps /\ hw'.act \in {hw.act, st.fps}
           /\ run' = run \/ (run' = "apply" /\ s'.on > 0 /\ s'.fps > 0 /\ wave # "none")
PROOF
  <1> DEFINE o == Overridden(st)
             a == ApplyFirst(hw, st)
  <1>1. s' = o
    BY DEF apply_new_timer_settings
  <1>2. /\ Relit(hw, a, o, wave) /\ a.leds = {}
        /\ a.run = (st.fps > 0) /\ a.pre = st.fps /\ a.act = hw.act
    BY FirstHalf DEF Types
  <1>3. CASE Settles(hw, o, wave) /\ hw' = a /\ run' = "apply"
    BY <1>1, <1>2, <1>3 DEF Settles
  <1>4. CASE hw' = ApplyRest(a, o) /\ run' = run
    <2> HIDE DEF a, o
    <2>1. DOMAIN a = HwFields
      BY <1>2 DEF Relit
    <2>2. /\ DOMAIN hw' = HwFields
          /\ hw'.leds = a.leds \/ (o.on # 0 /\ wave # "none")
          /\ hw'.pulse = a.pulse /\ hw'.long = a.long /\ hw'.pvcc = a.pvcc
          /\ hw'.run = a.run /\ hw'.pre = a.pre
          /\ hw'.act = a.act \/ hw'.act = a.pre
      BY <1>4, <2>1, SecondHalf
    <2>3. Relit(hw, hw', o, wave)
      BY <1>2, <2>2 DEF Relit
    <2> QED
      BY <1>1, <1>2, <1>4, <2>2, <2>3 DEF o
  <1> QED
    BY <1>1, <1>3, <1>4 DEF apply_new_timer_settings

\* The settings st that pass the checks keep the LEDs within their limits.
LEMMA RelitKeeps ==
    ASSUME FlashInductive, board' = board, close' = close, tofCopy' = tofCopy,
           tof' = tof \/ (tof = "apply" /\ tof' = "idle"),
           s' \in [fps : Nat, on : Nat],
           ~distance_is_safe => s'.on = 0,
           s'.on <= MaxOn, DutyOk(s'.fps, s'.on),
           NEW w, Relit(hw, hw', s', w), hw'.run \in BOOLEAN,
           tof' = "apply" \/ (s'.fps = 0 => ~hw'.run \/ (hw'.act = 0 /\ hw'.pre = 0)),
           run' \in {"apply", "leds"} /\ s'.on # 0 => s'.fps > 0 /\ (w # "none" \/ hw.pvcc)
    PROVE  FlashInductive'
PROOF
  <1>1. /\ TriggerDelay' = TriggerDelay /\ MaxOn' = MaxOn
        /\ distance_is_safe' = distance_is_safe
    BY DEF TriggerDelay, MaxOn, distance_is_safe
  <1>2. \A f, n : DutyOk(f, n) => DutyOk(f, n)'
    BY DEF DutyOk, DutyPercent
  <1>3. TriggerDelay \in Nat \ {0} /\ MaxOn \in Nat
    BY Limits DEF FlashInductive, EyeInductive, Types
  <1>4. /\ hw'.leds # {} => s'.on # 0 /\ w # "none"
        /\ hw'.pulse = IF s'.on # 0 THEN s'.on + TriggerDelay ELSE hw.pulse
        /\ hw'.long = IF s'.on # 0 THEN FALSE ELSE hw.long
        /\ DOMAIN hw' = HwFields
        /\ hw'.pvcc = ((s'.on > 0 /\ s'.fps > 0) /\ (w # "none" \/ hw.pvcc))
    BY DEF Relit
  <1>5. Types'
    <2>1. hw'.pulse \in Int
      BY <1>3, <1>4 DEF FlashInductive, EyeInductive, Types
    <2>2. hw'.long \in BOOLEAN
      BY <1>4 DEF FlashInductive, EyeInductive, Types
    <2>3. hw'.pvcc \in BOOLEAN
      BY <1>4, Zenon
    <2>4. tof' = "write" => tofCopy' \in [fps : Nat, on : {0}]
      BY DEF FlashInductive, EyeInductive, Types
    <2>5. board' \in {"pearl", "diamond"} /\ tof' \in {"idle", "copy", "write", "apply"}
      BY DEF FlashInductive, EyeInductive, Types
    <2> QED
      BY <1>4, <2>1, <2>2, <2>3, <2>4, <2>5 DEF Types
  <1>6. TooCloseIsDark'
    BY <1>1, <1>4 DEF FlashInductive, EyeInductive, TooCloseIsDark
  <1>7. SettingsWithinLimits'
    <2>1. DutyOk(s.fps, s.on)'
      BY DEF DutyOk, DutyPercent
    <2> QED
      BY <1>1, <2>1 DEF SettingsWithinLimits
  <1>8. tof' = "apply" \/ tof' = "write" => s'.on = 0 /\ hw'.leds = {}
    BY <1>4 DEF FlashInductive, EyeInductive, TooCloseIsDark
  <1>9. StaleIsDark' /\ StoppedAtZero'
    BY <1>8 DEF StaleIsDark, StoppedAtZero
  <1>10. s'.on # 0 => s'.on > 0
    OBVIOUS
  <1>11. hw'.long => ~(s'.on # 0)
    BY <1>4
  <1>12. SleeperIsReady'
    BY <1>1, <1>4, <1>10 DEF SleeperIsReady
  <1>13. PulseWithinLimits'
    <2>1. hw'.pulse - TriggerDelay <= MaxOn
      BY <1>3, <1>4 DEF FlashInductive, PulseWithinLimits, EyeInductive, Types
    <2>2. hw'.leds # {} => hw'.pulse - TriggerDelay = s'.on /\ (s'.fps > 0 => hw'.pvcc)
      <3>1. hw'.leds # {} => s'.on # 0 /\ w # "none" /\ hw'.pulse = s'.on + TriggerDelay
        BY <1>4
      <3>2. hw'.leds # {} => hw'.pulse - TriggerDelay = s'.on
        BY <1>3, <3>1
      <3>3. hw'.leds # {} /\ s'.fps > 0 => hw'.pvcc
        BY <1>4, <1>10, <3>1, Zenon
      <3> QED
        BY <3>2, <3>3
    <2>3. hw'.leds # {} => DutyOk(s.fps, hw.pulse - TriggerDelay)'
      BY <1>1, <2>2 DEF DutyOk, DutyPercent
    <2> QED
      BY <1>1, <2>1, <2>2, <2>3 DEF PulseWithinLimits
  <1> QED
    BY <1>5, <1>6, <1>7, <1>9, <1>12, <1>13 DEF FlashInductive, EyeInductive

\* The steps that leave the LEDs and the settings alone.
LEMMA LightKept ==
    ASSUME FlashInductive, UNCHANGED <<board, s, close, tof, tofCopy>>,
           DOMAIN hw' = HwFields, Light(hw') = Light(hw),
           hw'.run = hw.run, hw'.pre = hw.pre, hw'.act \in {hw.act, hw.pre},
           run' = run \/ run' \notin {"apply", "leds"}
    PROVE  FlashInductive'
PROOF
  <1>1. /\ TriggerDelay' = TriggerDelay /\ MaxOn' = MaxOn
        /\ distance_is_safe' = distance_is_safe
    BY DEF TriggerDelay, MaxOn, distance_is_safe
  <1>2. \A f, n : DutyOk(f, n) => DutyOk(f, n)'
    BY DEF DutyOk, DutyPercent
  <1>3. hw'.leds = hw.leds /\ hw'.pulse = hw.pulse /\ hw'.long = hw.long /\ hw'.pvcc = hw.pvcc
    BY DEF Light
  <1>4. Types' /\ TooCloseIsDark' /\ SettingsWithinLimits' /\ StaleIsDark'
    BY <1>1, <1>2, <1>3 DEF FlashInductive, EyeInductive, Types, TooCloseIsDark,
       SettingsWithinLimits, StaleIsDark
  <1>5. SleeperIsReady' /\ StoppedAtZero'
    BY <1>1, <1>3 DEF FlashInductive, SleeperIsReady, StoppedAtZero
  <1>6. PulseWithinLimits'
    BY <1>1, <1>2, <1>3 DEF FlashInductive, PulseWithinLimits
  <1> QED
    BY <1>4, <1>5, <1>6 DEF FlashInductive, EyeInductive

\* The hypotheses of the two lemmas above, spelt out once.
LEMMA FlashTypes ==
    ASSUME FlashInductive
    PROVE  /\ Types /\ TooCloseIsDark /\ s \in [fps : Nat, on : Nat]
           /\ s.on <= MaxOn /\ DutyOk(s.fps, s.on)
           /\ DOMAIN hw = HwFields
           /\ tof = "apply" \/ (s.fps = 0 => ~hw.run \/ (hw.act = 0 /\ hw.pre = 0))
           /\ MaxOn \in Nat
PROOF
  BY Limits DEF FlashInductive, EyeInductive, Types, SettingsWithinLimits, StoppedAtZero

\* Less on-time is within the duty cycle too.
LEMMA ZeroIsWithin == \A f \in Nat : DutyOk(f, 0)
PROOF
  BY DEF DutyOk, DutyPercent

\* Settings overridden for the eyes are still within the limits, or dark.
LEMMA OverrideIsWithin ==
    ASSUME NEW st \in [fps : Nat, on : Nat], st.on <= MaxOn, DutyOk(st.fps, st.on), MaxOn \in Nat
    PROVE  /\ Overridden(st) \in [fps : Nat, on : Nat]
           /\ Overridden(st).fps = st.fps
           /\ ~distance_is_safe => Overridden(st).on = 0
           /\ Overridden(st).on # 0 => Overridden(st).on = st.on
           /\ Overridden(st).on <= MaxOn /\ DutyOk(st.fps, Overridden(st).on)
PROOF
  <1>1. CASE distance_is_safe
    <2>1. Overridden(st) = st
      BY <1>1 DEF Overridden
    <2> QED
      BY <1>1, <2>1
  <1>2. CASE ~distance_is_safe
    <2>1. Overridden(st) = [st EXCEPT !.on = 0]
      BY <1>2 DEF Overridden
    <2>2. Overridden(st).on = 0 /\ Overridden(st).fps = st.fps /\ Overridden(st) \in [fps : Nat, on : Nat]
      BY <2>1
    <2>3. DutyOk(st.fps, 0)
      BY ZeroIsWithin
    <2> QED
      BY <1>2, <2>2, <2>3
  <1> QED
    BY <1>1, <1>2

\* apply_new_timer_settings with settings that passed the checks, by a runner
\* that is not asleep, or by the ToF thread.
LEMMA ApplyKeeps ==
    ASSUME FlashInductive, NEW st \in [fps : Nat, on : Nat],
           st.on <= MaxOn, DutyOk(st.fps, st.on), apply_new_timer_settings(st),
           UNCHANGED <<board, close, tofCopy>>,
           tof' = tof \/ (tof = "apply" /\ tof' = "idle"),
           run = "idle" \/ ~distance_is_safe
    PROVE  FlashInductive'
PROOF
  <1>1. /\ s' = Overridden(st) /\ Relit(hw, hw', s', wave)
        /\ hw'.run = (st.fps > 0) /\ hw'.pre = st.fps /\ hw'.act \in {hw.act, st.fps}
        /\ run' = run \/ (run' = "apply" /\ s'.on > 0 /\ s'.fps > 0 /\ wave # "none")
    BY FlashTypes, Applies
  <1>2. /\ s' \in [fps : Nat, on : Nat] /\ s'.fps = st.fps
        /\ ~distance_is_safe => s'.on = 0
        /\ s'.on <= MaxOn /\ DutyOk(s'.fps, s'.on)
    BY <1>1, FlashTypes, OverrideIsWithin
  <1>3. hw'.run \in BOOLEAN /\ (s'.fps = 0 => ~hw'.run)
    <2>1. hw'.run = (st.fps > 0)
      BY <1>1
    <2>2. CASE st.fps > 0
      <3>1. hw'.run = TRUE
        BY <2>1, <2>2, Zenon
      <3>2. s'.fps # 0
        BY <1>2, <2>2
      <3> QED
        BY <3>1, <3>2
    <2>3. CASE ~(st.fps > 0)
      <3>1. (st.fps > 0) = FALSE
        BY <2>3
      <3>2. hw'.run = FALSE
        BY <2>1, <3>1, Zenon
      <3> QED
        BY <3>2
    <2> QED
      BY <2>2, <2>3
  <1>4. run' \in {"apply", "leds"} /\ s'.on # 0 => s'.fps > 0 /\ wave # "none"
    BY <1>1, <1>2
  <1> QED
    BY <1>1, <1>2, <1>3, <1>4, RelitKeeps

\* A request that is refused.
LEMMA RefuseKeeps ==
    ASSUME FlashInductive, Refuse, UNCHANGED <<board, close, tof, tofCopy>>
    PROVE  FlashInductive'
PROOF
  BY FlashTypes, LightKept DEF Refuse

\* ir_camera_system_enable_leds.
LEMMA EnableLedsKeeps ==
    ASSUME FlashInductive, NEW w, EnableLeds(w)
    PROVE  FlashInductive'
PROOF
  <1> DEFINE o == Overridden(s)
             a == ir_leds_set_pulse_length(hw, o, w)
             b == ir_leds_enable_pulse(a, o, w)
  <1>1. CASE Refuse
    BY <1>1, RefuseKeeps DEF EnableLeds, Others
  <1>2. CASE /\ s' = o
             /\ \/ Settles(hw, o, w) /\ hw' = a
                \/ hw' = b /\ run' = run
    <2>1. /\ Relit(hw, a, o, w) /\ a.leds = {}
          /\ Timing(a) = Timing(hw)
      BY FlashTypes, PulseLength
    <2>2. DOMAIN a = HwFields
      BY <2>1 DEF Relit
    <2>3. /\ DOMAIN b = HwFields
          /\ b.leds = a.leds \/ (o.on # 0 /\ w # "none")
          /\ b.pulse = a.pulse /\ b.long = a.long /\ b.pvcc = a.pvcc
          /\ Timing(b) = Timing(a)
      BY <2>2, EnablePulse
    <2> HIDE DEF a, b
    <2>4. Relit(hw, b, o, w)
      BY <2>1, <2>3 DEF Relit
    <2>5. Relit(hw, hw', s', w) /\ Timing(hw') = Timing(hw)
      BY <1>2, <2>1, <2>3, <2>4
    <2>6. hw'.run = hw.run /\ hw'.act = hw.act /\ hw'.pre = hw.pre
      BY <2>5 DEF Timing
    <2>7. /\ s' \in [fps : Nat, on : Nat] /\ s'.fps = s.fps
          /\ ~distance_is_safe => s'.on = 0
          /\ s'.on <= MaxOn /\ DutyOk(s'.fps, s'.on)
      BY <1>2, FlashTypes, OverrideIsWithin
    <2>8. tof = "apply" \/ (s'.fps = 0 => ~hw'.run \/ (hw'.act = 0 /\ hw'.pre = 0))
      BY <2>6, <2>7, FlashTypes
    <2>9. run' \in {"apply", "leds"} /\ s'.on # 0 => s'.fps > 0 /\ w # "none"
      BY <1>2 DEF EnableLeds, Request, Settles
    <2>10. hw'.run \in BOOLEAN
      BY <2>6 DEF FlashInductive, EyeInductive, Types
    <2> QED
      BY <2>5, <2>7, <2>8, <2>9, <2>10, RelitKeeps DEF EnableLeds, Others
  <1> QED
    BY <1>1, <1>2 DEF EnableLeds

\* ir_camera_system_set_fps.
LEMMA SetFpsKeeps ==
    ASSUME FlashInductive, NEW fps \in FpsValues, SetFps(fps)
    PROVE  FlashInductive'
PROOF
  <1>1. CASE Refuse
    BY <1>1, RefuseKeeps DEF SetFps, Others
  <1>2. CASE UNCHANGED <<s, hw, run, old>>
    BY <1>2, FlashTypes, LightKept DEF SetFps, Others
  <1>3. CASE FpsAccepted(fps) /\ apply_new_timer_settings([s EXCEPT !.fps = fps])
    <2> DEFINE st == [s EXCEPT !.fps = fps]
    <2>1. fps \in Nat
      BY IrAssumption
    <2>2. st \in [fps : Nat, on : Nat] /\ st.fps = fps /\ st.on = s.on
      BY <2>1, FlashTypes
    <2>3. DutyOk(fps, s.on)
      <3>1. CASE fps = 0
        BY <3>1, FlashTypes DEF DutyOk, DutyPercent
      <3>2. CASE s.on = 0
        BY <2>1, <3>2, ZeroIsWithin
      <3>3. CASE fps # 0 /\ s.on # 0
        BY <1>3, <3>3 DEF FpsAccepted
      <3> QED
        BY <3>1, <3>2, <3>3
    <2> HIDE DEF st
    <2>4. run = "idle" /\ UNCHANGED <<board, close, tofCopy, tof>>
      BY DEF SetFps, Request, Others
    <2>5. apply_new_timer_settings(st) /\ DutyOk(st.fps, st.on)
      BY <1>3, <2>2, <2>3 DEF st
    <2> QED
      BY <2>2, <2>4, <2>5, FlashTypes, ApplyKeeps
  <1> QED
    BY <1>1, <1>2, <1>3 DEF SetFps

\* ir_camera_system_set_on_time_us, under the strobe too.
LEMMA SetOnTimeKeeps ==
    ASSUME FlashInductive, NEW wire \in OnTimes, SetOnTime(wire)
    PROVE  FlashInductive'
PROOF
  <1> DEFINE on == wire % 65536
             st == [s EXCEPT !.on = on]
  <1>1. on \in Nat
    BY IrAssumption
  <1>2. st \in [fps : Nat, on : Nat] /\ st.fps = s.fps /\ st.on = on
    BY <1>1, FlashTypes
  <1>3. run = "idle" /\ UNCHANGED <<board, close, tofCopy, tof>>
    BY DEF SetOnTime, Request, Others
  <1>4. CASE Refuse
    BY <1>3, <1>4, RefuseKeeps
  <1>5. CASE UNCHANGED <<s, hw, run, old>>
    BY <1>3, <1>5, FlashTypes, LightKept
  <1>6. OnTimeAccepted(on) => on <= MaxOn /\ DutyOk(s.fps, on)
    <2>1. CASE s.fps = 0
      BY <1>1, <2>1 DEF OnTimeAccepted, DutyOk, DutyPercent
    <2>2. CASE s.fps # 0
      BY <2>2 DEF OnTimeAccepted
    <2> QED
      BY <2>1, <2>2
  <1>7. CASE OnTimeAccepted(on) /\ apply_new_timer_settings(st)
    <2>1. st.on <= MaxOn /\ DutyOk(st.fps, st.on)
      BY <1>2, <1>6, <1>7
    <2> HIDE DEF st
    <2> QED
      BY <1>2, <1>3, <1>7, <2>1, ApplyKeeps
  <1>8. CASE OnTimeAccepted(on) /\ FaceDriven /\ s' = st /\ UNCHANGED <<hw, run, old>>
    <2> HIDE DEF st, on
    <2>1. distance_is_safe /\ tof = "idle"
      BY <1>8, FlashTypes DEF FaceDriven, distance_is_safe, TooCloseIsDark
    <2>2. s' \in [fps : Nat, on : Nat] /\ s'.fps = s.fps /\ s'.on = on
      BY <1>2, <1>8
    <2>3. /\ TriggerDelay' = TriggerDelay /\ MaxOn' = MaxOn
          /\ distance_is_safe' = distance_is_safe
      BY <1>3 DEF TriggerDelay, MaxOn, distance_is_safe
    <2>4. DutyOk(s.fps, s.on)'
      BY <1>3, <1>6, <1>8, <2>2 DEF DutyOk, DutyPercent
    <2>5. EyeInductive' /\ SettingsWithinLimits' /\ StaleIsDark'
      BY <1>3, <1>6, <1>8, <2>1, <2>2, <2>3, <2>4
      DEF FlashInductive, EyeInductive, Types, TooCloseIsDark, SettingsWithinLimits, StaleIsDark
    <2>6. SleeperIsReady' /\ StoppedAtZero'
      BY <1>3, <1>8, <2>1, <2>2 DEF FlashInductive, SleeperIsReady, StoppedAtZero
    <2>7. hw.leds # {} /\ hw.pulse > 0 /\ ~hw.long => DutyOk(s.fps, hw.pulse - TriggerDelay)'
      BY <1>3, <1>8, <2>2, <2>3 DEF FlashInductive, PulseWithinLimits, DutyOk, DutyPercent
    <2>8. PulseWithinLimits'
      BY <1>8, <2>2, <2>3, <2>7 DEF FlashInductive, PulseWithinLimits
    <2> QED
      BY <2>5, <2>6, <2>8 DEF FlashInductive
  <1> QED
    BY <1>4, <1>5, <1>7, <1>8 DEF SetOnTime

\* Switching a camera touches its trigger or its interrupt only.
LEMMA CameraLight ==
    ASSUME DOMAIN hw = HwFields, NEW c, NEW on
    PROVE  /\ DOMAIN CameraHw(hw, c, on) = HwFields
           /\ Light(CameraHw(hw, c, on)) = Light(hw)
           /\ Timing(CameraHw(hw, c, on)) = Timing(hw)
PROOF
  <1>1. CASE CameraHw(hw, c, on) = hw
    BY <1>1
  <1>2. CASE CameraHw(hw, c, on) = [hw EXCEPT !.irq = on]
    BY <1>2 DEF HwFields, Light, Timing
  <1>3. CASE CameraHw(hw, c, on) = camera_enable_trigger(hw, s, {c}, IF on THEN {c} ELSE {})
    BY <1>3, EnableTrigger
  <1> QED
    BY <1>1, <1>2, <1>3 DEF CameraHw

\* The requests that do not set the LEDs or the timers.
LEMMA OtherRequestsKeep ==
    ASSUME FlashInductive,
           \/ \E c \in {"eye", "face", "tof", "rgb"} : EnableCamera(c) \/ DisableCamera(c)
           \/ \E kind \in {"focus", "mirror"} :
                PerformSweep(kind) \/ \E k \in FrameCounts : SetSweepValues(kind, k)
           \/ \E e \in BOOLEAN : SetLens(e)
           \/ LensSelfTest \/ SweepTriggers
    PROVE  FlashInductive'
PROOF
  <1>1. ASSUME NEW c \in {"eye", "face", "tof", "rgb"}, EnableCamera(c) \/ DisableCamera(c)
        PROVE  FlashInductive'
    <2>1. UNCHANGED <<board, close, tof, tofCopy>>
      BY <1>1 DEF EnableCamera, DisableCamera, Others
    <2>2. CASE Refuse
      BY <2>1, <2>2, RefuseKeeps
    <2>3. CASE ~Refuse
      <3>1. PICK on \in BOOLEAN : hw' = CameraHw(hw, c, on)
        BY <1>1, <2>3 DEF EnableCamera, DisableCamera
      <3>2. DOMAIN hw' = HwFields /\ Light(hw') = Light(hw) /\ Timing(hw') = Timing(hw)
        BY <3>1, FlashTypes, CameraLight
      <3>3. s' = s /\ (run' = run \/ run' \notin {"apply", "leds"})
        BY <1>1, <2>3 DEF EnableCamera, DisableCamera
      <3>4. hw'.run = hw.run /\ hw'.pre = hw.pre /\ hw'.act = hw.act
        BY <3>2 DEF Timing
      <3> QED
        BY <2>1, <3>2, <3>3, <3>4, LightKept
    <2> QED
      BY <2>2, <2>3
  <1>2. ASSUME NEW kind \in {"focus", "mirror"}, PerformSweep(kind)
        PROVE  FlashInductive'
    <2>1. UNCHANGED <<board, close, tof, tofCopy>>
      BY <1>2 DEF PerformSweep, Others
    <2>2. CASE Refuse
      BY <2>1, <2>2, RefuseKeeps
    <2>3. CASE ~Refuse
      <3>1. s' = s /\ run' = "sweep" /\ hw' = initialize_sweep(hw)
        BY <1>2, <2>3 DEF PerformSweep
      <3>2. DOMAIN hw' = HwFields /\ Light(hw') = Light(hw) /\ Timing(hw') = Timing(hw)
        BY <3>1, FlashTypes DEF initialize_sweep, HwFields, Light, Timing
      <3>3. hw'.run = hw.run /\ hw'.pre = hw.pre /\ hw'.act = hw.act
        BY <3>2 DEF Timing
      <3> QED
        BY <2>1, <3>1, <3>2, <3>3, LightKept
    <2> QED
      BY <2>2, <2>3
  <1>3. ASSUME NEW kind \in {"focus", "mirror"}, NEW k, SetSweepValues(kind, k)
        PROVE  FlashInductive'
    BY <1>3, FlashTypes, LightKept DEF SetSweepValues, Others, Refuse
  <1>4. ASSUME NEW e \in BOOLEAN, SetLens(e)
        PROVE  FlashInductive'
    BY <1>4, FlashTypes, LightKept DEF SetLens, Others
  <1>5. CASE LensSelfTest
    BY <1>5, FlashTypes, LightKept DEF LensSelfTest, Others
  <1>6. CASE SweepTriggers
    <2>1. /\ hw' = camera_enable_trigger(hw, s, {"eye"}, {"eye"})
          /\ UNCHANGED <<board, s, close, tof, tofCopy>> /\ run' = "idle"
      BY <1>6 DEF SweepTriggers, Others
    <2>2. DOMAIN hw' = HwFields /\ Light(hw') = Light(hw) /\ Timing(hw') = Timing(hw)
      BY <2>1, FlashTypes, EnableTrigger
    <2> QED
      BY <2>1, <2>2, LightKept DEF Timing
  <1> QED
    BY <1>1, <1>2, <1>3, <1>4, <1>5, <1>6

\* The runner comes back from its sleep and switches on what it prepared.
LEMMA RunnerWakesKeeps ==
    ASSUME FlashInductive, RunnerWakes
    PROVE  FlashInductive'
PROOF
  <1>1. UNCHANGED <<board, s, close, tof, tofCopy>> /\ run' = "idle"
    BY DEF RunnerWakes, Others
  <1>2. CASE hw' = hw
    BY <1>1, <1>2, FlashTypes, LightKept
  <1>3. CASE run \in {"apply", "leds"} /\ hw' \in {ApplyRest(hw, s), ir_leds_enable_pulse(hw, s, wave)}
    <2>1. /\ DOMAIN hw' = HwFields
          /\ hw'.leds = hw.leds \/ s.on # 0
          /\ hw'.pulse = hw.pulse /\ hw'.long = hw.long /\ hw'.pvcc = hw.pvcc
          /\ hw'.run = hw.run /\ hw'.pre = hw.pre /\ hw'.act \in {hw.act, hw.pre}
      <3>1. CASE hw' = ApplyRest(hw, s)
        BY <3>1, FlashTypes, SecondHalf
      <3>2. CASE hw' = ir_leds_enable_pulse(hw, s, wave)
        <4>1. /\ DOMAIN hw' = HwFields
              /\ hw'.leds = hw.leds \/ s.on # 0
              /\ hw'.pulse = hw.pulse /\ hw'.long = hw.long /\ hw'.pvcc = hw.pvcc
              /\ Timing(hw') = Timing(hw)
          BY <3>2, FlashTypes, EnablePulse
        <4> QED
          BY <4>1 DEF Timing
      <3> QED
        BY <1>3, <3>1, <3>2
    <2>2. CASE hw'.leds = hw.leds
      BY <1>1, <2>1, <2>2, LightKept DEF Light
    <2>3. CASE s.on # 0
      <3>1. /\ s.fps > 0 /\ hw.pvcc
            /\ ~hw.long => hw.pulse = s.on + TriggerDelay
        BY <1>3, <2>3 DEF FlashInductive, SleeperIsReady
      <3>2. distance_is_safe \/ tof \in {"copy", "write"}
        BY <2>3, FlashTypes DEF TooCloseIsDark, Types
      <3>3. /\ TriggerDelay' = TriggerDelay /\ MaxOn' = MaxOn
            /\ distance_is_safe' = distance_is_safe
        BY <1>1 DEF TriggerDelay, MaxOn, distance_is_safe
      <3>4. DutyOk(s.fps, s.on)'
        BY <1>1, FlashTypes DEF DutyOk, DutyPercent
      <3>5. Types' /\ SettingsWithinLimits' /\ StaleIsDark'
        BY <1>1, <2>1, <2>3, <3>3, <3>4
        DEF FlashInductive, EyeInductive, Types, SettingsWithinLimits, StaleIsDark
      <3>6. TooCloseIsDark' /\ SleeperIsReady'
        BY <1>1, <2>3, <3>2, <3>3 DEF FlashInductive, EyeInductive, TooCloseIsDark, SleeperIsReady
      <3>7. StoppedAtZero'
        BY <1>1, <3>1 DEF StoppedAtZero
      <3>8. ~hw.long => hw.pulse - TriggerDelay = s.on
        BY <3>1, FlashTypes, Limits DEF Types
      <3>9. ~hw'.long => DutyOk(s.fps, hw.pulse - TriggerDelay)'
        BY <1>1, <2>1, <3>3, <3>8, FlashTypes DEF DutyOk, DutyPercent
      <3>10. PulseWithinLimits'
        BY <2>1, <3>1, <3>3, <3>9 DEF FlashInductive, PulseWithinLimits
      <3> QED
        BY <3>5, <3>6, <3>7, <3>10 DEF FlashInductive, EyeInductive
    <2> QED
      BY <2>1, <2>2, <2>3
  <1> QED
    BY <1>2, <1>3 DEF RunnerWakes

\* The ToF thread: a measurement, and the three steps of its callback.
LEMMA TofKeeps ==
    ASSUME FlashInductive, Tof
    PROVE  FlashInductive'
PROOF
  <1>1. CASE \E near \in BOOLEAN : Measure(near)
    <2>1. /\ UNCHANGED <<board, s, hw, run, tofCopy>>
          /\ board = "pearl" /\ tof = "idle" /\ close' # close
          /\ tof' = IF close' >= TooClose THEN "copy" ELSE "idle"
      BY <1>1 DEF Measure, Refuse
    <2>2. TriggerDelay' = TriggerDelay /\ MaxOn' = MaxOn
      BY <2>1 DEF TriggerDelay, MaxOn
    <2>3. tof' = "copy" => ~distance_is_safe'
      BY <1>1, <2>1 DEF distance_is_safe, TooClose, Measure
    <2>4. tof' = "idle" => distance_is_safe'
      BY <1>1, <2>1 DEF distance_is_safe, TooClose, Measure
    <2>5. \A f, n : DutyOk(f, n) => DutyOk(f, n)'
      BY <2>1 DEF DutyOk, DutyPercent
    <2>6. EyeInductive' /\ SettingsWithinLimits' /\ StaleIsDark'
      BY <2>1, <2>2, <2>3, <2>4, <2>5
      DEF FlashInductive, EyeInductive, Types, TooCloseIsDark, SettingsWithinLimits, StaleIsDark
    <2>7. SleeperIsReady' /\ StoppedAtZero' /\ PulseWithinLimits'
      BY <2>1, <2>2, <2>5 DEF FlashInductive, SleeperIsReady, StoppedAtZero, PulseWithinLimits
    <2> QED
      BY <2>6, <2>7 DEF FlashInductive
  <1>2. CASE TofCopies \/ TofWrites
    <2>1. UNCHANGED <<board, close, hw, run>>
      BY <1>2 DEF TofCopies, TofWrites, Refuse
    <2>2. /\ TriggerDelay' = TriggerDelay /\ MaxOn' = MaxOn
          /\ distance_is_safe' = distance_is_safe
      BY <2>1 DEF TriggerDelay, MaxOn, distance_is_safe
    <2>3. \A f, n : DutyOk(f, n) => DutyOk(f, n)'
      BY <2>1 DEF DutyOk, DutyPercent
    <2>4. CASE TofCopies
      <3>1. /\ s' = s /\ tof = "copy" /\ tof' = "write"
            /\ tofCopy' \in [fps : Nat, on : {0}] /\ tofCopy'.fps = s.fps
        BY <2>4, FlashTypes DEF TofCopies, Refuse
      <3>2. EyeInductive' /\ SettingsWithinLimits' /\ StaleIsDark'
        BY <2>1, <2>2, <2>3, <3>1
        DEF FlashInductive, EyeInductive, Types, TooCloseIsDark, SettingsWithinLimits, StaleIsDark
      <3>3. SleeperIsReady' /\ StoppedAtZero' /\ PulseWithinLimits'
        BY <2>1, <2>2, <2>3, <3>1
        DEF FlashInductive, SleeperIsReady, StoppedAtZero, PulseWithinLimits
      <3> QED
        BY <3>2, <3>3 DEF FlashInductive
    <2>5. CASE TofWrites
      <3>1. /\ s' = tofCopy /\ tof = "write" /\ tof' = "apply"
            /\ s' \in [fps : Nat, on : Nat] /\ s'.on = 0
        BY <2>5 DEF TofWrites, FlashInductive, EyeInductive, Types
      <3>2. DutyOk(s.fps, s.on)'
        BY <2>3, <3>1, ZeroIsWithin DEF DutyOk, DutyPercent
      <3>3. hw.leds = {} \/ s'.fps = s.fps
        BY <3>1 DEF FlashInductive, StaleIsDark
      <3>4. EyeInductive' /\ SettingsWithinLimits' /\ StaleIsDark'
        BY <2>1, <2>2, <3>1, <3>2, FlashTypes
        DEF FlashInductive, EyeInductive, Types, TooCloseIsDark, SettingsWithinLimits, StaleIsDark
      <3>5. SleeperIsReady' /\ StoppedAtZero'
        BY <2>1, <3>1, <3>3 DEF FlashInductive, SleeperIsReady, StoppedAtZero
      <3>6. PulseWithinLimits'
        BY <2>1, <2>2, <2>3, <3>3 DEF FlashInductive, PulseWithinLimits
      <3> QED
        BY <3>4, <3>5, <3>6 DEF FlashInductive
    <2> QED
      BY <1>2, <2>4, <2>5
  <1>3. CASE TofApplies
    <2>1. ~distance_is_safe
      BY <1>3, FlashTypes DEF TofApplies, TooCloseIsDark
    <2> QED
      BY <1>3, <2>1, FlashTypes, ApplyKeeps DEF TofApplies
  <1> QED
    BY <1>1, <1>2, <1>3 DEF Tof

\* The timer, the exposures and the safety circuit leave the LEDs alone.
LEMMA HardwareKeeps ==
    ASSUME FlashInductive, Frame \/ ExposureEnds \/ SafetyTrips \/ UNCHANGED vars
    PROVE  FlashInductive'
PROOF
  <1>1. UNCHANGED <<board, s, close, tof, tofCopy, run>>
    BY DEF Frame, ExposureEnds, SafetyTrips, Kept, Refuse, vars
  <1>2. CASE Frame
    <2>1. \/ hw' = [hw EXCEPT !.over = FALSE]
          \/ hw' = UpdateEvent(hw)
      BY <1>2 DEF Frame
    <2>2. /\ DOMAIN hw' = HwFields /\ Light(hw') = Light(hw)
          /\ hw'.run = hw.run /\ hw'.pre = hw.pre /\ hw'.act \in {hw.act, hw.pre}
      <3>1. CASE hw' = [hw EXCEPT !.over = FALSE]
        BY <3>1, FlashTypes DEF HwFields, Light
      <3>2. CASE hw' = UpdateEvent(hw)
        BY <3>2, FlashTypes, Updates
      <3> QED
        BY <2>1, <3>1, <3>2
    <2> QED
      BY <1>1, <2>2, LightKept
  <1>3. CASE ExposureEnds
    <2>1. \/ hw' = Exposed
          \/ hw' = [Exposed EXCEPT !.it = FALSE, !.trig = @ \ {"eye"}]
      BY <1>3 DEF ExposureEnds
    <2>2. /\ DOMAIN hw' = HwFields /\ Light(hw') = Light(hw)
          /\ hw'.run = hw.run /\ hw'.pre = hw.pre /\ hw'.act = hw.act
      BY <2>1, FlashTypes DEF Exposed, HwFields, Light
    <2> QED
      BY <1>1, <2>2, LightKept
  <1>4. CASE SafetyTrips \/ UNCHANGED vars
    <2>1. hw' = hw
      BY <1>4 DEF SafetyTrips, Refuse, vars
    <2> QED
      BY <1>1, <2>1, FlashTypes, LightKept
  <1> QED
    BY <1>2, <1>3, <1>4

\* The falling edge of the strobe sets the LEDs from the settings.
LEMMA StrobeFallsKeeps ==
    ASSUME FlashInductive, StrobeApplies
    PROVE  FlashInductive'
PROOF
  <1> DEFINE o == Overridden(s)
             h == IF s.fps > 0 THEN [hw EXCEPT !.pre = s.fps, !.over = FALSE]
                               ELSE [hw EXCEPT !.run = FALSE]
             a == ir_leds_set_pulse_length(h, o, wave)
             b == camera_enable_trigger(a, o, {"eye", "tof"}, cams)
             c == ir_leds_enable_pulse(b, o, wave)
  <1>1. /\ s' = o /\ hw' = c
        /\ UNCHANGED <<board, close, tof, tofCopy, run>>
    BY DEF StrobeApplies, Kept
  <1>2. /\ DOMAIN h = HwFields /\ Light(h) = Light(hw)
        /\ s.fps = 0 => h.run = FALSE
        /\ h.run \in BOOLEAN
    <2>1. CASE s.fps > 0
      BY <2>1, FlashTypes DEF HwFields, Light, Types
    <2>2. CASE ~(s.fps > 0)
      BY <2>2, FlashTypes DEF HwFields, Light
    <2> QED
      BY <2>1, <2>2
  <1>3. Relit(h, a, o, wave) /\ a.leds = {} /\ Timing(a) = Timing(h)
    BY <1>2, PulseLength
  <1>4. DOMAIN a = HwFields
    BY <1>3 DEF Relit
  <1> HIDE DEF h, a
  <1>5. DOMAIN b = HwFields /\ Light(b) = Light(a) /\ Timing(b) = Timing(a)
    BY <1>4, EnableTrigger
  <1> HIDE DEF b
  <1>6. /\ DOMAIN c = HwFields
        /\ c.leds = b.leds \/ (o.on # 0 /\ wave # "none")
        /\ c.pulse = b.pulse /\ c.long = b.long /\ c.pvcc = b.pvcc
        /\ Timing(c) = Timing(b)
    BY <1>5, EnablePulse
  <1> HIDE DEF c
  <1>7. Relit(hw, hw', s', wave)
    BY <1>1, <1>2, <1>3, <1>5, <1>6 DEF Relit, Light
  <1>8. hw'.run = h.run
    BY <1>1, <1>3, <1>5, <1>6 DEF Timing
  <1>9. /\ s' \in [fps : Nat, on : Nat] /\ s'.fps = s.fps
        /\ ~distance_is_safe => s'.on = 0
        /\ s'.on # 0 => s'.on = s.on
        /\ s'.on <= MaxOn /\ DutyOk(s'.fps, s'.on)
    BY <1>1, FlashTypes, OverrideIsWithin
  <1>10. run' \in {"apply", "leds"} /\ s'.on # 0 => s'.fps > 0 /\ hw.pvcc
    BY <1>1, <1>9 DEF FlashInductive, SleeperIsReady
  <1> QED
    BY <1>1, <1>2, <1>7, <1>8, <1>9, <1>10, RelitKeeps

\* The rising edge prolongs the pulse, to the longest one at most.
LEMMA StrobeRisesKeeps ==
    ASSUME FlashInductive, NEW rem \in EdgeTimes, StrobeRises(rem)
    PROVE  FlashInductive'
PROOF
  <1>1. UNCHANGED <<board, s, close, tof, tofCopy, run>>
    BY DEF StrobeRises, Kept
  <1>2. rem \in Int
    <2>1. s.fps # 0 => 1000000 \div s.fps \in Int
      BY FlashTypes
    <2> QED
      BY <2>1, FlashTypes, IrAssumption DEF EdgeTimes, StrobeDelay, Period, StrobeMargin
  <1>3. /\ DOMAIN hw' = HwFields
        /\ hw'.leds = hw.leds /\ hw'.pvcc = hw.pvcc /\ hw'.long = TRUE
        /\ hw'.pulse \in Int /\ hw'.pulse <= MaxOn
        /\ hw'.run = hw.run /\ hw'.pre = hw.pre /\ hw'.act \in {hw.act, hw.pre}
    <2>1. CASE rem + s.on > MaxOn
      BY <2>1, FlashTypes DEF StrobeRises, HwFields
    <2>2. CASE ~(rem + s.on > MaxOn)
      <3> DEFINE h == [hw EXCEPT !.pulse = rem + s.on, !.long = TRUE]
      <3>1. /\ DOMAIN h = HwFields
            /\ h.leds = hw.leds /\ h.pvcc = hw.pvcc /\ h.long = TRUE /\ h.pulse = rem + s.on
            /\ h.run = hw.run /\ h.pre = hw.pre /\ h.act = hw.act
        BY FlashTypes DEF HwFields
      <3>2. hw' = UpdateEvent(h)
        BY <2>2 DEF StrobeRises
      <3> HIDE DEF h
      <3>3. Light(hw') = Light(h) /\ DOMAIN hw' = HwFields
            /\ hw'.run = h.run /\ hw'.pre = h.pre /\ hw'.act = h.pre
        BY <3>1, <3>2, Updates
      <3>4. hw'.leds = hw.leds /\ hw'.pvcc = hw.pvcc /\ hw'.long = TRUE /\ hw'.pulse = rem + s.on
        BY <3>1, <3>3 DEF Light
      <3>5. rem + s.on \in Int /\ rem + s.on <= MaxOn
        BY <1>2, <2>2, FlashTypes
      <3> QED
        BY <3>1, <3>3, <3>4, <3>5
    <2> QED
      BY <2>1, <2>2
  <1>4. /\ TriggerDelay' = TriggerDelay /\ MaxOn' = MaxOn
        /\ distance_is_safe' = distance_is_safe
    BY <1>1 DEF TriggerDelay, MaxOn, distance_is_safe
  <1>5. DutyOk(s.fps, s.on)'
    BY <1>1, FlashTypes DEF DutyOk, DutyPercent
  <1>6. EyeInductive' /\ SettingsWithinLimits' /\ StaleIsDark'
    BY <1>1, <1>3, <1>4, <1>5
    DEF FlashInductive, EyeInductive, Types, TooCloseIsDark, SettingsWithinLimits, StaleIsDark
  <1>7. SleeperIsReady' /\ StoppedAtZero'
    BY <1>1, <1>3 DEF FlashInductive, SleeperIsReady, StoppedAtZero
  <1>8. hw'.pulse - TriggerDelay <= MaxOn
    BY <1>3, FlashTypes, Limits DEF Types
  <1>9. PulseWithinLimits'
    BY <1>1, <1>3, <1>4, <1>8 DEF FlashInductive, PulseWithinLimits
  <1> QED
    BY <1>6, <1>7, <1>9 DEF FlashInductive

\* ir_camera_system_timeout_disable.
LEMMA AutoOffKeeps ==
    ASSUME FlashInductive, AutoOff
    PROVE  FlashInductive'
PROOF
  <1> DEFINE o == IF wave = "none" THEN s ELSE Overridden(s)
             a == ir_leds_set_pulse_length(hw, o, "none")
             h1 == IF wave = "none" THEN hw ELSE ir_leds_enable_pulse(a, o, "none")
             h2 == camera_enable_trigger(h1, o, {"eye", "tof"}, {})
             h3 == camera_enable_trigger(h2, o, {"face"}, {})
  <1>1. /\ s' = o
        /\ hw' \in {h1, [h2 EXCEPT !.irq = FALSE], h3}
        /\ UNCHANGED <<board, close, tof, tofCopy, run>>
    BY DEF AutoOff
  <1>2. /\ DOMAIN h1 = HwFields /\ Timing(h1) = Timing(hw)
        /\ wave = "none" => Light(h1) = Light(hw)
        /\ wave # "none" => Relit(hw, h1, o, "none")
    <2>1. CASE wave = "none"
      BY <2>1, FlashTypes
    <2>2. CASE wave # "none"
      <3>1. Relit(hw, a, o, "none") /\ a.leds = {} /\ Timing(a) = Timing(hw)
        BY FlashTypes, PulseLength
      <3>2. DOMAIN a = HwFields
        BY <3>1 DEF Relit
      <3>3. h1 = ir_leds_enable_pulse(a, o, "none")
        BY <2>2
      <3> HIDE DEF a, h1
      <3>4. /\ DOMAIN h1 = HwFields /\ h1.leds = a.leds
            /\ h1.pulse = a.pulse /\ h1.long = a.long /\ h1.pvcc = a.pvcc
            /\ Timing(h1) = Timing(a)
        BY <3>2, <3>3, EnablePulse
      <3> QED
        BY <2>2, <3>1, <3>4 DEF Relit
    <2> QED
      BY <2>1, <2>2
  <1> HIDE DEF h1
  <1>3. DOMAIN h2 = HwFields /\ Light(h2) = Light(h1) /\ Timing(h2) = Timing(h1)
    BY <1>2, EnableTrigger
  <1> HIDE DEF h2
  <1>4. DOMAIN h3 = HwFields /\ Light(h3) = Light(h2) /\ Timing(h3) = Timing(h2)
    BY <1>3, EnableTrigger
  <1> HIDE DEF h3
  <1>5. DOMAIN hw' = HwFields /\ Light(hw') = Light(h1) /\ Timing(hw') = Timing(hw)
    <2>1. CASE hw' = [h2 EXCEPT !.irq = FALSE]
      BY <2>1, <1>2, <1>3 DEF HwFields, Light, Timing
    <2> QED
      BY <1>1, <1>2, <1>3, <1>4, <2>1
  <1>6. hw'.run = hw.run /\ hw'.pre = hw.pre /\ hw'.act = hw.act
    BY <1>5 DEF Timing
  <1>7. CASE wave = "none"
    BY <1>1, <1>2, <1>5, <1>6, <1>7, LightKept
  <1>8. CASE wave # "none"
    <2>1. Relit(hw, hw', s', "none")
      BY <1>1, <1>2, <1>5, <1>8 DEF Relit, Light
    <2>2. /\ s' \in [fps : Nat, on : Nat] /\ s'.fps = s.fps
          /\ ~distance_is_safe => s'.on = 0
          /\ s'.on # 0 => s'.on = s.on
          /\ s'.on <= MaxOn /\ DutyOk(s'.fps, s'.on)
      BY <1>1, <1>8, FlashTypes, OverrideIsWithin
    <2>3. run' \in {"apply", "leds"} /\ s'.on # 0 => s'.fps > 0 /\ hw.pvcc
      BY <1>1, <2>2 DEF FlashInductive, SleeperIsReady
    <2>4. hw'.run \in BOOLEAN
      BY <1>6, FlashTypes DEF Types
    <2> QED
      BY <1>1, <1>6, <2>1, <2>2, <2>3, <2>4, FlashTypes, RelitKeeps
  <1> QED
    BY <1>7, <1>8

\* The timers start with pulses of length zero and no period.
LEMMA FlashStarts == Booted => FlashInductive /\ SweepInductive
PROOF
  <1> SUFFICES ASSUME Booted PROVE FlashInductive /\ SweepInductive
    OBVIOUS
  <1>1. /\ s.fps = 0 /\ s.on = 0 /\ s \in [fps : Nat, on : Nat]
        /\ distance_is_safe
    BY DEF Booted, distance_is_safe, TooClose
  <1>2. DutyOk(s.fps, s.on)
    BY <1>1, ZeroIsWithin
  <1>3. TriggerDelay \in Nat \ {0} /\ MaxOn \in Nat
    BY Limits DEF Booted
  <1>4. Types
    <2>1. hw.long \in BOOLEAN /\ hw.pvcc \in BOOLEAN
      BY Zenon DEF Booted
    <2> QED
      BY <1>1, <2>1 DEF Booted, Types
  <1>5. EyeInductive /\ SettingsWithinLimits /\ StaleIsDark
    BY <1>1, <1>2, <1>3, <1>4
    DEF Booted, EyeInductive, TooCloseIsDark, SettingsWithinLimits, StaleIsDark
  <1>6. SleeperIsReady /\ StoppedAtZero
    BY DEF Booted, SleeperIsReady, StoppedAtZero
  <1>7. PulseWithinLimits
    BY <1>1, <1>3 DEF Booted, PulseWithinLimits
  <1>8. SweepInductive
    BY DEF Booted, SweepInductive
  <1> QED
    BY <1>5, <1>6, <1>7, <1>8 DEF FlashInductive

\* The same of the state after a step.
LEMMA BootedAfter == Booted' => FlashInductive' /\ SweepInductive'
PROOF
  BY FlashStarts, PTL

\* The program starts so.
LEMMA InitBoots == Init => Booted
PROOF
  BY IrAssumption DEF Init, Booted, ir_camera_system_hw_init, setup_master_timer, HwFields

\* A restart leaves the same.
LEMMA RestartBoots ==
    ASSUME FlashInductive, Restart
    PROVE  Booted'
PROOF
  <1>1. board' = board /\ board \in {"pearl", "diamond"} /\ ready' \in BOOLEAN
    BY FlashTypes DEF Restart, Types
  <1>2. hw' = (ir_camera_system_hw_init)'
    BY DEF Restart
  <1>3. /\ DOMAIN hw' = HwFields /\ hw'.pulse = 0 /\ hw'.long = FALSE /\ hw'.pvcc = FALSE
        /\ hw'.run = ready' /\ hw'.act = 0 /\ hw'.pre = 0 /\ hw'.irq = FALSE /\ hw'.it = FALSE
    BY <1>2 DEF ir_camera_system_hw_init, setup_master_timer, HwFields
  <1> QED
    BY <1>1, <1>3 DEF Booted, Restart

\* The invariant of the LEDs, the settings and their writers.
LEMMA FlashInvariant == Spec => []FlashInductive
PROOF
  <1>1. FlashInductive /\ [Next]_vars => FlashInductive'
    <2> SUFFICES ASSUME FlashInductive, [Next]_vars PROVE FlashInductive'
      OBVIOUS
    <2>1. CASE Requests
      BY <2>1, EnableLedsKeeps, SetFpsKeeps, SetOnTimeKeeps, OtherRequestsKeep DEF Requests
    <2>2. CASE RunnerWakes \/ Tof \/ AutoOff
      BY <2>2, RunnerWakesKeeps, TofKeeps, AutoOffKeeps
    <2>3. CASE LensSelfTest \/ SweepTriggers
      BY <2>3, OtherRequestsKeep
    <2>4. CASE Frame \/ ExposureEnds \/ SafetyTrips \/ UNCHANGED vars
      BY <2>4, HardwareKeeps
    <2>5. ASSUME NEW rem \in EdgeTimes, StrobeRises(rem) PROVE FlashInductive'
      BY <2>5, StrobeRisesKeeps
    <2>6. CASE StrobeFalls
      <3>1. ASSUME Restart PROVE FlashInductive'
        BY <3>1, RestartBoots, BootedAfter
      <3> QED
        BY <2>6, <3>1, StrobeFallsKeeps DEF StrobeFalls
    <2> QED
      BY <2>1, <2>2, <2>3, <2>4, <2>5, <2>6 DEF Next, Strobe
  <1> QED
    BY <1>1, InitBoots, FlashStarts, PTL DEF Spec

\* No LED flashes at somebody who is too close once the callback of the ToF
\* thread is done, whatever the runner was in the middle of and whatever the
\* Jetson asks for: for any requests, in any number.
THEOREM TooCloseLedsOff == Spec => []LedsOffWhenTooClose
PROOF
  <1>1. FlashInductive => LedsOffWhenTooClose
    BY DEF FlashInductive, EyeInductive, TooCloseIsDark, LedsOffWhenTooClose, Lit
  <1> QED
    BY <1>1, FlashInvariant, PTL

\* No flash is longer than the board allows, and none takes more than its duty
\* cycle at the frame rate in force, for all on-times and frame rates, although
\* the ToF thread writes settings back that it copied earlier.
THEOREM FlashLimits == Spec => []FlashWithinLimits
PROOF
  <1>1. FlashInductive => FlashWithinLimits
    <2> SUFFICES ASSUME FlashInductive, Lit
                 PROVE  /\ hw.pulse - TriggerDelay <= MaxOn
                        /\ ~hw.long => DutyOk(s.fps, hw.pulse - TriggerDelay)
                        /\ hw.pvcc
      BY DEF FlashWithinLimits
    <2>1. s.fps > 0
      BY FlashTypes DEF Lit, FlashInductive, StoppedAtZero
    <2> QED
      BY <2>1 DEF Lit, FlashInductive, PulseWithinLimits
  <1> QED
    BY <1>1, FlashInvariant, PTL

-----------------------------------------------------------------------------
(* The focus sweep.                                                         *)

\* One more entry, the next value or none.
LEMMA OneMoreFrame ==
    ASSUME NEW n \in Nat, NEW q \in Seq(Int), Len(q) = n,
           \A i \in 1..n : q[i] \in {i - 1, NoFrame}, NEW v \in {n, NoFrame}
    PROVE  LET r == Append(q, v) IN
           /\ r \in Seq(Int) /\ Len(r) = n + 1
           /\ \A i \in 1..(n + 1) : r[i] \in {i - 1, NoFrame}
PROOF
  <1> DEFINE r == Append(q, v)
  <1>1. v \in Int
    BY DEF NoFrame
  <1>2. r \in Seq(Int) /\ Len(r) = n + 1 /\ r[n + 1] = v
    BY <1>1
  <1>3. \A i \in 1..n : r[i] = q[i]
    BY <1>1
  <1>4. ASSUME NEW i \in 1..(n + 1) PROVE r[i] \in {i - 1, NoFrame}
    <2>1. CASE i \in 1..n
      BY <1>3, <2>1
    <2>2. CASE i = n + 1
      BY <1>2, <2>2
    <2> QED
      BY <2>1, <2>2
  <1> QED
    BY <1>2, <1>4

\* Either no frame begins, or one does at the current focus; none begins in the
\* start of a sweep.
ShotTaken ==
    \/ hw'.exposing = hw.exposing /\ hw'.shots = hw.shots
    \/ /\ hw'.exposing = TRUE
       /\ hw'.shots = IF hw.exposing \/ run = "sweep" THEN hw.shots ELSE Append(hw.shots, focus)

\* The start of a sweep is over only with the step that ends it.
SameRun == run' = "sweep" <=> run = "sweep"

\* The frames taken stay one per value.
LEMMA ShotsKept ==
    ASSUME Undisturbed, frames.focus \in Nat, UNCHANGED <<index, focus>>, ShotTaken, SameRun
    PROVE  Shots(Taken)'
PROOF
  <1>1. index \in Nat /\ index - 1 \in Nat /\ index - 1 + 1 = index /\ focus = index - 1
    BY DEF Undisturbed
  <1>2. CASE hw'.exposing = hw.exposing /\ hw'.shots = hw.shots
    BY <1>2 DEF Undisturbed, Taken, Shots, SameRun
  <1>3. CASE hw'.exposing = TRUE /\ (hw.exposing \/ run = "sweep") /\ hw'.shots = hw.shots
    BY <1>3 DEF Undisturbed, Taken, Shots, SameRun
  <1>4. CASE /\ hw'.exposing = TRUE /\ ~hw.exposing /\ run # "sweep"
             /\ hw'.shots = Append(hw.shots, focus)
    <2>1. Shots(index - 1)
      BY <1>4 DEF Undisturbed, Taken
    <2>2. Taken' = index
      BY <1>4 DEF Taken, SameRun
    <2>3. /\ hw'.shots \in Seq(Int) /\ Len(hw'.shots) = index
          /\ \A i \in 1..index : hw'.shots[i] \in {i - 1, NoFrame}
      BY <1>1, <1>4, <2>1, OneMoreFrame DEF Shots
    <2> QED
      BY <2>2, <2>3 DEF Shots
  <1> QED
    BY <1>2, <1>3, <1>4 DEF ShotTaken

\* The steps of others leave a sweep as it is.
LEMMA SweepKept ==
    ASSUME SweepInductive, UNCHANGED <<board, sweep, frames>>,
           hw'.it = hw.it, hw'.irq => hw.irq \/ board = "diamond",
           sweep = "focus" /\ ~disturbed' => Undisturbed'
    PROVE  SweepInductive'
PROOF
  BY DEF SweepInductive

\* What an undisturbed sweep has to keep when the lens stays where it is.
LEMMA UndisturbedKept ==
    ASSUME Undisturbed, frames.focus \in Nat, UNCHANGED <<board, index, frames, focus>>,
           ShotTaken, SameRun, hw'.it = hw.it, Triggered',
           s'.fps = 0 => board = "pearl" /\ (tof' = "write" => tofCopy'.fps = 0)
    PROVE  Undisturbed'
PROOF
  <1>1. Shots(Taken)'
    BY ShotsKept
  <1> QED
    BY <1>1 DEF Undisturbed

\* The steps that leave the cameras, the timer and the settings' frame rate alone.
LEMMA ShootingKept ==
    ASSUME SweepInductive, SameRun,
           UNCHANGED <<board, sweep, index, frames, focus, cams, tofCopy>>,
           disturbed => disturbed', s'.fps = s.fps,
           Shooting(hw') = Shooting(hw), hw'.run = hw.run,
           tof' = tof \/ tof' # "write"
    PROVE  SweepInductive'
PROOF
  <1>1. /\ hw'.trig = hw.trig /\ hw'.it = hw.it /\ hw'.irq = hw.irq
        /\ hw'.exposing = hw.exposing /\ hw'.shots = hw.shots
    BY DEF Shooting
  <1>2. ASSUME sweep = "focus", ~disturbed' PROVE Undisturbed'
    <2>1. Undisturbed /\ frames.focus \in Nat
      BY <1>2 DEF SweepInductive
    <2>2. Triggered'
      BY <1>1, <2>1 DEF Undisturbed, Triggered, Stopped, SameRun
    <2>3. s'.fps = 0 => board = "pearl" /\ (tof' = "write" => tofCopy'.fps = 0)
      BY <2>1 DEF Undisturbed
    <2> QED
      BY <1>1, <2>1, <2>2, <2>3, UndisturbedKept DEF ShotTaken
  <1> QED
    BY <1>1, <1>2, SweepKept

\* apply_new_timer_settings at the frame rate in force: the trigger of the eye
\* camera stays, unless that rate is zero and the timer stops.
LEMMA ApplyKeepsSweep ==
    ASSUME FlashInductive, SweepInductive, NEW st \in [fps : Nat, on : Nat],
           apply_new_timer_settings(st), st.fps = s.fps \/ disturbed' \/ sweep # "focus",
           UNCHANGED <<board, sweep, index, frames, focus, cams, tofCopy>>,
           disturbed => disturbed', run # "sweep",
           tof' = tof \/ tof' # "write"
    PROVE  SweepInductive'
PROOF
  <1> DEFINE o == Overridden(st)
             a == ApplyFirst(hw, st)
  <1>1. o.fps = st.fps
    BY Override
  <1>2. /\ DOMAIN a = HwFields
        /\ EyeTrigger(hw, a, st, Driven, cams) /\ a.run = (st.fps > 0)
        /\ a.it = hw.it /\ a.irq = hw.irq /\ a.exposing = hw.exposing
    BY FlashTypes, FirstHalf DEF Relit
  <1>3. s' = o /\ (hw' = a \/ hw' = ApplyRest(a, o))
    BY DEF apply_new_timer_settings
  <1> HIDE DEF a, o
  <1>4. /\ hw'.trig = a.trig /\ hw'.it = a.it /\ hw'.irq = a.irq /\ hw'.run = a.run
        /\ \/ hw'.exposing = a.exposing /\ hw'.shots = a.shots
           \/ o.fps > 0 /\ hw'.exposing = TRUE /\ Shot(a, hw')
    <2>1. CASE hw' = a
      BY <2>1
    <2>2. CASE hw' = ApplyRest(a, o)
      BY <1>2, <2>2, SecondHalf
    <2> QED
      BY <1>3, <2>1, <2>2
  <1>5. ASSUME sweep = "focus", ~disturbed' PROVE Undisturbed'
    <2>1. Undisturbed /\ frames.focus \in Nat /\ st.fps = s.fps
      BY <1>5 DEF SweepInductive
    <2>2. /\ st.fps > 0 => "eye" \in a.trig /\ "eye" \in hw.trig
          /\ a.shots = hw.shots
      BY <1>2, <2>1 DEF EyeTrigger, Undisturbed, Triggered, Stopped
    <2>3. ShotTaken
      BY <1>1, <1>2, <1>4, <2>1, <2>2 DEF Shot, ShotTaken, Undisturbed
    <2>4. s'.fps = st.fps
      BY <1>1, <1>3
    <2>5. st.fps = 0 => ~hw'.run
      <3>1. st.fps = 0 => (st.fps > 0) = FALSE
        OBVIOUS
      <3>2. hw'.run = (st.fps > 0)
        BY <1>2, <1>4
      <3> QED
        BY <3>1, <3>2, Zenon
    <2>6. "eye" \in hw'.trig \/ (s'.fps = 0 /\ ~hw'.run)
      BY <1>4, <2>2, <2>4, <2>5
    <2>7. s'.fps = 0 => board = "pearl" /\ (tof' = "write" => tofCopy'.fps = 0)
      BY <2>1, <2>4 DEF Undisturbed
    <2>8. "eye" \in cams' /\ hw'.it = hw.it
      BY <1>2, <1>4, <2>1 DEF Undisturbed, Triggered
    <2>9. SameRun
      BY DEF apply_new_timer_settings, SameRun
    <2>10. Triggered'
      BY <2>6, <2>7, <2>8, <2>9 DEF Triggered, Stopped, SameRun
    <2> QED
      BY <2>1, <2>3, <2>7, <2>8, <2>9, <2>10, UndisturbedKept
  <1> QED
    BY <1>2, <1>4, <1>5, SweepKept

\* A request that is refused, and the other steps that change none of this.
LEMMA RefuseKeepsSweep ==
    ASSUME SweepInductive, SameRun,
           UNCHANGED <<board, s, hw, sweep, index, frames, focus, cams, disturbed, tofCopy>>,
           tof' = tof \/ tof' # "write"
    PROVE  SweepInductive'
PROOF
  BY ShootingKept

\* The settings of the LEDs and the timers.
LEMMA SettingsKeepSweep ==
    ASSUME FlashInductive, SweepInductive,
           \/ \E w \in Waves : EnableLeds(w)
           \/ \E f \in FpsValues : SetFps(f)
           \/ \E t \in OnTimes : SetOnTime(t)
    PROVE  SweepInductive'
PROOF
  <1>1. ASSUME NEW w \in Waves, EnableLeds(w) PROVE SweepInductive'
    <2>1. /\ UNCHANGED <<board, sweep, index, frames, focus, cams, disturbed, tof, tofCopy>>
          /\ SameRun
      BY <1>1 DEF EnableLeds, Others, Refuse, Request, SameRun
    <2>2. CASE Refuse
      BY <2>1, <2>2, RefuseKeepsSweep DEF Refuse
    <2>3. CASE ~Refuse
      <3> DEFINE o == Overridden(s)
                 a == ir_leds_set_pulse_length(hw, o, w)
                 b == ir_leds_enable_pulse(a, o, w)
      <3>1. s' = o /\ (hw' = a \/ hw' = b)
        BY <1>1, <2>3 DEF EnableLeds
      <3>2. o.fps = s.fps
        BY Override, FlashTypes
      <3>3. Timing(a) = Timing(hw) /\ Shooting(a) = Shooting(hw) /\ Relit(hw, a, o, w)
        BY FlashTypes, PulseLength
      <3> HIDE DEF a
      <3>6. DOMAIN a = HwFields
        BY <3>3 DEF Relit
      <3>4. Timing(b) = Timing(a) /\ Shooting(b) = Shooting(a)
        BY <3>6, EnablePulse
      <3> HIDE DEF b, o
      <3>5. hw'.run = hw.run /\ Shooting(hw') = Shooting(hw) /\ s'.fps = s.fps
        BY <3>1, <3>2, <3>3, <3>4 DEF Timing
      <3> QED
        BY <2>1, <3>5, ShootingKept
    <2> QED
      BY <2>2, <2>3
  <1>2. ASSUME NEW f \in FpsValues, SetFps(f) PROVE SweepInductive'
    <2>1. UNCHANGED <<board, sweep, index, frames, focus, cams, tof, tofCopy>> /\ run = "idle"
      BY <1>2 DEF SetFps, Others, Refuse, Request
    <2>2. CASE Refuse
      BY <2>1, <2>2, RefuseKeepsSweep DEF Refuse, SameRun
    <2>3. CASE ~Refuse
      <3>1. disturbed' = (disturbed \/ sweep = "focus")
        BY <1>2, <2>3 DEF SetFps
      <3>2. CASE UNCHANGED <<s, hw, run, old>>
        BY <2>1, <3>1, <3>2, ShootingKept DEF SweepInductive, SameRun
      <3>3. CASE apply_new_timer_settings([s EXCEPT !.fps = f])
        <4> DEFINE st == [s EXCEPT !.fps = f]
        <4>1. st \in [fps : Nat, on : Nat]
          BY FlashTypes, IrAssumption
        <4>2. (disturbed => disturbed') /\ (disturbed' \/ sweep # "focus")
          BY <3>1 DEF SweepInductive
        <4> HIDE DEF st
        <4> QED
          BY <2>1, <3>3, <4>1, <4>2, ApplyKeepsSweep DEF st
      <3> QED
        BY <1>2, <2>3, <3>2, <3>3 DEF SetFps
    <2> QED
      BY <2>2, <2>3
  <1>3. ASSUME NEW t \in OnTimes, SetOnTime(t) PROVE SweepInductive'
    <2> DEFINE st == [s EXCEPT !.on = t % 65536]
    <2>1. UNCHANGED <<board, sweep, index, frames, focus, cams, disturbed, tof, tofCopy>> /\ run = "idle"
      BY <1>3 DEF SetOnTime, Others, Refuse, Request
    <2>2. t % 65536 \in Nat
      BY IrAssumption
    <2>3. st \in [fps : Nat, on : Nat] /\ st.fps = s.fps
      BY <2>2, FlashTypes
    <2>4. CASE Refuse \/ UNCHANGED <<s, hw, run, old>>
      BY <2>1, <2>4, RefuseKeepsSweep DEF Refuse, SameRun
    <2>5. CASE apply_new_timer_settings(st)
      BY <2>1, <2>3, <2>5, ApplyKeepsSweep
    <2>6. CASE s' = st /\ UNCHANGED <<hw, run>>
      BY <2>1, <2>3, <2>6, ShootingKept DEF SameRun
    <2> QED
      BY <1>3, <2>4, <2>5, <2>6 DEF SetOnTime
  <1> QED
    BY <1>1, <1>2, <1>3

\* The cameras, which a focus sweep refuses to switch, and the lens.
LEMMA CamerasKeepSweep ==
    ASSUME FlashInductive, SweepInductive,
           \/ \E c \in {"eye", "face", "tof", "rgb"} : EnableCamera(c) \/ DisableCamera(c)
           \/ \E e \in BOOLEAN : SetLens(e)
           \/ LensSelfTest
    PROVE  SweepInductive'
PROOF
  <1>1. ASSUME NEW c \in {"eye", "face", "tof", "rgb"}, EnableCamera(c) \/ DisableCamera(c)
        PROVE  SweepInductive'
    <2>1. UNCHANGED <<board, s, sweep, index, frames, focus, disturbed, tof, tofCopy>>
      BY <1>1 DEF EnableCamera, DisableCamera, Others, Refuse
    <2>2. CASE Refuse
      BY <2>1, <2>2, RefuseKeepsSweep DEF Refuse, SameRun
    <2>3. CASE ~Refuse
      <3>1. PICK on \in BOOLEAN : hw' = CameraHw(hw, c, on)
        BY <1>1, <2>3 DEF EnableCamera, DisableCamera
      <3>2. sweep # "focus"
        BY <1>1, <2>3 DEF EnableCamera, DisableCamera
      <3>3. hw'.it = hw.it /\ (hw'.irq = hw.irq \/ board = "diamond")
        <4>1. CASE CameraHw(hw, c, on) = hw
          BY <3>1, <4>1
        <4>2. CASE CameraHw(hw, c, on) = [hw EXCEPT !.irq = on] /\ board = "diamond"
          BY <3>1, <4>2, FlashTypes DEF HwFields
        <4>3. CASE CameraHw(hw, c, on) = camera_enable_trigger(hw, s, {c}, IF on THEN {c} ELSE {})
          BY <3>1, <4>3, FlashTypes, EnableTrigger
        <4> QED
          BY <4>1, <4>2, <4>3 DEF CameraHw
      <3> QED
        BY <2>1, <3>2, <3>3, SweepKept
    <2> QED
      BY <2>2, <2>3
  <1>2. ASSUME NEW e \in BOOLEAN, SetLens(e) PROVE SweepInductive'
    <2>1. UNCHANGED <<board, hw, sweep, frames>> /\ disturbed' = (disturbed \/ sweep = "focus")
      BY <1>2 DEF SetLens, Others, LensCurrent
    <2> QED
      BY <2>1, SweepKept
  <1>3. CASE LensSelfTest
    <2>1. UNCHANGED <<board, s, hw, sweep, index, frames, cams, tof, tofCopy>> /\ SameRun
      BY <1>3 DEF LensSelfTest, Others, SameRun
    <2>2. CASE LensCurrent
      BY <2>1, <2>2, SweepKept DEF LensCurrent
    <2>3. CASE UNCHANGED <<focus, disturbed>>
      BY <2>1, <2>3, RefuseKeepsSweep
    <2> QED
      BY <1>3, <2>2, <2>3 DEF LensSelfTest
  <1> QED
    BY <1>1, <1>2, <1>3

\* The requests of the sweep itself: it starts with its first value.
LEMMA SweepRequestsKeep ==
    ASSUME FlashInductive, SweepInductive, NEW kind \in {"focus", "mirror"},
           PerformSweep(kind) \/ \E k \in FrameCounts : SetSweepValues(kind, k)
    PROVE  SweepInductive'
PROOF
  <1>1. ASSUME NEW k \in FrameCounts, SetSweepValues(kind, k) PROVE SweepInductive'
    <2>1. UNCHANGED <<board, s, hw, sweep, index, focus, cams, disturbed, tof, tofCopy, run>>
      BY <1>1 DEF SetSweepValues, Others, Refuse
    <2>2. CASE frames' = frames
      BY <2>1, <2>2, RefuseKeepsSweep DEF SameRun
    <2>3. CASE frames' # frames
      <3>1. sweep # kind /\ frames' = [frames EXCEPT ![kind] = k] /\ k \in Nat
        BY <1>1, <2>3, IrAssumption DEF SetSweepValues, Refuse
      <3>2. frames' \in [focus : Nat, mirror : Nat]
        BY <3>1 DEF SweepInductive
      <3>3. sweep = "focus" => frames'.focus = frames.focus
        BY <3>1 DEF SweepInductive
      <3>4. sweep = "focus" /\ ~disturbed => Undisturbed'
        BY <2>1, <3>3 DEF SweepInductive, Undisturbed, Triggered, Stopped, Taken, Shots
      <3> QED
        BY <2>1, <3>2, <3>4 DEF SweepInductive
    <2> QED
      BY <2>2, <2>3
  <1>2. ASSUME PerformSweep(kind) PROVE SweepInductive'
    <2>1. UNCHANGED <<board, s, frames, cams, tof, tofCopy>>
      BY <1>2 DEF PerformSweep, Others, Refuse
    <2>2. CASE Refuse
      BY <2>1, <2>2, RefuseKeepsSweep DEF Refuse, SameRun
    <2>3. CASE ~Refuse
      <3>1. /\ s.fps # 0 /\ frames[kind] # 0 /\ "eye" \notin cams
            /\ sweep' = kind /\ index' = (IF kind = "focus" THEN 1 ELSE 0)
            /\ focus' = (IF kind = "focus" THEN 0 ELSE focus)
            /\ disturbed' = (kind = "focus" /\ "eye" \in hw.trig)
            /\ hw' = initialize_sweep(hw) /\ run' = "sweep"
        BY <1>2, <2>3 DEF PerformSweep
      <3>2. /\ hw'.it = TRUE /\ hw'.irq = hw.irq /\ hw'.trig = hw.trig
            /\ hw'.shots = <<>>
        BY <3>1, FlashTypes DEF initialize_sweep, HwFields
      <3>3. kind = "focus" /\ ~disturbed' => Undisturbed'
        <4> SUFFICES ASSUME kind = "focus", ~disturbed' PROVE Undisturbed'
          OBVIOUS
        <4>1. index' = 1 /\ focus' = 0 /\ frames.focus # 0 /\ frames.focus \in Nat
          BY <3>1 DEF SweepInductive
        <4>2. Taken' = 0 /\ <<>> \in Seq(Int) /\ Len(<<>>) = 0
          BY <3>1, <4>1 DEF Taken
        <4>3. Shots(Taken)'
          BY <3>2, <4>2 DEF Shots
        <4>4. Triggered'
          BY <2>1, <3>1, <3>2 DEF Triggered
        <4> QED
          BY <2>1, <3>1, <3>2, <4>1, <4>3, <4>4 DEF Undisturbed
      <3> QED
        BY <2>1, <3>1, <3>2, <3>3 DEF SweepInductive
    <2> QED
      BY <2>2, <2>3
  <1> QED
    BY <1>1, <1>2

\* The start of a sweep ends: the trigger comes on, and an exposure in progress is
\* a frame from here on.
LEMMA SweepTriggersKeepsSweep ==
    ASSUME FlashInductive, SweepInductive, SweepTriggers
    PROVE  SweepInductive'
PROOF
  <1>1. /\ UNCHANGED <<board, s, sweep, index, frames, focus, disturbed, tof, tofCopy>>
        /\ cams' = cams \cup {"eye"} /\ run = "sweep" /\ run' = "idle"
        /\ hw' = camera_enable_trigger(hw, s, {"eye"}, {"eye"})
    BY DEF SweepTriggers, Others
  <1>2. /\ hw'.it = hw.it /\ hw'.irq = hw.irq /\ hw'.exposing = hw.exposing
        /\ EyeTrigger(hw, hw', s, {"eye"}, {"eye"})
    BY <1>1, FlashTypes, EnableTrigger
  <1>3. hw'.shots = IF hw.exposing /\ hw.it /\ "eye" \in hw'.trig /\ "eye" \notin hw.trig
                    THEN Append(hw.shots, focus) ELSE hw.shots
    BY <1>1, FlashTypes DEF camera_enable_trigger, HwFields
  <1>4. ASSUME sweep = "focus", ~disturbed' PROVE Undisturbed'
    <2>1. Undisturbed /\ frames.focus \in Nat
      BY <1>1, <1>4 DEF SweepInductive
    <2>2. s.fps # 0 /\ s.fps \in Nat /\ "eye" \notin hw.trig
      BY <1>1, <2>1, FlashTypes DEF Undisturbed, Triggered
    <2>7. Shots(index - 1)
      BY <1>1, <2>1 DEF Undisturbed, Taken
    <2>3. "eye" \in hw'.trig
      BY <1>2, <2>2 DEF EyeTrigger
    <2>4. index - 1 \in Nat /\ index - 1 + 1 = index /\ focus = index - 1 /\ hw.it
      BY <2>1 DEF Undisturbed
    <2>5. Shots(Taken)'
      <3>1. CASE hw.exposing
        <4>1. hw'.shots = Append(hw.shots, focus)
          BY <1>3, <2>2, <2>3, <2>4, <3>1
        <4>2. Taken' = index
          BY <1>1, <1>2, <3>1 DEF Taken
        <4>3. /\ hw'.shots \in Seq(Int) /\ Len(hw'.shots) = index
              /\ \A i \in 1..index : hw'.shots[i] \in {i - 1, NoFrame}
          BY <2>4, <2>7, <4>1, OneMoreFrame DEF Shots
        <4> QED
          BY <4>2, <4>3 DEF Shots
      <3>2. CASE ~hw.exposing
        BY <1>1, <1>2, <1>3, <2>7, <3>2 DEF Shots, Taken
      <3> QED
        BY <3>1, <3>2
    <2>6. Triggered'
      BY <1>1, <2>3 DEF Triggered
    <2> QED
      BY <1>1, <1>2, <2>1, <2>5, <2>6 DEF Undisturbed
  <1> QED
    BY <1>1, <1>2, <1>4, SweepKept

\* The runner comes back from its sleep: the first frame may begin.
LEMMA WakesKeepsSweep ==
    ASSUME FlashInductive, SweepInductive, RunnerWakes
    PROVE  SweepInductive'
PROOF
  <1>1. /\ UNCHANGED <<board, s, sweep, index, frames, focus, cams, disturbed, tof, tofCopy>>
        /\ SameRun /\ run # "sweep"
    BY DEF RunnerWakes, Others, SameRun
  <1>2. CASE hw' = hw
    BY <1>1, <1>2, RefuseKeepsSweep
  <1>3. CASE hw' = ir_leds_enable_pulse(hw, s, wave)
    <2>1. Timing(hw') = Timing(hw) /\ Shooting(hw') = Shooting(hw)
      BY <1>3, FlashTypes, EnablePulse
    <2> QED
      BY <1>1, <2>1, ShootingKept DEF Timing
  <1>4. CASE hw' = ApplyRest(hw, s)
    <2>1. /\ hw'.trig = hw.trig /\ hw'.it = hw.it /\ hw'.irq = hw.irq /\ hw'.run = hw.run
          /\ \/ hw'.exposing = hw.exposing /\ hw'.shots = hw.shots
             \/ s.fps > 0 /\ hw'.exposing = TRUE /\ Shot(hw, hw')
      BY <1>4, FlashTypes, SecondHalf
    <2>2. ASSUME sweep = "focus", ~disturbed' PROVE Undisturbed'
      <3>1. Undisturbed /\ frames.focus \in Nat
        BY <1>1, <2>2 DEF SweepInductive
      <3>2. ShotTaken
        BY <1>1, <2>1, <3>1 DEF ShotTaken, Shot, Undisturbed, Triggered, Stopped
      <3>3. Triggered'
        BY <1>1, <2>1, <3>1 DEF Undisturbed, Triggered, Stopped, SameRun
      <3> QED
        BY <1>1, <2>1, <3>1, <3>2, <3>3, UndisturbedKept DEF Undisturbed
    <2> QED
      BY <1>1, <2>1, <2>2, SweepKept
  <1> QED
    BY <1>2, <1>3, <1>4 DEF RunnerWakes

\* The ToF thread can bring back the frame rate zero, and only that stops a
\* sweep nobody disturbed.
LEMMA TofKeepsSweep ==
    ASSUME FlashInductive, SweepInductive, Tof
    PROVE  SweepInductive'
PROOF
  <1>1. UNCHANGED <<board, sweep, index, frames, focus, cams, disturbed>> /\ run # "sweep"
    BY DEF Tof, Measure, TofCopies, TofWrites, TofApplies, Refuse, TofRuns
  <1>2. CASE \E near \in BOOLEAN : Measure(near)
    BY <1>1, <1>2, RefuseKeepsSweep DEF Measure, Refuse, SameRun
  <1>3. CASE TofApplies
    BY <1>1, <1>3, FlashTypes, ApplyKeepsSweep DEF TofApplies
  <1>4. CASE TofCopies
    <2>1. s' = s /\ hw' = hw /\ tofCopy'.fps = s.fps /\ run' = run
      BY <1>4, FlashTypes DEF TofCopies, Refuse
    <2>2. ASSUME sweep = "focus", ~disturbed' PROVE Undisturbed'
      <3>1. Undisturbed /\ frames.focus \in Nat
        BY <1>1, <2>2 DEF SweepInductive
      <3>2. Triggered'
        BY <1>1, <2>1, <3>1 DEF Undisturbed, Triggered, Stopped
      <3> QED
        BY <1>1, <2>1, <3>1, <3>2, UndisturbedKept DEF ShotTaken, SameRun, Undisturbed
    <2> QED
      BY <1>1, <2>1, <2>2, SweepKept
  <1>5. CASE TofWrites
    <2>1. /\ s' = tofCopy /\ hw' = hw /\ tof = "write" /\ tof' = "apply" /\ tofCopy' = tofCopy
          /\ run' = run
      BY <1>5 DEF TofWrites
    <2>2. board = "pearl"
      BY <2>1, FlashTypes DEF Types, TooCloseIsDark, distance_is_safe
    <2>3. ASSUME sweep = "focus", ~disturbed' PROVE Undisturbed'
      <3>1. Undisturbed /\ frames.focus \in Nat
        BY <1>1, <2>3 DEF SweepInductive
      <3>2. Triggered'
        BY <1>1, <2>1, <3>1 DEF Undisturbed, Triggered, Stopped
      <3> QED
        BY <1>1, <2>1, <2>2, <3>1, <3>2, UndisturbedKept DEF ShotTaken, SameRun
    <2> QED
      BY <1>1, <2>1, <2>3, SweepKept
  <1> QED
    BY <1>2, <1>3, <1>4, <1>5 DEF Tof

\* A frame begins: only the running timer and the strobe begin one.
LEMMA UpdateKeepsSweep ==
    ASSUME SweepInductive,
           UNCHANGED <<board, s, sweep, index, frames, focus, cams, disturbed, tof, tofCopy, run>>,
           ~hw.exposing, hw.run \/ hw.irq,
           NEW h, DOMAIN h = HwFields, Shooting(h) = Shooting(hw), h.run = hw.run,
           hw' = UpdateEvent(h)
    PROVE  SweepInductive'
PROOF
  <1>1. /\ hw'.run = hw.run /\ hw'.trig = hw.trig /\ hw'.it = hw.it /\ hw'.irq = hw.irq
        /\ hw'.exposing = TRUE /\ Shot(h, hw')
    BY Updates DEF Shooting
  <1>2. ASSUME sweep = "focus", ~disturbed' PROVE Undisturbed'
    <2>1. Undisturbed /\ frames.focus \in Nat
      BY <1>2 DEF SweepInductive
    <2>2. "eye" \in hw.trig <=> run # "sweep"
      BY <2>1 DEF SweepInductive, Undisturbed, Triggered, Stopped
    <2>3. ShotTaken
      BY <1>1, <2>1, <2>2 DEF ShotTaken, Shot, Shooting, Undisturbed
    <2>4. Triggered'
      BY <1>1, <2>1, <2>2 DEF Undisturbed, Triggered
    <2> QED
      BY <1>1, <2>1, <2>3, <2>4, UndisturbedKept DEF Undisturbed, SameRun
  <1> QED
    BY <1>1, <1>2, SweepKept

\* When an exposure ends there is an entry for it.
LEMMA ShotsAtTheEnd ==
    ASSUME Undisturbed, frames.focus \in Nat, hw.exposing,
           NEW q, q = IF run = "sweep" /\ "eye" \notin hw.trig
                      THEN Append(hw.shots, NoFrame) ELSE hw.shots
    PROVE  /\ q \in Seq(Int) /\ Len(q) = index
           /\ \A i \in 1..index : q[i] \in {i - 1, NoFrame}
PROOF
  <1>1. index - 1 \in Nat /\ index - 1 + 1 = index
    BY DEF Undisturbed
  <1>2. CASE run = "sweep"
    <2>1. Shots(index - 1) /\ q = Append(hw.shots, NoFrame)
      BY <1>2 DEF Undisturbed, Taken, Triggered
    <2> QED
      BY <1>1, <2>1, OneMoreFrame DEF Shots
  <1>3. CASE run # "sweep"
    BY <1>3 DEF Undisturbed, Taken, Shots
  <1> QED
    BY <1>2, <1>3

\* The timer, the end of an exposure and the rising edge of the strobe.
LEMMA HardwareKeepsSweep ==
    ASSUME FlashInductive, SweepInductive,
           Frame \/ ExposureEnds \/ \E rem \in EdgeTimes : StrobeRises(rem)
    PROVE  SweepInductive'
PROOF
  <1>1. CASE Frame
    <2>1. UNCHANGED <<board, s, sweep, index, frames, focus, cams, disturbed, tof, tofCopy, run>>
      BY <1>1 DEF Frame, Kept
    <2>2. CASE hw' = [hw EXCEPT !.over = FALSE]
      <3>1. Shooting(hw') = Shooting(hw) /\ hw'.run = hw.run
        BY <2>2, FlashTypes DEF HwFields, Shooting
      <3> QED
        BY <2>1, <3>1, ShootingKept DEF SameRun
    <2>3. CASE hw' = UpdateEvent(hw)
      BY <1>1, <2>1, <2>3, FlashTypes, UpdateKeepsSweep DEF Frame
    <2> QED
      BY <1>1, <2>2, <2>3 DEF Frame
  <1>2. ASSUME NEW rem \in EdgeTimes, StrobeRises(rem) PROVE SweepInductive'
    <2>1. UNCHANGED <<board, s, sweep, index, frames, focus, cams, disturbed, tof, tofCopy, run>>
      BY <1>2 DEF StrobeRises, Kept
    <2>2. CASE rem + s.on > MaxOn
      <3>1. hw' = [hw EXCEPT !.over = rem < MaxOn, !.pulse = MaxOn, !.long = TRUE]
        BY <1>2, <2>2 DEF StrobeRises
      <3>2. Shooting(hw') = Shooting(hw) /\ hw'.run = hw.run
        BY <3>1, FlashTypes DEF HwFields, Shooting
      <3> QED
        BY <2>1, <3>2, ShootingKept DEF SameRun
    <2>3. CASE ~(rem + s.on > MaxOn)
      <3> DEFINE h == [hw EXCEPT !.pulse = rem + s.on, !.long = TRUE]
      <3>1. DOMAIN h = HwFields /\ Shooting(h) = Shooting(hw) /\ h.run = hw.run
        BY FlashTypes DEF HwFields, Shooting
      <3>2. hw' = UpdateEvent(h) /\ hw.irq /\ ~hw.exposing
        BY <1>2, <2>3 DEF StrobeRises
      <3> HIDE DEF h
      <3> QED
        BY <2>1, <3>1, <3>2, UpdateKeepsSweep
    <2> QED
      BY <2>2, <2>3
  <1>3. CASE ExposureEnds
    <2> DEFINE e == Exposed
    <2>1. UNCHANGED <<board, s, frames, disturbed, tof, tofCopy, run>> /\ hw.exposing
      BY <1>3 DEF ExposureEnds, Kept
    <2>5. /\ DOMAIN e = HwFields /\ e.it = hw.it /\ e.irq = hw.irq /\ e.exposing = FALSE
          /\ e.trig = hw.trig /\ e.run = hw.run
          /\ e.shots = IF hw.it /\ run = "sweep" /\ "eye" \notin hw.trig
                       THEN Append(hw.shots, NoFrame) ELSE hw.shots
      BY FlashTypes DEF Exposed, HwFields
    <2> HIDE DEF e
    <2>2. CASE ~hw.it
      <3>1. sweep = "none" /\ sweep' = sweep /\ hw' = e
        BY <1>3, <2>2 DEF ExposureEnds, SweepInductive, e
      <3> QED
        BY <2>1, <2>5, <3>1, SweepKept
    <2>3. CASE hw.it /\ SweepDone
      <3>1. sweep' = "none" /\ hw' = [e EXCEPT !.it = FALSE, !.trig = @ \ {"eye"}]
        BY <1>3, <2>3 DEF ExposureEnds, e
      <3>2. hw'.it = FALSE /\ hw'.irq = hw.irq
        BY <2>5, <3>1 DEF HwFields
      <3> QED
        BY <2>1, <3>1, <3>2 DEF SweepInductive
    <2>4. CASE hw.it /\ ~SweepDone
      <3>1. /\ index' = index + 1 /\ UNCHANGED <<sweep, cams>>
            /\ hw' = e
            /\ focus' = IF sweep = "focus" THEN index ELSE focus
        BY <1>3, <2>4 DEF ExposureEnds, e
      <3>3. ASSUME sweep = "focus", ~disturbed' PROVE Undisturbed'
        <4>1. Undisturbed /\ frames.focus \in Nat
          BY <2>1, <3>3 DEF SweepInductive
        <4>2. index' \in 1..frames'.focus /\ focus' = index' - 1
          BY <2>1, <2>4, <3>1, <3>3, <4>1 DEF SweepDone, Undisturbed
        <4>3. Taken' = index
          BY <2>1, <2>5, <3>1, <4>1 DEF Taken, Undisturbed
        <4>4. Shots(Taken)'
          BY <2>1, <2>4, <2>5, <3>1, <4>1, <4>3, ShotsAtTheEnd DEF Shots
        <4>5. Triggered'
          BY <2>1, <2>5, <3>1, <4>1 DEF Undisturbed, Triggered, Stopped
        <4> QED
          BY <2>1, <2>5, <3>1, <4>1, <4>2, <4>4, <4>5 DEF Undisturbed
      <3> QED
        BY <2>1, <2>5, <3>1, <3>3, SweepKept
    <2> QED
      BY <2>2, <2>3, <2>4
  <1> QED
    BY <1>1, <1>2, <1>3

\* The falling edge of the strobe triggers the eye camera as before.
LEMMA StrobeKeepsSweep ==
    ASSUME FlashInductive, SweepInductive, StrobeApplies, hw.irq
    PROVE  SweepInductive'
PROOF
  <1> DEFINE o == Overridden(s)
             h == IF s.fps > 0 THEN [hw EXCEPT !.pre = s.fps, !.over = FALSE]
                               ELSE [hw EXCEPT !.run = FALSE]
             a == ir_leds_set_pulse_length(h, o, wave)
             b == camera_enable_trigger(a, o, {"eye", "tof"}, cams)
             c == ir_leds_enable_pulse(b, o, wave)
  <1>1. /\ s' = o /\ hw' = c
        /\ UNCHANGED <<board, sweep, index, frames, focus, cams, disturbed, tof, tofCopy, run>>
    BY DEF StrobeApplies, Kept
  <1>2. DOMAIN h = HwFields /\ Shooting(h) = Shooting(hw)
    BY FlashTypes DEF HwFields, Shooting
  <1>3. Relit(h, a, o, wave) /\ Shooting(a) = Shooting(h)
    BY <1>2, PulseLength
  <1>4. DOMAIN a = HwFields
    BY <1>3 DEF Relit
  <1> HIDE DEF h, a
  <1>5. /\ DOMAIN b = HwFields /\ EyeTrigger(a, b, o, {"eye", "tof"}, cams)
        /\ b.it = a.it /\ b.irq = a.irq /\ b.exposing = a.exposing
    BY <1>4, EnableTrigger
  <1> HIDE DEF b
  <1>6. Shooting(c) = Shooting(b)
    BY <1>5, EnablePulse
  <1>7. o.fps = s.fps /\ s.fps \in Nat
    BY Override, FlashTypes
  <1> HIDE DEF c, o
  <1>8. hw'.it = hw.it /\ hw'.irq = hw.irq /\ hw'.exposing = hw.exposing
    BY <1>1, <1>2, <1>3, <1>5, <1>6 DEF Shooting
  <1>9. ASSUME sweep = "focus", ~disturbed' PROVE Undisturbed'
    <2>1. Undisturbed /\ frames.focus \in Nat
      BY <1>1, <1>9 DEF SweepInductive
    <2>2. /\ board = "diamond" /\ s.fps > 0
          /\ IF run = "sweep" THEN "eye" \notin hw.trig /\ "eye" \notin cams
             ELSE "eye" \in hw.trig /\ "eye" \in cams
      BY <1>1, <1>7, <2>1 DEF SweepInductive, Undisturbed, Triggered, Stopped
    <2>3. ("eye" \in hw'.trig <=> "eye" \in hw.trig) /\ hw'.shots = hw.shots
      BY <1>1, <1>2, <1>3, <1>5, <1>6, <1>7, <2>2 DEF Shooting, EyeTrigger
    <2>4. Triggered'
      BY <1>1, <1>7, <2>2, <2>3 DEF Triggered
    <2> QED
      BY <1>1, <1>7, <1>8, <2>1, <2>2, <2>3, <2>4, UndisturbedKept DEF ShotTaken, SameRun
  <1> QED
    BY <1>1, <1>8, <1>9, SweepKept

\* The automatic switch-off leaves the cameras to a focus sweep.
LEMMA AutoOffKeepsSweep ==
    ASSUME FlashInductive, SweepInductive, AutoOff
    PROVE  SweepInductive'
PROOF
  <1> DEFINE o == IF wave = "none" THEN s ELSE Overridden(s)
             a == ir_leds_set_pulse_length(hw, o, "none")
             h1 == IF wave = "none" THEN hw ELSE ir_leds_enable_pulse(a, o, "none")
             h2 == camera_enable_trigger(h1, o, {"eye", "tof"}, {})
             h3 == camera_enable_trigger(h2, o, {"face"}, {})
  <1>1. /\ s' = o /\ (sweep = "focus" => hw' = h1 /\ cams' = cams)
        /\ hw' \in {h1, [h2 EXCEPT !.irq = FALSE], h3}
        /\ UNCHANGED <<board, sweep, index, frames, focus, disturbed, tof, tofCopy, run>>
    BY DEF AutoOff
  <1>2. DOMAIN h1 = HwFields /\ Timing(h1) = Timing(hw) /\ Shooting(h1) = Shooting(hw)
    <2>1. CASE wave = "none"
      BY <2>1, FlashTypes
    <2>2. CASE wave # "none"
      <3>1. Relit(hw, a, o, "none") /\ Timing(a) = Timing(hw) /\ Shooting(a) = Shooting(hw)
        BY FlashTypes, PulseLength
      <3>2. DOMAIN a = HwFields
        BY <3>1 DEF Relit
      <3>3. h1 = ir_leds_enable_pulse(a, o, "none")
        BY <2>2
      <3> HIDE DEF a, h1
      <3>4. DOMAIN h1 = HwFields /\ Timing(h1) = Timing(a) /\ Shooting(h1) = Shooting(a)
        BY <3>2, <3>3, EnablePulse
      <3> QED
        BY <3>1, <3>4
    <2> QED
      BY <2>1, <2>2
  <1> HIDE DEF h1
  <1>3. CASE sweep = "focus"
    <2>1. o.fps = s.fps
      BY Override, FlashTypes
    <2> HIDE DEF o
    <2>2. hw'.run = hw.run /\ Shooting(hw') = Shooting(hw) /\ s'.fps = s.fps
      BY <1>1, <1>2, <1>3, <2>1 DEF Timing
    <2> QED
      BY <1>1, <1>3, <2>2, ShootingKept DEF SameRun
  <1>4. CASE sweep # "focus"
    <2>1. DOMAIN h2 = HwFields /\ h2.it = h1.it /\ h2.irq = h1.irq
      BY <1>2, EnableTrigger
    <2> HIDE DEF h2
    <2>2. h3.it = h2.it /\ h3.irq = h2.irq
      BY <2>1, EnableTrigger
    <2> HIDE DEF h3
    <2>3. h1.it = hw.it /\ h1.irq = hw.irq
      BY <1>2 DEF Shooting
    <2>4. hw'.it = hw.it /\ (hw'.irq => hw.irq)
      <3>1. CASE hw' = [h2 EXCEPT !.irq = FALSE]
        <4>1. hw'.irq = FALSE /\ hw'.it = h2.it
          BY <2>1, <3>1 DEF HwFields
        <4> QED
          BY <4>1, <2>1, <2>3
      <3>2. CASE hw' = h1 \/ hw' = h3
        BY <2>1, <2>2, <2>3, <3>2
      <3> QED
        BY <1>1, <3>1, <3>2
    <2> QED
      BY <1>1, <1>4, <2>4, SweepKept
  <1> QED
    BY <1>3, <1>4

\* A focus sweep that ends undisturbed has counted exactly the exposures it was
\* asked for, and each was a frame at its own value in order, except those that
\* ended before the trigger was on; whatever the strobe, the ToF thread, the
\* automatic switch-off and the requests that it allows do in the meantime.
THEOREM SweepIsComplete == Spec => FocusSweepIsComplete
PROOF
  <1> DEFINE Inv == FlashInductive /\ SweepInductive
             Ends == sweep = "focus" /\ sweep' = "none" /\ ~disturbed'
             Complete ==
                Ends => /\ Len(hw'.shots) = frames.focus
                        /\ \A i \in 1..frames.focus : hw'.shots[i] \in {i - 1, NoFrame}
  <1>1. Init => SweepInductive
    BY InitBoots, FlashStarts
  <1>2. Inv /\ [Next]_vars => SweepInductive'
    <2> SUFFICES ASSUME FlashInductive, SweepInductive, [Next]_vars PROVE SweepInductive'
      OBVIOUS
    <2>1. CASE Requests
      BY <2>1, SettingsKeepSweep, CamerasKeepSweep, SweepRequestsKeep DEF Requests
    <2>2. CASE RunnerWakes \/ SweepTriggers \/ Tof \/ AutoOff \/ LensSelfTest
      BY <2>2, WakesKeepsSweep, SweepTriggersKeepsSweep, TofKeepsSweep, AutoOffKeepsSweep,
         CamerasKeepSweep
    <2>3. CASE Frame \/ ExposureEnds \/ \E rem \in EdgeTimes : StrobeRises(rem)
      BY <2>3, HardwareKeepsSweep
    <2>4. CASE StrobeFalls
      BY <2>4, StrobeKeepsSweep, RestartBoots, BootedAfter DEF StrobeFalls
    <2>5. CASE SafetyTrips \/ UNCHANGED vars
      BY <2>5, RefuseKeepsSweep DEF SafetyTrips, Refuse, vars, SameRun
    <2> QED
      BY <2>1, <2>2, <2>3, <2>4, <2>5 DEF Next, Strobe
  <1>3. Inv /\ [Next]_vars => [Complete]_vars
    <2> SUFFICES ASSUME FlashInductive, SweepInductive, Next, Ends
                 PROVE  /\ Len(hw'.shots) = frames.focus
                        /\ \A i \in 1..frames.focus : hw'.shots[i] \in {i - 1, NoFrame}
      OBVIOUS
    <2>1. ExposureEnds
      <3>1. ~Requests
        BY DEF Requests, EnableLeds, SetFps, SetOnTime, EnableCamera, DisableCamera,
           PerformSweep, SetSweepValues, SetLens, Refuse
      <3>2. ~(RunnerWakes \/ SweepTriggers \/ LensSelfTest \/ Tof \/ Frame)
        BY DEF RunnerWakes, SweepTriggers, LensSelfTest, Tof, Measure, TofCopies, TofWrites,
           TofApplies, Frame, Refuse
      <3>3. ~(Strobe \/ AutoOff \/ SafetyTrips)
        BY DEF Strobe, StrobeFalls, StrobeApplies, Restart, StrobeRises, AutoOff, SafetyTrips, Refuse
      <3> QED
        BY <3>1, <3>2, <3>3 DEF Next
    <2>2. disturbed' = disturbed /\ Undisturbed /\ frames.focus \in Nat /\ hw.exposing /\ hw.it
      BY <2>1 DEF SweepInductive, Undisturbed, ExposureEnds
    <2>3. index = frames.focus
      BY <2>1, <2>2 DEF ExposureEnds, SweepDone
    <2>4. hw'.shots = IF run = "sweep" /\ "eye" \notin hw.trig
                      THEN Append(hw.shots, NoFrame) ELSE hw.shots
      BY <2>1, <2>2, FlashTypes DEF ExposureEnds, Exposed, HwFields
    <2> QED
      BY <2>2, <2>3, <2>4, ShotsAtTheEnd
  <1>4. Spec => []SweepInductive
    BY <1>1, <1>2, FlashInvariant, PTL DEF Spec
  <1>5. Spec => [][Complete]_vars
    BY <1>3, <1>4, FlashInvariant, PTL DEF Spec
  <1> QED
    BY <1>5, PTL DEF FocusSweepIsComplete
=============================================================================
