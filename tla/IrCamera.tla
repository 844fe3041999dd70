------------------------------ MODULE IrCamera ------------------------------
(***************************************************************************)
(* The IR camera system of the main board: ir_camera_system.c (the checks),*)
(* ir_camera_system_hw.c (the chain of timers), ir_camera_timer_settings.c,*)
(* the eye-safety side of tof_1d.c and optics.c, and the liquid lens the   *)
(* focus sweep drives.                                                     *)
(*                                                                         *)
(* The master timer fires once per frame; its update event starts two      *)
(* one-pulse timers, one for the IR LEDs and one for the camera triggers.  *)
(* Four actors share that hardware:                                        *)
(*   - the runner thread, which executes the Jetson's requests one by one  *)
(*     and can sleep inside a critical section (k_msleep releases it),     *)
(*   - the 1D ToF thread (Pearl), of lower priority, which switches the    *)
(*     LEDs off when somebody is too close,                                *)
(*   - interrupts: the end of an exposure, which drives a sweep, and the   *)
(*     strobe of the RGB/IR face camera (Diamond),                         *)
(*   - the 60 s automatic switch-off, a timer callback.                    *)
(* A request of the runner is one step, except where the code sleeps and   *)
(* between the two halves of the start of a sweep. The                     *)
(* ToF thread can be preempted between the copy, the write and the         *)
(* application of the settings, which are three steps. Times are in        *)
(* microseconds, timer ticks are not modelled: the period stands for ARR.  *)
(***************************************************************************)
EXTENDS Integers, Sequences, FiniteSets

CONSTANTS Boards,       \* subset of {"pearl", "diamond"}
          Waves,        \* the wavelengths the Jetson asks for
          OnTimes,      \* the on-times it asks for (32 bits on the wire)
          FpsValues,    \* the frame rates it asks for
          FrameCounts,  \* the lengths of the sweeps it asks for
          Edges,        \* time left in the period at a rising strobe edge
          MaxRequests   \* bound: the number of requests

ASSUME IrAssumption ==
    /\ Boards \subseteq {"pearl", "diamond"}
    /\ OnTimes \cup FpsValues \cup FrameCounts \cup Edges \subseteq Nat
    /\ MaxRequests \in Nat

VARIABLES
    board,      \* the build: CONFIG_BOARD_PEARL_MAIN or _DIAMOND_MAIN
    ready,      \* ir_camera_system_initialized
    s,          \* global_timer_settings: fps and on_time_in_us
    old,        \* old_timer_settings.master_arr, as a frame rate
    wave,       \* enabled_led_wavelength
    cams,       \* the enabled_*_camera flags that are set
    hw,         \* the timers, the pins and the exposures they give
    armed,      \* auto_off_timer is running
    sweep,      \* focus_ / mirror_sweep_in_progress, or "none"
    index,      \* sweep_index
    frames,     \* global_num_focus_values and the mirror's number_of_frames
    focus,      \* target_current_ma of the lens: the sweep value it holds
    lensOn,     \* liquid_lens_enabled
    disturbed,  \* the current focus sweep met what FocusSweepIsComplete excepts
    tripped,    \* the safety circuit has cut PVCC
    close,      \* too_close_counter
    tof, tofCopy, \* where the 1D ToF thread is, and its copy of the settings
    run,        \* where the runner sleeps or is in a sweep's start, or "idle"
    left        \* requests left

vars == <<board, ready, s, old, wave, cams, hw, armed, sweep, index, frames,
          focus, lensOn, disturbed, tripped, close, tof, tofCopy, run, left>>

MaxFps == 60
MaxOn == IF board = "pearl" THEN 5000 ELSE 7500
DutyPercent == IF board = "pearl" THEN 15 ELSE 25
TooClose == 3
TriggerDelay == IF board = "pearl" THEN 1 ELSE 51
StrobeMargin == 50
Commanded == -1       \* a lens current that is not one of the sweep's
NoFrame == -2         \* an exposure that ends before the eye camera's trigger is on

Period(fps) == 1000000 \div fps

(* The LED channels a wavelength switches on, and the ones a board lacks.  *)
Channels(w) ==
    CASE w = "850" -> {"850a", "850b"}
      [] w \in {"850_left", "850_center"} -> {"850a"}
      [] w \in {"850_right", "850_side"} -> {"850b"}
      [] w = "940" -> {"940a", "940b"} \cup
                      (IF board = "diamond" THEN {"940c"} ELSE {})
      [] w = "940_left" -> {"940a"}
      [] w = "940_right" -> {"940b"}
      [] w = "940_single" -> {"940c"}
      [] OTHER -> {}
Deprecated ==
    {"740"} \cup (IF board = "pearl"
                  THEN {"850_center", "850_side", "940_single"}
                  ELSE {"850_left", "850_right"})

(* What the set-up functions of the timers leave: every output channel is  *)
(* enabled, with a pulse of length zero; the master timer runs but is      *)
(* blocked by its period of zero.                                          *)
setup_master_timer == [run |-> ready, pre |-> 0, act |-> 0, over |-> FALSE]
setup_camera_triggers ==
    IF ready THEN {"eye", "tof"} \cup (IF board = "pearl" THEN {"face"} ELSE {}) ELSE {}
setup_850nm_led_timer == IF ready THEN Channels("850") ELSE {}
setup_940nm_led_timer == IF ready THEN Channels("940") ELSE {}
ir_camera_system_hw_init ==
    LET master == setup_master_timer
    IN [run |-> master.run, pre |-> master.pre, act |-> master.act, over |-> master.over,
        leds |-> setup_850nm_led_timer \cup setup_940nm_led_timer, pulse |-> 0, long |-> FALSE,
        trig |-> setup_camera_triggers, pvcc |-> FALSE, irq |-> FALSE, it |-> FALSE,
        exposing |-> FALSE, shots |-> <<>>]

Init ==
    /\ board \in Boards
    /\ ready \in BOOLEAN
    /\ s = [fps |-> 0, on |-> 0] /\ old = 0
    /\ wave = "none" /\ cams = {}
    /\ hw = ir_camera_system_hw_init
    /\ armed = FALSE /\ sweep = "none" /\ index = 0
    /\ frames = [focus |-> 0, mirror |-> 0]
    /\ focus = Commanded /\ lensOn = FALSE /\ disturbed = FALSE
    /\ tripped = FALSE /\ close = 0
    /\ tof = "idle" /\ tofCopy = s
    /\ run = "idle" /\ left = MaxRequests

-----------------------------------------------------------------------------
(* The settings: timer_settings_from_on_time_us and timer_settings_from_fps*)

DutyOk(fps, on) == on * fps * 100 <= DutyPercent * 1000000

OnTimeAccepted(on) == on <= MaxOn /\ (s.fps # 0 => DutyOk(s.fps, on))
\* Mutant: the on-time in force is not weighed against the new frame rate
UnweighedFps(fps) == fps <= MaxFps
FpsAccepted(fps) ==
    /\ fps <= MaxFps
    /\ (fps # 0 /\ s.on # 0) => (DutyOk(fps, s.on) /\ s.on <= MaxOn)

(* What is left of the period when the master timer starts, after a falling*)
(* edge of the strobe, so that the pulse ends with the next strobe.        *)
StrobeDelay(st) == Period(st.fps) - st.on - StrobeMargin

-----------------------------------------------------------------------------
(* The hardware, as functions from its state and the settings to its state *)

distance_is_safe == board = "diamond" \/ close < TooClose

\* Mutant: the distance does not override the Jetson's on-time
Obedient(st) == st

(* ir_leds_set_pulse_length overrides the on-time before it uses it.       *)
Overridden(st) == IF distance_is_safe THEN st ELSE [st EXCEPT !.on = 0]

ir_leds_set_pulse_length(h, st, w) ==
    [h EXCEPT !.leds = {},
              !.pulse = IF st.on # 0 THEN st.on + TriggerDelay ELSE @,
              !.long = IF st.on # 0 THEN FALSE ELSE @,
              !.pvcc = (st.on > 0 /\ st.fps > 0) /\ (w # "none" \/ @)]

(* The caller sleeps 1 ms when the converter changes to high demand.       *)
Settles(h, st, w) == st.on > 0 /\ st.fps > 0 /\ w # "none" /\ ~h.pvcc

(* Channels are switched on only if the on-time is still not zero.         *)
ir_leds_enable_pulse(h, st, w) ==
    IF st.on = 0 THEN h
    ELSE [h EXCEPT !.leds = @ \cup (IF w \in Deprecated THEN {} ELSE Channels(w))]

(* camera_enable_trigger, for the cameras cs of which the ones in on are   *)
(* enabled. Enabling the eye in the middle of a pulse exposes it at once.  *)
camera_enable_trigger(h, st, cs, on) ==
    LET t == IF st.fps > 0 THEN (h.trig \ cs) \cup (cs \cap on) ELSE h.trig \ cs
    IN [h EXCEPT !.trig = t,
                 !.shots = IF h.exposing /\ h.it /\ "eye" \in t \ h.trig
                           THEN Append(@, focus) ELSE @]

(* The update event of the master timer: the preloaded period is taken and *)
(* the slave timers start; the eye camera takes a frame of a sweep.        *)
UpdateEvent(h) ==
    [h EXCEPT !.act = h.pre, !.over = FALSE, !.exposing = TRUE,
              !.shots = IF h.it /\ "eye" \in h.trig /\ ~h.exposing
                        THEN Append(@, focus) ELSE @]

FaceDriven == board = "diamond" /\ "face" \in cams

ApplyFirst(h, st) ==
    ir_leds_set_pulse_length(
        camera_enable_trigger(
            [h EXCEPT !.run = st.fps > 0, !.pre = st.fps],
            st, IF board = "pearl" THEN {"eye", "face", "tof"}
                ELSE IF FaceDriven THEN {"tof"} ELSE {"eye", "tof"}, cams),
        Overridden(st), wave)

ApplyRest(h, st) ==
    LET lit == IF FaceDriven THEN h ELSE ir_leds_enable_pulse(h, st, wave)
    IN IF ~FaceDriven /\ old = 0 /\ st.fps > 0 THEN UpdateEvent(lit) ELSE lit

(* apply_new_timer_settings, by a caller that goes to the step "slept" of  *)
(* the runner if it has to wait for the converter.                         *)
apply_new_timer_settings(st) ==
    /\ s' = Overridden(st)
    /\ IF Settles(hw, s', wave)
       THEN hw' = ApplyFirst(hw, st) /\ run' = "apply" /\ UNCHANGED old
       ELSE hw' = ApplyRest(ApplyFirst(hw, st), s') /\ old' = st.fps /\ UNCHANGED run

ir_leds_are_on(st, w) == w \notin {"none", "740"} /\ st.fps > 0 /\ st.on > 0

\* Mutant: cameras without LEDs do not start the timer
LedTimeout(st, w, cs) == armed' = ir_leds_are_on(st, w)

configure_timeout(st, w, cs) ==
    armed' = (ir_leds_are_on(st, w) \/ cs \cap {"eye", "face", "tof"} # {})

-----------------------------------------------------------------------------
(* ir_camera_system_get_status. The lock of the I2C bus is tried without   *)
(* waiting: when it is taken the state of PVCC is not seen.                *)
Status(seen) ==
    IF ~ready THEN "NOT_INITIALIZED"
    ELSE IF tripped /\ seen THEN "FORBIDDEN"
    ELSE IF sweep # "none" THEN "BUSY" ELSE "SUCCESS"

Request == run = "idle" /\ left > 0 /\ left' = left - 1
Refuse == UNCHANGED <<s, old, wave, cams, hw, armed, sweep, index, frames,
                      focus, lensOn, disturbed, run>>
Others == UNCHANGED <<board, ready, tripped, close, tof, tofCopy>>

(* ir_camera_system_enable_leds                                            *)
EnableLeds(w) ==
    /\ Request /\ Others
    /\ \E seen \in BOOLEAN :
        IF (w # "none" /\ Status(seen) # "SUCCESS") \/ w \in Deprecated \/ w = wave
        THEN Refuse
        ELSE /\ wave' = w
             /\ s' = Overridden(s)
             /\ IF Settles(hw, s', w)
                THEN /\ hw' = ir_leds_set_pulse_length(hw, s', w)
                     /\ run' = "leds" /\ UNCHANGED armed
                ELSE /\ hw' = ir_leds_enable_pulse(
                                  ir_leds_set_pulse_length(hw, s', w), s', w)
                     /\ configure_timeout(s', w, cams) /\ UNCHANGED run
             /\ UNCHANGED <<old, cams, sweep, index, frames, focus, lensOn, disturbed>>

(* ir_camera_system_set_fps and _set_on_time_us let through: zero at any    *)
(* time, the on-time during a sweep too.                                    *)
FpsAllowed(fps, seen) == fps <= MaxFps /\ (fps # 0 => Status(seen) = "SUCCESS")
OnTimeAllowed(on, seen) ==
    on <= MaxOn /\ (on # 0 => Status(seen) \in {"SUCCESS", "BUSY"})

(* ir_camera_system_set_fps_hw                                             *)
SetFps(fps) ==
    /\ Request /\ Others
    /\ \E seen \in BOOLEAN :
        IF ~FpsAllowed(fps, seen) THEN Refuse
        ELSE /\ IF FpsAccepted(fps) THEN apply_new_timer_settings([s EXCEPT !.fps = fps])
                ELSE UNCHANGED <<s, hw, run, old>>
             /\ IF run' = "apply" THEN UNCHANGED armed ELSE configure_timeout(s', wave, cams)
             /\ disturbed' = (disturbed \/ sweep = "focus")
             /\ UNCHANGED <<wave, cams, sweep, index, frames, focus, lensOn>>

(* ir_camera_system_set_on_time_us_hw. The request carries 32 bits and the *)
(* parameter has 16. Under the strobe of the face camera the new on-time is*)
(* left to the next falling edge.                                          *)
SetOnTime(wire) ==
    LET on == wire % 65536 IN
    /\ Request /\ Others
    /\ \E seen \in BOOLEAN :
        IF ~OnTimeAllowed(on, seen) THEN Refuse
        ELSE /\ IF ~OnTimeAccepted(on) THEN UNCHANGED <<s, hw, run, old>>
                ELSE IF FaceDriven THEN s' = [s EXCEPT !.on = on] /\ UNCHANGED <<hw, run, old>>
                ELSE apply_new_timer_settings([s EXCEPT !.on = on])
             /\ IF run' = "apply" \/ on = 0 THEN UNCHANGED armed
                ELSE configure_timeout(s', wave, cams)
             /\ UNCHANGED <<wave, cams, sweep, index, frames, focus, lensOn, disturbed>>

(* What enabling (on) or disabling camera c does to the hardware.          *)
CameraHw(h, c, on) ==
    IF c = "rgb" THEN h
    ELSE IF c = "face" /\ board = "diamond" THEN [h EXCEPT !.irq = on]
    ELSE camera_enable_trigger(h, s, {c}, IF on THEN {c} ELSE {})

(* The face camera of Diamond is started by a pulse of 1 ms.               *)
StartsFace(c) == board = "diamond" /\ c \in {"face", "rgb"}

(* ir_camera_system_enable_*_camera                                        *)
EnableCamera(c) ==
    /\ Request /\ Others
    /\ IF ~ready \/ sweep = "focus" THEN Refuse
       ELSE /\ cams' = cams \cup {c}
            /\ hw' = CameraHw(hw, c, TRUE)
            /\ run' = IF StartsFace(c) THEN (IF c = "face" THEN "face" ELSE "rgb") ELSE run
            /\ IF c = "rgb" \/ run' = "face" THEN UNCHANGED armed
               ELSE configure_timeout(s, wave, cams')
            /\ UNCHANGED <<s, old, wave, sweep, index, frames, focus, lensOn, disturbed>>

(* ir_camera_system_disable_*_camera                                       *)
DisableCamera(c) ==
    /\ Request /\ Others
    /\ IF ~ready \/ sweep = "focus" THEN Refuse
       ELSE /\ cams' = cams \ {c}
            /\ hw' = CameraHw(hw, c, FALSE)
            /\ IF c = "rgb" THEN UNCHANGED armed ELSE configure_timeout(s, wave, cams')
            /\ UNCHANGED <<s, old, wave, sweep, index, frames, focus, lensOn, disturbed, run>>

(* ir_camera_system_set_focus_values_ / set_polynomial_coefficients_       *)
SetSweepValues(kind, k) ==
    /\ Request /\ Others
    /\ IF sweep = kind THEN Refuse
       ELSE /\ frames' = [frames EXCEPT ![kind] = k]
            /\ UNCHANGED <<s, old, wave, cams, hw, armed, sweep, index, focus,
                           lensOn, disturbed, run>>

\* Mutant: the interrupt is not enabled
NoSweepInterrupt(h) == [h EXCEPT !.shots = <<>>]

(* The end of an exposure interrupts from here on.                         *)
initialize_sweep(h) == [h EXCEPT !.it = TRUE, !.shots = <<>>]

(* ir_camera_system_perform_focus_sweep and _mirror_sweep, up to where the *)
(* interrupt is enabled: the lens is set to the first focus value, the     *)
(* mirror stays where it is. The timers' set-up can have left the output   *)
(* of the eye camera on although that camera is disabled.                  *)
PerformSweep(kind) ==
    /\ Request /\ Others
    /\ \E seen \in BOOLEAN :
        IF Status(seen) # "SUCCESS" \/ s.fps = 0 \/ "eye" \in cams \/ frames[kind] = 0
        THEN Refuse
        ELSE /\ sweep' = kind
             /\ index' = IF kind = "focus" THEN 1 ELSE 0
             /\ focus' = IF kind = "focus" THEN 0 ELSE focus
             /\ disturbed' = (kind = "focus" /\ "eye" \in hw.trig)
             /\ hw' = initialize_sweep(hw)
             /\ run' = "sweep"
             /\ UNCHANGED <<s, old, wave, cams, armed, frames, lensOn>>

(* ir_camera_system_enable_ir_eye_camera_force, the other half: exposures  *)
(* may have ended since the interrupt is on, the whole sweep included.     *)
SweepTriggers ==
    /\ run = "sweep" /\ run' = "idle"
    /\ cams' = cams \cup {"eye"}
    /\ hw' = camera_enable_trigger(hw, s, {"eye"}, {"eye"})
    /\ configure_timeout(s, wave, cams')
    /\ UNCHANGED <<s, old, wave, sweep, index, frames, focus, lensOn, disturbed, left>>
    /\ Others

(* liquid_set_target_current_ma, then liquid_lens_enable or _disable: the  *)
(* latter runs the self-test, which sleeps while it holds two currents.    *)
LensCurrent == focus' = Commanded /\ disturbed' = (disturbed \/ sweep = "focus")
SetLens(enable) ==
    /\ Request /\ Others
    /\ LensCurrent
    /\ IF enable THEN lensOn' = TRUE /\ UNCHANGED run
       ELSE run' = (IF lensOn THEN "lens0" ELSE run) /\ UNCHANGED lensOn
    /\ UNCHANGED <<s, old, wave, cams, hw, armed, sweep, index, frames>>
LensSelfTest ==
    /\ \/ run = "lens0" /\ LensCurrent /\ run' = "lens50" /\ UNCHANGED lensOn
       \/ run = "lens50" /\ run' = "idle" /\ lensOn' = FALSE
          /\ UNCHANGED <<focus, disturbed>>
    /\ UNCHANGED <<s, old, wave, cams, hw, armed, sweep, index, frames, left>>
    /\ Others

(* The runner comes back from its sleep in apply_new_timer_settings, in    *)
(* ir_camera_system_enable_leds_hw or in camera_trigger_rgb_ir_face_cam.   *)
RunnerWakes ==
    /\ run \in {"apply", "leds", "face", "rgb"}
    /\ hw' = CASE run = "apply" -> ApplyRest(hw, s)
               [] run = "leds" -> ir_leds_enable_pulse(hw, s, wave)
               [] OTHER -> hw
    /\ old' = IF run = "apply" THEN s.fps ELSE old
    /\ IF run = "rgb" THEN UNCHANGED armed ELSE configure_timeout(s, wave, cams)
    /\ run' = "idle"
    /\ UNCHANGED <<s, wave, cams, sweep, index, frames, focus, lensOn, disturbed, left>>
    /\ Others

-----------------------------------------------------------------------------
(* The 1D ToF thread: a measurement moves the counter, and the crossing of *)
(* the threshold calls distance_is_unsafe_cb: on-time zero. It gets the    *)
(* processor from the runner only where that one sleeps or has nothing to  *)
(* do, not in the start of a sweep.                                        *)
TofRuns == run # "sweep"
Measure(near) ==
    /\ board = "pearl" /\ tof = "idle" /\ TofRuns
    /\ close' = IF near THEN (IF close < TooClose THEN close + 1 ELSE close)
                ELSE IF close > 0 THEN close - 1 ELSE close
    /\ close' # close
    /\ tof' = IF close' >= TooClose THEN "copy" ELSE "idle"
    /\ Refuse /\ UNCHANGED <<board, ready, tripped, tofCopy, left>>
TofCopies ==
    /\ TofRuns /\ tof = "copy" /\ tof' = "write"
    /\ tofCopy' = [s EXCEPT !.on = 0]
    /\ Refuse /\ UNCHANGED <<board, ready, tripped, close, left>>
TofWrites ==
    /\ TofRuns /\ tof = "write" /\ tof' = "apply"
    /\ s' = tofCopy
    /\ UNCHANGED <<board, ready, old, wave, cams, hw, armed, sweep, index, frames, focus,
                   lensOn, disturbed, tripped, close, tofCopy, run, left>>
TofApplies ==
    /\ TofRuns /\ tof = "apply" /\ tof' = "idle"
    /\ apply_new_timer_settings(s)
    /\ UNCHANGED <<board, ready, wave, cams, armed, sweep, index, frames, focus,
                   lensOn, disturbed, tripped, close, tofCopy, left>>

-----------------------------------------------------------------------------
(* Interrupts and the hardware                                             *)

Kept == UNCHANGED <<board, ready, old, wave, frames, lensOn, tripped, close,
                    tof, tofCopy, run, left>>

(* The master timer reaches its period; it is blocked while that is zero.  *)
(* A counter set past the period first runs through its 16 bits.           *)
Frame ==
    /\ hw.run /\ hw.act > 0 /\ ~hw.exposing
    /\ hw' = IF hw.over THEN [hw EXCEPT !.over = FALSE] ELSE UpdateEvent(hw)
    /\ UNCHANGED <<s, cams, armed, sweep, index, focus, disturbed>> /\ Kept

(* camera_exposure_completes_isr: the next value, or the end of the sweep, *)
(* whether the eye camera was exposed or its trigger was not on yet.       *)
\* Mutant: the sweep ends one exposure early
EarlySweepDone == index + 1 = frames[sweep]

SweepDone == index = frames[sweep]
Exposed == [hw EXCEPT !.exposing = FALSE,
                      !.shots = IF hw.it /\ run = "sweep" /\ "eye" \notin hw.trig
                                THEN Append(@, NoFrame) ELSE @]
ExposureEnds ==
    /\ hw.exposing
    /\ IF ~hw.it
       THEN /\ hw' = Exposed
            /\ UNCHANGED <<cams, armed, sweep, index, focus>>
       ELSE /\ index' = index + 1
            /\ IF SweepDone
               THEN /\ cams' = cams \ {"eye"}
                    /\ hw' = [Exposed EXCEPT !.it = FALSE, !.trig = @ \ {"eye"}]
                    /\ sweep' = "none"
                    /\ configure_timeout(s, wave, cams')
                    /\ UNCHANGED focus
               ELSE /\ hw' = Exposed
                    /\ focus' = IF sweep = "focus" THEN index ELSE focus
                    /\ UNCHANGED <<cams, armed, sweep>>
    /\ UNCHANGED <<s, disturbed>> /\ Kept

(* rgb_ir_strobe_isr, falling edge                                         *)
StrobeApplies ==
    /\ s' = Overridden(s)
    /\ LET h == IF s.fps > 0 THEN [hw EXCEPT !.pre = s.fps, !.over = FALSE]
                ELSE [hw EXCEPT !.run = FALSE]
       IN hw' = ir_leds_enable_pulse(
                    camera_enable_trigger(ir_leds_set_pulse_length(h, s', wave),
                                          s', {"eye", "tof"}, cams), s', wave)
    /\ UNCHANGED <<cams, armed, sweep, index, focus, disturbed>> /\ Kept

(* k_sys_fatal_error_handler: the firmware starts again; the eye-safety    *)
(* circuit keeps what it has cut.                                          *)
Restart ==
    /\ UNCHANGED <<board, tripped, left>> /\ ready' \in BOOLEAN
    /\ s' = [fps |-> 0, on |-> 0] /\ old' = 0
    /\ wave' = "none" /\ cams' = {}
    /\ hw' = (ir_camera_system_hw_init)'
    /\ armed' = FALSE /\ sweep' = "none" /\ index' = 0
    /\ frames' = [focus |-> 0, mirror |-> 0]
    /\ focus' = Commanded /\ lensOn' = FALSE /\ disturbed' = TRUE
    /\ close' = 0 /\ tof' = "idle" /\ tofCopy' = s' /\ run' = "idle"

(* When the converter has to change to high demand the interrupt calls     *)
(* k_msleep. With assertions (the debug build) that is a fatal error;      *)
(* without (the release build) the interrupt goes on at once, and the      *)
(* converter has no time to settle.                                        *)
StrobeFalls == hw.irq /\ (StrobeApplies \/ (Settles(hw, Overridden(s), wave) /\ Restart))

(* The time that can be left at a rising edge that is not ignored: what the*)
(* frozen counter shows if the period is zero, and 32 bits that wrap if no *)
(* frame rate is set.                                                      *)
EdgeTimes ==
    IF s.fps = 0 THEN {1000000}
    ELSE IF hw.act = 0 THEN {StrobeDelay(s)}
    ELSE {rem \in Edges : rem <= StrobeDelay(s)}

(* rgb_ir_strobe_isr, rising edge before the scheduled pulse. When the     *)
(* pulse is to be the longest one the counter is moved by what is left     *)
(* minus that length: past the period when less than that is left.         *)
StrobeRises(rem) ==
    /\ hw.irq /\ ~hw.exposing
    /\ hw' = IF rem + s.on > MaxOn
             THEN [hw EXCEPT !.over = rem < MaxOn, !.pulse = MaxOn, !.long = TRUE]
             ELSE UpdateEvent([hw EXCEPT !.pulse = rem + s.on, !.long = TRUE])
    /\ UNCHANGED <<s, cams, armed, sweep, index, focus, disturbed>> /\ Kept

(* ir_camera_system_timeout_disable: the LEDs, then each camera, unless a  *)
(* focus sweep makes that call busy.                                       *)
AutoOff ==
    /\ armed
    /\ LET s1 == IF wave = "none" THEN s ELSE Overridden(s)
           h1 == IF wave = "none" THEN hw
                 ELSE ir_leds_enable_pulse(ir_leds_set_pulse_length(hw, s1, "none"), s1, "none")
           busy == ~ready \/ sweep = "focus"
       IN /\ s' = s1
          /\ wave' = "none"
          /\ hw' = IF busy THEN h1
                   ELSE LET h2 == camera_enable_trigger(h1, s1, {"eye", "tof"}, {})
                        IN IF board = "diamond" THEN [h2 EXCEPT !.irq = FALSE]
                           ELSE camera_enable_trigger(h2, s1, {"face"}, {})
          /\ cams' = IF busy THEN cams ELSE cams \ {"eye", "face", "tof"}
          /\ IF busy /\ wave = "none" THEN armed' = FALSE
             ELSE configure_timeout(s1, "none", cams')
    /\ UNCHANGED <<board, ready, old, sweep, index, frames, focus, lensOn, disturbed,
                   tripped, close, tof, tofCopy, run, left>>

(* The eye-safety circuit cuts PVCC; only a power cycle brings it back.    *)
SafetyTrips ==
    /\ ~tripped /\ hw.leds # {} /\ hw.pulse > 0 /\ hw.run
    /\ tripped' = TRUE
    /\ Refuse /\ UNCHANGED <<board, ready, close, tof, tofCopy, left>>

-----------------------------------------------------------------------------
Requests ==
    \/ \E w \in Waves : EnableLeds(w)
    \/ \E f \in FpsValues : SetFps(f)
    \/ \E t \in OnTimes : SetOnTime(t)
    \/ \E c \in {"eye", "face", "tof", "rgb"} : EnableCamera(c) \/ DisableCamera(c)
    \/ \E kind \in {"focus", "mirror"} :
          PerformSweep(kind) \/ \E k \in FrameCounts : SetSweepValues(kind, k)
    \/ \E e \in BOOLEAN : SetLens(e)

Tof == (\E near \in BOOLEAN : Measure(near)) \/ TofCopies \/ TofWrites \/ TofApplies
Strobe == StrobeFalls \/ \E rem \in EdgeTimes : StrobeRises(rem)
Next == \/ Requests \/ RunnerWakes \/ SweepTriggers \/ LensSelfTest \/ Tof \/ Frame
        \/ ExposureEnds \/ Strobe \/ AutoOff \/ SafetyTrips

Spec == Init /\ [][Next]_vars

(* The threads are scheduled, a running timer fires, an exposure ends. The *)
(* Jetson, the person in front of the Orb and the strobe owe nothing.      *)
FairSpec ==
    /\ Spec
    /\ WF_vars(RunnerWakes) /\ WF_vars(SweepTriggers) /\ WF_vars(LensSelfTest)
    /\ WF_vars(Frame)
    /\ WF_vars(ExposureEnds) /\ WF_vars(AutoOff)
    /\ WF_vars(TofCopies \/ TofWrites \/ TofApplies)

-----------------------------------------------------------------------------
(* The LEDs flash with every frame.                                        *)
Lit == hw.leds # {} /\ hw.pulse > 0 /\ hw.run /\ hw.act > 0

(* With somebody closer than allowed for three measurements, and the 1D    *)
(* ToF thread done with the callback, no LED flashes, whatever the runner  *)
(* was doing or does: distance_is_safe in ir_leds_set_pulse_length and the *)
(* second look at the on-time in ir_leds_enable_pulse.                     *)
LedsOffWhenTooClose == (~distance_is_safe /\ tof = "idle") => ~Lit

(* A flash is never longer than the maximum of the board and, unless the   *)
(* strobe prolongs it, never more than the duty cycle allows at the frame  *)
(* rate in force; and the converter is then in its high demand mode.       *)
FlashWithinLimits ==
    Lit => /\ hw.pulse - TriggerDelay <= MaxOn
           /\ ~hw.long => DutyOk(s.fps, hw.pulse - TriggerDelay)
           /\ hw.pvcc

(* A focus sweep that ends has counted exactly the exposures it was asked  *)
(* for, and each of them gave a frame at its own focus value, except those *)
(* that ended between the enabling of the interrupt and of the trigger.    *)
(* Excepted is a sweep during which a request was accepted that it         *)
(* excludes (a lens current, the frame rate zero), one that found the eye  *)
(* camera's output already on, and a restart.                              *)
FocusSweepIsComplete ==
    [][(sweep = "focus" /\ sweep' = "none" /\ ~disturbed')
       => /\ Len(hw'.shots) = frames.focus
          /\ \A i \in 1..frames.focus : hw'.shots[i] \in {i - 1, NoFrame}]_vars

(* A sweep ends, unless the frame rate is set to zero, the face camera     *)
(* drives the timer or the timer never started.                            *)
Stalled == s.fps = 0 \/ hw.act = 0 \/ hw.irq
SweepEnds == (sweep # "none") ~> (sweep = "none" \/ Stalled)

(* Once the Jetson is silent everything is off within the timeout, unless  *)
(* a focus sweep is stalled.                                               *)
Dark == cams \cap {"eye", "face", "tof"} = {} /\ ~Lit
AutoOffWorks == (left = 0) ~> (Dark \/ (sweep = "focus" /\ Stalled))

=============================================================================
