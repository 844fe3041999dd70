------------------------------ MODULE Thermal -------------------------------
(***************************************************************************)
(* Temperatures and fans of the main board: sensors/temperature.c, fan.c,  *)
(* and the two requests of the runner that reach them.                     *)
(*                                                                         *)
(* The temperature thread (priority 8) reads every sensor, averages        *)
(* SAMPLE_COUNT readings and calls overtemp_callback with each average:    *)
(* above the threshold of a sensor the fans run at full speed, and a       *)
(* sensor that stays critical resets the Orb. The runner (priority 6) sets *)
(* the speed and the period: it preempts the temperature thread anywhere   *)
(* and is never preempted by it. fan_turn_off comes from the reboot thread *)
(* and the system work queue, which preempt both.                          *)
(*                                                                         *)
(* Temperatures are small integers around a threshold at OVERTEMP_C; times *)
(* are in units of the shortest sampling period.                           *)
(***************************************************************************)
EXTENDS Integers, Sequences, FiniteSets, FiniteSetsExt, SequencesExt, TLC

CONSTANTS SensorOrder,     \* sensors_and_channels: the sensors, in their order
          Watched,         \* the sensors with cb = overtemp_callback
          FrontUnit,       \* the sensors fu_avg_sensors averages (Diamond)
          Temps,           \* the temperatures a sensor may give
          MIN_C, MAX_C,    \* the range a first sample must lie in
          OUTLIER_C,       \* the distance to the average that makes an outlier
          OVERTEMP_C,      \* overtemp_c
          OVERTEMP_TO_NOMINAL_DROP_C,
          OVERTEMP_TO_CRITICAL_RISE_C,
          CRITICAL_TO_SHUTDOWN_DELAY,
          SAMPLE_COUNT,    \* TEMPERATURE_AVERAGE_SAMPLE_COUNT
          Periods,         \* the sampling periods the Jetson asks for
          Speeds,          \* the fan speeds it asks for
          MAX_SPEED,       \* UINT16_MAX
          INITIAL_SPEED    \* FAN_INITIAL_SPEED_PERCENT

Sensors == ToSet(SensorOrder)
Virtual == "fu_avg_sensors"
All == Sensors \cup (IF FrontUnit = {} THEN {} ELSE {Virtual})
Answering == Watched \cup (All \ Sensors)
Sentinel == -1000
Failed == -2000
NoSensor == "none"

ASSUME ThermalAssumption ==
    /\ Watched \subseteq Sensors /\ FrontUnit \subseteq Sensors
    /\ Temps \subseteq Int
    /\ {OVERTEMP_TO_NOMINAL_DROP_C, OVERTEMP_TO_CRITICAL_RISE_C} \subseteq Nat
    /\ CRITICAL_TO_SHUTDOWN_DELAY \in Nat
    /\ SAMPLE_COUNT \in Nat \ {0}
    /\ Periods # {}
    /\ \A p \in Periods : p \in Nat \ {0} /\ p % SAMPLE_COUNT = 0
    /\ MAX_SPEED \in Nat \ {0}
    /\ Speeds \subseteq 0..MAX_SPEED /\ INITIAL_SPEED \in 1..MAX_SPEED

VARIABLES
    history,    \* the samples taken since wr_idx was last 0
    average,    \* the last average, or Sentinel
    hot,        \* the sensors whose in_overtemp is set
    timer,      \* critical_timer of each sensor
    since,      \* the time since last_system_time, which all sensors share
    period,     \* global_sample_period * SAMPLE_COUNT
    count,      \* num_sensors_in_overtemp_conditions
    before,     \* fan_speed_before_overtemperature
    thread,     \* where the temperature thread is and the sensors left to do
    runner,     \* where the runner is in a fan request
    fan,        \* duty: the PWM; setting: fan_speed_by_value; on: the enable pin
    off,        \* fan_is_off
    reset,      \* the sensor that made overtemp_callback reset the Orb
    streak,     \* critical averages in a row (for the properties only)
    asked,      \* the last fan speed the runner acknowledged
    raced       \* the runner set the fan while the thread was restoring it

vars == <<history, average, hot, timer, since, period, count, before, thread,
          runner, fan, off, reset, streak, asked, raced>>

sensorVars == <<history, average, hot, timer, since, streak, count, before>>
fanVars == <<fan, off, asked, raced>>

Idle == [at |-> "idle", value |-> 0]
Asleep == [at |-> "asleep", left |-> <<>>, value |-> 0]
MinPeriod == Min(Periods)

\* temperature_init and fan_init, after a power-up or a reset.
Init ==
    /\ history = [s \in All |-> <<>>]
    /\ average = [s \in All |-> Sentinel]
    /\ hot = {} /\ count = 0 /\ before = 0
    /\ timer = [s \in All |-> 0] /\ streak = [s \in All |-> 0]
    /\ since = 0 /\ period = MinPeriod
    /\ thread = Asleep /\ runner = Idle
    /\ fan = [duty |-> INITIAL_SPEED, setting |-> INITIAL_SPEED, on |-> TRUE]
    /\ off = FALSE /\ reset = NoSensor
    /\ asked = INITIAL_SPEED /\ raced = FALSE

Restart ==
    /\ off \/ reset # NoSensor
    /\ history' = [s \in All |-> <<>>]
    /\ average' = [s \in All |-> Sentinel]
    /\ hot' = {} /\ count' = 0 /\ before' = 0
    /\ timer' = [s \in All |-> 0] /\ streak' = [s \in All |-> 0]
    /\ since' = 0 /\ period' = MinPeriod
    /\ thread' = Asleep /\ runner' = Idle
    /\ fan' = [duty |-> INITIAL_SPEED, setting |-> INITIAL_SPEED, on |-> TRUE]
    /\ off' = FALSE /\ reset' = NoSensor
    /\ asked' = INITIAL_SPEED /\ raced' = FALSE

-----------------------------------------------------------------------------
(* fan.c. A thread that sets the speed is at "pwm", "setting", "test" or    *)
(* "pin" in fan_set_speed_by_value.                                         *)

\* compute_pulse_width_ns and pwm_set_dt: a speed of 0 leaves the PWM alone.
SetDuty(v) == IF v # 0 THEN [fan EXCEPT !.duty = v] ELSE fan
\* The enable pin is set when the fan is not off and the speed is not 0.
Enables(v) == ~off /\ v > 0

\* The next access of a thread that sets the speed, ...
FanStep(self) ==
    \/ self.at = "pwm" /\ fan' = SetDuty(self.value)
    \/ self.at = "setting" /\ fan' = [fan EXCEPT !.setting = self.value]
    \/ self.at = "test" /\ UNCHANGED fan
    \/ self.at \in {"pin_on", "pin_off"} /\ fan' = [fan EXCEPT !.on = self.at = "pin_on"]

\* ... and where it is after it: it goes on at return when it is done.
FanNext(self, return) ==
    CASE self.at = "pwm"     -> [self EXCEPT !.at = "setting"]
      [] self.at = "setting" -> [self EXCEPT !.at = "test"]
      [] self.at = "test"    -> [self EXCEPT !.at = IF Enables(self.value) THEN "pin_on"
                                                                            ELSE "pin_off"]
      [] OTHER               -> return

\* fan_turn_off, from the reboot thread before the reset and from a long
\* press of the button: the pin first, then the flag, in one preemption.
fan_turn_off ==
    /\ reset = NoSensor /\ ~off
    /\ fan' = [fan EXCEPT !.on = FALSE] /\ off' = TRUE
    /\ UNCHANGED <<sensorVars, period, thread, runner, reset, asked, raced>>

-----------------------------------------------------------------------------
(* The runner.                                                              *)

temperature_is_in_overtemp == count > 0

\* handle_fan_speed: refused in overtemperature, or out of range (not
\* modelled: it changes nothing); by value and by percentage alike.
handle_fan_speed(v) ==
    /\ runner = Idle /\ reset = NoSensor
    /\ ~temperature_is_in_overtemp
    /\ runner' = [at |-> "pwm", value |-> v]
    /\ asked' = v
    /\ raced' = (raced \/ thread.at \notin {"asleep", "suspended", "sample"})
    /\ UNCHANGED <<sensorVars, period, thread, fan, off, reset>>

RunnerSetsFan ==
    /\ reset = NoSensor
    /\ FanStep(runner) /\ runner' = FanNext(runner, Idle)
    /\ UNCHANGED <<sensorVars, period, thread, off, reset, asked, raced>>

\* temperature_set_sampling_period_ms: k_wakeup ends the sleep of the
\* thread, and also the suspension it can fall into (see Sleeps).
temperature_set_sampling_period_ms(p) ==
    /\ runner = Idle /\ reset = NoSensor
    /\ period' = p
    /\ thread' = IF thread.at \in {"asleep", "suspended"}
                 THEN [thread EXCEPT !.at = "sample", !.left = SensorOrder]
                 ELSE thread
    /\ UNCHANGED <<sensorVars, runner, fanVars, reset>>

-----------------------------------------------------------------------------
(* The temperature thread: it runs when the runner does not.                *)

Runs == runner = Idle /\ reset = NoSensor

\* k_sleep(global_sample_period - elapsed). The time since last_system_time
\* only counts while a critical timer runs, and is capped where it is enough.
Passes(t) == IF \A s \in All : timer[s] = 0 THEN 0
             ELSE IF since + t > CRITICAL_TO_SHUTDOWN_DELAY THEN CRITICAL_TO_SHUTDOWN_DELAY + 1
             ELSE since + t

Wakes ==
    /\ Runs /\ thread.at = "asleep"
    /\ since' = Passes(period \div SAMPLE_COUNT)
    /\ thread' = [thread EXCEPT !.at = "sample", !.left = SensorOrder]
    /\ UNCHANGED <<history, average, hot, timer, streak, count, before, period,
                   runner, fanVars, reset>>

\* get_ambient_temperature gives a temperature, or fails: not ready, the
\* mutex of the I2C multiplexer busy for 200 ms, a bus error.
\* sample_and_report_temperature tries five times: it ends with a sample
\* that is accepted, or with none.
Accepted(s, c) ==
    IF average[s] = Sentinel THEN c > MIN_C /\ c < MAX_C
                             ELSE c - average[s] \in (1 - OUTLIER_C)..(OUTLIER_C - 1)
Outcomes(s) == {c \in Temps : Accepted(s, c)} \cup {Failed}

\* average: the mean, rounded half away from zero.
Rounded(sum) ==
    LET twice == 2 * (IF sum < 0 THEN -sum ELSE sum) + SAMPLE_COUNT
        mean == twice \div (2 * SAMPLE_COUNT)
    IN  IF sum < 0 THEN -mean ELSE mean
Mean(samples) == Rounded(FoldSeq(+, 0, samples))

\* init_sensor_and_channel leaves the average of the sensor alone.
init_sensor_and_channel(s) ==
    /\ history' = [history EXCEPT ![s] = <<>>]
    /\ UNCHANGED average

\* A sample is stored; every SAMPLE_COUNT samples make an average, which is
\* reported to the Jetson and given to the callback of the sensor.
Stores(s, c) ==
    LET samples == Append(history[s], c)
    IN  IF Len(samples) = SAMPLE_COUNT
        THEN /\ history' = [history EXCEPT ![s] = <<>>]
             /\ average' = [average EXCEPT ![s] = Mean(samples)]
        ELSE /\ history' = [history EXCEPT ![s] = samples]
             /\ UNCHANGED average

\* Where the thread goes after the sample of s: overtemp_callback, or on.
Reports(s, stored) == stored /\ Len(history[s]) = SAMPLE_COUNT - 1 /\ s \in Answering

sample_and_report_temperature ==
    /\ Runs /\ thread.at = "sample" /\ thread.left # <<>>
    /\ LET s == Head(thread.left)
       IN \E c \in Outcomes(s) :
            /\ IF c = Failed THEN init_sensor_and_channel(s) ELSE Stores(s, c)
            /\ thread' = IF Reports(s, c # Failed)
                         THEN [thread EXCEPT !.at = "callback"]
                         ELSE [thread EXCEPT !.left = Tail(@)]
    /\ UNCHANGED <<hot, timer, since, streak, count, before, period, runner,
                   fanVars, reset>>

\* The average over the front unit sensors that have one, in integers.
FrontAverages == {s \in FrontUnit : average[s] # Sentinel}
Toward0(a, b) == IF a < 0 THEN -((-a) \div b) ELSE a \div b
FrontUnitAverage ==
    Toward0(MapThenSumSet(LAMBDA s : average[s], FrontAverages), Cardinality(FrontAverages))

SamplesFrontUnit ==
    /\ Runs /\ thread.at = "sample" /\ thread.left = <<>>
    /\ FrontAverages # {}
    /\ Stores(Virtual, FrontUnitAverage)
    /\ thread' = IF Reports(Virtual, TRUE)
                 THEN [at |-> "callback", left |-> <<Virtual>>, value |-> 0]
                 ELSE [thread EXCEPT !.at = "rest"]
    /\ UNCHANGED <<hot, timer, since, streak, count, before, period, runner,
                   fanVars, reset>>

\* The end of a round: the thread sleeps for the rest of the period. A round
\* that took one tick more than the period gives k_sleep -1 ticks, which is
\* K_FOREVER; longer rounds give a time in the past, and the next round.
Sleeps ==
    /\ Runs
    /\ \/ thread.at = "rest"
       \/ thread.at = "sample" /\ thread.left = <<>> /\ FrontAverages = {}
    /\ \E at \in {"asleep", "suspended"} : thread' = [Asleep EXCEPT !.at = at]
    /\ UNCHANGED <<sensorVars, period, runner, fanVars, reset>>

-----------------------------------------------------------------------------
(* overtemp_callback for the sensor the thread is at.                       *)

Current == Head(thread.left)
Continue == IF Current = Virtual THEN [Asleep EXCEPT !.at = "rest"]
            ELSE [thread EXCEPT !.at = "sample", !.left = Tail(@)]
IsCritical(s) == average[s] > OVERTEMP_C + OVERTEMP_TO_CRITICAL_RISE_C

\* Mutant: the timer only adds the time since last_system_time.
CriticalTimeByClock(s) == timer[s] + (IF timer[s] = 0 THEN 1 ELSE since)

\* The critical timer: the time since the last callback of a critical sensor
\* (of any sensor) and one period.
CriticalTime(s) ==
    timer[s] + (IF timer[s] = 0 THEN 0 ELSE since) + period

\* publish_store of the fatal error and sys_reboot.
ChecksCritical ==
    /\ Runs /\ thread.at = "callback"
    /\ LET s == Current
       IN  IF IsCritical(s)
           THEN IF CriticalTime(s) > CRITICAL_TO_SHUTDOWN_DELAY
                THEN /\ reset' = s
                     /\ UNCHANGED <<timer, since, streak, thread>>
                ELSE /\ timer' = [timer EXCEPT ![s] = CriticalTime(s)]
                     /\ streak' = [streak EXCEPT ![s] = @ + 1]
                     /\ since' = 0
                     /\ thread' = [thread EXCEPT !.at = "threshold"]
                     /\ UNCHANGED reset
           ELSE /\ timer' = [timer EXCEPT ![s] = 0]
                /\ streak' = [streak EXCEPT ![s] = 0]
                /\ thread' = [thread EXCEPT !.at = "threshold"]
                /\ UNCHANGED <<since, reset>>
    /\ UNCHANGED <<history, average, hot, count, before, period, runner, fanVars>>

\* Mutant: every sensor that becomes hot saves the speed of the fan.
EveryIncSaves(s) ==
    /\ s \notin hot /\ average[s] > OVERTEMP_C
    /\ hot' = hot \cup {s} /\ count' = count + 1
    /\ thread' = [thread EXCEPT !.at = "save"]

\* inc_overtemp_condition: the count, then check_overtemp_conditions.
inc_overtemp_condition(s) ==
    /\ s \notin hot /\ average[s] > OVERTEMP_C
    /\ hot' = hot \cup {s}
    /\ count' = count + 1
    /\ thread' = IF count = 0 THEN [thread EXCEPT !.at = "save"] ELSE Continue

\* Mutant: every sensor that is no longer hot restores the speed.
AnyDecRestores(s) ==
    /\ s \in hot /\ average[s] < OVERTEMP_C - OVERTEMP_TO_NOMINAL_DROP_C
    /\ hot' = hot \ {s} /\ count' = count - 1
    /\ thread' = [thread EXCEPT !.at = "restore"]

\* dec_overtemp_condition, when the average is far enough below the threshold.
dec_overtemp_condition(s) ==
    /\ s \in hot /\ average[s] < OVERTEMP_C - OVERTEMP_TO_NOMINAL_DROP_C
    /\ hot' = hot \ {s}
    /\ count' = count - 1
    /\ thread' = IF count = 1 THEN [thread EXCEPT !.at = "restore"] ELSE Continue

ChecksThreshold ==
    /\ Runs /\ thread.at = "threshold"
    /\ LET s == Current
       IN  \/ inc_overtemp_condition(s)
           \/ dec_overtemp_condition(s)
           \/ /\ (s \notin hot => average[s] <= OVERTEMP_C)
              /\ (s \in hot => average[s] >= OVERTEMP_C - OVERTEMP_TO_NOMINAL_DROP_C)
              /\ thread' = Continue
              /\ UNCHANGED <<hot, count>>
    /\ UNCHANGED <<history, average, timer, since, streak, before, period, runner,
                   fanVars, reset>>

\* check_overtemp_conditions: the emergency saves the speed and sets the
\* maximum; its end restores the speed that was saved.
check_overtemp_conditions ==
    /\ Runs /\ thread.at \in {"save", "restore"}
    /\ before' = IF thread.at = "save" THEN fan.setting ELSE before
    /\ thread' = [thread EXCEPT !.at = "pwm",
                                !.value = IF thread.at = "save" THEN MAX_SPEED
                                                                ELSE before]
    /\ UNCHANGED <<history, average, hot, timer, since, streak, count, period,
                   runner, fanVars, reset>>

ThreadSetsFan ==
    /\ Runs
    /\ FanStep(thread) /\ thread' = FanNext(thread, Continue)
    /\ UNCHANGED <<sensorVars, period, runner, off, reset, asked, raced>>

-----------------------------------------------------------------------------
TemperatureThread ==
    \/ Wakes
    \/ sample_and_report_temperature
    \/ SamplesFrontUnit
    \/ Sleeps
    \/ ChecksCritical
    \/ ChecksThreshold
    \/ check_overtemp_conditions
    \/ ThreadSetsFan

Next ==
    \/ TemperatureThread
    \/ RunnerSetsFan
    \/ \E v \in Speeds : handle_fan_speed(v)
    \/ \E p \in Periods : temperature_set_sampling_period_ms(p)
    \/ fan_turn_off
    \/ Restart

Spec == Init /\ [][Next]_vars

-----------------------------------------------------------------------------
(* Properties.                                                              *)

\* Neither the runner nor the temperature thread is setting the fan.
Quiet == runner = Idle /\ thread.at \in {"asleep", "suspended", "sample", "rest"}

\* The theory of operation of temperature.c: as long as one sensor has
\* reached its threshold and has not come back, the fans run at full speed,
\* whatever the Jetson asked before, during and after, unless they were
\* turned off for a reset.
FullSpeedWhileHot ==
    Quiet /\ hot # {} /\ ~off => fan = [duty |-> MAX_SPEED, setting |-> MAX_SPEED, on |-> TRUE]

\* When no sensor is hot the fans run at the last speed the Jetson was told
\* it has, however many sensors were hot in between, unless its request came
\* between the end of the emergency and the restoring of the speed.
SpeedComesBack ==
    Quiet /\ hot = {} /\ ~off /\ ~raced =>
        /\ fan.setting = asked
        /\ fan.on = (asked > 0)
        /\ asked > 0 => fan.duty = asked

\* No sensor stays critical for longer than the delay, although the sensors
\* share one last_system_time: n averages in a row are at least n periods.
CriticalIsCutOff ==
    \A s \in All : streak[s] * MinPeriod <= CRITICAL_TO_SHUTDOWN_DELAY

=============================================================================
