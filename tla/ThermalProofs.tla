--------------------------- MODULE ThermalProofs ---------------------------
(***************************************************************************)
(* The safety properties of Thermal for every list of sensors, every set   *)
(* of temperatures, speeds and periods, and all thresholds: what the fans  *)
(* do (FanInductive), and how long a sensor stays critical                 *)
(* (CriticalInductive). Neither depends on what an average is.             *)
(***************************************************************************)
EXTENDS Thermal, FiniteSetTheorems, WellFoundedInduction, TLAPS

FanSteps == {"pwm", "setting", "test", "pin_on", "pin_off"}
Sampling == {"asleep", "suspended", "sample"}
ThreadPoints == Sampling \cup {"rest", "callback", "threshold", "save", "restore"} \cup FanSteps

FanTypes ==
    /\ fan \in [duty : 0..MAX_SPEED, setting : 0..MAX_SPEED, on : BOOLEAN]
    /\ thread = [at |-> thread.at, left |-> thread.left, value |-> thread.value]
    /\ thread.at \in ThreadPoints /\ thread.value \in 0..MAX_SPEED
    /\ runner \in [at : FanSteps \cup {"idle"}, value : 0..MAX_SPEED]
    /\ runner.at = "idle" => runner = Idle
    /\ before \in 0..MAX_SPEED /\ asked \in 0..MAX_SPEED
    /\ off \in BOOLEAN /\ raced \in BOOLEAN
    /\ IsFiniteSet(hot) /\ count = Cardinality(hot)

\* The fans are at speed v.
Shows(v) == /\ fan.setting = v
            /\ fan.on = (v > 0)
            /\ v > 0 => fan.duty = v

\* What a thread that is at this step of fan_set_speed_by_value has written.
Written(at, v) ==
    /\ at # "pwm" /\ v > 0 => fan.duty = v
    /\ at \notin {"pwm", "setting"} => fan.setting = v
    /\ at = "pin_on" => v > 0
    /\ at = "pin_off" => v = 0

\* Who sets the speed, and to what: the runner only when no sensor is hot, the
\* thread to the maximum while one is and to the saved speed when none is left.
WhoSets ==
    /\ runner # Idle => hot = {}
    /\ thread.at = "save" => hot # {}
    /\ thread.at = "restore" => hot = {}
    /\ thread.at \in FanSteps => thread.value = IF hot = {} THEN before ELSE MAX_SPEED

\* While a sensor is hot the fans are at the maximum, or on their way.
HotFans ==
    ~off /\ hot # {} =>
        /\ thread.at \in FanSteps => Written(thread.at, MAX_SPEED)
        /\ thread.at \notin FanSteps \cup {"save"} => Shows(MAX_SPEED)

\* The speed the Jetson asked for is in the fans, saved, or on its way back.
AskedFor ==
    ~off /\ ~raced =>
        /\ runner # Idle => thread.at \in Sampling
        /\ IF hot = {}
           THEN /\ thread.at \in FanSteps => before = asked /\ Written(thread.at, asked)
                /\ thread.at = "restore" => before = asked
                /\ thread.at \notin FanSteps \cup {"restore"} =>
                      IF runner = Idle THEN Shows(asked)
                      ELSE runner.value = asked /\ Written(runner.at, asked)
           ELSE IF thread.at = "save" THEN Shows(asked) ELSE before = asked

FanInductive == FanTypes /\ WhoSets /\ HotFans /\ AskedFor

\* The critical timer of a sensor is at least as long as its critical averages
\* took, whatever the shared clock was set to by another sensor.
CriticalInductive ==
    /\ timer \in [All -> Nat] /\ streak \in [All -> Nat]
    /\ since \in Nat /\ period \in Periods
    /\ \A s \in All : /\ streak[s] * MinPeriod <= timer[s]
                      /\ timer[s] <= CRITICAL_TO_SHUTDOWN_DELAY

-----------------------------------------------------------------------------
(* The fans.                                                                *)

\* The steps that leave the fans, the runner and the set of hot sensors alone,
\* and do not take the thread to or from the fans.
LEMMA OthersKeepFans ==
    ASSUME FanInductive,
           fan' = fan, runner' = runner, hot' = hot, count' = count, before' = before,
           asked' = asked, raced' = raced, off' = off,
           thread' = [at |-> thread'.at, left |-> thread'.left, value |-> thread'.value],
           thread'.value \in 0..MAX_SPEED,
           \/ /\ thread'.at = thread.at
              /\ thread'.value = thread.value
           \/ /\ {thread.at, thread'.at} \cap (FanSteps \cup {"save", "restore"}) = {}
              /\ thread'.at \in ThreadPoints
              /\ runner = Idle \/ thread'.at \in Sampling
    PROVE  FanInductive'
PROOF
  <1> USE DEF FanInductive, FanSteps, Sampling, ThreadPoints
  <1>1. FanTypes'
    BY DEF FanTypes
  <1>2. WhoSets'
    BY DEF WhoSets
  <1>3. HotFans'
    BY DEF HotFans, Written, Shows
  <1>4. AskedFor'
    BY DEF AskedFor, Written, Shows
  <1> QED
    BY <1>1, <1>2, <1>3, <1>4

\* fan_turn_off ends all that is said of the fans until the restart.
LEMMA TurnOffKeeps ==
    ASSUME FanInductive, fan_turn_off
    PROVE  FanInductive'
PROOF
  <1>1. FanTypes'
    BY DEF fan_turn_off, FanInductive, FanTypes, sensorVars
  <1>2. WhoSets' /\ off' = TRUE
    BY DEF fan_turn_off, FanInductive, WhoSets, sensorVars
  <1> QED
    BY <1>1, <1>2 DEF FanInductive, HotFans, AskedFor

\* num_sensors_in_overtemp_conditions is the number of hot sensors.
LEMMA CountOfHot ==
    ASSUME FanTypes
    PROVE  /\ count \in Nat
           /\ count = 0 <=> hot = {}
           /\ \A s : s \notin hot => /\ IsFiniteSet(hot \cup {s})
                                     /\ Cardinality(hot \cup {s}) = count + 1
           /\ \A s \in hot : /\ IsFiniteSet(hot \ {s})
                             /\ Cardinality(hot \ {s}) = count - 1
                             /\ count = 1 <=> hot \ {s} = {}
PROOF
  <1>1. count \in Nat /\ (count = 0 <=> hot = {})
    BY FS_CardinalityType, FS_EmptySet DEF FanTypes
  <1>2. ASSUME NEW s, s \notin hot
        PROVE  IsFiniteSet(hot \cup {s}) /\ Cardinality(hot \cup {s}) = count + 1
    BY <1>2, FS_AddElement DEF FanTypes
  <1>3. ASSUME NEW s \in hot
        PROVE  /\ IsFiniteSet(hot \ {s}) /\ Cardinality(hot \ {s}) = count - 1
               /\ count = 1 <=> hot \ {s} = {}
    <2>1. IsFiniteSet(hot \ {s}) /\ Cardinality(hot \ {s}) = count - 1
      BY FS_RemoveElement DEF FanTypes
    <2>2. Cardinality(hot \ {s}) = 0 <=> hot \ {s} = {}
      BY <2>1, FS_EmptySet
    <2> QED
      BY <2>1, <2>2, <1>1
  <1> QED
    BY <1>1, <1>2, <1>3

\* A request of the runner: it starts from fans that no sensor has made hot.
LEMMA RequestKeeps ==
    ASSUME FanInductive, NEW v \in Speeds, handle_fan_speed(v)
    PROVE  FanInductive'
PROOF
  <1> USE ThermalAssumption DEF FanInductive, FanSteps, Sampling, ThreadPoints
  <1>1. hot = {}
    BY CountOfHot DEF handle_fan_speed, temperature_is_in_overtemp
  <1>2. /\ runner = Idle /\ runner' = [at |-> "pwm", value |-> v] /\ asked' = v
        /\ fan' = fan /\ thread' = thread /\ hot' = hot /\ count' = count
        /\ before' = before /\ off' = off
    BY DEF handle_fan_speed, sensorVars
  <1>3. raced' = (raced \/ thread.at \notin Sampling)
    BY DEF handle_fan_speed
  <1>4. raced' \in BOOLEAN /\ (~raced' => ~raced /\ thread.at \in Sampling)
    BY <1>3, Zenon DEF FanTypes
  <1>5. FanTypes'
    BY <1>2, <1>4 DEF FanTypes, Idle
  <1>6. WhoSets' /\ HotFans'
    BY <1>1, <1>2 DEF WhoSets, HotFans
  <1>7. AskedFor'
    BY <1>1, <1>2, <1>4 DEF AskedFor, Written, Idle
  <1> QED
    BY <1>5, <1>6, <1>7

\* The runner writes the speed it was asked for, one access after the other.
LEMMA RunnerKeeps ==
    ASSUME FanInductive, RunnerSetsFan
    PROVE  FanInductive'
PROOF
  <1> USE ThermalAssumption DEF FanInductive, FanSteps, Sampling, ThreadPoints
  <1>1. /\ thread' = thread /\ hot' = hot /\ count' = count /\ before' = before
        /\ asked' = asked /\ raced' = raced /\ off' = off
    BY DEF RunnerSetsFan, sensorVars
  <1>2. runner.at \in FanSteps /\ runner # Idle /\ hot = {}
    BY DEF RunnerSetsFan, FanStep, FanTypes, Idle, WhoSets
  <1>3. FanTypes'
    <2>1. fan' \in [duty : 0..MAX_SPEED, setting : 0..MAX_SPEED, on : BOOLEAN]
      BY <1>2 DEF FanTypes, RunnerSetsFan, FanStep, SetDuty
    <2>2. /\ runner' \in [at : FanSteps \cup {"idle"}, value : 0..MAX_SPEED]
          /\ runner'.at = "idle" => runner' = Idle
      BY <1>2 DEF FanTypes, RunnerSetsFan, FanNext, Idle
    <2> QED
      BY <1>1, <2>1, <2>2 DEF FanTypes
  <1>4. WhoSets' /\ HotFans'
    BY <1>1, <1>2 DEF WhoSets, HotFans
  <1>5. AskedFor'
    <2> SUFFICES ASSUME ~off, ~raced PROVE AskedFor'
      BY <1>1 DEF AskedFor
    <2>1. thread.at \in Sampling /\ runner.value = asked /\ Written(runner.at, asked)
      BY <1>2 DEF AskedFor
    <2>2. CASE runner.at = "pwm"
      <3>1. /\ fan' = SetDuty(runner.value)
            /\ runner' = [runner EXCEPT !.at = "setting"]
        BY <2>2 DEF RunnerSetsFan, FanStep, FanNext
      <3> QED
        BY <1>1, <1>2, <2>1, <3>1 DEF AskedFor, Written, SetDuty, FanTypes, Idle
    <2>3. CASE runner.at = "setting"
      <3>1. /\ fan' = [fan EXCEPT !.setting = runner.value]
            /\ runner' = [runner EXCEPT !.at = "test"]
        BY <2>3 DEF RunnerSetsFan, FanStep, FanNext
      <3> QED
        BY <1>1, <1>2, <2>1, <2>3, <3>1 DEF AskedFor, Written, FanTypes, Idle
    <2>4. CASE runner.at = "test"
      <3>1. /\ fan' = fan
            /\ runner' = [runner EXCEPT !.at = IF runner.value > 0 THEN "pin_on" ELSE "pin_off"]
        BY <2>4 DEF RunnerSetsFan, FanStep, FanNext, Enables
      <3> QED
        BY <1>1, <1>2, <2>1, <2>4, <3>1 DEF AskedFor, Written, FanTypes, Idle
    <2>5. CASE runner.at \in {"pin_on", "pin_off"}
      <3>1. /\ fan' = [fan EXCEPT !.on = (runner.at = "pin_on")]
            /\ runner' = Idle
        BY <2>5 DEF RunnerSetsFan, FanStep, FanNext
      <3>2. Shows(asked)'
        BY <1>1, <2>1, <2>5, <3>1 DEF Shows, Written, FanTypes
      <3> QED
        BY <1>1, <1>2, <2>1, <3>1, <3>2 DEF AskedFor, FanTypes
    <2> QED
      BY <1>2, <2>2, <2>3, <2>4, <2>5
  <1> QED
    BY <1>3, <1>4, <1>5

\* After the callback the thread goes on with the next sensor, or rests.
LEMMA ContinueShape ==
    ASSUME FanTypes
    PROVE  /\ Continue = [at |-> Continue.at, left |-> Continue.left, value |-> Continue.value]
           /\ Continue.at \in {"rest", "sample"} /\ Continue.value \in 0..MAX_SPEED
PROOF
  <1>1. CASE Current = Virtual
    <2>1. Continue = [at |-> "rest", left |-> <<>>, value |-> 0]
      BY <1>1 DEF Continue, Asleep
    <2> QED
      BY <2>1, ThermalAssumption
  <1>2. CASE Current # Virtual
    <2>1. thread = [at |-> thread.at, left |-> thread.left, value |-> thread.value]
      BY DEF FanTypes
    <2>2. Continue = [at |-> "sample", left |-> Tail(thread.left), value |-> thread.value]
      BY <1>2, <2>1 DEF Continue
    <2> QED
      BY <2>2 DEF FanTypes
  <1> QED
    BY <1>1, <1>2

\* The temperature thread writes the maximum or the saved speed.
LEMMA ThreadSetsKeeps ==
    ASSUME FanInductive, ThreadSetsFan
    PROVE  FanInductive'
PROOF
  <1> USE ThermalAssumption DEF FanInductive, FanSteps, Sampling, ThreadPoints
  <1> DEFINE target == IF hot = {} THEN before ELSE MAX_SPEED
  <1>1. /\ hot' = hot /\ count' = count /\ before' = before /\ asked' = asked
        /\ raced' = raced /\ off' = off /\ runner' = runner /\ runner = Idle
    BY DEF ThreadSetsFan, sensorVars, Runs
  <1>2. thread.at \in FanSteps /\ thread.value = target /\ target \in 0..MAX_SPEED
    BY DEF ThreadSetsFan, FanStep, FanTypes, WhoSets
  <1>3. /\ ~off /\ hot # {} => Written(thread.at, target)
        /\ ~off /\ ~raced /\ hot = {} => Written(thread.at, target) /\ before = asked
        /\ ~off /\ ~raced => before = asked
    BY <1>2 DEF HotFans, AskedFor
  <1>4. CASE thread.at \notin {"pin_on", "pin_off"}
    <2>1. CASE thread.at = "pwm"
      <3>1. /\ fan' = SetDuty(thread.value)
            /\ thread' = [thread EXCEPT !.at = "setting"]
        BY <2>1 DEF ThreadSetsFan, FanStep, FanNext
      <3>2. FanTypes'
        BY <1>1, <1>2, <3>1 DEF FanTypes, SetDuty
      <3> QED
        BY <1>1, <1>2, <1>3, <3>1, <3>2
        DEF FanTypes, SetDuty, WhoSets, HotFans, AskedFor, Written
    <2>2. CASE thread.at = "setting"
      <3>1. /\ fan' = [fan EXCEPT !.setting = thread.value]
            /\ thread' = [thread EXCEPT !.at = "test"]
        BY <2>2 DEF ThreadSetsFan, FanStep, FanNext
      <3>2. FanTypes'
        BY <1>1, <1>2, <3>1 DEF FanTypes
      <3> QED
        BY <1>1, <1>2, <1>3, <2>2, <3>1, <3>2
        DEF FanTypes, WhoSets, HotFans, AskedFor, Written
    <2>3. CASE thread.at = "test"
      <3>1. /\ fan' = fan
            /\ thread' = [thread EXCEPT !.at = IF Enables(thread.value) THEN "pin_on"
                                                                      ELSE "pin_off"]
            /\ ~off => (Enables(thread.value) <=> thread.value > 0)
        BY <2>3 DEF ThreadSetsFan, FanStep, FanNext, Enables
      <3>2. FanTypes'
        BY <1>1, <1>2, <3>1 DEF FanTypes
      <3> QED
        BY <1>1, <1>2, <1>3, <2>3, <3>1, <3>2
        DEF FanTypes, WhoSets, HotFans, AskedFor, Written
    <2> QED
      BY <1>2, <1>4, <2>1, <2>2, <2>3
  <1>5. CASE thread.at \in {"pin_on", "pin_off"}
    <2>1. /\ fan' = [fan EXCEPT !.on = (thread.at = "pin_on")]
          /\ thread' = Continue
      BY <1>5 DEF ThreadSetsFan, FanStep, FanNext
    <2>2. FanTypes' /\ thread'.at \in {"rest", "sample"}
      BY <1>1, <1>2, <2>1, ContinueShape DEF FanTypes
    <2>3. ~off /\ Written(thread.at, target) => Shows(target)'
      BY <1>1, <1>2, <1>5, <2>1 DEF Shows, Written, FanTypes
    <2>4. WhoSets' /\ HotFans'
      BY <1>1, <1>3, <2>2, <2>3 DEF WhoSets, HotFans
    <2>5. AskedFor'
      BY <1>1, <1>3, <2>2, <2>3 DEF AskedFor, Shows
    <2> QED
      BY <2>2, <2>4, <2>5
  <1> QED
    BY <1>4, <1>5

\* A sensor gets hot or comes back: only the first and the last one lead to
\* the fans.
LEMMA ThresholdKeeps ==
    ASSUME FanInductive, ChecksThreshold
    PROVE  FanInductive'
PROOF
  <1> USE ThermalAssumption DEF FanInductive, FanSteps, Sampling, ThreadPoints
  <1>1. /\ fan' = fan /\ before' = before /\ asked' = asked /\ raced' = raced /\ off' = off
        /\ runner' = runner /\ runner = Idle /\ thread.at = "threshold"
    BY DEF ChecksThreshold, fanVars, Runs
  <1>2. CASE inc_overtemp_condition(Current)
    <2>1. /\ hot' = hot \cup {Current} /\ hot' # {} /\ IsFiniteSet(hot')
          /\ count' = Cardinality(hot')
          /\ IF hot = {} THEN thread' = [thread EXCEPT !.at = "save"] ELSE thread' = Continue
      BY <1>2, CountOfHot DEF inc_overtemp_condition
    <2>2. FanTypes' /\ thread'.at \in {"rest", "sample", "save"}
      BY <1>1, <2>1, ContinueShape DEF FanTypes
    <2>3. hot = {} <=> thread'.at = "save"
      BY <2>1, ContinueShape DEF FanTypes
    <2>4. WhoSets' /\ HotFans'
      BY <1>1, <2>1, <2>2, <2>3 DEF WhoSets, HotFans, Shows
    <2>5. AskedFor'
      BY <1>1, <2>1, <2>2, <2>3 DEF AskedFor, Shows
    <2> QED
      BY <2>2, <2>4, <2>5
  <1>3. CASE dec_overtemp_condition(Current)
    <2>1. /\ hot # {} /\ IsFiniteSet(hot') /\ count' = Cardinality(hot')
          /\ IF hot' = {} THEN thread' = [thread EXCEPT !.at = "restore"] ELSE thread' = Continue
      BY <1>3, CountOfHot DEF dec_overtemp_condition
    <2>2. FanTypes' /\ thread'.at \in {"rest", "sample", "restore"}
      BY <1>1, <2>1, ContinueShape DEF FanTypes
    <2>3. hot' = {} <=> thread'.at = "restore"
      BY <2>1, ContinueShape DEF FanTypes
    <2>4. WhoSets' /\ HotFans'
      BY <1>1, <2>1, <2>2, <2>3 DEF WhoSets, HotFans, Shows
    <2>5. AskedFor'
      BY <1>1, <2>1, <2>2, <2>3 DEF AskedFor, Shows
    <2> QED
      BY <2>2, <2>4, <2>5
  <1>4. CASE thread' = Continue /\ UNCHANGED <<hot, count>>
    <2>1. FanTypes' /\ thread'.at \in {"rest", "sample"}
      BY <1>1, <1>4, ContinueShape DEF FanTypes
    <2> QED
      BY <1>1, <1>4, <2>1, OthersKeepFans DEF FanTypes
  <1> QED
    BY <1>2, <1>3, <1>4 DEF ChecksThreshold

\* The emergency saves the speed that was asked for, and its end takes it back.
LEMMA EmergencyKeeps ==
    ASSUME FanInductive, check_overtemp_conditions
    PROVE  FanInductive'
PROOF
  <1> USE ThermalAssumption DEF FanInductive, FanSteps, Sampling, ThreadPoints
  <1>1. /\ fan' = fan /\ asked' = asked /\ raced' = raced /\ off' = off /\ hot' = hot
        /\ count' = count /\ runner' = runner /\ runner = Idle
    BY DEF check_overtemp_conditions, fanVars, Runs
  <1>2. CASE thread.at = "save"
    <2>1. /\ before' = fan.setting /\ hot # {}
          /\ thread' = [at |-> "pwm", left |-> thread.left, value |-> MAX_SPEED]
      BY <1>2 DEF check_overtemp_conditions, WhoSets, FanTypes
    <2>2. FanTypes'
      BY <1>1, <2>1 DEF FanTypes
    <2> QED
      BY <1>1, <1>2, <2>1, <2>2 DEF FanTypes, WhoSets, HotFans, AskedFor, Written, Shows
  <1>3. CASE thread.at = "restore"
    <2>1. /\ before' = before /\ hot = {}
          /\ thread' = [at |-> "pwm", left |-> thread.left, value |-> before]
      BY <1>3 DEF check_overtemp_conditions, WhoSets, FanTypes
    <2>2. FanTypes'
      BY <1>1, <2>1 DEF FanTypes
    <2> QED
      BY <1>1, <1>3, <2>1, <2>2 DEF FanTypes, WhoSets, HotFans, AskedFor, Written, Shows
  <1> QED
    BY <1>2, <1>3 DEF check_overtemp_conditions

\* The other steps of the temperature thread.
LEMMA RoundsKeep ==
    ASSUME FanInductive,
           Wakes \/ sample_and_report_temperature \/ SamplesFrontUnit \/ Sleeps \/ ChecksCritical
    PROVE  FanInductive'
PROOF
  <1> USE ThermalAssumption DEF FanInductive, FanSteps, Sampling, ThreadPoints
  <1>1. /\ fan' = fan /\ runner' = runner /\ hot' = hot /\ count' = count
        /\ before' = before /\ asked' = asked /\ raced' = raced /\ off' = off
        /\ runner = Idle
    BY DEF Wakes, sample_and_report_temperature, SamplesFrontUnit, Sleeps, ChecksCritical,
           fanVars, sensorVars, Runs
  <1>2. thread = [at |-> thread.at, left |-> thread.left, value |-> thread.value]
    BY DEF FanTypes
  <1>3. /\ thread' = [at |-> thread'.at, left |-> thread'.left, value |-> thread'.value]
        /\ thread'.value \in {thread.value, 0}
        /\ \/ thread' = thread
           \/ /\ thread.at \in Sampling \cup {"rest", "callback"}
              /\ thread'.at \in Sampling \cup {"rest", "callback", "threshold"}
    <2>1. CASE Wakes
      BY <1>2, <2>1 DEF Wakes
    <2>2. CASE sample_and_report_temperature
      BY <1>2, <2>2 DEF sample_and_report_temperature
    <2>3. CASE SamplesFrontUnit
      BY <1>2, <2>3 DEF SamplesFrontUnit
    <2>4. CASE Sleeps
      BY <1>2, <2>4 DEF Sleeps, Asleep
    <2>5. CASE ChecksCritical
      BY <1>2, <2>5 DEF ChecksCritical
    <2> QED
      BY <2>1, <2>2, <2>3, <2>4, <2>5
  <1> QED
    BY <1>1, <1>2, <1>3, OthersKeepFans DEF FanTypes

\* The period is changed; a thread that sleeps is woken up.
LEMMA PeriodKeeps ==
    ASSUME FanInductive, NEW p \in Periods, temperature_set_sampling_period_ms(p)
    PROVE  FanInductive'
PROOF
  <1> USE ThermalAssumption DEF FanInductive, FanSteps, Sampling, ThreadPoints
  <1>1. /\ fan' = fan /\ runner' = runner /\ hot' = hot /\ count' = count
        /\ before' = before /\ asked' = asked /\ raced' = raced /\ off' = off
        /\ runner = Idle
    BY DEF temperature_set_sampling_period_ms, fanVars, sensorVars
  <1>2. \/ thread' = thread
        \/ /\ thread.at \in {"asleep", "suspended"}
           /\ thread' = [at |-> "sample", left |-> SensorOrder, value |-> thread.value]
    BY DEF temperature_set_sampling_period_ms, FanTypes
  <1> QED
    BY <1>1, <1>2, OthersKeepFans DEF FanTypes

\* The state after a power-up or a reset.
FansStart ==
    /\ hot = {} /\ count = 0 /\ before = 0 /\ thread = Asleep /\ runner = Idle
    /\ fan = [duty |-> INITIAL_SPEED, setting |-> INITIAL_SPEED, on |-> TRUE]
    /\ off = FALSE /\ asked = INITIAL_SPEED /\ raced = FALSE

\* The fans start at INITIAL_SPEED, with no sensor hot.
LEMMA StartIsGood == FansStart => FanInductive
PROOF
  <1> SUFFICES ASSUME FansStart PROVE FanInductive
    OBVIOUS
  <1> USE DEF FansStart
  <1> USE ThermalAssumption DEF FanInductive, FanSteps, Sampling, ThreadPoints, Idle, Asleep
  <1>0. INITIAL_SPEED \in 0..MAX_SPEED /\ 0 \in 0..MAX_SPEED /\ INITIAL_SPEED > 0
    OBVIOUS
  <1>1. FanTypes
    <2>1. fan \in [duty : 0..MAX_SPEED, setting : 0..MAX_SPEED, on : BOOLEAN]
      BY <1>0
    <2>2. thread = [at |-> thread.at, left |-> thread.left, value |-> thread.value]
      OBVIOUS
    <2>3. /\ thread.at \in ThreadPoints /\ thread.value \in 0..MAX_SPEED
          /\ runner \in [at : FanSteps \cup {"idle"}, value : 0..MAX_SPEED]
          /\ before \in 0..MAX_SPEED /\ asked \in 0..MAX_SPEED
      BY <1>0
    <2>4. off \in BOOLEAN /\ raced \in BOOLEAN
      BY Zenon
    <2>5. IsFiniteSet(hot) /\ count = Cardinality(hot)
      BY FS_EmptySet
    <2> QED
      BY <2>1, <2>2, <2>3, <2>4, <2>5 DEF FanTypes
  <1>2. WhoSets /\ HotFans
    BY DEF WhoSets, HotFans
  <1>3. AskedFor
    <2>1. Shows(asked)
      <3>1. fan.on = TRUE
        BY Zenon
      <3> QED
        BY <1>0, <3>1 DEF Shows
    <2> QED
      BY <2>1 DEF AskedFor
  <1> QED
    BY <1>1, <1>2, <1>3

\* What the fans do is inductive, resets of the Orb included.
LEMMA FanInvariant == Spec => []FanInductive
PROOF
  <1>1. Init => FanInductive
    BY StartIsGood DEF Init, FansStart
  <1>2. FansStart' => FanInductive'
    BY StartIsGood, PTL
  <1>3. FanInductive /\ [Next]_vars => FanInductive'
    <2> SUFFICES ASSUME FanInductive, [Next]_vars PROVE FanInductive'
      OBVIOUS
    <2>1. CASE TemperatureThread
      BY <2>1, RoundsKeep, ThresholdKeeps, EmergencyKeeps, ThreadSetsKeeps DEF TemperatureThread
    <2>2. CASE RunnerSetsFan
      BY <2>2, RunnerKeeps
    <2>3. ASSUME NEW v \in Speeds, handle_fan_speed(v) PROVE FanInductive'
      BY <2>3, RequestKeeps
    <2>4. ASSUME NEW p \in Periods, temperature_set_sampling_period_ms(p) PROVE FanInductive'
      BY <2>4, PeriodKeeps
    <2>5. CASE fan_turn_off
      BY <2>5, TurnOffKeeps
    <2>6. CASE Restart
      BY <2>6, <1>2 DEF Restart, FansStart, Asleep, Idle
    <2>7. CASE UNCHANGED vars
      BY <2>7, OthersKeepFans DEF vars, FanInductive, FanTypes
    <2> QED
      BY <2>1, <2>2, <2>3, <2>4, <2>5, <2>6, <2>7 DEF Next
  <1> QED
    BY <1>1, <1>3, PTL DEF Spec

\* The fans run at full speed while a sensor is hot, whatever the Jetson asks
\* for and whichever sensors get hot and cool down in between.
THEOREM FullSpeed == Spec => []FullSpeedWhileHot
PROOF
  <1>1. FanInductive => FullSpeedWhileHot
    <2> SUFFICES ASSUME FanInductive, Quiet, hot # {}, ~off
                 PROVE  fan = [duty |-> MAX_SPEED, setting |-> MAX_SPEED, on |-> TRUE]
      BY DEF FullSpeedWhileHot
    <2>1. Shows(MAX_SPEED)
      BY DEF FanInductive, HotFans, Quiet, FanSteps
    <2>2. MAX_SPEED > 0
      BY ThermalAssumption
    <2>3. fan.duty = MAX_SPEED /\ fan.setting = MAX_SPEED
      BY <2>1, <2>2 DEF Shows
    <2>4. fan.on = TRUE
      BY <2>1, <2>2, Zenon DEF Shows
    <2>5. fan = [duty |-> fan.duty, setting |-> fan.setting, on |-> fan.on]
      BY DEF FanInductive, FanTypes
    <2> QED
      BY <2>3, <2>4, <2>5, Zenon
  <1> QED
    BY <1>1, FanInvariant, PTL

\* After the emergency the fans are back at the speed the Jetson was told.
THEOREM SpeedBack == Spec => []SpeedComesBack
PROOF
  <1>1. FanInductive => SpeedComesBack
    BY DEF FanInductive, AskedFor, Shows, SpeedComesBack, Quiet, FanSteps, Sampling
  <1> QED
    BY <1>1, FanInvariant, PTL

-----------------------------------------------------------------------------
(* The critical timer.                                                      *)

\* The shortest period exists.
LEMMA MinPeriodIsLeast == MinPeriod \in Periods /\ \A p \in Periods : MinPeriod <= p
PROOF
  <1>1. Periods \subseteq Nat /\ Periods # {}
    BY ThermalAssumption
  <1> DEFINE R == OpToRel(<, Nat)
  <1>2. IsWellFoundedOn(R, Nat)
    BY NatLessThanWellFounded
  <1>3. \A x, y \in Nat : <<y, x>> \in R <=> y < x
    BY DEF OpToRel
  <1> HIDE DEF R
  <1>4. PICK x \in Periods : \A y \in Periods : ~(<<y, x>> \in R)
    BY <1>1, <1>2, WFMin
  <1>5. ASSUME NEW y \in Periods PROVE x <= y
    <2>1. x \in Nat /\ y \in Nat
      BY <1>1
    <2>2. ~(y < x)
      BY <1>3, <1>4, <2>1, Zenon
    <2> QED
      BY <2>1, <2>2
  <1> QED
    BY <1>5 DEF MinPeriod, Min

\* One critical average takes one period at least.
LEMMA OneMore ==
    ASSUME NEW n \in Nat, NEW m \in Nat
    PROVE  (n + 1) * m = n * m + m /\ n * m \in Nat /\ 0 * m = 0
PROOF
  OBVIOUS

\* overtemp_callback keeps the time of every sensor, the current one included,
\* whose timer grows by a period at least with every critical average.
LEMMA CriticalStep ==
    ASSUME CriticalInductive, ChecksCritical
    PROVE  CriticalInductive'
PROOF
  <1> DEFINE s == Current
             Within(n, t) == n * MinPeriod <= t /\ t <= CRITICAL_TO_SHUTDOWN_DELAY
  <1>1. MinPeriod \in Nat /\ period \in Nat /\ MinPeriod <= period
    BY MinPeriodIsLeast, ThermalAssumption DEF CriticalInductive
  <1>2. period' = period
    BY DEF ChecksCritical
  <1>3. /\ timer \in [All -> Nat] /\ streak \in [All -> Nat] /\ since \in Nat
        /\ \A q \in All : Within(streak[q], timer[q])
    BY DEF CriticalInductive
  <1>4. 0 * MinPeriod = 0 /\ CRITICAL_TO_SHUTDOWN_DELAY \in Nat
    BY OneMore, <1>1, ThermalAssumption
  <1>5. CASE UNCHANGED <<timer, since, streak>>
    BY <1>2, <1>5 DEF CriticalInductive
  <1>6. CASE /\ ~(CriticalTime(s) > CRITICAL_TO_SHUTDOWN_DELAY)
             /\ timer' = [timer EXCEPT ![s] = CriticalTime(s)]
             /\ streak' = [streak EXCEPT ![s] = @ + 1]
             /\ since' = 0
    <2>1. ASSUME s \in All
          PROVE  /\ CriticalTime(s) \in Nat
                 /\ Within(streak[s] + 1, CriticalTime(s))
      <3>1. CriticalTime(s) \in Nat /\ timer[s] + MinPeriod <= CriticalTime(s)
        BY <1>1, <1>3, <2>1 DEF CriticalTime
      <3>2. /\ (streak[s] + 1) * MinPeriod = streak[s] * MinPeriod + MinPeriod
            /\ streak[s] * MinPeriod \in Nat
        BY OneMore, <1>1, <1>3, <2>1
      <3>3. streak[s] * MinPeriod <= timer[s] /\ timer[s] \in Nat
        BY <1>3, <2>1
      <3>4. streak[s] * MinPeriod + MinPeriod <= CriticalTime(s)
        BY <3>1, <3>2, <3>3, <1>1
      <3> QED
        BY <3>1, <3>2, <3>4, <1>4, <1>6
    <2> HIDE DEF s, Within
    <2>2. timer' \in [All -> Nat] /\ streak' \in [All -> Nat]
      <3>1. CASE s \in All
        BY <3>1, <1>3, <1>6, <2>1
      <3>2. CASE s \notin All
        BY <3>2, <1>3, <1>6
      <3> QED
        BY <3>1, <3>2
    <2>3. ASSUME NEW q \in All PROVE Within(streak'[q], timer'[q])
      <3>1. CASE q = s
        BY <3>1, <1>3, <1>6, <2>1
      <3>2. CASE q # s
        BY <3>2, <1>3, <1>6
      <3> QED
        BY <3>1, <3>2
    <2> QED
      BY <1>2, <1>6, <2>2, <2>3 DEF CriticalInductive, Within
  <1>7. CASE /\ timer' = [timer EXCEPT ![s] = 0]
             /\ streak' = [streak EXCEPT ![s] = 0]
             /\ since' = since
    <2>1. Within(0, 0)
      BY <1>4
    <2> HIDE DEF s, Within
    <2>2. timer' \in [All -> Nat] /\ streak' \in [All -> Nat]
      BY <1>3, <1>7
    <2>3. ASSUME NEW q \in All PROVE Within(streak'[q], timer'[q])
      <3>1. CASE q = s
        BY <3>1, <1>3, <1>7, <2>1
      <3>2. CASE q # s
        BY <3>2, <1>3, <1>7
      <3> QED
        BY <3>1, <3>2
    <2> QED
      BY <1>2, <1>3, <1>7, <2>2, <2>3 DEF CriticalInductive, Within
  <1> QED
    BY <1>5, <1>6, <1>7 DEF ChecksCritical

\* The steps that leave the timers alone.
LEMMA TimersKept ==
    ASSUME CriticalInductive, UNCHANGED <<timer, streak>>, since' \in Nat, period' \in Periods
    PROVE  CriticalInductive'
PROOF
  BY DEF CriticalInductive

\* No sensor stays critical for longer than CRITICAL_TO_SHUTDOWN_DELAY before
\* overtemp_callback resets the Orb, whatever the sensors do to the time they share.
THEOREM CriticalCutOff == Spec => []CriticalIsCutOff
PROOF
  <1>1. MinPeriod \in Periods /\ MinPeriod \in Nat /\ 0 * MinPeriod = 0
    BY MinPeriodIsLeast, OneMore, ThermalAssumption
  <1>2. Init => CriticalInductive
    BY <1>1, ThermalAssumption DEF Init, CriticalInductive
  <1>3. CriticalInductive /\ [Next]_vars => CriticalInductive'
    <2> SUFFICES ASSUME CriticalInductive, [Next]_vars PROVE CriticalInductive'
      OBVIOUS
    <2>1. CASE ChecksCritical
      BY <2>1, CriticalStep
    <2>2. CASE Wakes
      <3>1. period \div SAMPLE_COUNT \in Nat
        BY ThermalAssumption DEF CriticalInductive
      <3>2. since' \in Nat
        BY <2>2, <3>1, ThermalAssumption DEF Wakes, Passes, CriticalInductive
      <3> QED
        BY <2>2, <3>2, TimersKept DEF Wakes, CriticalInductive
    <2>3. CASE \/ sample_and_report_temperature \/ SamplesFrontUnit \/ ChecksThreshold
               \/ check_overtemp_conditions
      BY <2>3, TimersKept DEF sample_and_report_temperature, SamplesFrontUnit,
         ChecksThreshold, check_overtemp_conditions, CriticalInductive
    <2>4. CASE \/ Sleeps \/ ThreadSetsFan \/ RunnerSetsFan \/ fan_turn_off
               \/ \E v \in Speeds : handle_fan_speed(v)
      BY <2>4, TimersKept DEF Sleeps, ThreadSetsFan, RunnerSetsFan, fan_turn_off,
         handle_fan_speed, sensorVars, CriticalInductive
    <2>5. CASE \E p \in Periods : temperature_set_sampling_period_ms(p)
      BY <2>5, TimersKept DEF temperature_set_sampling_period_ms, sensorVars, CriticalInductive
    <2>6. CASE Restart
      BY <2>6, <1>1, ThermalAssumption DEF Restart, CriticalInductive
    <2>7. CASE UNCHANGED vars
      BY <2>7, TimersKept DEF vars, CriticalInductive
    <2> QED
      BY <2>1, <2>2, <2>3, <2>4, <2>5, <2>6, <2>7 DEF Next, TemperatureThread
  <1>4. CriticalInductive => CriticalIsCutOff
    <2> SUFFICES ASSUME CriticalInductive, NEW s \in All
                 PROVE  streak[s] * MinPeriod <= CRITICAL_TO_SHUTDOWN_DELAY
      BY DEF CriticalIsCutOff
    <2>1. streak[s] * MinPeriod \in Nat
      BY OneMore, <1>1 DEF CriticalInductive
    <2> QED
      BY <2>1, ThermalAssumption DEF CriticalInductive
  <1> QED
    BY <1>2, <1>3, <1>4, PTL DEF Spec
=============================================================================
