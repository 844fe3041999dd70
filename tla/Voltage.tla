------------------------------ MODULE Voltage -------------------------------
(***************************************************************************)
(* voltage_measurement.c: the ADCs sample all channels once a millisecond, *)
(* in interrupts that keep the minimum and the maximum of each channel. A  *)
(* thread publishes them to the Jetson, periodically or when it is asked,  *)
(* and starts them anew; a second thread tests the voltages after the      *)
(* boot. On Diamond both threads also measure the super capacitors, behind *)
(* an analog multiplexer whose control lines the I2C multiplexer shares:   *)
(* one mutex guards them, and who took the lines puts them back.           *)
(*                                                                         *)
(* A sample is a number of Volts; scaling, names and ranges are left out,  *)
(* and so is which voltages the test accepts. A sample of a capacitor is   *)
(* the setting of the multiplexer it was taken with. One source stands for *)
(* all that are measured like it.                                          *)
(***************************************************************************)
EXTENDS Integers, Sequences, FiniteSets

CONSTANTS Boards,     \* subset of {"pearl", "diamond"}
          Volts,      \* the raw values the ADCs may see on each channel
          Periods,    \* the publish periods that are asked for, 0 included
          I2cPins,    \* the settings of the control lines the I2C driver uses
          POSITIONS,  \* SUPER_CAP_MUX_POSITIONS
          LOOPS,      \* VOLTAGES_SELF_TEST_TIMEOUT_MS / VOLTAGES_SELF_TEST_PERIOD_MS
          PASS,       \* VOLTAGES_SELF_TEST_LOOP_COUNT_PASS
          LOWEST,     \* below all Volts: what a maximum is reset to
          HIGHEST     \* above all Volts: what a minimum is reset to

Channels == {"3V3_UC", "3V3_LDO"}

ASSUME VoltageAssumption ==
    /\ Boards \subseteq {"pearl", "diamond"}
    /\ Volts \in [Channels -> SUBSET Int] /\ LOWEST \in Int /\ HIGHEST \in Int
    /\ \A c \in Channels : \A v \in Volts[c] : LOWEST < v /\ v < HIGHEST
    /\ 0 \in Periods /\ Periods \subseteq Nat
    /\ POSITIONS \in Nat \ {0} /\ LOOPS \in Nat \ {0} /\ PASS \in Nat \ {0}
    /\ I2cPins \cap 1..POSITIONS = {} /\ I2cPins # {}

Threads == {"publish", "selftest"}

\* The sources, in the order of orb_mcu_main_Voltage_VoltageSource.
SourceOrder == <<"MAIN_MCU_INTERNAL", "SUPPLY_1V2", "SUPER_CAP_0", "SUPPLY_3V3_LDO">>

VARIABLES
    board,    \* the build
    stats,    \* adc_samples_buffers: the minimum and maximum of each channel
    scap,     \* the multiplexer's setting at the last sample of a capacitor
    pins,     \* the control lines of the multiplexers
    owner,    \* who holds analog_mux_mutex, or "free"
    pc,       \* where each thread is
    pos,      \* each thread's position of the multiplexer
    store,    \* each thread's mux_store
    woken,    \* the publish thread's sleep was cut short
    misread,  \* the super_cap_voltages_mv read with another setting than their
              \* own, while a thread measures them
    period,   \* voltages_publish_period_ms
    copy,     \* publish_adc_buffers
    idx,      \* the next source in SourceOrder
    isCap,    \* is_super_cap_channel
    someSent, \* at_least_one_publish_successful
    passed,   \* passed_loop_count
    timeout,  \* of the self-test
    verdict,  \* what the self-test reported
    streak,   \* loops the test passed in a row, at most PASS (for the
              \* properties only)
    owed      \* values of each channel the Jetson was not told (idem)

voltageVars == <<board, stats, scap, pins, owner, pc, pos, store, woken, misread, period,
                 copy, idx, isCap, someSent, passed, timeout, verdict, streak, owed>>

muxVars == <<scap, pins, owner, pos, store, woken, misread>>
roundVars == <<copy, idx, isCap, someSent>>
testVars == <<passed, timeout, verdict, streak>>

NoStats == [c \in Channels |-> [min |-> HIGHEST, max |-> LOWEST]]

VoltageInit ==
    /\ board \in Boards
    /\ stats = NoStats /\ pins \in I2cPins /\ scap = pins /\ owner = "free"
    /\ pc = [publish |-> "start", selftest |-> "start"]
    /\ pos = [t \in Threads |-> 1] /\ store = [t \in Threads |-> pins]
    /\ woken = FALSE /\ misread = {}
    /\ period = 0 /\ copy = NoStats /\ idx = 1 /\ isCap = FALSE /\ someSent = FALSE
    /\ passed = 0 /\ timeout = LOOPS /\ verdict = "none" /\ streak = 0
    /\ owed = [c \in Channels |-> {}]

Goes(t, step) == pc' = [pc EXCEPT ![t] = step]
Covers(s, v) == s.min <= v /\ v <= s.max
Joined(s, r) == [min |-> IF r.min < s.min THEN r.min ELSE s.min,
                 max |-> IF r.max > s.max THEN r.max ELSE s.max]

-----------------------------------------------------------------------------
(* The interrupts of the ADCs.                                              *)

Sampled(c, v) ==
    /\ stats' = [stats EXCEPT ![c] = Joined(@, [min |-> v, max |-> v])]
    /\ owed' = [owed EXCEPT ![c] = @ \cup {v}]
    /\ UNCHANGED <<board, pins, owner, pos, store, woken, misread, pc, period, roundVars, testVars>>

\* ADC1 also samples the super capacitors.
adc1_callback(v) == Sampled("3V3_UC", v) /\ scap' = pins
adc5_callback(v) == board = "diamond" /\ Sampled("3V3_LDO", v) /\ UNCHANGED scap

\* adc_read repeats for ever.
Sampling ==
    \/ \E v \in Volts["3V3_UC"] : adc1_callback(v)
    \/ \E v \in Volts["3V3_LDO"] : adc5_callback(v)

\* In a critical section. What was not published is gone.
reset_statistics == stats' = NoStats /\ owed' = [c \in Channels |-> {}]

-----------------------------------------------------------------------------
(* The multiplexer.                                                         *)

\* The drivers behind the I2C multiplexer (als.c, temperature.c).
I2cSelects ==
    /\ owner = "free" /\ owner' = "i2c" /\ pins' \in I2cPins
    /\ UNCHANGED <<board, stats, scap, pos, store, woken, misread, pc, period, roundVars,
                   testVars, owed>>
I2cReleases ==
    /\ owner = "i2c" /\ owner' = "free"
    /\ UNCHANGED <<board, stats, scap, pins, pos, store, woken, misread, pc, period, roundVars,
                   testVars, owed>>

\* check_caps_voltages, and what its thread does after it.
AfterCaps(t) == IF t = "publish" THEN "copy" ELSE "judge"
capsRest == <<board, stats, period, roundVars, testVars, owed>>

\* Mutant: the mutex is waited for without a timeout.
WaitsForMux(t) ==
    /\ pc[t] = "caps" /\ owner = "free"
    /\ owner' = t /\ store' = [store EXCEPT ![t] = pins] /\ pos' = [pos EXCEPT ![t] = 1]
    /\ Goes(t, "select")
    /\ UNCHANGED <<scap, pins, woken, misread, capsRest>>

\* The mutex is waited for 200 ms; without it nothing is measured.
LocksMux(t) ==
    /\ pc[t] = "caps" /\ board = "diamond"
    /\ \/ /\ owner = "free"
          /\ owner' = t
          /\ store' = [store EXCEPT ![t] = pins] /\ pos' = [pos EXCEPT ![t] = 1]
          /\ Goes(t, "select")
       \/ /\ owner # "free"
          /\ Goes(t, AfterCaps(t))
          /\ UNCHANGED <<owner, store, pos>>
    /\ UNCHANGED <<scap, pins, woken, misread, capsRest>>

\* On Pearl there are no capacitors to measure.
SkipsCaps(t) ==
    /\ pc[t] = "caps" /\ board = "pearl"
    /\ Goes(t, AfterCaps(t))
    /\ UNCHANGED <<muxVars, capsRest>>

SelectsPosition(t) ==
    /\ pc[t] = "select"
    /\ pins' = pos[t]
    /\ Goes(t, "settle")
    /\ UNCHANGED <<scap, owner, pos, store, woken, misread, capsRest>>

\* k_usleep of more than two sampling periods: unless it is cut short, the
\* last sample was taken with the new setting.
Settled(t) == scap = pins \/ (t = "publish" /\ woken)

ReadsPosition(t) ==
    /\ pc[t] = "settle" /\ Settled(t)
    /\ misread' = IF scap = pos[t] THEN misread ELSE misread \cup {pos[t]}
    /\ woken' = (woken /\ t # "publish")
    /\ IF pos[t] = POSITIONS
       THEN Goes(t, "restore") /\ UNCHANGED pos
       ELSE Goes(t, "select") /\ pos' = [pos EXCEPT ![t] = @ + 1]
    /\ UNCHANGED <<scap, pins, owner, store, capsRest>>

\* Mutant: the lines are left as they are.
LeavesMux(t) ==
    /\ pc[t] = "restore"
    /\ owner' = "free"
    /\ Goes(t, AfterCaps(t))
    /\ UNCHANGED <<scap, pins, pos, store, woken, misread, capsRest>>

RestoresMux(t) ==
    /\ pc[t] = "restore"
    /\ pins' = store[t] /\ owner' = "free"
    /\ pos' = [pos EXCEPT ![t] = 1] /\ misread' = {}
    /\ Goes(t, AfterCaps(t))
    /\ UNCHANGED <<scap, store, woken, capsRest>>

check_caps_voltages(t) ==
    \/ LocksMux(t) \/ SkipsCaps(t)
    \/ SelectsPosition(t) \/ ReadsPosition(t) \/ RestoresMux(t)

-----------------------------------------------------------------------------
(* voltage_measurement_publish_thread.                                      *)

At(step) == pc["publish"] = step

\* The values measured while the supplies came up are forgotten.
PublisherStarts ==
    /\ At("start")
    /\ reset_statistics
    /\ Goes("publish", "read")
    /\ UNCHANGED <<board, muxVars, period, roundVars, testVars>>

\* It reads the period, and then sleeps: for ever, if it is 0.
ReadsPeriod ==
    /\ At("read")
    /\ Goes("publish", IF period = 0 THEN "zero" ELSE "asleep")
    /\ UNCHANGED <<muxVars, capsRest>>
FallsAsleep ==
    /\ At("zero")
    /\ Goes("publish", "forever")
    /\ UNCHANGED <<muxVars, capsRest>>
PeriodEnds ==
    /\ At("asleep")
    /\ Goes("publish", "caps")
    /\ UNCHANGED <<muxVars, capsRest>>

\* Called by the runner, which preempts the thread anywhere. k_wakeup ends
\* whatever sleep the thread is in, and does nothing when it is not asleep.
voltage_measurement_set_publish_period(p) ==
    /\ period' = p
    /\ IF At("asleep") \/ At("forever") THEN Goes("publish", "caps") ELSE UNCHANGED pc
    /\ woken' = (woken \/ At("settle"))
    /\ UNCHANGED <<board, stats, scap, pins, owner, pos, store, misread, roundVars, testVars, owed>>

\* publish_all_voltages copies and resets the statistics in one critical
\* section.
Copies ==
    /\ At("copy")
    /\ copy' = stats /\ stats' = NoStats
    /\ idx' = 1 /\ isCap' = FALSE /\ someSent' = FALSE
    /\ Goes("publish", "send")
    /\ UNCHANGED <<board, muxVars, period, testVars, owed>>

\* The switch over the sources: what is not there on the board is skipped;
\* channel is 3V3_UC unless a case sets it.
Skipped(s) == board = "pearl" /\ s # "MAIN_MCU_INTERNAL"
channel(s) == IF s = "SUPPLY_3V3_LDO" THEN "3V3_LDO" ELSE "3V3_UC"
IsCapSource(s) == s = "SUPER_CAP_0"

\* The values of copy that the Jetson has been told, or never will be.
Forget(c) == [owed EXCEPT ![c] = {v \in @ : ~Covers(copy[c], v)}]

\* One message for the source. Once a capacitor was sent, is_super_cap_channel
\* stays set: the message holds the values of the last capacitor.
Sends ==
    /\ At("send") /\ idx <= Len(SourceOrder)
    /\ LET s == SourceOrder[idx]
           cap == isCap \/ IsCapSource(s)
           own == s \in {"MAIN_MCU_INTERNAL", "SUPPLY_3V3_LDO"}
       IN  IF Skipped(s)
           THEN UNCHANGED <<isCap, someSent, owed>>
           ELSE /\ isCap' = cap
                /\ \/ /\ someSent' = TRUE
                      /\ owed' = IF own /\ ~cap THEN Forget(channel(s)) ELSE owed
                   \/ UNCHANGED <<someSent, owed>>
    /\ idx' = idx + 1
    /\ UNCHANGED <<board, stats, muxVars, pc, period, copy, testVars>>

\* Mutant: the copy is put back over the values sampled since.
PutsBack == stats' = copy

update_min_max_from_adc_samples_buffer ==
    stats' = [c \in Channels |-> Joined(stats[c], copy[c])]

\* If not one message was sent, the values are kept. If one was, those of the
\* messages that were not sent are lost.
RoundEnds ==
    /\ At("send") /\ idx > Len(SourceOrder)
    /\ IF someSent
       THEN /\ owed' = [c \in Channels |-> {v \in owed[c] : ~Covers(copy[c], v)}]
            /\ UNCHANGED stats
       ELSE update_min_max_from_adc_samples_buffer /\ UNCHANGED owed
    /\ copy' = NoStats /\ idx' = 1 /\ isCap' = FALSE /\ someSent' = FALSE
    /\ Goes("publish", "read")
    /\ UNCHANGED <<board, muxVars, period, testVars>>

Publisher ==
    \/ PublisherStarts \/ ReadsPeriod \/ FallsAsleep \/ PeriodEnds
    \/ check_caps_voltages("publish")
    \/ Copies \/ Sends \/ RoundEnds

-----------------------------------------------------------------------------
(* voltage_measurement_self_test_thread: started once, by main.             *)

TestAt(step) == pc["selftest"] = step

TestStarts ==
    /\ TestAt("start")
    /\ reset_statistics
    /\ Goes("selftest", "loop")
    /\ UNCHANGED <<board, muxVars, period, roundVars, testVars>>

\* while (passed_loop_count < PASS && timeout--): the timeout wraps when it
\* is over. (2^32 - 1 in the code; what matters is that it is not 0.)
UINT32_MAX == 0 - 1
TestLoops ==
    /\ TestAt("loop")
    /\ IF passed < PASS
       THEN timeout' = IF timeout = 0 THEN UINT32_MAX ELSE timeout - 1
       ELSE UNCHANGED timeout
    /\ Goes("selftest", IF passed < PASS /\ timeout # 0 THEN "caps" ELSE "end")
    /\ UNCHANGED <<board, stats, muxVars, period, roundVars, passed, verdict, streak, owed>>

\* Mutant: a loop that fails is not counted.
CountsPasses(ok) == passed' = IF ok THEN passed + 1 ELSE passed
Counts(ok) ==
    passed' = IF ok THEN passed + 1 ELSE IF passed >= 1 THEN passed - 1 ELSE 0

\* The voltages, whatever they are: all in range or not. Then the statistics
\* start anew.
Judges ==
    /\ TestAt("judge")
    /\ \E ok \in BOOLEAN :
          /\ Counts(ok)
          /\ streak' = IF ~ok THEN 0 ELSE IF streak < PASS THEN streak + 1 ELSE PASS
    /\ reset_statistics
    /\ Goes("selftest", "loop")
    /\ UNCHANGED <<board, muxVars, period, roundVars, timeout, verdict>>

TestReports ==
    /\ TestAt("end")
    /\ verdict' = IF timeout = 0 THEN "failed"
                  ELSE IF passed = PASS THEN "passed" ELSE verdict
    /\ Goes("selftest", "done")
    /\ UNCHANGED <<board, stats, muxVars, period, roundVars, passed, timeout, streak, owed>>

SelfTest ==
    \/ TestStarts \/ TestLoops \/ Judges \/ TestReports
    \/ check_caps_voltages("selftest")

-----------------------------------------------------------------------------
VoltageNext ==
    \/ Sampling
    \/ I2cSelects \/ I2cReleases
    \/ \E p \in Periods : voltage_measurement_set_publish_period(p)
    \/ Publisher \/ SelfTest

VoltageSpec == VoltageInit /\ [][VoltageNext]_voltageVars

\* The ADCs never stop sampling; the threads sleep for a bounded time, except
\* for FallsAsleep, and are always scheduled again. Nothing is assumed of the
\* I2C drivers (they may keep the mutex) and of the runner.
VoltageFairSpec ==
    /\ VoltageSpec
    /\ WF_voltageVars(\E v \in Volts["3V3_UC"] : adc1_callback(v))
    /\ WF_voltageVars(Publisher) /\ WF_voltageVars(SelfTest)

-----------------------------------------------------------------------------
(* Properties.                                                              *)

\* A value outside of what was published before is kept until a round of
\* messages takes it: through rounds that fail altogether, and although
\* samples arrive in interrupts all the time. (Only the self-test, and a
\* round that fails in part, forget it.)
ExtremesAreKept ==
    \A c \in Channels : \A v \in owed[c] :
        Covers(stats[c], v) \/ (At("send") /\ Covers(copy[c], v))

\* While neither thread measures capacitors the lines of the multiplexers are
\* as the I2C driver has set them, and a thread that measures them reads each
\* one at its own position, whoever else wants the lines; only the publish
\* thread, whose sleep k_wakeup cuts short, may read the one before.
MuxIsExclusive == /\ owner \notin Threads => pins \in I2cPins
                  /\ owner # "publish" => misread = {}

\* A thread that is to publish does so, even if the multiplexer is never
\* released to it.
PublishingHappens == At("caps") ~> At("send")

\* The self-test only reports success when the voltages were in range in all
\* of the last PASS loops.
PassIsSustained == verdict = "passed" => streak >= PASS

=============================================================================
