------------------------------ MODULE Battery -------------------------------
(***************************************************************************)
(* The main battery: battery_ruby.c (Pearl: the battery broadcasts CAN     *)
(* messages, and answers RTR requests for its identity) and                *)
(* battery_amber.c (Diamond: the battery is polled over I2C).              *)
(*                                                                         *)
(* battery_init decides whether the Orb may start. Then one thread loops,  *)
(* once a period: it publishes what the battery said, and decides from the *)
(* messages and from the voltage of VBAT_SW whether the Orb runs on a      *)
(* battery, on a cord or on what is left in its capacitors, in which case  *)
(* it announces a shutdown to the Jetson and reboots.                      *)
(*                                                                         *)
(* On Ruby the messages and the state of the CAN controller arrive in      *)
(* interrupts, between any two steps of the thread. A message is the pack  *)
(* or the value it carries; the bytes, and the messages that are only      *)
(* copied to the Jetson, are not modelled. Times are in periods.           *)
(***************************************************************************)
EXTENDS Integers, Sequences, FiniteSets, SequencesExt, TLC

CONSTANTS Chips,        \* subset of {"ruby", "amber"}
          Packs,        \* the batteries that can be inserted
          Levels,       \* the states of charge a battery may send
          AnswerOrder,  \* the RTR messages: 0x522 to 0x525
          BusStates,    \* what the CAN controller reports: "bus_off", "other"
          ATTEMPTS,     \* BATTERY_ID_REQUEST_ATTEMPTS
          REMOVED,      \* BATTERY_MESSAGES_REMOVED_TIMEOUT_MS, in periods
          FORCE_REBOOT, \* BATTERY_MESSAGES_FORCE_REBOOT_TIMEOUT_MS, in periods
          MIN_CAPACITY, \* BATTERY_MINIMUM_CAPACITY_STARTUP_PERCENT
          FULL          \* 100 %

ASSUME BatteryAssumption ==
    /\ Chips \subseteq {"ruby", "amber"}
    /\ {"cord", "none"} \cap Packs = {}
    /\ BusStates \subseteq {"bus_off", "other"}
    /\ Levels \subseteq Nat /\ FULL \in Nat /\ MIN_CAPACITY \in Nat
    /\ ATTEMPTS \in Nat \ {0}
    /\ REMOVED \in Nat /\ FORCE_REBOOT \in Nat /\ REMOVED < FORCE_REBOOT

VARIABLES
    chip,       \* the build
    supply,     \* the pack that is inserted, or "cord", or "none"
    online,     \* the Jetson has started communicating
    bus,        \* the controller: running: can_start has started it; off: it
                \* is bus-off; state, changed: what can_state_change_callback
                \* noted; failed: it is as a restart with an error left it
    volt,       \* state_414 when can_message_414_received is set, else "none";
                \* on Amber a voltage of this period
    charge,     \* state_499 when can_message_499_received is set, else NoLevel
    buf,        \* the state_52x
    got,        \* the can_message_52x_received flags that are set
    requested,  \* the RTR messages the pack has not answered
    thread,     \* where the thread is
    rtr,        \* the RTR messages still to send
    attempts,   \* request_battery_info_left_attempts
    pending,    \* battery_mcu_id_request_pending
    publish,    \* publish_battery_info_request
    cap,        \* battery_cap.percentage
    corded,     \* corded_power_supply
    messagesTimeout, \* battery_messages_timeout, at most FORCE_REBOOT + 1
    sent,       \* shutdown_scheduled_sent is RET_SUCCESS
    reboot,     \* why reboot was called, or "no"
    silent,     \* periods in a row without a message (for the properties only)
    left        \* periods left of the shutdown that was announced

batteryVars == <<chip, supply, online, bus, volt, charge, buf, got, requested, thread, rtr,
                 attempts, pending, publish, cap, corded, messagesTimeout, sent, reboot,
                 silent, left>>

msgVars == <<volt, charge, buf, got>>
canVars == <<bus, msgVars, requested>>
infoVars == <<rtr, attempts, pending, publish>>
supplyVars == <<corded, messagesTimeout, sent, reboot, silent, left>>
env == <<chip, supply, online>>

Answers == ToSet(AnswerOrder)
Zero == "zero"
NoLevel == 0
Cleared == [m \in Answers |-> Zero]
Started == [running |-> TRUE, off |-> FALSE, state |-> "other", changed |-> FALSE,
            failed |-> FALSE]

BatteryInit ==
    /\ chip \in Chips /\ supply \in Packs \cup {"cord", "none"} /\ online = FALSE
    /\ bus = Started
    /\ volt = "none" /\ charge = NoLevel /\ buf = Cleared /\ got = {} /\ requested = {}
    /\ thread = "boot" /\ rtr = <<>> /\ attempts = ATTEMPTS
    /\ pending = FALSE /\ publish = FALSE /\ cap = 0
    /\ corded = FALSE /\ messagesTimeout = 0 /\ sent = FALSE /\ reboot = "no"
    /\ silent = 0 /\ left = 0

\* The reset that reboot(...) or NVIC_SystemReset leads to.
Restart ==
    /\ reboot # "no"
    /\ online' = FALSE
    /\ bus' = Started
    /\ volt' = "none" /\ charge' = NoLevel /\ buf' = Cleared /\ got' = {} /\ requested' = {}
    /\ thread' = "boot" /\ rtr' = <<>> /\ attempts' = ATTEMPTS
    /\ pending' = FALSE /\ publish' = FALSE /\ cap' = 0
    /\ corded' = FALSE /\ messagesTimeout' = 0 /\ sent' = FALSE /\ reboot' = "no"
    /\ silent' = 0 /\ left' = 0
    /\ UNCHANGED <<chip, supply>>

-----------------------------------------------------------------------------
(* The environment: the user, the Jetson, the battery and the controller.   *)

\* A battery is removed at any time; to put the next one in takes longer than
\* a period of the thread, so that it is found at its sleep. (A change between
\* a reboot and the reset is one after the reset.)
Swap ==
    /\ reboot = "no"
    /\ \/ supply \in Packs /\ supply' \in {"cord", "none"}
       \/ supply = "cord" /\ supply' = "none"
       \/ supply = "none" /\ supply' = "cord"
       \/ supply \notin Packs /\ thread \in {"boot", "bus"} /\ supply' \in Packs
    /\ requested' = {}
    /\ UNCHANGED <<chip, online, bus, msgVars, thread, infoVars, cap, supplyVars>>

JetsonStarts ==
    /\ reboot = "no" /\ ~online /\ thread \notin {"boot", "down"} /\ online' = TRUE
    /\ UNCHANGED <<chip, supply, canVars, thread, infoVars, cap, supplyVars>>

\* The voltage of VBAT_SW: on the capacitors it is low, or cannot be measured;
\* on a pack or a cord it is enough to start, or only to run.
Vbat == IF supply = "none" THEN {"low", "error"} ELSE {"run", "startup", "error"}

\* The controller is started, and not bus-off.
BusWorks == chip = "ruby" /\ bus.running /\ ~bus.off
Inserted == supply \in Packs

\* message_checker and the handler of the message: its content and its flag.
\* (A frame of another length is dropped.)
Receives == BusWorks /\ Inserted /\ reboot = "no"

handle_414(v) ==
    /\ Receives /\ volt' = v
    /\ UNCHANGED <<env, bus, charge, buf, got, requested, thread, infoVars, cap, supplyVars>>

handle_499(l) ==
    /\ Receives /\ charge' = l
    /\ UNCHANGED <<env, bus, volt, buf, got, requested, thread, infoVars, cap, supplyVars>>

handle_52x(m) ==
    /\ Receives /\ m \in requested
    /\ buf' = [buf EXCEPT ![m] = supply] /\ got' = got \cup {m}
    /\ requested' = requested \ {m}
    /\ UNCHANGED <<env, bus, volt, charge, thread, infoVars, cap, supplyVars>>

\* can_state_change_callback, in an interrupt.
can_state_change_callback(state) ==
    /\ BusWorks /\ reboot = "no"
    /\ bus' = [bus EXCEPT !.off = (state = "bus_off"), !.state = state, !.changed = TRUE]
    /\ UNCHANGED <<env, msgVars, requested, thread, infoVars, cap, supplyVars>>

-----------------------------------------------------------------------------
(* battery_init. It looks every 100 ms for 2 s: it goes on at once when the *)
(* battery is good enough, and otherwise with what it saw last.             *)

GoodBattery == volt = "ok" /\ charge >= MIN_CAPACITY

\* A low battery resets the Orb before its thread is started.
StartsOn ==
    /\ thread' = "bus"
    /\ UNCHANGED reboot
LowAtBoot ==
    /\ reboot' = "low" /\ thread' = "down"
    /\ UNCHANGED <<corded, volt, charge>>

RubyBoots ==
    /\ chip = "ruby" /\ thread = "boot"
    /\ \/ /\ GoodBattery /\ StartsOn /\ UNCHANGED <<corded, volt, charge>>
       \/ /\ ~GoodBattery /\ volt # "none" /\ LowAtBoot
       \/ /\ volt = "none"
          /\ \E v \in Vbat :
                IF v = "startup"
                THEN \* a cord: messages that no battery has sent
                     /\ corded' = TRUE
                     /\ volt' = "ok" /\ charge' = FULL
                     /\ StartsOn
                ELSE LowAtBoot
    /\ UNCHANGED <<env, bus, buf, got, requested, infoVars, cap, messagesTimeout, sent,
                   silent, left>>

AmberBoots ==
    /\ chip = "amber" /\ thread = "boot"
    /\ \/ \* the battery answered in time, and is good enough or not
          /\ Inserted
          /\ \/ StartsOn /\ UNCHANGED <<corded, volt, charge>>
             \/ LowAtBoot
       \/ \E v \in Vbat :
             IF v = "startup"
             THEN corded' = TRUE /\ StartsOn /\ UNCHANGED <<volt, charge>>
             ELSE LowAtBoot
    /\ UNCHANGED <<env, bus, buf, got, requested, infoVars, cap, messagesTimeout, sent,
                   silent, left>>

-----------------------------------------------------------------------------
(* battery_rx_thread, Ruby.                                                 *)

RubyAt(step) == chip = "ruby" /\ thread = step

\* Mutant: the state is read before the flag is cleared.
RubyClearsLate ==
    /\ \/ /\ RubyAt("bus")
          /\ thread' = IF ~bus.changed THEN "voltage"
                       ELSE IF bus.state = "bus_off" THEN "stopped" ELSE "late"
          /\ UNCHANGED bus
       \/ /\ RubyAt("late")
          /\ bus' = [bus EXCEPT !.changed = FALSE]
          /\ thread' = "voltage"
    /\ UNCHANGED <<env, msgVars, requested, infoVars, cap, supplyVars>>

\* A bus-off that was noted restarts the controller. The flag is cleared
\* before the state is read.
RubyChecksBus ==
    /\ RubyAt("bus")
    /\ bus' = [bus EXCEPT !.changed = FALSE]
    /\ thread' = IF bus.changed THEN "state" ELSE "voltage"
    /\ UNCHANGED <<env, msgVars, requested, infoVars, cap, supplyVars>>

RubyReadsState ==
    /\ RubyAt("state")
    /\ thread' = IF bus.state = "bus_off" THEN "stopped" ELSE "voltage"
    /\ rtr' = <<>>
    /\ UNCHANGED <<env, canVars, attempts, pending, publish, cap, supplyVars>>

\* can_restart: can_stop, 500 ms, can_start, 500 ms. Their errors are logged
\* only: a controller that could not be stopped goes on as it is, and cannot be
\* started; one that cannot be started remains stopped, and nobody tries again.
\* It goes back to the loop or, from send_rtr_message, to the end of the period.
Stops == /\ bus' = [bus EXCEPT !.running = FALSE, !.off = FALSE, !.failed = FALSE]
         /\ requested' = {}
Starts == bus' = [bus EXCEPT !.running = TRUE, !.failed = FALSE]
RestartFails == bus' = [bus EXCEPT !.failed = ~BusWorks]

can_restart ==
    \/ /\ RubyAt("stopped")
       /\ Stops \/ (RestartFails /\ UNCHANGED requested)
       /\ thread' = "starting"
       /\ UNCHANGED <<env, msgVars, infoVars, cap, supplyVars>>
    \/ /\ RubyAt("starting")
       /\ (~bus.running /\ Starts) \/ RestartFails
       /\ thread' = IF rtr = <<>> THEN "voltage" ELSE "bus"
       /\ rtr' = <<>>
       /\ UNCHANGED <<env, msgVars, requested, attempts, pending, publish, cap, supplyVars>>

\* check_battery_voltage reboots on a low voltage; then the voltages and the
\* state of charge are published. A change of it asks for the identity again.
Lowest(r) == IF r = "no" THEN "low" ELSE r
RubyReports ==
    /\ RubyAt("voltage")
    /\ reboot' = IF volt = "low" THEN Lowest(reboot) ELSE reboot
    /\ IF charge # NoLevel
       THEN /\ attempts' = IF cap # charge THEN ATTEMPTS ELSE attempts
            /\ cap' = charge
       ELSE /\ cap' = IF corded THEN FULL ELSE cap
            /\ UNCHANGED attempts
    /\ thread' = "info"
    /\ UNCHANGED <<env, canVars, rtr, pending, publish, corded, messagesTimeout, sent,
                   silent, left>>

\* publish_battery_info: the identity in the buffers, when publish is set.
Identity == {buf[m] : m \in Answers} \ {Zero}

\* The info that was asked for is published; it is asked for when all the
\* answers are there, or when the last attempt was not answered.
RubyReportsInfo ==
    /\ RubyAt("info")
    /\ LET complete == Answers \subseteq got
           givenUp == ~complete /\ pending /\ attempts = 0
       IN  /\ got' = IF complete THEN got \ Answers ELSE got
           /\ attempts' = IF complete THEN 0 ELSE attempts
           /\ pending' = (pending /\ ~complete /\ ~givenUp)
           /\ publish' = (complete \/ givenUp)
    /\ thread' = "take"
    /\ UNCHANGED <<env, bus, volt, charge, buf, requested, rtr, cap, supplyVars>>

\* A message of the battery: it is there, whatever the timeout was.
BatteryIsThere ==
    /\ corded' = FALSE /\ messagesTimeout' = 0 /\ sent' = FALSE
    /\ silent' = 0 /\ left' = 0
    /\ UNCHANGED reboot

\* Mutant: can_message_414_received is not cleared.
RubyKeepsVoltage ==
    /\ RubyAt("take") /\ volt # "none"
    /\ BatteryIsThere
    /\ thread' = "bus"
    /\ UNCHANGED <<env, bus, volt, charge, buf, got, requested, infoVars, cap>>

RubyTakesVoltage ==
    /\ RubyAt("take")
    /\ volt' = "none"
    /\ IF volt # "none"
       THEN /\ BatteryIsThere
            /\ IF attempts > 0 /\ online
               THEN thread' = "clear" /\ pending' = TRUE
               ELSE thread' = "bus" /\ UNCHANGED pending
       ELSE thread' = "silent" /\ UNCHANGED <<supplyVars, pending>>
    /\ UNCHANGED <<env, bus, charge, buf, got, requested, rtr, attempts, publish, cap>>

\* Mutant: nothing is cleared before the requests.
ClearsNothing ==
    /\ RubyAt("clear")
    /\ thread' = "send" /\ rtr' = AnswerOrder /\ attempts' = attempts - 1
    /\ UNCHANGED <<env, canVars, pending, publish, cap, supplyVars>>

\* clear_can_message_buffers: the buffers in a critical section, the flags
\* after it, one by one.
clear_can_message_buffers ==
    \/ /\ RubyAt("clear")
       /\ buf' = Cleared
       /\ thread' = "flags"
       /\ UNCHANGED <<env, bus, volt, charge, got, requested, infoVars, cap, supplyVars>>
    \/ /\ RubyAt("flags")
       /\ volt' = "none" /\ charge' = NoLevel /\ got' = {}
       /\ thread' = "send" /\ rtr' = AnswerOrder /\ attempts' = attempts - 1
       /\ UNCHANGED <<env, bus, buf, requested, pending, publish, cap, supplyVars>>

\* send_rtr_message, for one message after the other: sent, when there is a
\* battery to acknowledge it; refused or not completed in 100 ms, which
\* restarts the controller; or another error, as of a stopped controller.
\* While it waits it looks for a bus-off as well.
SentRtr ==
    /\ bus.running /\ ~bus.off /\ Inserted
    /\ requested' = requested \cup {Head(rtr)}
    /\ rtr' = Tail(rtr)
    /\ thread' = IF Len(rtr) = 1 THEN "bus" ELSE "send"
    /\ UNCHANGED bus
FailedRtr ==
    /\ \/ bus.running /\ thread' = "stopped" /\ UNCHANGED rtr
       \/ ~bus.off /\ thread' = "bus" /\ rtr' = <<>>
    /\ UNCHANGED <<bus, requested>>
WaitsForRtr ==
    \/ /\ RubyAt("send")
       /\ bus.running /\ bus.changed
       /\ bus' = [bus EXCEPT !.changed = FALSE]
       /\ thread' = "waits"
    \/ /\ RubyAt("waits")
       /\ thread' = IF bus.state = "bus_off" THEN "stopped" ELSE "send"
       /\ UNCHANGED bus

requestRest == <<env, msgVars, attempts, pending, publish, cap, supplyVars>>
RtrEnds == /\ RubyAt("send") \/ (RubyAt("waits") /\ bus.state # "bus_off")
           /\ SentRtr \/ FailedRtr
           /\ UNCHANGED requestRest
request_battery_info ==
    \/ RtrEnds
    \/ WaitsForRtr /\ UNCHANGED <<rtr, requested>> /\ UNCHANGED requestRest

-----------------------------------------------------------------------------
(* The end of a period without a message of the battery.                    *)

Longer == IF messagesTimeout > FORCE_REBOOT THEN messagesTimeout ELSE messagesTimeout + 1
Announces == Longer >= REMOVED /\ ~sent
OneLess == IF left > 0 THEN left - 1 ELSE 0

\* Mutant: the timeout of the reboot is that of the announcement.
RubyForcesEarly == Longer >= REMOVED
RubyForces == Longer >= FORCE_REBOOT
\* In Amber the test is inside the block of the announcement.
AmberForces == Announces /\ Longer >= FORCE_REBOOT
Forces == IF chip = "ruby" THEN RubyForces ELSE AmberForces

\* No voltage: the battery is being removed. The shutdown is announced once,
\* when publish_new succeeds, with the time that is left.
NoSupply ==
    /\ messagesTimeout' = Longer
    /\ sent' = (sent \/ (Announces /\ online))
    /\ left' = IF Announces /\ online
               THEN (IF Longer > FORCE_REBOOT THEN 0 ELSE FORCE_REBOOT - Longer)
               ELSE OneLess
    /\ reboot' = IF Forces /\ reboot = "no" THEN "removed" ELSE reboot
    /\ attempts' = IF chip = "ruby" THEN ATTEMPTS ELSE attempts
    /\ UNCHANGED corded

\* A voltage without a battery that speaks: a cord, if it is high enough.
Supplied(v) ==
    /\ corded' = (corded \/ v = "startup")
    /\ left' = OneLess
    /\ UNCHANGED <<messagesTimeout, sent, reboot, attempts>>

SilentPeriod ==
    /\ thread = "silent"
    /\ \E v \in Vbat : IF v \in {"low", "error"} THEN NoSupply ELSE Supplied(v)
    /\ silent' = IF silent < FORCE_REBOOT THEN silent + 1 ELSE silent
    /\ thread' = "bus"
    /\ UNCHANGED <<env, canVars, rtr, pending, publish, cap>>

-----------------------------------------------------------------------------
(* battery_rx_thread, Amber: it reads one value after the other over I2C.   *)

AmberAt(step) == chip = "amber" /\ thread = step

\* bq4050_read_block and bq4050_read_word, and what is built from them: they
\* fail when no battery is there, and may fail when one is.
bq4050_read(success, failure) == \/ Inserted /\ success
                                 \/ failure

\* One value that was read in the period is enough to say that the battery is
\* there: volt tells whether there was one.
AmberReadsVoltage ==
    /\ AmberAt("bus")
    /\ bq4050_read(/\ volt' \in {"ok", "low"}
                   /\ reboot' = IF volt' = "low" THEN Lowest(reboot) ELSE reboot,
                   volt' = "none" /\ UNCHANGED reboot)
    /\ thread' = "charge"
    /\ UNCHANGED <<env, bus, charge, buf, got, requested, infoVars, cap,
                   corded, messagesTimeout, sent, silent, left>>

amberRest == <<env, bus, charge, buf, got, requested, infoVars, supplyVars>>

\* A cord counts as full as long as the state of charge cannot be read.
AmberReadsCharge ==
    /\ AmberAt("charge")
    /\ bq4050_read(volt' = "ok" /\ cap' \in Levels,
                   cap' = (IF corded THEN FULL ELSE cap) /\ UNCHANGED volt)
    /\ thread' = "status"
    /\ UNCHANGED amberRest

\* The temperatures and the current, published when they can be read.
AmberReadsStatus ==
    /\ AmberAt("status")
    /\ bq4050_read(volt' = "ok", UNCHANGED volt)
    /\ thread' = "info"
    /\ UNCHANGED <<amberRest, cap>>

\* Serial and build number, cycles, maximal values and health.
AmberReadsInfo ==
    /\ AmberAt("info")
    /\ bq4050_read(volt' = "ok", UNCHANGED volt)
    /\ thread' = "take"
    /\ UNCHANGED <<amberRest, cap>>

AmberCounts ==
    /\ AmberAt("take")
    /\ volt' = "none"
    /\ IF volt # "none"
       THEN BatteryIsThere /\ thread' = "bus"
       ELSE UNCHANGED supplyVars /\ thread' = "silent"
    /\ UNCHANGED <<env, bus, charge, buf, got, requested, infoVars, cap>>

-----------------------------------------------------------------------------
Steps ==
    \/ RubyBoots \/ AmberBoots
    \/ RubyChecksBus \/ RubyReadsState \/ can_restart
    \/ RubyReports \/ RubyReportsInfo
    \/ RubyTakesVoltage \/ clear_can_message_buffers \/ request_battery_info
    \/ AmberReadsVoltage \/ AmberReadsCharge \/ AmberReadsStatus \/ AmberReadsInfo
    \/ AmberCounts
    \/ SilentPeriod

\* The periods between the call of reboot and the reset are not modelled.
Thread == reboot = "no" /\ Steps

BatteryNext ==
    \/ Thread
    \/ Restart
    \/ Swap \/ JetsonStarts
    \/ \E v \in {"ok", "low"} : handle_414(v)
    \/ \E l \in Levels : handle_499(l)
    \/ \E m \in Answers : handle_52x(m)
    \/ \E state \in BusStates : can_state_change_callback(state)

BatterySpec == BatteryInit /\ [][BatteryNext]_batteryVars

\* The thread of the battery sleeps for a period at a time and never blocks:
\* it is always scheduled again. A transmission is waited for 100 ms at most.
\* A reboot that was called for happens (RebootHappens, module Power).
\* Nothing is assumed of the environment.
BatteryFairSpec ==
    /\ BatterySpec
    /\ WF_batteryVars(Thread) /\ WF_batteryVars(RtrEnds) /\ WF_batteryVars(Restart)

-----------------------------------------------------------------------------
(* Properties.                                                              *)

\* The Orb is only rebooted for a removed battery when the battery has said
\* nothing in FORCE_REBOOT periods in a row, and never before the time that
\* was announced to the Jetson is over.
RebootKeepsItsAnnouncement ==
    [][reboot # "removed" /\ reboot' = "removed"
           => silent' >= FORCE_REBOOT /\ left' = 0]_batteryVars

\* The identity published to the Jetson is that of one battery, although
\* batteries are swapped and answer only some of the requests.
InfoOfOnePack == RubyAt("info") /\ publish => Cardinality(Identity) <= 1

\* A controller that went bus-off is restarted, in whatever step of the
\* thread the interrupt came and whatever state was noted before it, unless
\* can_stop or can_start returns an error, which is only logged.
BusOffEnds == bus.off ~> (BusWorks \/ bus.failed)

\* What that rests on: a bus-off that is not over is noted, whatever interrupt
\* came between the steps of the thread, or about to be acted upon, unless the
\* restart has failed.
BusOffIsNoted ==
    bus.off => \/ bus.changed \/ bus.failed
               \/ thread \in {"state", "waits"} /\ bus.state = "bus_off"
               \/ thread = "stopped"

\* An Orb left without battery and cord reboots; on Amber it at least
\* announces its shutdown.
RemovalIsAnswered ==
    (supply = "none") ~> (supply # "none" \/ reboot # "no" \/ (chip = "amber" /\ sent))

\* The shutdown that was announced with a time takes place, unless the Orb
\* gets a supply again.
AnnouncedShutdownHappens ==
    (sent /\ supply = "none") ~> (supply # "none" \/ reboot # "no")
=============================================================================
