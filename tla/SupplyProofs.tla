---------------------------- MODULE SupplyProofs ----------------------------
(***************************************************************************)
(* The safety properties of Battery and of Voltage: of the main battery    *)
(* and of the voltages that are measured beside it.                        *)
(*                                                                         *)
(* Battery, for every set of batteries, RTR messages and states of charge  *)
(* and all lengths of the timeouts.  Identity: a battery answers only the  *)
(* requests that it got itself, and the requests follow the clearing of    *)
(* the buffers with no time to insert another battery in between.          *)
(* Shutdown: the timeout counts no period that was not silent, and with    *)
(* the time announced to the Jetson it never exceeds the time to the       *)
(* reboot. Controller: its state is read after the flag of a change was    *)
(* cleared, so that no bus-off is overlooked.                              *)
(*                                                                         *)
(* Voltage, for every set of values, of periods and of settings, every     *)
(* number of positions of the multiplexer and every length of the          *)
(* self-test.  Each property has an inductive invariant of its own: the    *)
(* three concern different variables of the module.                        *)
(***************************************************************************)
EXTENDS Battery, Voltage, FiniteSetTheorems, TLAPS

-----------------------------------------------------------------------------
(* The identity *)

\* The buffers hold what some battery has answered
BufferTypes == buf \in [Answers -> Packs \cup {Zero}]

\* Requests are with the battery that is inserted
RequestedOfInserted == requested # {} => Inserted

\* The answers that are there, and those still to come, are of one battery
AnswersOfOnePack ==
    /\ \A m, n \in Answers : buf[m] # Zero /\ buf[n] # Zero => buf[m] = buf[n]
    /\ requested # {} => \A m \in Answers : buf[m] \in {Zero, supply}

\* From the clearing of the buffers to the last request
Requesting == {"flags", "send", "waits"}

\* From the clearing of the buffers to the last request no other battery is
\* inserted
RequestsOneBattery ==
    thread \in Requesting /\ Inserted => \A m \in Answers : buf[m] \in {Zero, supply}

IdentityInductive == /\ BufferTypes
                     /\ RequestedOfInserted
                     /\ AnswersOfOnePack
                     /\ RequestsOneBattery

\* The bus is not left to the insertion of a battery once the buffers are
\* cleared: a step that changes none of the buffers, the requests and the
\* supply keeps the invariant unless it goes to the requests
LEMMA IdentityKept ==
    ASSUME IdentityInductive, UNCHANGED <<supply, buf, requested>>,
           thread' \in Requesting => thread \in Requesting
    PROVE  IdentityInductive'
PROOF
  BY DEF IdentityInductive, BufferTypes, RequestedOfInserted, AnswersOfOnePack,
         RequestsOneBattery, Requesting, Inserted

\* A state with cleared buffers and no request, as at reset
LEMMA IdentityAtReset ==
    ASSUME buf = Cleared, requested = {}
    PROVE  IdentityInductive
PROOF
  BY DEF IdentityInductive, BufferTypes, RequestedOfInserted, AnswersOfOnePack,
         RequestsOneBattery, Cleared
\* An answer is of the battery that was asked, which is still inserted
LEMMA AnswerKeepsIdentity ==
    ASSUME IdentityInductive, NEW m \in Answers, handle_52x(m)
    PROVE  IdentityInductive'
PROOF
  <1> USE DEF IdentityInductive
  <1>1. /\ requested # {} /\ supply \in Packs /\ supply' = supply /\ thread' = thread
        /\ buf' = [buf EXCEPT ![m] = supply] /\ requested' \subseteq requested
    BY DEF handle_52x, Receives, Inserted, env
  <1>2. \A n \in Answers : buf'[n] = IF n = m THEN supply ELSE buf[n]
    BY <1>1 DEF BufferTypes
  <1>3. \A n \in Answers : buf'[n] \in {Zero, supply}
    BY <1>1, <1>2 DEF AnswersOfOnePack
  <1>4. BufferTypes'
    BY <1>1 DEF BufferTypes
  <1>5. RequestedOfInserted'
    BY <1>1 DEF RequestedOfInserted, Inserted
  <1>6. AnswersOfOnePack' /\ RequestsOneBattery'
    BY <1>1, <1>3 DEF AnswersOfOnePack, RequestsOneBattery
  <1> QED
    BY <1>4, <1>5, <1>6

\* A battery that is removed leaves its requests unanswered; the next one is
\* not inserted while requests are being sent
LEMMA SwapKeepsIdentity ==
    ASSUME IdentityInductive, Swap
    PROVE  IdentityInductive'
PROOF
  <1> USE BatteryAssumption DEF IdentityInductive, Swap, msgVars
  <1>1. BufferTypes' /\ RequestedOfInserted' /\ AnswersOfOnePack'
    BY DEF BufferTypes, RequestedOfInserted, AnswersOfOnePack
  <1>2. thread' \in Requesting => supply' \notin Packs
    BY DEF Requesting
  <1>3. RequestsOneBattery'
    BY <1>2 DEF RequestsOneBattery, Requesting, Inserted
  <1> QED
    BY <1>1, <1>3

\* A request goes to the battery that is inserted, whose answers alone are in
\* the buffers
LEMMA RequestKeepsIdentity ==
    ASSUME IdentityInductive, request_battery_info
    PROVE  IdentityInductive'
PROOF
  <1>1. /\ UNCHANGED <<supply, buf>>
        /\ \/ thread \in {"send", "waits"} /\ (SentRtr \/ FailedRtr)
           \/ WaitsForRtr /\ UNCHANGED requested
    BY DEF request_battery_info, RtrEnds, RubyAt, requestRest, env, msgVars
  <1>2. CASE thread \in {"send", "waits"} /\ SentRtr
    <2>1. thread \in Requesting /\ supply \in Packs /\ supply' = supply /\ buf' = buf
      BY <1>1, <1>2 DEF SentRtr, Requesting, Inserted
    <2>2. \A m \in Answers : buf[m] \in {Zero, supply}
      BY <2>1 DEF IdentityInductive, RequestsOneBattery, Requesting, Inserted
    <2> QED
      BY <2>1, <2>2 DEF IdentityInductive, BufferTypes, RequestedOfInserted, AnswersOfOnePack,
                        RequestsOneBattery, Requesting, Inserted
  <1>3. CASE (thread \in {"send", "waits"} /\ FailedRtr) \/ (WaitsForRtr /\ UNCHANGED requested)
    <2>1. requested' = requested /\ thread \in Requesting
      BY <1>3 DEF FailedRtr, WaitsForRtr, RubyAt, Requesting
    <2> QED
      BY <1>1, <2>1, IdentityKept
  <1> QED
    BY <1>1, <1>2, <1>3

\* The buffers are cleared before the first request
LEMMA ClearKeepsIdentity ==
    ASSUME IdentityInductive, clear_can_message_buffers
    PROVE  IdentityInductive'
PROOF
  <1>1. CASE RubyAt("clear") /\ buf' = Cleared /\ UNCHANGED <<env, requested>>
    BY <1>1 DEF IdentityInductive, BufferTypes, RequestedOfInserted, AnswersOfOnePack,
                RequestsOneBattery, Cleared, Inserted, env
  <1>2. CASE RubyAt("flags") /\ UNCHANGED <<env, buf, requested>>
    BY <1>2, IdentityKept DEF RubyAt, env, Requesting
  <1> QED
    BY <1>1, <1>2 DEF clear_can_message_buffers

\* A restart of the controller drops the requests
LEMMA RestartKeepsIdentity ==
    ASSUME IdentityInductive, can_restart
    PROVE  IdentityInductive'
PROOF
  <1>1. UNCHANGED <<supply, buf>> /\ thread' \notin Requesting
        /\ requested' \in {requested, {}}
    BY DEF can_restart, Stops, env, msgVars, canVars, Requesting
  <1> QED
    BY <1>1 DEF IdentityInductive, BufferTypes, RequestedOfInserted, AnswersOfOnePack,
                RequestsOneBattery, Requesting, Inserted

\* Every step of the thread keeps the invariant
LEMMA ThreadKeepsIdentity ==
    ASSUME IdentityInductive, Steps
    PROVE  IdentityInductive'
PROOF
  <1>1. CASE RubyBoots \/ AmberBoots
    <2>1. UNCHANGED <<supply, buf, requested>> /\ thread' \notin Requesting
      BY <1>1 DEF RubyBoots, AmberBoots, StartsOn, LowAtBoot, env, Requesting
    <2> QED
      BY <2>1, IdentityKept
  <1>2. CASE RubyChecksBus \/ RubyReadsState \/ RubyReports \/ RubyReportsInfo
             \/ RubyTakesVoltage \/ SilentPeriod
    <2>1. UNCHANGED <<supply, buf, requested>> /\ thread' \notin Requesting
      BY <1>2 DEF RubyChecksBus, RubyReadsState, RubyReports, RubyReportsInfo,
                  RubyTakesVoltage, SilentPeriod, env, msgVars, canVars, Requesting
    <2> QED
      BY <2>1, IdentityKept
  <1>3. CASE AmberReadsVoltage \/ AmberReadsCharge \/ AmberReadsStatus \/ AmberReadsInfo
             \/ AmberCounts
    <2>1. UNCHANGED <<supply, buf, requested>> /\ thread' \notin Requesting
      BY <1>3 DEF AmberReadsVoltage, AmberReadsCharge, AmberReadsStatus, AmberReadsInfo,
                  AmberCounts, amberRest, env, Requesting
    <2> QED
      BY <2>1, IdentityKept
  <1> QED
    BY <1>1, <1>2, <1>3, RestartKeepsIdentity, ClearKeepsIdentity, RequestKeepsIdentity
       DEF Steps

\* IdentityInductive is inductive
LEMMA IdentityInvariant == BatterySpec => []IdentityInductive
PROOF
  <1>1. BatteryInit => IdentityInductive
    BY IdentityAtReset DEF BatteryInit
  <1>2. IdentityInductive /\ [BatteryNext]_batteryVars => IdentityInductive'
    <2> SUFFICES ASSUME IdentityInductive, [BatteryNext]_batteryVars
                 PROVE  IdentityInductive'
      OBVIOUS
    <2>1. CASE Thread
      BY <2>1, ThreadKeepsIdentity DEF Thread
    <2>2. CASE Restart
      BY <2>2 DEF Restart, IdentityInductive, BufferTypes, RequestedOfInserted,
                  AnswersOfOnePack, RequestsOneBattery, Cleared
    <2>3. CASE Swap
      BY <2>3, SwapKeepsIdentity
    <2>4. CASE \/ JetsonStarts
               \/ \E v \in {"ok", "low"} : handle_414(v)
               \/ \E l \in Levels : handle_499(l)
               \/ \E state \in BusStates : can_state_change_callback(state)
               \/ UNCHANGED batteryVars
      <3>1. UNCHANGED <<supply, buf, requested, thread>>
        BY <2>4 DEF JetsonStarts, handle_414, handle_499, can_state_change_callback, batteryVars,
                    env, msgVars, canVars
      <3> QED
        BY <3>1, IdentityKept
    <2>5. CASE \E m \in Answers : handle_52x(m)
      BY <2>5, AnswerKeepsIdentity
    <2> QED
      BY <2>1, <2>2, <2>3, <2>4, <2>5 DEF BatteryNext
  <1> QED
    BY <1>1, <1>2, PTL DEF BatterySpec

\* The identity published to the Jetson is that of one battery.
THEOREM OnePack == BatterySpec => []InfoOfOnePack
PROOF
  <1>1. IdentityInductive => InfoOfOnePack
    <2> SUFFICES ASSUME IdentityInductive
                 PROVE  Cardinality(Identity) <= 1
      BY DEF InfoOfOnePack
    <2>1. CASE Identity = {}
      BY <2>1, FS_EmptySet
    <2>2. CASE Identity # {}
      <3>1. PICK p : p \in Identity
        BY <2>2
      <3>2. Identity = {p}
        BY <3>1 DEF Identity, IdentityInductive, AnswersOfOnePack
      <3>3. Cardinality({p}) = 1
        BY FS_Singleton, Zenon
      <3> QED
        BY <3>2, <3>3
    <2> QED
      BY <2>1, <2>2
  <1> QED
    BY <1>1, IdentityInvariant, PTL
-----------------------------------------------------------------------------
(* The shutdown *)

\* The counters; silent stops at FORCE_REBOOT
ShutdownTypes == silent \in 0..FORCE_REBOOT /\ messagesTimeout \in Nat /\ left \in Nat

\* The timeout counts silent periods only, since the same message
TimeoutWasSilent == messagesTimeout <= silent \/ silent = FORCE_REBOOT

\* The time that is announced ends no later than the timeout
AnnouncedInTime == left > 0 => left + messagesTimeout <= FORCE_REBOOT

ShutdownInductive == ShutdownTypes /\ TimeoutWasSilent /\ AnnouncedInTime

\* No counter starts at other than 0, and a message of the battery sets them
\* back
LEMMA CountersAtZero ==
    ASSUME silent' = 0, messagesTimeout' = 0, left' = 0
    PROVE  ShutdownInductive'
PROOF
  BY BatteryAssumption
     DEF ShutdownInductive, ShutdownTypes, TimeoutWasSilent, AnnouncedInTime

\* A silent period counts on, announces the shutdown with the time that is
\* left, and reboots only when that time is over
LEMMA SilentPeriodCounts ==
    ASSUME ShutdownInductive, SilentPeriod
    PROVE  /\ ShutdownInductive'
           /\ reboot # "removed" /\ reboot' = "removed" => silent' >= FORCE_REBOOT /\ left' = 0
PROOF
  <1> USE BatteryAssumption DEF ShutdownInductive, ShutdownTypes, TimeoutWasSilent,
          AnnouncedInTime
  <1>1. silent' = IF silent < FORCE_REBOOT THEN silent + 1 ELSE silent
    BY DEF SilentPeriod
  <1>2. PICK v \in Vbat : IF v \in {"low", "error"} THEN NoSupply ELSE Supplied(v)
    BY DEF SilentPeriod
  <1>3. CASE NoSupply
    <2>1. messagesTimeout' = Longer /\ Longer \in {messagesTimeout, messagesTimeout + 1} /\ Longer \in Nat
          /\ (Longer = messagesTimeout => messagesTimeout > FORCE_REBOOT)
      BY <1>3 DEF NoSupply, Longer
    <2>2. left' = IF Announces /\ online
                  THEN (IF Longer > FORCE_REBOOT THEN 0 ELSE FORCE_REBOOT - Longer)
                  ELSE OneLess
      BY <1>3 DEF NoSupply
    <2>3. ShutdownInductive'
      BY <1>1, <2>1, <2>2 DEF OneLess
    <2>4. reboot # "removed" /\ reboot' = "removed" => Longer >= FORCE_REBOOT
      BY <1>3 DEF NoSupply, Forces, RubyForces, AmberForces
    <2>5. Longer >= FORCE_REBOOT => silent' >= FORCE_REBOOT /\ left' = 0
      BY <1>1, <2>1, <2>2 DEF OneLess
    <2> QED
      BY <2>3, <2>4, <2>5
  <1>4. CASE Supplied(v)
    BY <1>1, <1>4 DEF Supplied, OneLess
  <1> QED
    BY <1>2, <1>3, <1>4

\* Any other step leaves the counters alone or sets them back, and reboots for
\* another reason
LEMMA OtherStepsCountNothing ==
    ASSUME ShutdownInductive, [BatteryNext]_batteryVars, ~SilentPeriod
    PROVE  /\ ShutdownInductive'
           /\ reboot # "removed" => reboot' # "removed"
PROOF
  <1>1. CASE UNCHANGED <<messagesTimeout, silent, left>> /\ reboot' \in {reboot, "low", "no"}
    BY <1>1 DEF ShutdownInductive, ShutdownTypes, TimeoutWasSilent, AnnouncedInTime
  <1>2. CASE silent' = 0 /\ messagesTimeout' = 0 /\ left' = 0 /\ reboot' \in {reboot, "no"}
    BY <1>2, CountersAtZero
  <1>3. CASE RubyBoots \/ AmberBoots
    <2>1. UNCHANGED <<messagesTimeout, silent, left>> /\ reboot' \in {reboot, "low"}
      BY <1>3 DEF RubyBoots, AmberBoots, StartsOn, LowAtBoot
    <2> QED
      BY <2>1, <1>1
  <1>4. CASE RubyReports \/ AmberReadsVoltage
    <2>1. UNCHANGED <<messagesTimeout, silent, left>> /\ reboot' \in {reboot, "low"}
      BY <1>4 DEF RubyReports, AmberReadsVoltage, bq4050_read, Lowest
    <2> QED
      BY <2>1, <1>1
  <1>5. CASE RubyTakesVoltage \/ AmberCounts
    <2>1. BatteryIsThere \/ UNCHANGED supplyVars
      BY <1>5 DEF RubyTakesVoltage, AmberCounts
    <2> QED
      BY <2>1, <1>1, <1>2 DEF BatteryIsThere, supplyVars
  <1>6. CASE \/ RubyChecksBus \/ RubyReadsState \/ can_restart \/ RubyReportsInfo
             \/ clear_can_message_buffers \/ request_battery_info
             \/ AmberReadsCharge \/ AmberReadsStatus \/ AmberReadsInfo
    <2>1. UNCHANGED supplyVars
      BY <1>6 DEF RubyChecksBus, RubyReadsState, can_restart, RubyReportsInfo,
                  clear_can_message_buffers, request_battery_info, RtrEnds, requestRest,
                  AmberReadsCharge, AmberReadsStatus, AmberReadsInfo, amberRest
    <2> QED
      BY <2>1, <1>1 DEF supplyVars
  <1>7. CASE Restart
    BY <1>7, <1>2 DEF Restart
  <1>8. CASE \/ Swap \/ JetsonStarts
             \/ \E v \in {"ok", "low"} : handle_414(v)
             \/ \E l \in Levels : handle_499(l)
             \/ \E m \in Answers : handle_52x(m)
             \/ \E state \in BusStates : can_state_change_callback(state)
             \/ UNCHANGED batteryVars
    <2>1. UNCHANGED supplyVars
      BY <1>8 DEF Swap, JetsonStarts, handle_414, handle_499, handle_52x,
                  can_state_change_callback, batteryVars, supplyVars
    <2> QED
      BY <2>1, <1>1 DEF supplyVars
  <1> QED
    BY <1>3, <1>4, <1>5, <1>6, <1>7, <1>8 DEF BatteryNext, Thread, Steps

\* A reboot for a removed battery comes after FORCE_REBOOT silent periods, and
\* not before the time announced to the Jetson is over.
THEOREM AnnouncementKept == BatterySpec => RebootKeepsItsAnnouncement
PROOF
  <1>1. BatteryInit => ShutdownInductive
    BY BatteryAssumption
       DEF BatteryInit, ShutdownInductive, ShutdownTypes, TimeoutWasSilent, AnnouncedInTime
  <1>2. ShutdownInductive /\ [BatteryNext]_batteryVars =>
            /\ ShutdownInductive'
            /\ reboot # "removed" /\ reboot' = "removed" =>
                   silent' >= FORCE_REBOOT /\ left' = 0
    BY SilentPeriodCounts, OtherStepsCountNothing
  <1>3. ShutdownInductive /\ [BatteryNext]_batteryVars =>
            [reboot # "removed" /\ reboot' = "removed" =>
                silent' >= FORCE_REBOOT /\ left' = 0]_batteryVars
    BY <1>2
  <1> QED
    BY <1>1, <1>2, <1>3, PTL DEF BatterySpec, RebootKeepsItsAnnouncement

-----------------------------------------------------------------------------
(* The controller *)

BusTypes == bus \in [running : BOOLEAN, off : BOOLEAN, state : BusStates \cup {"other"},
                     changed : BOOLEAN, failed : BOOLEAN]

\* A bus-off is the last state that was reported, and only of a controller
\* that is running
BusOffReported == bus.off => bus.state = "bus_off" /\ bus.running

BusInductive == BusTypes /\ BusOffReported /\ BusOffIsNoted

\* Steps that neither look at the state of the bus nor restart it
LEMMA BusKept ==
    ASSUME BusInductive, bus' = bus, thread \notin {"state", "waits", "stopped"}
    PROVE  BusInductive'
PROOF
  BY DEF BusInductive, BusTypes, BusOffReported, BusOffIsNoted

\* The flag is cleared on the way to reading the state
LEMMA BusFlagTaken ==
    ASSUME BusInductive, bus' = [bus EXCEPT !.changed = FALSE],
           bus.changed => thread' \in {"state", "waits"},
           thread \notin {"state", "waits", "stopped"}
    PROVE  BusInductive'
PROOF
  BY DEF BusInductive, BusTypes, BusOffReported, BusOffIsNoted

\* The state is read after the flag was cleared: a bus-off is seen
LEMMA BusStateRead ==
    ASSUME BusInductive, bus' = bus, bus.state = "bus_off" => thread' = "stopped"
    PROVE  BusInductive'
PROOF
  BY DEF BusInductive, BusTypes, BusOffReported, BusOffIsNoted

\* A restart ends the bus-off or is noted as failed
LEMMA BusRestarted ==
    ASSUME BusInductive, can_restart
    PROVE  BusInductive'
PROOF
  <1>1. CASE RubyAt("stopped") /\ Stops
    BY <1>1 DEF Stops, BusInductive, BusTypes, BusOffReported, BusOffIsNoted
  <1>2. CASE RestartFails
    BY <1>2 DEF RestartFails, BusWorks, BusInductive, BusTypes, BusOffReported, BusOffIsNoted
  <1>3. CASE ~bus.running /\ Starts
    BY <1>3 DEF Starts, BusInductive, BusTypes, BusOffReported, BusOffIsNoted
  <1> QED
    BY <1>1, <1>2, <1>3 DEF can_restart

\* A request fails, or the thread looks at the bus while it waits
LEMMA BusRequests ==
    ASSUME BusInductive, request_battery_info
    PROVE  BusInductive'
PROOF
  <1>1. CASE RubyAt("send") /\ (SentRtr \/ FailedRtr)
    BY <1>1, BusKept DEF SentRtr, FailedRtr, RubyAt
  <1>0. CASE bus.state # "bus_off" /\ (SentRtr \/ FailedRtr)
    BY <1>0, BusStateRead DEF SentRtr, FailedRtr
  <1>2. CASE WaitsForRtr
    <2>1. CASE RubyAt("send") /\ bus' = [bus EXCEPT !.changed = FALSE] /\ thread' = "waits"
      BY <2>1, BusFlagTaken DEF RubyAt
    <2>2. CASE bus' = bus /\ thread' = IF bus.state = "bus_off" THEN "stopped" ELSE "send"
      BY <2>2, BusStateRead
    <2> QED
      BY <1>2, <2>1, <2>2 DEF WaitsForRtr
  <1> QED
    BY <1>0, <1>1, <1>2 DEF request_battery_info, RtrEnds

\* Every step of the thread keeps the invariant
LEMMA ThreadKeepsBus ==
    ASSUME BusInductive, Steps
    PROVE  BusInductive'
PROOF
  <1>1. CASE RubyChecksBus
    <2>1. /\ thread = "bus" /\ bus' = [bus EXCEPT !.changed = FALSE]
          /\ bus.changed => thread' = "state"
      BY <1>1 DEF RubyChecksBus, RubyAt
    <2> QED
      BY <2>1, BusFlagTaken
  <1>2. CASE RubyReadsState
    <2>1. bus' = bus /\ (bus.state = "bus_off" => thread' = "stopped")
      BY <1>2 DEF RubyReadsState, canVars
    <2> QED
      BY <2>1, BusStateRead
  <1>3. CASE \/ RubyBoots \/ AmberBoots \/ RubyReports \/ RubyReportsInfo \/ RubyTakesVoltage
             \/ clear_can_message_buffers \/ SilentPeriod
    <2>1. bus' = bus /\ thread \notin {"state", "waits", "stopped"}
      BY <1>3 DEF RubyBoots, AmberBoots, RubyReports, RubyReportsInfo, RubyTakesVoltage,
                  clear_can_message_buffers, SilentPeriod, RubyAt, canVars
    <2> QED
      BY <2>1, BusKept
  <1>4. CASE AmberReadsVoltage \/ AmberReadsCharge \/ AmberReadsStatus \/ AmberReadsInfo
             \/ AmberCounts
    <2>1. bus' = bus /\ thread \notin {"state", "waits", "stopped"}
      BY <1>4 DEF AmberReadsVoltage, AmberReadsCharge, AmberReadsStatus, AmberReadsInfo,
                  AmberCounts, AmberAt, amberRest
    <2> QED
      BY <2>1, BusKept
  <1> QED
    BY <1>1, <1>2, <1>3, <1>4, BusRestarted, BusRequests DEF Steps

\* An interrupt notes what it reports, and there is none of a bus that is off
LEMMA ReportKeepsBus ==
    ASSUME BusInductive, NEW state \in BusStates, can_state_change_callback(state)
    PROVE  BusInductive'
PROOF
  BY DEF can_state_change_callback, BusWorks, BusInductive, BusTypes, BusOffReported,
         BusOffIsNoted

\* The controller that can_start has started
LEMMA BusAtReset ==
    ASSUME bus = Started
    PROVE  BusInductive
PROOF
  BY DEF Started, BusInductive, BusTypes, BusOffReported, BusOffIsNoted

\* A bus-off is restarted or its restart has failed, unless it is noted or
\* about to be acted upon: no interrupt between two steps of the thread is lost.
THEOREM BusOffNoted == BatterySpec => []BusOffIsNoted
PROOF
  <1>1. BatteryInit => BusInductive
    BY BusAtReset DEF BatteryInit
  <1>2. BusInductive /\ [BatteryNext]_batteryVars => BusInductive'
    <2> SUFFICES ASSUME BusInductive, [BatteryNext]_batteryVars
                 PROVE  BusInductive'
      OBVIOUS
    <2>1. CASE Thread
      BY <2>1, ThreadKeepsBus DEF Thread
    <2>2. CASE Restart
      BY <2>2 DEF Restart, Started, BusInductive, BusTypes, BusOffReported, BusOffIsNoted
    <2>3. CASE \/ Swap \/ JetsonStarts
               \/ \E v \in {"ok", "low"} : handle_414(v)
               \/ \E l \in Levels : handle_499(l)
               \/ \E m \in Answers : handle_52x(m)
               \/ UNCHANGED batteryVars
      <3>1. UNCHANGED <<bus, thread>>
        BY <2>3 DEF Swap, JetsonStarts, handle_414, handle_499, handle_52x, batteryVars, canVars
      <3> QED
        BY <3>1 DEF BusInductive, BusTypes, BusOffReported, BusOffIsNoted
    <2>4. CASE \E state \in BusStates : can_state_change_callback(state)
      BY <2>4, ReportKeepsBus
    <2> QED
      BY <2>1, <2>2, <2>3, <2>4 DEF BatteryNext
  <1>3. BusInductive => BusOffIsNoted
    BY DEF BusInductive
  <1> QED
    BY <1>1, <1>2, <1>3, PTL DEF BatterySpec

-----------------------------------------------------------------------------
(* Voltage *)

Points == {"start", "read", "zero", "asleep", "forever", "caps", "select", "settle",
           "restore", "copy", "send", "loop", "judge", "end", "done"}
Stats == [min : Int, max : Int]

\* Each value is at least in the statistics or in the copy being sent.
PointsOK == pc \in [Threads -> Points]
ExtremesInductive ==
    /\ PointsOK
    /\ stats \in [Channels -> Stats] /\ copy \in [Channels -> Stats]
    /\ owed \in [Channels -> SUBSET Int]
    /\ ExtremesAreKept

\* A thread measures capacitors exactly while it holds the mutex. Its store
\* then is a setting of the I2C driver, and while it lets the multiplexer
\* settle the lines are at its position.
Measuring == {"select", "settle", "restore"}
MuxInductive ==
    /\ PointsOK
    /\ owner \in Threads \cup {"free", "i2c"}
    /\ pos \in [Threads -> Nat] /\ store \in [Threads -> I2cPins \cup Nat]
    /\ \A t \in Threads : /\ owner = t <=> pc[t] \in Measuring
                          /\ owner = t => store[t] \in I2cPins
                          /\ pc[t] = "settle" => pins = pos[t]
    /\ MuxIsExclusive

\* The count of the loops that passed is at most the length of the streak as
\* long as a failure takes it back to 0: up to a PASS of 2.
Looping == {"caps", "select", "settle", "restore", "judge"}
PassInductive ==
    /\ PointsOK
    /\ passed \in 0..PASS /\ streak \in 0..PASS
    /\ passed <= streak
    /\ pc["selftest"] \in Looping => passed < PASS
    /\ verdict = "passed" => passed = PASS /\ pc["selftest"] = "done"

-----------------------------------------------------------------------------
(* The statistics.                                                          *)

\* Joining two statistics covers what either of them covers.
LEMMA JoinedCovers ==
    ASSUME NEW s \in Stats, NEW r \in Stats
    PROVE  /\ Joined(s, r) \in Stats
           /\ \A v \in Int : Covers(s, v) \/ Covers(r, v) => Covers(Joined(s, r), v)
PROOF
  BY DEF Joined, Stats, Covers

\* An interrupt widens the statistics by its sample.
LEMMA SamplingKeeps ==
    ASSUME ExtremesInductive, Sampling
    PROVE  ExtremesInductive'
PROOF
  <1>0. PICK c \in Channels : \E v \in Volts[c] : Sampled(c, v)
    BY DEF Sampling, adc1_callback, adc5_callback, Channels
  <1>1. PICK v \in Volts[c] : Sampled(c, v)
    BY <1>0
  <1>2. v \in Int
    BY VoltageAssumption
  <1> DEFINE one == [min |-> v, max |-> v]
  <1>3. one \in Stats /\ Covers(one, v) /\ stats[c] \in Stats
    BY <1>2 DEF Stats, Covers, ExtremesInductive
  <1>4. /\ stats' = [stats EXCEPT ![c] = Joined(stats[c], one)]
        /\ owed' = [owed EXCEPT ![c] = owed[c] \cup {v}]
        /\ pc' = pc /\ copy' = copy
    BY <1>1 DEF Sampled, roundVars
  <1>5. /\ Joined(stats[c], one) \in Stats
        /\ \A w \in Int : Covers(stats[c], w) \/ Covers(one, w)
                             => Covers(Joined(stats[c], one), w)
    BY <1>3, JoinedCovers
  <1>6. ExtremesAreKept'
    <2> SUFFICES ASSUME NEW d \in Channels, NEW w \in owed'[d]
                 PROVE  Covers(stats'[d], w) \/ (At("send")' /\ Covers(copy'[d], w))
      BY DEF ExtremesAreKept
    <2>1. w \in owed[d] \/ (d = c /\ w = v)
      BY <1>4 DEF ExtremesInductive
    <2>2. w \in Int
      BY <2>1, <1>2 DEF ExtremesInductive
    <2>3. CASE w \in owed[d]
      <3>1. Covers(stats[d], w) \/ (At("send") /\ Covers(copy[d], w))
        BY <2>3 DEF ExtremesInductive, ExtremesAreKept
      <3>2. Covers(stats[d], w) => Covers(stats'[d], w)
        BY <1>4, <1>5, <2>2 DEF ExtremesInductive
      <3> QED
        BY <3>1, <3>2, <1>4 DEF At
    <2>4. CASE d = c /\ w = v
      BY <2>4, <1>2, <1>3, <1>4, <1>5 DEF ExtremesInductive
    <2> QED
      BY <2>1, <2>3, <2>4
  <1> QED
    BY <1>2, <1>4, <1>5, <1>6 DEF ExtremesInductive, PointsOK

\* What changes neither statistics, copy nor what is owed, and does not leave
\* "send".
LEMMA OthersKeep ==
    ASSUME ExtremesInductive, PointsOK', At("send") => At("send")',
           stats' = stats, copy' = copy, owed' = owed
    PROVE  ExtremesInductive'
PROOF
  BY DEF ExtremesInductive, ExtremesAreKept, Covers

\* Statistics that start anew owe nothing.
LEMMA ResetKeeps ==
    ASSUME ExtremesInductive, PointsOK', reset_statistics, copy' = copy
    PROVE  ExtremesInductive'
PROOF
  BY VoltageAssumption DEF ExtremesInductive, ExtremesAreKept, reset_statistics, NoStats, Stats

\* The steps of check_caps_voltages stay away from the statistics.
LEMMA CapsKeep ==
    ASSUME ExtremesInductive, NEW t \in Threads, check_caps_voltages(t)
    PROVE  ExtremesInductive'
PROOF
  <1>1. PointsOK' /\ (At("send") => At("send")') /\ UNCHANGED capsRest
    BY DEF ExtremesInductive, PointsOK, Points, At, Threads, check_caps_voltages, LocksMux,
           SkipsCaps, SelectsPosition, ReadsPosition, RestoresMux, Goes, AfterCaps
  <1> QED
    BY <1>1, OthersKeep DEF capsRest, roundVars

\* A round of the publish thread loses no extreme value.
LEMMA PublisherKeeps ==
    ASSUME ExtremesInductive, Publisher
    PROVE  ExtremesInductive'
PROOF
  <1> USE DEF PointsOK, Points, At, Threads, Goes
  <1>1. CASE PublisherStarts
    BY <1>1, ResetKeeps DEF PublisherStarts, ExtremesInductive, roundVars
  <1>2. CASE ReadsPeriod \/ FallsAsleep \/ PeriodEnds
    <2>1. PointsOK' /\ (At("send") => At("send")') /\ UNCHANGED capsRest
      BY <1>2 DEF ReadsPeriod, FallsAsleep, PeriodEnds, ExtremesInductive
    <2> QED
      BY <2>1, OthersKeep DEF capsRest, roundVars
  <1>3. CASE check_caps_voltages("publish")
    BY <1>3, CapsKeep
  <1>4. CASE Copies
    BY <1>4, VoltageAssumption
    DEF Copies, ExtremesInductive, ExtremesAreKept, Covers, NoStats, Stats
  <1>5. CASE Sends
    <2>1. /\ pc' = pc /\ stats' = stats /\ copy' = copy
          /\ \/ owed' = owed
             \/ \E c \in Channels : owed' = Forget(c)
      BY <1>5 DEF Sends, channel, Channels
    <2>2. /\ owed' \in [Channels -> SUBSET Int]
          /\ \A c \in Channels : owed'[c] \subseteq owed[c]
      BY <2>1 DEF Forget, ExtremesInductive
    <2> QED
      BY <2>1, <2>2 DEF ExtremesInductive, ExtremesAreKept, Covers
  <1>6. CASE RoundEnds
    <2>1. PointsOK' /\ copy' = NoStats /\ NoStats \in [Channels -> Stats]
      BY <1>6, VoltageAssumption DEF RoundEnds, ExtremesInductive, NoStats, Stats
    <2>2. CASE someSent
      <3>1. stats' = stats /\ owed' = [c \in Channels |-> {v \in owed[c] : ~Covers(copy[c], v)}]
        BY <1>6, <2>2 DEF RoundEnds
      <3> QED
        BY <2>1, <3>1 DEF ExtremesInductive, ExtremesAreKept, Covers
    <2>3. CASE ~someSent
      <3>1. stats' = [c \in Channels |-> Joined(stats[c], copy[c])] /\ owed' = owed
        BY <1>6, <2>3 DEF RoundEnds, update_min_max_from_adc_samples_buffer
      <3>2. \A c \in Channels :
               /\ Joined(stats[c], copy[c]) \in Stats
               /\ \A v \in Int : Covers(stats[c], v) \/ Covers(copy[c], v)
                                    => Covers(Joined(stats[c], copy[c]), v)
        BY JoinedCovers DEF ExtremesInductive
      <3>3. ExtremesAreKept'
        BY <3>1, <3>2 DEF ExtremesAreKept, ExtremesInductive
      <3> QED
        BY <2>1, <3>1, <3>2, <3>3 DEF ExtremesInductive
    <2> QED
      BY <2>2, <2>3
  <1> QED
    BY <1>1, <1>2, <1>3, <1>4, <1>5, <1>6 DEF Publisher

\* Nor does a loop of the self-test.
LEMMA SelfTestKeeps ==
    ASSUME ExtremesInductive, SelfTest
    PROVE  ExtremesInductive'
PROOF
  <1> USE DEF PointsOK, Points, At, TestAt, Threads, Goes
  <1>1. CASE TestStarts \/ Judges
    <2>1. PointsOK' /\ reset_statistics /\ copy' = copy
      BY <1>1 DEF TestStarts, Judges, ExtremesInductive, roundVars
    <2> QED
      BY <2>1, ResetKeeps
  <1>2. CASE TestLoops \/ TestReports
    <2>1. /\ PointsOK' /\ (At("send") => At("send")')
          /\ stats' = stats /\ copy' = copy /\ owed' = owed
      BY <1>2 DEF TestLoops, TestReports, ExtremesInductive, roundVars
    <2> QED
      BY <2>1, OthersKeep
  <1>3. CASE check_caps_voltages("selftest")
    BY <1>3, CapsKeep
  <1> QED
    BY <1>1, <1>2, <1>3 DEF SelfTest

\* An extreme value is published, or kept for the next round, although the
\* interrupts sample and both threads reset the statistics.
THEOREM ExtremesKept == VoltageSpec => []ExtremesAreKept
PROOF
  <1>1. VoltageInit => ExtremesInductive
    BY VoltageAssumption
    DEF VoltageInit, ExtremesInductive, PointsOK, Points, Threads, Stats, NoStats, ExtremesAreKept
  <1>2. ExtremesInductive /\ [VoltageNext]_voltageVars => ExtremesInductive'
    <2> SUFFICES ASSUME ExtremesInductive, [VoltageNext]_voltageVars PROVE ExtremesInductive'
      OBVIOUS
    <2> USE DEF PointsOK, Points, At, Threads, Goes
    <2>1. CASE Sampling
      BY <2>1, SamplingKeeps
    <2>2. CASE I2cSelects \/ I2cReleases
      <3>1. pc' = pc /\ stats' = stats /\ copy' = copy /\ owed' = owed
        BY <2>2 DEF I2cSelects, I2cReleases, roundVars
      <3> QED
        BY <3>1, OthersKeep DEF ExtremesInductive
    <2>3. ASSUME NEW p \in Periods, voltage_measurement_set_publish_period(p)
          PROVE  ExtremesInductive'
      <3>1. /\ PointsOK' /\ (At("send") => At("send")')
            /\ stats' = stats /\ copy' = copy /\ owed' = owed
        BY <2>3 DEF voltage_measurement_set_publish_period, ExtremesInductive, roundVars
      <3> QED
        BY <3>1, OthersKeep
    <2>4. CASE Publisher
      BY <2>4, PublisherKeeps
    <2>5. CASE SelfTest
      BY <2>5, SelfTestKeeps
    <2>6. CASE UNCHANGED voltageVars
      BY <2>6, OthersKeep DEF voltageVars, ExtremesInductive
    <2> QED
      BY <2>1, <2>2, <2>3, <2>4, <2>5, <2>6 DEF VoltageNext
  <1>3. ExtremesInductive => ExtremesAreKept
    BY DEF ExtremesInductive
  <1> QED
    BY <1>1, <1>2, <1>3, PTL DEF VoltageSpec

-----------------------------------------------------------------------------
(* The multiplexer.                                                         *)

\* The steps that leave the multiplexer alone and start or end no measurement.
LEMMA OthersKeepMux ==
    ASSUME MuxInductive, PointsOK',
           owner' = owner, pos' = pos, store' = store, pins' = pins, misread' = misread,
           \A t \in Threads : pc'[t] # pc[t] => {pc[t], pc'[t]} \cap Measuring = {}
    PROVE  MuxInductive'
PROOF
  BY DEF MuxInductive, MuxIsExclusive, Measuring

\* Measuring the capacitors takes the multiplexer and puts it back.
LEMMA CapsKeepMux ==
    ASSUME MuxInductive, NEW t \in Threads, check_caps_voltages(t)
    PROVE  MuxInductive'
PROOF
  <1> USE VoltageAssumption DEF MuxInductive, PointsOK, Points, Threads, Measuring, MuxIsExclusive,
          Goes, AfterCaps
  <1>1. CASE LocksMux(t)
    BY <1>1 DEF LocksMux
  <1>2. CASE SkipsCaps(t)
    BY <1>2 DEF SkipsCaps, muxVars
  <1>3. CASE SelectsPosition(t)
    BY <1>3 DEF SelectsPosition
  <1>4. CASE ReadsPosition(t)
    BY <1>4 DEF ReadsPosition, Settled
  <1>5. CASE RestoresMux(t)
    BY <1>5 DEF RestoresMux
  <1> QED
    BY <1>1, <1>2, <1>3, <1>4, <1>5 DEF check_caps_voltages

\* The lines are the I2C driver's whenever it may use them, and the self-test
\* reads every capacitor at its own position.
THEOREM MuxExclusive == VoltageSpec => []MuxIsExclusive
PROOF
  <1>1. VoltageInit => MuxInductive
    BY VoltageAssumption
    DEF VoltageInit, MuxInductive, PointsOK, Points, Threads, Measuring, MuxIsExclusive
  <1>2. MuxInductive /\ [VoltageNext]_voltageVars => MuxInductive'
    <2> SUFFICES ASSUME MuxInductive, [VoltageNext]_voltageVars PROVE MuxInductive'
      OBVIOUS
    <2> USE DEF PointsOK, Points, Threads, Goes, Measuring
    <2>1. CASE Sampling
      <3>1. pc' = pc /\ owner' = owner /\ pos' = pos /\ store' = store /\ pins' = pins
            /\ misread' = misread
        BY <2>1 DEF Sampling, adc1_callback, adc5_callback, Sampled
      <3> QED
        BY <3>1, OthersKeepMux DEF MuxInductive
    <2>2. CASE I2cSelects \/ I2cReleases
      BY <2>2 DEF I2cSelects, I2cReleases, MuxInductive, MuxIsExclusive
    <2>3. ASSUME NEW p \in Periods, voltage_measurement_set_publish_period(p)
          PROVE  MuxInductive'
      <3>1. /\ owner' = owner /\ pos' = pos /\ store' = store /\ pins' = pins
            /\ misread' = misread
            /\ PointsOK'
            /\ \A t \in Threads : pc'[t] # pc[t] => {pc[t], pc'[t]} \cap Measuring = {}
        BY <2>3 DEF voltage_measurement_set_publish_period, MuxInductive, At
      <3> QED
        BY <3>1, OthersKeepMux
    <2>4. CASE PublisherStarts \/ ReadsPeriod \/ FallsAsleep \/ PeriodEnds \/ Copies
               \/ Sends \/ RoundEnds
      <3>1. UNCHANGED muxVars
        BY <2>4 DEF PublisherStarts, ReadsPeriod, FallsAsleep, PeriodEnds, Copies, Sends, RoundEnds
      <3>2. /\ PointsOK'
            /\ \A t \in Threads : pc'[t] # pc[t] => {pc[t], pc'[t]} \cap Measuring = {}
        BY <2>4 DEF PublisherStarts, ReadsPeriod, FallsAsleep, PeriodEnds, Copies, Sends,
                    RoundEnds, MuxInductive, At
      <3> QED
        BY <3>1, <3>2, OthersKeepMux DEF muxVars
    <2>5. CASE TestStarts \/ TestLoops \/ Judges \/ TestReports
      <3>1. UNCHANGED muxVars
        BY <2>5 DEF TestStarts, TestLoops, Judges, TestReports
      <3>2. /\ PointsOK'
            /\ \A t \in Threads : pc'[t] # pc[t] => {pc[t], pc'[t]} \cap Measuring = {}
        BY <2>5 DEF TestStarts, TestLoops, Judges, TestReports, MuxInductive, TestAt
      <3> QED
        BY <3>1, <3>2, OthersKeepMux DEF muxVars
    <2>6. ASSUME NEW t \in Threads, check_caps_voltages(t) PROVE MuxInductive'
      BY <2>6, CapsKeepMux
    <2>7. CASE UNCHANGED voltageVars
      BY <2>7, OthersKeepMux DEF voltageVars, MuxInductive
    <2> QED
      BY <2>1, <2>2, <2>3, <2>4, <2>5, <2>6, <2>7 DEF VoltageNext, Publisher, SelfTest
  <1>3. MuxInductive => MuxIsExclusive
    BY DEF MuxInductive
  <1> QED
    BY <1>1, <1>2, <1>3, PTL DEF VoltageSpec

-----------------------------------------------------------------------------
(* The self-test.                                                           *)

\* The steps that leave the counters of the self-test alone.
LEMMA OthersKeepPass ==
    ASSUME PassInductive, PointsOK', passed' = passed, streak' = streak, verdict' = verdict,
           pc'["selftest"] \in Looping => pc["selftest"] \in Looping,
           pc["selftest"] = "done" => pc'["selftest"] = "done"
    PROVE  PassInductive'
PROOF
  BY DEF PassInductive

\* With the PASS of the code (2 loops) the self-test reports success only for
\* voltages that were in range in each of the last PASS loops. With a greater
\* one a failure would only take back one of the loops that passed.
THEOREM PassSustained == ASSUME PASS <= 2
                         PROVE  VoltageSpec => []PassIsSustained
PROOF
  <1>1. VoltageInit => PassInductive
    BY VoltageAssumption DEF VoltageInit, PassInductive, PointsOK, Points, Threads, Looping
  <1>2. PassInductive /\ [VoltageNext]_voltageVars => PassInductive'
    <2> SUFFICES ASSUME PassInductive, [VoltageNext]_voltageVars PROVE PassInductive'
      OBVIOUS
    <2> USE VoltageAssumption DEF PointsOK, Points, Threads, Goes, Looping
    <2>1. CASE Sampling \/ I2cSelects \/ I2cReleases
      <3>1. pc' = pc /\ passed' = passed /\ streak' = streak /\ verdict' = verdict
        BY <2>1 DEF Sampling, adc1_callback, adc5_callback, Sampled, I2cSelects, I2cReleases,
                    testVars
      <3> QED
        BY <3>1, OthersKeepPass DEF PassInductive
    <2>2. ASSUME NEW p \in Periods, voltage_measurement_set_publish_period(p)
          PROVE  PassInductive'
      BY <2>2, OthersKeepPass
      DEF voltage_measurement_set_publish_period, PassInductive, testVars, At
    <2>3. CASE PublisherStarts \/ ReadsPeriod \/ FallsAsleep \/ PeriodEnds \/ Copies
               \/ Sends \/ RoundEnds
      <3>1. UNCHANGED testVars /\ PointsOK' /\ pc'["selftest"] = pc["selftest"]
        BY <2>3 DEF PublisherStarts, ReadsPeriod, FallsAsleep, PeriodEnds, Copies, Sends,
                    RoundEnds, PassInductive, At, capsRest
      <3> QED
        BY <3>1, OthersKeepPass DEF testVars
    <2>4. CASE TestStarts \/ TestLoops
      BY <2>4 DEF TestStarts, TestLoops, TestAt, PassInductive, testVars
    <2>5. CASE Judges
      BY <2>5 DEF Judges, Counts, TestAt, PassInductive
    <2>6. CASE TestReports
      BY <2>6 DEF TestReports, TestAt, PassInductive
    <2>7. ASSUME NEW t \in Threads, check_caps_voltages(t) PROVE PassInductive'
      <3>1. UNCHANGED testVars
        BY <2>7 DEF check_caps_voltages, LocksMux, SkipsCaps, SelectsPosition, ReadsPosition,
                    RestoresMux, capsRest
      <3>2. /\ PointsOK'
            /\ pc'["selftest"] \in Looping => pc["selftest"] \in Looping
            /\ pc["selftest"] = "done" => pc'["selftest"] = "done"
        BY <2>7 DEF check_caps_voltages, LocksMux, SkipsCaps, SelectsPosition, ReadsPosition,
                    RestoresMux, AfterCaps, PassInductive
      <3> QED
        BY <3>1, <3>2, OthersKeepPass DEF testVars
    <2>8. CASE UNCHANGED voltageVars
      BY <2>8, OthersKeepPass DEF voltageVars, testVars, PassInductive
    <2> QED
      BY <2>1, <2>2, <2>3, <2>4, <2>5, <2>6, <2>7, <2>8 DEF VoltageNext, Publisher, SelfTest
  <1>3. PassInductive => PassIsSustained
    BY VoltageAssumption DEF PassInductive, PassIsSustained
  <1> QED
    BY <1>1, <1>2, <1>3, PTL DEF VoltageSpec

=============================================================================
