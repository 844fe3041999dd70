---------------------------- MODULE PowerProofs ----------------------------
(***************************************************************************)
(* The inductive invariant of Power, and the safety properties that follow *)
(* from it, for every length of the button press, every set of delays and  *)
(* every number of requests.                                               *)
(***************************************************************************)
EXTENDS Power, TLAPS

\* A reset that keeps the update
LEMMA ResetStep ==
    ASSUME PowerInductive, Cleared, Bootloader, kept' = TRUE,
           flag' \in BOOLEAN, autoBoot' \in BOOLEAN, rdp' \in BOOLEAN,
           requests' \in 0..MaxRequests,
           promised' \in {"no", "during", "after"}, promised' = "after" => flag'
    PROVE  PowerInductive'
PROOF
  <1>1. PowerFlags'
    BY Zenon DEF PowerFlags, Cleared, Bootloader
  <1>2. PowerTypes'
    BY DEF PowerTypes, PowerInductive, Cleared, Bootloader, NoThread, MainPoints, ThreadPoints
  <1>3. BootOrder' /\ ShutdownOrder' /\ PressOrder'
    BY DEF Cleared, NoThread, BootOrder, ShutdownOrder, PressOrder, PoweredPoints, JetsonPoints
  <1>4. UpdateOrder' /\ Latched' /\ PromisedRebootComesBack'
    BY DEF Cleared, UpdateOrder, Latched, PromisedRebootComesBack
  <1> QED
    BY <1>1, <1>2, <1>3, <1>4 DEF PowerInductive

\* NVIC_SystemReset() once app_init_state has tried to confirm the image
LEMMA SystemResetStep ==
    ASSUME PowerInductive, SystemReset, image # "test",
           flag' = flag, autoBoot' = autoBoot, rdp' \in BOOLEAN
    PROVE  PowerInductive'
PROOF
  <1>1. kept = TRUE /\ flag \in BOOLEAN /\ autoBoot \in BOOLEAN
    BY Zenon DEF PowerInductive, PowerFlags, UpdateOrder
  <1>2. kept' = TRUE
    BY <1>1, Zenon DEF SystemReset
  <1>3. /\ requests' \in 0..MaxRequests
        /\ promised' \in {"no", "during", "after"}
        /\ promised' = "after" => flag'
    BY DEF PowerInductive, PowerTypes, Latched, SystemReset
  <1>4. flag' \in BOOLEAN /\ autoBoot' \in BOOLEAN
    BY <1>1, Zenon
  <1> QED
    BY <1>2, <1>3, <1>4, ResetStep, Zenon DEF SystemReset

\* Past app_init_state the image is confirmed, or confirming it has failed
LEMMA ConfirmedOrTried ==
    ASSUME PowerInductive, main \notin {"gpio", "state"}
    PROVE  image # "test"
PROOF
  BY DEF PowerInductive, PowerTypes, UpdateOrder

\* The boot preserves the invariant
LEMMA MainThreadStep ==
    ASSUME PowerInductive, MainThread
    PROVE  PowerInductive'
PROOF
  <1> USE PowerConstants DEF PowerInductive, PowerFlags, PowerTypes, BootOrder, ShutdownOrder,
          PressOrder, UpdateOrder, Latched, PromisedRebootComesBack, JetsonPoints,
          PoweredPoints, MainPoints, ThreadPoints, JetsonSupplies, BaseRails, SystemRails,
          JetsonRails, Lines, Rails, persistent, boot, rebooting, rest
  <1>1. CASE ConfigureGpios
    BY <1>1 DEF ConfigureGpios
  <1>2. CASE InitStateBoots
    BY <1>2 DEF InitStateBoots, AutoBoots, Confirms
  <1>3. CASE InitStateProtects
    <2>1. image # "test"
      BY <1>3, ConfirmedOrTried DEF InitStateProtects, AutoBoots
    <2>2. flag' = flag /\ autoBoot' = autoBoot /\ rdp' \in BOOLEAN
      BY <1>3, Zenon DEF InitStateProtects
    <2> QED
      BY <1>3, <2>1, <2>2, SystemResetStep, Zenon DEF InitStateProtects
  <1>4. CASE InitStateWaits
    BY <1>4 DEF InitStateWaits, AutoBoots
  <1>5. CASE ButtonReleased
    <2>1. PowerFlags'
      BY <1>5, Zenon DEF ButtonReleased, SelfTested
    <2>2. PowerTypes'
      BY <1>5 DEF ButtonReleased, SelfTested
    <2>3. BootOrder' /\ ShutdownOrder'
      BY <1>5 DEF ButtonReleased, SelfTested
    <2>4. PressOrder' /\ UpdateOrder' /\ Latched' /\ PromisedRebootComesBack'
      BY <1>5 DEF ButtonReleased, SelfTested
    <2> QED
      BY <2>1, <2>2, <2>3, <2>4
  <1>6. CASE ButtonPressed
    BY <1>6 DEF ButtonPressed, SelfTested
  <1>7. CASE TurnOnPowerSupplies
    BY <1>7 DEF TurnOnPowerSupplies
  <1>8. CASE BatteryInit
    BY <1>8 DEF BatteryInit, MainGoesTo
  <1>9. CASE BatteryTooLow
    <2>1. image # "test"
      BY <1>9, ConfirmedOrTried DEF BatteryTooLow
    <2>2. flag' = flag /\ autoBoot' = autoBoot /\ rdp' \in BOOLEAN
      BY <1>9, Zenon DEF BatteryTooLow
    <2> QED
      BY <1>9, <2>1, <2>2, SystemResetStep, Zenon DEF BatteryTooLow
  <1>10. CASE JetsonPowerOn
    BY <1>10 DEF JetsonPowerOn, MainGoesTo
  <1>11. CASE JetsonCannotBoot
    <2>1. image # "test"
      BY <1>11, ConfirmedOrTried DEF JetsonCannotBoot
    <2>2. flag' = flag /\ autoBoot' = autoBoot /\ rdp' \in BOOLEAN
      BY <1>11, Zenon DEF JetsonCannotBoot
    <2> QED
      BY <1>11, <2>1, <2>2, SystemResetStep, Zenon DEF JetsonCannotBoot
  <1>12. CASE JetsonBoots
    BY <1>12 DEF JetsonBoots, MainGoesTo, NoThread
  <1>13. CASE TurnOnSuperCapCharger
    BY <1>13 DEF TurnOnSuperCapCharger, MainGoesTo
  <1>14. CASE TurnOnPvcc
    BY <1>14 DEF TurnOnPvcc, MainGoesTo
  <1>15. CASE WaitJetsonUp
    BY <1>15 DEF WaitJetsonUp, MainGoesTo
  <1>16. CASE ClearRebootFlag
    <2>1. PowerFlags'
      BY <1>16, Zenon DEF ClearRebootFlag, MainGoesTo
    <2>2. PowerTypes'
      BY <1>16 DEF ClearRebootFlag, MainGoesTo
    <2>3. BootOrder' /\ ShutdownOrder'
      BY <1>16 DEF ClearRebootFlag, MainGoesTo
    <2>4. PressOrder' /\ UpdateOrder' /\ Latched' /\ PromisedRebootComesBack'
      BY <1>16 DEF ClearRebootFlag, MainGoesTo
    <2> QED
      BY <2>1, <2>2, <2>3, <2>4
  <1> QED
    BY <1>1, <1>2, <1>3, <1>4, <1>5, <1>6, <1>7, <1>8, <1>9, <1>10, <1>11, <1>12,
       <1>13, <1>14, <1>15, <1>16 DEF MainThread

\* The requests of the Jetson preserve the invariant
LEMMA RunnerStep ==
    ASSUME PowerInductive, Runner
    PROVE  PowerInductive'
PROOF
  <1> USE PowerConstants DEF PowerInductive, PowerFlags, PowerTypes, BootOrder, ShutdownOrder,
          PressOrder, UpdateOrder, Latched, PromisedRebootComesBack, JetsonPoints,
          PoweredPoints, MainPoints, ThreadPoints, JetsonSupplies, BaseRails, SystemRails,
          JetsonRails, Lines, Rails, persistent, boot, rebooting, rest
  <1>1. ASSUME NEW d \in RebootDelays, HandleReboot(d) PROVE PowerInductive'
    <2>1. PowerFlags'
      BY <1>1, Zenon DEF HandleReboot, Asks, Reboots, Woken, CanReboot
    <2>2. PowerTypes'
      BY <1>1 DEF HandleReboot, Asks, Reboots, Woken, CanReboot
    <2>3. BootOrder' /\ ShutdownOrder'
      BY <1>1 DEF HandleReboot, Asks, Reboots, Woken, CanReboot
    <2>4. PressOrder' /\ UpdateOrder' /\ Latched' /\ PromisedRebootComesBack'
      BY <1>1 DEF HandleReboot, Asks, Reboots, Woken, CanReboot
    <2> QED
      BY <2>1, <2>2, <2>3, <2>4
  <1>2. ASSUME NEW d \in ForcedDelays, HandleRebootOrb(d) PROVE PowerInductive'
    <2>1. PowerFlags'
      BY <1>2, Zenon DEF HandleRebootOrb, Asks, Reboots, Woken, CanReboot, Promise
    <2>2. PowerTypes'
      BY <1>2 DEF HandleRebootOrb, Asks, Reboots, Woken, CanReboot, Promise
    <2>3. BootOrder' /\ ShutdownOrder'
      BY <1>2 DEF HandleRebootOrb, Asks, Reboots, Woken, CanReboot, Promise
    <2>4. PressOrder' /\ UpdateOrder' /\ Latched' /\ PromisedRebootComesBack'
      BY <1>2 DEF HandleRebootOrb, Asks, Reboots, Woken, CanReboot, Promise
    <2> QED
      BY <2>1, <2>2, <2>3, <2>4
  <1>3. ASSUME NEW b \in BOOLEAN, HandleSetConfig(b) PROVE PowerInductive'
    <2>1. PowerFlags'
      BY <1>3, Zenon DEF HandleSetConfig, Asks
    <2>2. PowerTypes'
      BY <1>3 DEF HandleSetConfig, Asks
    <2>3. BootOrder' /\ ShutdownOrder'
      BY <1>3 DEF HandleSetConfig, Asks
    <2>4. PressOrder' /\ UpdateOrder' /\ Latched' /\ PromisedRebootComesBack'
      BY <1>3 DEF HandleSetConfig, Asks
    <2> QED
      BY <2>1, <2>2, <2>3, <2>4
  <1>4. CASE HandleActivate
    BY <1>4 DEF HandleActivate, Asks
  <1>5. ASSUME NEW l \in Lines, PowerCycleSupply(l) PROVE PowerInductive'
    BY <1>5 DEF PowerCycleSupply, Asks
  <1>6. CASE HandleConfirm
    <2>1. PowerFlags'
      BY <1>6, Zenon DEF HandleConfirm, Asks
    <2>2. PowerTypes'
      BY <1>6 DEF HandleConfirm, Asks
    <2>3. BootOrder' /\ ShutdownOrder'
      BY <1>6 DEF HandleConfirm, Asks
    <2>4. PressOrder' /\ UpdateOrder' /\ Latched' /\ PromisedRebootComesBack'
      BY <1>6 DEF HandleConfirm, Asks
    <2> QED
      BY <2>1, <2>2, <2>3, <2>4
  <1> QED
    BY <1>1, <1>2, <1>3, <1>4, <1>5, <1>6 DEF Runner

\* The reboot thread preserves the invariant
LEMMA RebootThreadStep ==
    ASSUME PowerInductive, RebootThread
    PROVE  PowerInductive'
PROOF
  <1> USE PowerConstants DEF PowerInductive, PowerFlags, PowerTypes, BootOrder, ShutdownOrder,
          PressOrder, UpdateOrder, Latched, PromisedRebootComesBack, JetsonPoints,
          PoweredPoints, MainPoints, ThreadPoints, JetsonSupplies, BaseRails, SystemRails,
          JetsonRails, Lines, Rails, persistent, boot, rebooting, rest
  <1>1. CASE ThreadTriggered
    BY <1>1 DEF ThreadTriggered
  <1>2. CASE ThreadShown
    BY <1>2 DEF ThreadShown, ThreadGoesTo
  <1>3. CASE ThreadChecks
    BY <1>3 DEF ThreadChecks, ThreadGoesTo
  <1>4. CASE JetsonIsDown
    BY <1>4 DEF JetsonIsDown, ThreadGoesTo
  <1>5. CASE CutJetsonRails
    BY <1>5 DEF CutJetsonRails, ThreadGoesTo
  <1>6. CASE ReadDelay
    BY <1>6 DEF ReadDelay
  <1>7. CASE FallAsleep
    BY <1>7 DEF FallAsleep, ThreadGoesTo
  <1>8. CASE SleepEnds
    BY <1>8 DEF SleepEnds, ThreadGoesTo
  <1>9. CASE GoingDown
    <2>1. image # "test"
      BY <1>9, ConfirmedOrTried DEF GoingDown
    <2>2. flag' = flag /\ autoBoot' = autoBoot /\ rdp' \in BOOLEAN
      BY <1>9, Zenon DEF GoingDown
    <2> QED
      BY <1>9, <2>1, <2>2, SystemResetStep, Zenon DEF GoingDown
  <1> QED
    BY <1>1, <1>2, <1>3, <1>4, <1>5, <1>6, <1>7, <1>8, <1>9 DEF RebootThread

\* Every step preserves the invariant
LEMMA NextStep ==
    ASSUME PowerInductive, [Next]_vars
    PROVE  PowerInductive'
PROOF
  <1>1. CASE MainThread
    BY <1>1, MainThreadStep
  <1>2. CASE Runner
    BY <1>2, RunnerStep
  <1>3. CASE RebootThread
    BY <1>3, RebootThreadStep
  <1> USE PowerConstants DEF PowerInductive, PowerFlags, PowerTypes, BootOrder, ShutdownOrder,
          PressOrder, UpdateOrder, Latched, PromisedRebootComesBack, JetsonPoints,
          PoweredPoints, MainPoints, ThreadPoints, JetsonSupplies, BaseRails, SystemRails,
          JetsonRails, Lines, Rails, persistent, boot, rebooting, rest
  <1>4. ASSUME NEW l \in Lines, PowerCycleEnds(l) PROVE PowerInductive'
    BY <1>4 DEF PowerCycleEnds
  <1>5. ASSUME NEW d \in {0, 1}, PowerEvent(d) PROVE PowerInductive'
    BY <1>5 DEF PowerEvent, Reboots, Woken, CanReboot
  <1>6. CASE ShutdownRequested
    BY <1>6 DEF ShutdownRequested, CanReboot
  <1>7. CASE ShutdownWork
    <2>1. PowerFlags'
      BY <1>7, Zenon DEF ShutdownWork, Woken
    <2>2. PowerTypes'
      BY <1>7 DEF ShutdownWork, Woken
    <2>3. BootOrder' /\ ShutdownOrder'
      BY <1>7 DEF ShutdownWork, Woken
    <2>4. PressOrder' /\ UpdateOrder' /\ Latched' /\ PromisedRebootComesBack'
      BY <1>7 DEF ShutdownWork, Woken
    <2> QED
      BY <2>1, <2>2, <2>3, <2>4
  <1>8. CASE HeartbeatTimeout
    <2>1. image # "test"
      BY <1>8, ConfirmedOrTried DEF HeartbeatTimeout
    <2>2. flag' = flag /\ autoBoot' = autoBoot /\ rdp' \in BOOLEAN
      BY <1>8, Zenon DEF HeartbeatTimeout
    <2> QED
      BY <1>8, <2>1, <2>2, SystemResetStep, Zenon DEF HeartbeatTimeout
  <1>9. CASE JetsonStarts
    <2>1. PowerFlags'
      BY <1>9, Zenon DEF JetsonStarts
    <2>2. PowerTypes'
      BY <1>9 DEF JetsonStarts
    <2>3. BootOrder' /\ ShutdownOrder'
      BY <1>9 DEF JetsonStarts
    <2>4. PressOrder' /\ UpdateOrder' /\ Latched' /\ PromisedRebootComesBack'
      BY <1>9 DEF JetsonStarts
    <2> QED
      BY <2>1, <2>2, <2>3, <2>4
  <1>10. CASE JetsonStops
    BY <1>10 DEF JetsonStops
  <1>11. CASE JetsonSendsJob
    BY <1>11 DEF JetsonSendsJob
  <1>12. CASE PowerCut
    <2>1. kept' = TRUE /\ flag' \in BOOLEAN /\ autoBoot' \in BOOLEAN /\ rdp' \in BOOLEAN
      BY <1>12, Zenon DEF PowerCut
    <2>2. requests' \in 0..MaxRequests /\ promised' = "no"
      BY <1>12 DEF PowerCut
    <2> QED
      BY <1>12, <2>1, <2>2, ResetStep, Zenon DEF PowerCut
  <1>20. CASE UNCHANGED vars
    BY <1>20 DEF vars
  <1> HIDE DEF PowerInductive, MainThread, Runner, RebootThread
  <1> QED
    BY <1>1, <1>2, <1>3, <1>4, <1>5, <1>6, <1>7, <1>8, <1>9, <1>10, <1>11, <1>12,
       <1>20 DEF Next

\* The invariant of app_init_state, initialize, reboot_thread and reboot(): what
\* has been turned on at each point of the boot, and the order in which the
\* Jetson is taken down
THEOREM PowerIsInductive == Spec => []PowerInductive
PROOF
  <1>1. Init => PowerInductive
    <2> SUFFICES ASSUME Init PROVE PowerInductive
      OBVIOUS
    <2>1. PowerFlags
      BY Zenon DEF Init, PowerFlags
    <2>2. PowerTypes
      BY PowerConstants DEF Init, PowerTypes, NoThread, MainPoints, ThreadPoints
    <2>3. BootOrder /\ ShutdownOrder /\ PressOrder
      BY DEF Init, NoThread, BootOrder, ShutdownOrder, PressOrder, PoweredPoints, JetsonPoints
    <2>4. UpdateOrder /\ Latched /\ PromisedRebootComesBack
      BY DEF Init, UpdateOrder, Latched, PromisedRebootComesBack
    <2> QED
      BY <2>1, <2>2, <2>3, <2>4 DEF PowerInductive
  <1>2. PowerInductive /\ [Next]_vars => PowerInductive'
    BY NextStep
  <1> QED
    BY <1>1, <1>2, PTL DEF Spec

\* The Jetson never runs, nor is enabled, without its supplies: reboot_thread
\* cuts them only once the Jetson asserts SYS_RESET, whatever wakes it up
THEOREM PowerJetsonSupplied == Spec => []JetsonNeedsSupplies
PROOF
  <1>1. PowerInductive => JetsonNeedsSupplies
    BY DEF PowerInductive, BootOrder, ShutdownOrder, JetsonNeedsSupplies, JetsonPoints,
           PoweredPoints
  <1> QED
    BY <1>1, PowerIsInductive, PTL

\* The base supplies are off whenever power_until_button_press finds the button
\* released, for every length of the press
THEOREM PowerWaitingIsDark == Spec => []WaitingIsDark
PROOF
  <1>1. PowerInductive => WaitingIsDark
    BY DEF PowerInductive, PressOrder, WaitingIsDark
  <1> QED
    BY <1>1, PowerIsInductive, PTL

\* A reset by the firmware makes the bootloader revert an update only if confirming
\* it has failed
THEOREM PowerKeepsUpdate == Spec => []UpdateKept
PROOF
  <1>1. PowerInductive => UpdateKept
    BY DEF PowerInductive, UpdateOrder, UpdateKept
  <1> QED
    BY <1>1, PowerIsInductive, PTL

\* An accepted reboot_orb is not forgotten before the Jetson is up again
THEOREM PowerKeepsPromise == Spec => []PromisedRebootComesBack
PROOF
  <1>1. PowerInductive => PromisedRebootComesBack
    BY DEF PowerInductive
  <1> QED
    BY <1>1, PowerIsInductive, PTL
=============================================================================
