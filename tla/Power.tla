------------------------------- MODULE Power -------------------------------
(***************************************************************************)
(* Turning the Orb on and off: main_board/src/power/boot/boot.c, main.c    *)
(* and the requests of the runner, the battery and the button that end in  *)
(* a reset of the MCU.                                                     *)
(*                                                                         *)
(* Before the kernel's threads run, the SYS_INIT functions of boot.c       *)
(* decide whether to wait for the button (main = "button") and turn the    *)
(* supplies on; then the main thread turns the Jetson on, creates the      *)
(* reboot thread and goes on initializing while the Jetson, the runner and *)
(* the work queue already act.                                             *)
(*                                                                         *)
(* Time is abstract: a sleep ends at any moment.  The delays of reboot()   *)
(* are numbers of seconds.                                                 *)
(***************************************************************************)
EXTENDS Integers, FiniteSets

CONSTANTS
    PollCount,      \* OPERATOR_LEDS_ITERATIONS_COUNT
    RebootDelays,   \* delays that reboot and shutdown messages ask for
    MaxDelay,       \* the largest delay accepted
    ForcedDelays,   \* delays of reboot_orb, 0 to wait for the Jetson
    MaxRequests     \* bound on requests and other events after the boot

ASSUME PowerConstants ==
    /\ PollCount \in Nat \ {0, 1}
    /\ RebootDelays \subseteq Nat /\ ForcedDelays \subseteq Nat
    /\ MaxDelay \in Nat /\ MaxRequests \in Nat

\* VBAT_SW, 5 V and 3.3 V: enough for the button and the operator LEDs
BaseRails == {"vbat_sw", "5v", "3v3"}
SystemRails == {"12v", "5v_rgb", "3v6", "3v3_lte", "2v8", "3v3_ssd", "3v3_wifi", "1v8"}
\* What the reboot thread turns off once the Jetson is down
JetsonRails == {"3v3", "3v3_ssd", "3v3_wifi", "1v8"}
Lines == {"3v3_lte", "2v8"}     \* what power_cycle_supply accepts
Rails == BaseRails \cup SystemRails \cup {"jetson", "super_cap", "pvcc"}

VARIABLES
    flag,       \* backup register: REBOOT_INSTABOOT
    autoBoot,   \* configuration in flash: BOOT_AUTO_ALWAYS_ON
    image,      \* primary slot: "confirmed", "test" after an update, or
                \* "unconfirmed" once confirming that update has failed
    pending,    \* the secondary slot is marked to be swapped in
    rdp,        \* read-back protection is enabled
    rails,      \* the supplies whose enable pin is active
    cycling,    \* supplies power_cycle_supply turned off
    main,       \* where the boot is
    press,      \* i of power_until_button_press
    lit,        \* operator_led_mask # 0
    untested,   \* self_test_pending
    thread,     \* the reboot thread: where it is and its delay
    sem,        \* sem_reboot
    delay,      \* reboot_delay_s
    shutdown,   \* jetson_shutdown_req
    work,       \* shutdown_requested_work is queued
    jobs,       \* runner_successful_jobs_count() > 0
    sysReset,   \* SYS_RESET of the Jetson is asserted
    requests,   \* bound: requests left
    promised,   \* history: reboot_orb was accepted, "during" or "after" a boot
    kept        \* history: every update that a software reset reverted had
                \* been confirmed in vain

persistent == <<flag, autoBoot, image, pending, rdp>>
boot == <<main, press, lit, untested>>
rebooting == <<thread, sem, delay, shutdown, work>>
rest == <<jobs, sysReset, requests, promised, kept>>
vars == <<persistent, rails, cycling, boot, rebooting, rest>>

NoThread == [at |-> "none", delay |-> 0]

Init == /\ rails = {} /\ cycling = {}
        /\ main = "gpio" /\ press = 0 /\ lit = FALSE /\ untested = TRUE
        /\ thread = NoThread /\ sem = 0 /\ delay = 0 /\ shutdown = FALSE /\ work = FALSE
        /\ jobs = FALSE /\ sysReset = TRUE
        /\ flag = FALSE /\ autoBoot \in BOOLEAN /\ rdp \in BOOLEAN
        /\ image = "confirmed" /\ pending = FALSE
        /\ requests = MaxRequests
        /\ promised = "no" /\ kept = TRUE

\* RAM and pins after a reset; the Jetson has lost POWER_EN
Cleared == /\ rails' = {} /\ cycling' = {}
           /\ main' = "gpio" /\ press' = 0 /\ lit' = FALSE /\ untested' = TRUE
           /\ thread' = NoThread /\ sem' = 0 /\ delay' = 0 /\ shutdown' = FALSE /\ work' = FALSE
           /\ jobs' = FALSE /\ sysReset' = TRUE

\* The bootloader swaps a pending image in, or an image that is not confirmed out
Bootloader == /\ image' = IF pending THEN "test" ELSE "confirmed"
              /\ pending' = FALSE

\* NVIC_SystemReset()
SystemReset == /\ Cleared
               /\ Bootloader
               /\ kept' = (kept /\ image # "test")
               /\ UNCHANGED <<requests, promised>>

-----------------------------------------------------------------------------
(* Before main: power_configure_gpios, app_init_state and                  *)
(* turn_on_power_supplies                                                  *)

ConfigureGpios == /\ main = "gpio"
                  /\ main' = "state"
                  /\ rails' = {}
                  /\ UNCHANGED <<persistent, cycling, press, lit, untested,
                                 rebooting, rest>>

\* Mutant: an update does not boot by itself
AutoBootsNotUpdated == flag \/ autoBoot

AutoBoots == image = "test" \/ flag \/ autoBoot

\* dfu_primary_confirm() may fail; app_init_state does not look at its result
Confirms == image' \in {"confirmed", IF image = "test" THEN "unconfirmed" ELSE image}

\* The image is confirmed before anything can reset the MCU; the flag stays
InitStateBoots == /\ main = "state"
                  /\ AutoBoots
                  /\ rails' = rails \cup BaseRails
                  /\ Confirms
                  /\ main' = "supplies"
                  /\ promised' = IF promised # "no" /\ flag THEN "after" ELSE "no"
                  /\ UNCHANGED <<flag, autoBoot, pending, rdp, cycling, press, lit,
                                 untested, rebooting, jobs, sysReset, requests, kept>>

\* dfu_readback_protection resets the MCU once
InitStateProtects == /\ main = "state"
                     /\ ~AutoBoots
                     /\ ~rdp
                     /\ rdp' = TRUE
                     /\ SystemReset
                     /\ UNCHANGED <<flag, autoBoot>>

InitStateWaits == /\ main = "state"
                  /\ ~AutoBoots
                  /\ rdp
                  /\ main' = "button"
                  /\ UNCHANGED <<persistent, rails, cycling, press, lit, untested,
                                 rebooting, rest>>

\* optics_self_test turns the base supplies on and off again
SelfTested == untested /\ ~lit

\* An iteration of the loop that finds the button released
ButtonReleased == /\ main = "button"
                  /\ rails' = IF press > 1 THEN rails \ BaseRails ELSE rails
                  /\ lit' = FALSE
                  /\ press' = 1
                  /\ untested' \in {untested, untested /\ ~SelfTested}
                  /\ UNCHANGED <<persistent, cycling, main, rebooting, rest>>

\* ... and one that finds it pressed: the supplies are turned on early
ButtonPressed == /\ main = "button"
                 /\ rails' = IF press = 1 THEN rails \cup BaseRails ELSE rails
                 /\ lit' = TRUE
                 /\ press' = press + 1
                 /\ main' = IF press' <= PollCount THEN "button" ELSE "supplies"
                 /\ untested' \in {untested, untested /\ ~SelfTested}
                 /\ UNCHANGED <<persistent, cycling, rebooting, rest>>

TurnOnPowerSupplies == /\ main = "supplies"
                       /\ rails' = rails \cup BaseRails \cup SystemRails
                       /\ main' = "battery"
                       /\ UNCHANGED <<persistent, cycling, press, lit, untested,
                                      rebooting, rest>>

-----------------------------------------------------------------------------
(* initialize() and main_internal() *)

MainGoesTo(point) == /\ main' = point
                     /\ UNCHANGED <<press, lit, untested>>

\* battery_init, with the modules that start before it
BatteryInit == /\ main = "battery"
               /\ MainGoesTo("jetson")
               /\ UNCHANGED <<persistent, rails, cycling, rebooting, rest>>

BatteryTooLow == /\ main = "battery"
                 /\ SystemReset
                 /\ UNCHANGED <<flag, autoBoot, rdp>>

\* boot_turn_on_jetson
JetsonPowerOn == /\ main = "jetson"
                 /\ rails' = rails \cup {"jetson"}
                 /\ MainGoesTo("await")
                 /\ UNCHANGED <<persistent, cycling, rebooting, rest>>

\* The Jetson does not leave reset within a second
JetsonCannotBoot == /\ main = "await"
                    /\ sysReset
                    /\ SystemReset
                    /\ UNCHANGED <<flag, autoBoot, rdp>>

\* Shutdown detection is activated and the reboot thread created
JetsonBoots == /\ main = "await"
               /\ ~sysReset
               /\ thread' = [NoThread EXCEPT !.at = "wait"]
               /\ MainGoesTo("super_cap")
               /\ UNCHANGED <<persistent, rails, cycling, sem, delay, shutdown, work, rest>>

TurnOnSuperCapCharger == /\ main = "super_cap"
                         /\ rails' = rails \cup {"super_cap"}
                         /\ MainGoesTo("pvcc")
                         /\ UNCHANGED <<persistent, cycling, rebooting, rest>>

TurnOnPvcc == /\ main = "pvcc"
              /\ rails' = rails \cup {"pvcc"}
              /\ MainGoesTo("wait_jetson")
              /\ UNCHANGED <<persistent, cycling, rebooting, rest>>

\* wait_jetson_up, every five seconds
WaitJetsonUp == /\ main = "wait_jetson"
                /\ jobs
                /\ MainGoesTo("clear")
                /\ UNCHANGED <<persistent, rails, cycling, rebooting, rest>>

\* backup_clear_reboot_flag
ClearRebootFlag == /\ main = "clear"
                   /\ flag' = FALSE
                   /\ MainGoesTo("done")
                   /\ promised' = IF promised = "after" THEN "no" ELSE promised
                   /\ UNCHANGED <<autoBoot, image, pending, rdp, rails, cycling,
                                  rebooting, jobs, sysReset, requests, kept>>

MainThread == \/ ConfigureGpios
              \/ InitStateBoots \/ InitStateProtects \/ InitStateWaits
              \/ ButtonReleased \/ ButtonPressed
              \/ TurnOnPowerSupplies
              \/ BatteryInit \/ BatteryTooLow
              \/ JetsonPowerOn \/ JetsonCannotBoot \/ JetsonBoots
              \/ TurnOnSuperCapCharger \/ TurnOnPvcc
              \/ WaitJetsonUp \/ ClearRebootFlag

-----------------------------------------------------------------------------
(* reboot() and its callers *)

\* k_wakeup ends the sleep of the thread, and no other wait of it
Woken == [thread EXCEPT !.at = IF @ = "sleep" THEN "check" ELSE @]

CanReboot == thread.at # "none"

\* reboot(d), once the thread exists
Reboots(d) == /\ delay' = d
              /\ thread' = Woken
              /\ sem' = 1
              /\ UNCHANGED <<shutdown, work>>

Asks == /\ ~sysReset
        /\ requests > 0
        /\ requests' = requests - 1

\* handle_reboot_message and handle_shutdown
HandleReboot(d) ==
    /\ Asks
    /\ IF d <= MaxDelay /\ CanReboot
       THEN Reboots(d) /\ jobs' = TRUE
       ELSE UNCHANGED <<rebooting, jobs>>
    /\ UNCHANGED <<persistent, rails, cycling, boot, sysReset, promised, kept>>

\* A request accepted before the boot is over is one that main's
\* backup_clear_reboot_flag may still undo
Promise(accepted) == IF ~accepted THEN "no" ELSE IF main = "done" THEN "after" ELSE "during"

\* Mutant: the flag is set where the MCU forces the reboot, not where it waits for
\* the Jetson to ask for it
HandleRebootOrbForced(d) ==
    LET inRange == d = 0 \/ d \in 10..MaxDelay
        accepted == inRange /\ (d = 0 \/ CanReboot)
    IN  /\ Asks
        /\ flag' = (accepted /\ d # 0)
        /\ IF accepted /\ d # 0 THEN Reboots(d) ELSE UNCHANGED rebooting
        /\ jobs' = (jobs \/ accepted)
        /\ promised' = Promise(accepted)
        /\ UNCHANGED <<autoBoot, image, pending, rdp, rails, cycling, boot, sysReset, kept>>

\* handle_reboot_orb: the flag is reset if the delay is out of range or there is
\* no thread to reboot
HandleRebootOrb(d) ==
    LET inRange == d = 0 \/ d \in 10..MaxDelay
        accepted == inRange /\ (d = 0 \/ CanReboot)
    IN  /\ Asks
        /\ flag' = accepted
        /\ IF accepted /\ d # 0 THEN Reboots(d) ELSE UNCHANGED rebooting
        /\ jobs' = (jobs \/ accepted)
        /\ promised' = Promise(accepted)
        /\ UNCHANGED <<autoBoot, image, pending, rdp, rails, cycling, boot, sysReset, kept>>

\* handle_set_config: the old record is freed before the new one is pushed,
\* and either may fail
HandleSetConfig(b) ==
    /\ Asks
    /\ autoBoot' \in {b, autoBoot, FALSE}
    /\ jobs' = (jobs \/ autoBoot' = b)
    /\ UNCHANGED <<flag, image, pending, rdp, rails, cycling, boot, rebooting,
                   sysReset, promised, kept>>

\* handle_fw_img_sec_activate of a new image
HandleActivate ==
    /\ Asks
    /\ pending' = TRUE
    /\ jobs' = TRUE
    /\ UNCHANGED <<flag, autoBoot, image, rdp, rails, cycling, boot, rebooting,
                   sysReset, promised, kept>>

\* handle_fw_img_primary_confirm: refused if the image is confirmed, or for its
\* version; confirming may fail here too
HandleConfirm ==
    /\ Asks
    /\ image' \in {"confirmed", image}
    /\ jobs' = (jobs \/ image' # image)
    /\ UNCHANGED <<flag, autoBoot, pending, rdp, rails, cycling, boot, rebooting,
                   sysReset, promised, kept>>

\* handle_power_cycle
PowerCycleSupply(line) ==
    /\ Asks
    /\ rails' = rails \ {line}
    /\ cycling' = cycling \cup {line}
    /\ jobs' = TRUE
    /\ UNCHANGED <<persistent, boot, rebooting, sysReset, promised, kept>>

\* The delayed work that ends the power cycle
PowerCycleEnds(line) ==
    /\ line \in cycling
    /\ rails' = rails \cup {line}
    /\ cycling' = cycling \ {line}
    /\ UNCHANGED <<persistent, boot, rebooting, rest>>

\* The battery is empty or removed, or the button pressed for six seconds
PowerEvent(d) == /\ requests > 0
                 /\ requests' = requests - 1
                 /\ CanReboot
                 /\ Reboots(d)
                 /\ UNCHANGED <<persistent, rails, cycling, boot, jobs, sysReset,
                                promised, kept>>

\* SHUTDOWN_REQ: the interrupt submits the work
ShutdownRequested == /\ CanReboot
                     /\ ~sysReset
                     /\ ~work /\ ~shutdown
                     /\ work' = TRUE
                     /\ UNCHANGED <<persistent, rails, cycling, boot, thread, sem, delay,
                                    shutdown, rest>>

\* Mutant: POWER_EN stays active
ShutdownWorkStaysOn == /\ work
                       /\ shutdown' = TRUE
                       /\ delay' = 1
                       /\ thread' = Woken
                       /\ sem' = 1
                       /\ work' = FALSE
                       /\ UNCHANGED <<persistent, rails, cycling, boot, rest>>

ShutdownWork == /\ work
                /\ rails' = rails \ {"jetson"}
                /\ shutdown' = TRUE
                /\ delay' = 1
                /\ thread' = Woken
                /\ sem' = 1
                /\ work' = FALSE
                /\ UNCHANGED <<persistent, cycling, boot, rest>>

\* heartbeat_timeout_handler, once the Jetson has sent a heartbeat
HeartbeatTimeout == /\ jobs
                    /\ SystemReset
                    /\ UNCHANGED <<flag, autoBoot, rdp>>

-----------------------------------------------------------------------------
(* reboot_thread *)

ThreadGoesTo(point) == thread' = [thread EXCEPT !.at = point]

\* The shutdown is shown for a second if there is time
ThreadTriggered == /\ thread.at = "wait"
                   /\ sem = 1
                   /\ sem' = 0
                   /\ thread' = [at |-> IF delay > 1 THEN "show" ELSE "check",
                                 delay |-> delay]
                   /\ UNCHANGED <<persistent, rails, cycling, boot, delay, shutdown, work, rest>>

ThreadShown == /\ thread.at = "show"
               /\ delay' = thread.delay - 1
               /\ ThreadGoesTo("check")
               /\ UNCHANGED <<persistent, rails, cycling, boot, sem, shutdown, work, rest>>

\* Mutant: the rails go down whether or not the Jetson asked for it
ThreadChecksNot == /\ thread.at = "check"
                   /\ ThreadGoesTo("cut")
                   /\ UNCHANGED <<persistent, rails, cycling, boot, sem, delay, shutdown,
                                  work, rest>>

ThreadChecks == /\ thread.at = "check"
                /\ ThreadGoesTo(IF shutdown THEN "await_down" ELSE "delay")
                /\ UNCHANGED <<persistent, rails, cycling, boot, sem, delay, shutdown,
                               work, rest>>

\* Spins until the Jetson asserts SYS_RESET
JetsonIsDown == /\ thread.at = "await_down"
                /\ sysReset
                /\ ThreadGoesTo("cut")
                /\ UNCHANGED <<persistent, rails, cycling, boot, sem, delay, shutdown,
                               work, rest>>

CutJetsonRails == /\ thread.at = "cut"
                  /\ rails' = rails \ JetsonRails
                  /\ ThreadGoesTo("delay")
                  /\ UNCHANGED <<persistent, cycling, boot, sem, delay, shutdown, work, rest>>

\* The delay is read, then slept
ReadDelay == /\ thread.at = "delay"
             /\ thread' = [at |-> "to_sleep", delay |-> delay]
             /\ UNCHANGED <<persistent, rails, cycling, boot, sem, delay, shutdown, work, rest>>

FallAsleep == /\ thread.at = "to_sleep"
              /\ ThreadGoesTo("sleep")
              /\ UNCHANGED <<persistent, rails, cycling, boot, sem, delay, shutdown, work, rest>>

SleepEnds == /\ thread.at = "sleep"
             /\ ThreadGoesTo("going_down")
             /\ UNCHANGED <<persistent, rails, cycling, boot, sem, delay, shutdown, work, rest>>

GoingDown == /\ thread.at = "going_down"
             /\ SystemReset
             /\ UNCHANGED <<flag, autoBoot, rdp>>

RebootThread == \/ ThreadTriggered \/ ThreadShown
                \/ ThreadChecks \/ JetsonIsDown \/ CutJetsonRails
                \/ ReadDelay \/ FallAsleep \/ SleepEnds
                \/ GoingDown

-----------------------------------------------------------------------------
(* The Jetson and the power *)

\* SYS_RESET follows POWER_EN
JetsonStarts == /\ "jetson" \in rails
                /\ sysReset
                /\ sysReset' = FALSE
                /\ UNCHANGED <<persistent, rails, cycling, boot, rebooting, jobs, requests,
                               promised, kept>>

JetsonStops == /\ "jetson" \notin rails
               /\ ~sysReset
               /\ sysReset' = TRUE
               /\ UNCHANGED <<persistent, rails, cycling, boot, rebooting, jobs, requests,
                              promised, kept>>

\* Any other message that the runner handles
JetsonSendsJob == /\ ~sysReset
                  /\ thread.at # "none"
                  /\ ~jobs
                  /\ jobs' = TRUE
                  /\ UNCHANGED <<persistent, rails, cycling, boot, rebooting, sysReset,
                                 requests, promised, kept>>

\* The battery is pulled; the backup registers may be lost with it
PowerCut == /\ requests > 0
            /\ requests' = requests - 1
            /\ Cleared
            /\ Bootloader
            /\ flag' \in {flag, FALSE}
            /\ promised' = "no"
            /\ UNCHANGED <<autoBoot, rdp, kept>>

Runner == \/ \E d \in RebootDelays : HandleReboot(d)
          \/ \E d \in ForcedDelays : HandleRebootOrb(d)
          \/ \E b \in BOOLEAN : HandleSetConfig(b)
          \/ HandleActivate \/ HandleConfirm
          \/ \E l \in Lines : PowerCycleSupply(l)

Next == \/ MainThread
        \/ Runner
        \/ \E l \in Lines : PowerCycleEnds(l)
        \/ \E d \in {0, 1} : PowerEvent(d)
        \/ ShutdownRequested \/ ShutdownWork
        \/ HeartbeatTimeout
        \/ RebootThread
        \/ JetsonStarts \/ JetsonStops \/ JetsonSendsJob
        \/ PowerCut

Spec == Init /\ [][Next]_vars

\* The kernel runs the reboot thread and the work queue when they are ready; a
\* Jetson without POWER_EN asserts SYS_RESET
FairSpec == /\ Spec
            /\ WF_vars(RebootThread)
            /\ WF_vars(ShutdownWork)
            /\ WF_vars(JetsonStops)

-----------------------------------------------------------------------------
(* Properties *)

\* What the Jetson runs from
JetsonSupplies == BaseRails \cup {"1v8", "3v3_ssd", "3v3_wifi"}

\* A Jetson that is enabled or has not yet asserted SYS_RESET has its supplies:
\* boot_turn_on_jetson comes after them, and reboot_thread cuts them only after
\* SHUTDOWN_REQ, POWER_EN and SYS_RESET, whoever else wakes it up in between
JetsonNeedsSupplies == "jetson" \in rails \/ ~sysReset => JetsonSupplies \subseteq rails

\* While power_until_button_press finds the button released the Orb is dark: a
\* press that stops too early, at whatever iteration, has turned the base
\* supplies off again
WaitingIsDark == main = "button" /\ ~lit => BaseRails \cap rails = {}

\* A reset by the firmware itself (read-back protection, low battery, a Jetson
\* that does not boot, a heartbeat timeout, a reboot) makes the bootloader revert
\* an update only if confirming it has failed: whatever resets the MCU, and with
\* an update activated at any time, app_init_state has tried to confirm the image
\* before.  (When dfu_primary_confirm fails, nothing is told and the next reset
\* reverts the update, unless the Jetson confirms it in between.)
UpdateKept == kept

\* A reboot_orb that was accepted once the boot was over brings the Jetson back
\* up: until it has sent a message again, no reset and no other request makes
\* app_init_state wait for the button.  (So the code: the flag is left set until
\* wait_jetson_up has seen a message, and outlives every reset before.  The comment
\* at boot.c:819, "read the boot flag and reset it once read", says otherwise: reset
\* when read, it would not be there after a second reset.)
PromisedRebootComesBack == main = "button" => promised # "after"

\* reboot() returned success, or the Jetson asked for its shutdown: the MCU is
\* reset, even if it has to wait for the Jetson to go down first
RebootHappens == (CanReboot /\ sem = 1) \/ work ~> ~CanReboot

-----------------------------------------------------------------------------
(* The inductive invariant *)

JetsonPoints == {"await", "super_cap", "pvcc", "wait_jetson", "clear", "done"}
PoweredPoints == {"battery", "jetson"} \cup JetsonPoints
MainPoints == {"gpio", "state", "button", "supplies"} \cup PoweredPoints
ThreadPoints == {"none", "wait", "show", "check", "await_down", "cut", "delay",
                 "to_sleep", "sleep", "going_down"}

PowerFlags == /\ flag \in BOOLEAN /\ autoBoot \in BOOLEAN
              /\ pending \in BOOLEAN /\ rdp \in BOOLEAN
              /\ lit \in BOOLEAN /\ untested \in BOOLEAN
              /\ shutdown \in BOOLEAN /\ work \in BOOLEAN
              /\ jobs \in BOOLEAN /\ sysReset \in BOOLEAN /\ kept \in BOOLEAN
PowerTypes == /\ image \in {"confirmed", "test", "unconfirmed"}
              /\ rails \subseteq Rails /\ cycling \subseteq Lines
              /\ main \in MainPoints
              /\ press \in Nat
              /\ thread \in [at : ThreadPoints, delay : Int]
              /\ sem \in {0, 1}
              /\ delay \in Int
              /\ requests \in 0..MaxRequests
              /\ promised \in {"no", "during", "after"}

\* Nothing acts before the boot has come to what starts it
BootOrder ==
    /\ main \in {"gpio", "state"} => rails = {} /\ press = 0 /\ ~lit
    /\ ~sysReset \/ "jetson" \in rails \/ jobs \/ cycling # {} => main \in JetsonPoints
    /\ thread.at # "none" \/ work \/ shutdown => main \in JetsonPoints \ {"await"}

\* The order in which reboot_thread takes the Jetson down
ShutdownOrder ==
    /\ main \in PoweredPoints => JetsonSupplies \subseteq rails \/ (shutdown /\ sysReset)
    /\ shutdown => "jetson" \notin rails
    /\ thread.at \in {"await_down", "cut"} => shutdown
    /\ thread.at = "cut" => sysReset

\* The iterations of power_until_button_press with the base supplies off
PressOrder ==
    main = "button" => /\ press <= 1 => BaseRails \cap rails = {}
                       /\ ~lit => press <= 1

\* app_init_state leaves no update behind that it has not tried to confirm
UpdateOrder == kept /\ (image = "test" => main \in {"gpio", "state"})

Latched == promised = "after" => flag

\* Preserved by every step of the boot, the reboot thread and their callers
PowerInductive == /\ PowerFlags
                  /\ PowerTypes
                  /\ BootOrder
                  /\ ShutdownOrder
                  /\ PressOrder
                  /\ UpdateOrder
                  /\ Latched
                  /\ PromisedRebootComesBack
=============================================================================
