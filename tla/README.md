# Models of the Orb's main-board firmware

TLA+ specifications of the parts of `orb-firmware` whose correctness depends on
interleavings, power cuts and long histories: the flash FIFO, the messages kept in
it, the firmware update, booting and rebooting, the job runner, the polarizer wheel,
the IR cameras and LEDs, temperatures and fans, the battery and the voltages. TLC
checks them on small instances; TLAPS proves, for every value of the constants, all their
safety properties, and that the flash FIFO implements its abstract specification.

`PROJECT.json` lists the components, runs, findings, hazards and theorems, the
source lines each definition stands for, and for each property a mutation of the
code that breaks it.

## 1. The system

The firmware runs on an STM32 under Zephyr. A **main board** MCU turns the
Orb on and off, drives the optics and talks to the Jetson over CAN (and UART); a
**security board** shares `lib/`. Messages arrive through CAN, UART or the shell, are
queued as jobs and executed one after the other by the *runner*; subsystems with
motion or slow I/O have threads of their own and are handed work through a semaphore.

| Component | State | Operations | Hard behaviour | What makes it correct |
|---|---|---|---|---|
| `lib/storage` | flash area, `rd_idx`, `wr_idx`, `sem_storage` | init, push, peek, free | power cut between two flash writes, failed access, area full, rebuilding indexes from flash alone | it is a FIFO across boots; loses records only with an error |
| `main_board/pubsub` | active remotes, static buffers, flusher thread | `publish_new`, `publish_store`, `publish_flush`, `pub_stored_thread`, `subscribe_add` | publishers push while the flusher has a record peeked; CAN refuses; flusher ends while messages are stored | a stored message is freed only once sent, and is sent in the end; a publisher returns |
| `lib/dfu` (+ runner handlers) | `dfu_state`, two semaphores, the secondary slot | `dfu_load`, the DFU thread, check, activate | the callback runs after the buffer has been given back; activation while the thread writes; write failure half way | slot holds the image; answers belong to their requests and always come |
| `power/boot`, `main.c`, backup registers | supplies, reboot flag, `reboot_delay_s`, image under test | boot, wait for the button, reboot, SHUTDOWN_REQ, power cycles | a reboot request at any point of a boot or of a running reboot; trial image; resets of all kinds | Jetson never runs without supplies; accepted reboots happen and come back; updates are not reverted |
| `optics/polarizer_wheel` | `g_polarizer_wheel_instance`, motor, encoder | home, calibrate, set angle, step and encoder interrupts | interrupts against a thread that compares for equality; lost pulses, jams, a second bump close to a target | reported position is the real one; a calibration measures each bump; commands end |
| `main_board/runner` with its receiving threads | `process_queue`, `new_job_sem`, static job and contexts, active remotes | four producers, the runner thread, 50 handlers | producers that time out on a semaphore or a full queue; contexts kept in statics | jobs run once and in order; answers go to their senders |
| `lib/can_messaging`, `lib/uart_messaging` | transmit queues and slabs, receive ring | send, reset, receive | reset of a queue that is in use; framing across reads | blocks are freed once; frames come out whole |
| `system/config` | a record in `Storage` and its copy in RAM | read, update | update is a free and a push | RAM and flash agree after a failure |
| `lib/health_monitoring`, `lib/watchdog` | deadlines, registered states | heartbeat, ping | restart while the thread leaves | monitoring stays on |
| `optics/ir_camera_system`, eye safety, `1d_tof`, `liquid_lens` | timer settings, triggers, sweep state, distance counter | LEDs, on-time, frame rate, cameras, sweeps, auto-off | exposure interrupts, strobe, ToF thread and a timer against the runner, which sleeps in a critical section | LEDs are off when something is close, pulses within limits; sweeps are complete and end |
| `optics/mirror` | homing state, targets | home, set angle | homing thread against requests | angles are those asked for |
| `temperature`, `fan` | samples, averages, count of hot sensors, speeds | sampling, `overtemp_callback`, set speed | the runner sets the fan in the middle of a callback; one clock for all sensors | full speed while hot; the old speed comes back; critical sensors end in a reset |
| `power/battery` | buffers of the pack's messages, CAN state, timeouts | receive, publish, restart of the bus, removal | packs swapped or partly silent, bus-off interrupts, announcements refused | one pack's identity; removal is answered; the bus comes back |
| `voltage_measurement` | extremes of every channel, multiplexer, period | ADC interrupts, publish, self-test, capacitors | copy and reset against interrupts, a multiplexer with three users, lost messages | extremes are kept until published; the multiplexer has one user |
| LEDs, button, sound, GNSS, NFC, logs, diag, CLI, drivers | little | thin drivers | – | – |

How they interact: the runner calls into `dfu`, `boot`, `polarizer_wheel`, `config`
`ir_camera_system`, `fan`, `voltage_measurement` and `pubsub`; every subsystem publishes through `pubsub`, which either hands a
message to `can_messaging` or stores it through `storage`; `config` has an area of its
own under the same `storage` code; `dfu` answers the runner through a callback in the
DFU thread; `boot` is entered from the runner, the battery, the heartbeat, the power
button and the Jetson's SHUTDOWN_REQ line; the boot confirms or loses the image that
`dfu` activated. The 1D ToF sensor switches the IR LEDs off behind the runner; the
temperature thread overrides the fan speed the runner has set; the battery reads a channel
of `voltage_measurement` to tell a cord from a removed pack, and reboots through `boot`.

## 2. The modules

| Module | Models | Composes |
|---|---|---|
| `Storage` | `lib/storage/storage.c` | – |
| `RecordFifo` | what `storage.h` promises (abstract) | implemented by `Storage` |
| `StorageProofs` | theorems about `Storage`, among them that it implements `RecordFifo`, and about `PubSub` | `PubSub` |
| `PubSub` | `pubsub.c` with the runner's calls of `subscribe_add` and `publish_flush` | extends `Storage` |
| `Dfu` | `dfu.c` and its handlers in `runner.c` | – |
| `DfuProofs` | theorems about `Dfu` | `Dfu` |
| `Power` | `boot.c`, `main.c`, backup registers; the requests of runner, battery, heartbeat | – |
| `PowerProofs` | theorems about `Power` | `Power` |
| `Polarizer` | `polarizer_wheel.c` and its use of the motor driver | – |
| `PolarizerProofs` | theorems about `Polarizer` | `Polarizer` |
| `Runner` | `runner.c`: queue, producers, dispatch, answers; `canbus_rx*.c`, `uart_messaging.c` and `cli.c` as its producers | – |
| `RunnerProofs` | theorems about `Runner` | `Runner` |
| `IrCamera` | `ir_camera_system*.c`, timer settings, eye safety, the ToF thread, the lens | – |
| `IrCameraProofs` | theorems about `IrCamera` | `IrCamera` |
| `Thermal` | `temperature.c`, `fan.c` | – |
| `ThermalProofs` | theorems about `Thermal` | `Thermal` |
| `Battery` | `battery_ruby.c` (Pearl), `battery_amber.c` (Diamond) | – |
| `Voltage` | `voltage_measurement.c` | – |
| `SupplyProofs` | theorems about `Battery` and `Voltage` | `Battery`, `Voltage` |
| `MC*` | values of constants for TLC | the module of that name |

### Storage

Offsets are counted in flash write blocks; a header is one block, as on the STM32G4.
`flash` maps each block to what it reads as when it is taken for a header: `unused`,
`valid`, `invalid` or `data`, with a size. An operation holds
`sem_storage` from its first access to its return, so there is one program counter:
`pc` names the next flash access (`check`, `walk` and `settle` in `init_area`, `erase`
and `init_erase`, `write` and `header` in `storage_push`). Between any two of them power may be
cut (`PowerCut`); any of them may fail (`faults`), and the model follows the code's
error path, which resets the area in `storage_push` and ignores a failed erase.
`live` (the records promised to callers, with their places), `top` (the block after them) and
`intact` (no erase is unfinished and no boot has misread a header through a failed access)
are history variables: no action reads them.

### PubSub

Extends `Storage`: a step of a storage operation is a step of whichever thread holds
`sem_storage` (`caller`). Publishers run `publish()` from the wait for
`pub_buffers_sem` (5 ms, may time out) to its release; `flush` is `pub_stored_thread`;
`SubscribeAdd` is the runner; `Reset` loses RAM. CAN either takes a message or does
not. A message is a record; its encoding is left out.

### Dfu

A byte of an image is its image and its position, so that a slot that mixes images, has a
hole or writes twice is seen. `DfuLoad`, the check and the activation are handlers of
the runner, which has a higher priority than the DFU thread and so runs to its end or to the wait
in `dfu_secondary_check_async`. The thread takes one step for each flash access and
each semaphore operation, the callback last. The Jetson sends the next block, repeats the last, starts
over with any image, asks for a check or an activation, with at most `window`
unanswered requests; each behaviour chooses its window from `Windows`.

### Power

`flag`, `autoBoot`, the image and its trial state survive a reset, `rails` are the
supplies that are on. `main` walks through the `SYS_INIT` functions (wait for the
button included), the start of the Jetson and the rest of `main()`; the reboot thread,
the work queue item of SHUTDOWN_REQ, the runner's handlers, the battery, the heartbeat
and the Jetson act meanwhile. Sleeps end at any moment: the model keeps no clock.
`dfu_primary_confirm` may fail, at the boot, where its result is ignored, and for the Jetson
(`HandleConfirm`): the image is then `"unconfirmed"`, and the next reset of the firmware reverts it.

### Polarizer

`wheel` is the true position, `current` the count of `step_timer` pulses the code
keeps. A pulse counts and moves the wheel, or counts only (a lost pulse, or a wheel that
is stuck); edges of the four bumps come from `wheel`, so that the count and the truth can
drift apart as they do in the hardware. Timeouts are counted in pulses, as the motor's
speed fixes them: 4 s are 1⅓ turns, 1 s a third. The ramp of frequencies is
the number of its ramp step; currents and registers are left out. The wheel itself is an
assumption (`WheelAssumption`): four bumps that do not touch, of which one pair is as close as the homing
looks for; `Tolerance` is what half a bump differs at most from `NOTCH_EDGE_TO_CENTER`. History variables
say what the report can be held to: `drift` (pulses lost or late since the encoder set the count), `lost` (it was set
at another bump, from widths measured elsewhere, or not at all) and `cal.sure` (the calibration began at pass-through).

### Runner

A producer waits for `new_job_sem`, decodes into the statics and puts the job into the queue,
each a step of its own with its timeout; one that waits on a full queue is resumed
by the consumer, which copies what the static job holds by then. The shell that does not get
the semaphore is told `RET_SUCCESS` and gives it back all the same (`SemTimesOut`, `broken`); two producers may then
prepare the static job at once and leave a mixture of both (`Written`, `clashed`). The runner executes a job in one
step: `Handlers` gives for each payload the answers its handler can give, the state the
handlers change is in the other modules. An answer is handed to `publish_new`, which sends it to its address whether
or not that is subscribed, or refuses it, and nobody looks (`Publishes`, `unheard`). Firmware requests are answered
later by the DFU thread, in the steps of `DfuAnswers`: it gives the semaphore back, reads the callback, then from
the static context the remote, the number and, when it publishes, the address. The runner may execute a job between
any two of them; an answer whose context it has written over meanwhile is `torn`. `accepted` are the messages
whose producer was told `RET_SUCCESS`.

### IrCamera

`hw` holds the timers, triggers and LED outputs, `s` the settings the code computes
them from. A request of the runner is one step, except `k_msleep` in a critical section, which
releases it, and the start of a sweep: `PerformSweep` ends where the sweep's interrupt is enabled, `SweepTriggers` enables
the eye camera's trigger, and exposures may end in between, the last one of the sweep too. The ToF thread, of lower
priority, can be preempted between the copy, the write and the
application of the settings. `Frame` and `ExposureEnds` are the interrupts that advance
a sweep, `StrobeRises` and `StrobeFalls` the face camera's, on Diamond, `AutoOff` the 60 s timer. When the strobe's
interrupt has to wait for the converter it calls `k_msleep`, which an interrupt must not: the debug build asserts and
restarts (`Restart`), the release build goes on without the settling time; both are outcomes of `StrobeFalls`. An
on-time of the wire is truncated to 16 bits as in the call. `shots` lists the focus of every exposure a sweep
counts, `NoFrame` for one that ended before the trigger was on.

### Thermal

A sensor reads a temperature, fails or gives an outlier; `SAMPLE_COUNT` readings make an
average, and the callback follows in the steps where the runner can preempt it: critical
timer, threshold, counter, saving or restoring of the speed, and the accesses of
`fan_set_speed_by_value` (PWM, setting, test of `fan_is_off`, pin).

### Battery

`supply` is the pack that is really there, a cord, or nothing. On Ruby a message of the
pack arrives between any two steps of the thread, or does not; on Amber the gauge is
polled and a read may fail. `messagesTimeout`, `sent` and `corded` are the code's variables, `silent` and `left` (the
time that was announced) belong to the properties. `bus` is the CAN controller: it reports bus-off or another state in an
interrupt between any two steps; the thread clears the flag and reads the state in two steps, in its loop (`RubyChecksBus`,
`RubyReadsState`) and while it waits for a transmission (`WaitsForRtr`). In `can_restart` each of `can_stop` and `can_start`
may fail; the error is only logged, and the bus stays off or stopped (`bus.failed`). A message to a Jetson that has started
is taken to be accepted (`NoSupply`); before that it is refused.

### Voltage

`stats` are the extremes that interrupts write at any moment, `copy` what is being published.
The two threads take `analog_mux_mutex`, move the multiplexer and put it back in separate steps; a read of a
capacitor is the position the last sample was taken with. `owed` are the values the Jetson has not been told.

## 3. The runs

| Run | Instance | Checks |
|---|---|---|
| `storage_robust` | 10 blocks in 2 pages, records of 1 and 2 blocks, 2 cuts anywhere, 2 failed accesses | stored records stay in flash in order (`FlashHoldsLive`), peek serves the oldest (`PeekIsOldest`), without a failed access records leave only by a free, or by a push that finds its blocks programmed (`LossNeedsError`) |
| `storage_fifo` | 8 blocks in 2 pages, 3 cuts outside erases, no failed access | `Storage` implements `RecordFifo` |
| `pubsub_publish` | 2 publishers, 2 messages, 2 resets outside push and erase, 1 failed access, fair | a message is sent twice only through a reset or error, freed ones were sent, stored ones are sent, publishers return |
| `dfu_update` | 3 images (one too large), 5 requests, windows 1 and 2, 1 failed access, fair | the slot follows the image, writes find erased flash; for a Jetson that waits: success is told only of what was loaded or verified, and every request is answered |
| `power_boot` | 3 requests, three delays, fair | supplies, updates kept unless confirming them fails, accepted reboots happen and come back |
| `polarizer_wheel` | 36 steps a turn, 2 starting places, 2 commands, 1 fault, fair | the reported position is the true one, a calibration measures its own bump, commands end |
| `ircamera_safe` | both boards, 3 wavelengths, 3 on-times, 3 frame rates, sweeps of 1 and 2 frames, 4 requests, fair | LEDs off when too close, pulses within the limits, focus sweeps complete, sweeps end, auto-off works |
| `runner_jobs` | queue of 2, 4 producers, 3 messages answered once, twice, by the DFU thread or by a reset, a shell command of two jobs, fair | answers go to the sender of their own job, jobs run once and in order, queued ones are answered, the semaphore comes back |
| `thermal_fan` | a sensor of the main board and one of the front unit, averages of 2, thresholds a few degrees apart | full speed while hot, the speed asked for comes back, critical sensors are cut off |
| `battery_supply` | both boards, 2 packs and a cord, 2 identity messages, bus-off and other states, announcement after 1 and reboot after 2 silent periods, fair | identity of one pack, reboots as announced, bus-off ends, removal is answered |
| `battery_removed` | Diamond only | *violated*: an announced shutdown takes place |
| `voltage_publish` | both boards, 2 channels, 2 capacitor positions, periods 0 and 5, self-test of 4 loops, fair | extremes are kept, the multiplexer has one user, a self-test pass is sustained, publishing happens |

**Bounds.** *Storage*: ten blocks hold three records of the larger kind, so an area
fills, is erased and fills again, and a record may straddle a page; two cuts
reach the interesting pair "a cut leaves programmed blocks, and the recovery from
them is cut as well"; two faults let an error path fail too. The theorems of
`StorageProofs` remove these bounds. *PubSub*: two publishers contend
for the buffers and one record is pushed while another is peeked; a reset may come before and
after each of them. *Dfu*: blocks of 3 bytes and writes of 4 leave a
remainder at every write and run over a sector; five requests hold a whole upload with
check, or a broken one and a new start; a window of 2 has one request being processed and one
waiting, the most the two semaphores tell apart. *Power*: three requests are enough for a
request, a second one that finds the first under way, and one after the reset
between them. *Polarizer*: a step of the model is ten degrees; the bumps are one, three and five steps wide, so that
`EdgeToCenter` is wrong by one for one of them (`Tolerance`), and the extra one is closer to horizontal than `CloseMax`,
as on the wheel. Lost and late
pulses occur only while positioning, since ten degrees lost while homing would be far beyond the
tolerance of a real microstep. One fault and two commands
reach a fault in the first and its consequence in the second. *IrCamera*: four requests
set wavelength, on-time and camera and leave one to disturb them; one on-time is above
16 bits and is within the limits once truncated, and the two strobe edges lie on both sides of
the longest pulse. *Runner*: two jobs wait in the queue, so that their order can be wrong, while the third meets a full queue or a
semaphore that is taken; three producers are what it takes to prepare two jobs at once, as the first must hold the semaphore, the shell give
it back and another one take it. Two firmware requests overlap in one context; that the contexts of the block and of the check do not mix is
left to the theorem. *Thermal*: the temperatures lie below, at and above the thresholds and beyond the outlier distance;
the delay is three averages long, so that the shared clock is passed from one sensor to another.
*Battery*: the timeouts keep their order (removed before forced), two packs can be swapped between
any two messages; the states are bus-off and one other, which an interrupt may replace by bus-off between the clearing of the
flag and the reading of the state. *Voltage*: two values on one channel make a minimum and a maximum that a sample can extend in both
directions; the self-test has two loops more than a pass needs.

**Deadlock** is not checked where the system may rest: after the last request (`Dfu`)
with the wheel idle (`Polarizer`) and when the Jetson is silent (`IrCamera`). Elsewhere it is checked.

**Fairness.** *PubSub*: weak fairness of each publisher and of main, because the
kernel runs every ready thread, and strong fairness of the acquisition of
`sem_storage`, which the kernel gives to its waiting threads in turn; the Jetson goes on asking for its messages, and CAN takes a
message that is offered again and again (strong fairness of the send), else a message would
rightly stay stored. *Dfu*: the DFU thread and the runner's wait for it. *Power*: the reboot thread and the
work queue; a Jetson without `POWER_EN` asserts `SYS_RESET`, which `reboot_thread`
waits for without a timeout. *Polarizer*: the timer gives pulses while it is on, and the thread runs. *IrCamera*: a sleeping runner wakes and
one that starts a sweep goes on, the ToF thread runs, a running master timer gives frames and exposures end; nothing is asked of the Jetson,
the strobe or the person in front. *Runner*: every thread that is ready runs, and its timeouts expire. *Battery*: the thread sleeps
a bounded time and never blocks, a transmission is waited for 100 ms at most, and an accepted reboot
happens (`RebootHappens` of `Power`); messages of the pack may stay away for ever. *Voltage*: the ADC goes on
sampling and both threads run; the I2C driver may keep the mutex for ever.

## 4. What was found

`battery_removed` – on Diamond the test for the forced reboot stands inside the block that is
entered only while the announcement has not been sent. Once the Jetson has been told
`ms_until_shutdown`, the block is not entered again and the Orb never reboots by itself.

Where the code and a comment or message disagree, the models follow the code:

* `boot.c:819` says of the boot flag "read the boot flag and reset it once read"; the code leaves it set until `main.c:439`,
  after the Jetson's first message. A second reset before that still boots by itself, which `PromisedRebootComesBack` states and
  which would fail of what the comment describes.
* `runner.c:79` calls `remote_addr` the "destination ID to use to respond to the job initiator"; `handle_err_code` reads the
  number (`runner.c:129`) and the address (157) of a static context at two moments, and the runner can write the next request there in
  between (911, 1033): one request's answer then goes to the sender of another. `AcksAnswerTheirJobs` excepts a `torn` answer.
* `runner.h:21` says of `RET_SUCCESS` "if the message is queued"; `runner_handle_new_cli` returns it also when it did not get the semaphore in 5 ms
  and dropped the job, and the shell prints "IR LEDs set" (`cli.c:752`). `JobsRunInOrder` excepts that job.
* `ir_camera_system_hw.c:467` logs "Taking %zu focus sweep frames" with the number requested; exposures that end between the enabling of
  the interrupt (456) and of the trigger (460) are counted and give no frame. `FocusSweepIsComplete` excepts them.

The passing runs state some properties with an exception, because the code does not have them without it. Each is in the
comment of the property, and under `hazards` with its line:

* a freed record's payload block that begins with `0xffff` ends the walk of a boot, and
  the records behind it are lost (`BenignPayload`, a hypothesis of the theorems; `storage.c:82`);
* a failed push resets the area between the flusher's peek and its free, and a newer
  record is freed unsent (`FreedWereSent`);
* with a second request under way the DFU thread answers with the number or the result
  of another one (`AcksAreOwn`, `VerifiedIsComplete`), and one for an image that is too large is not answered at all (`EveryRequestAcked`);
* a `reboot_orb` accepted before main has seen the Jetson's first message is erased with
  the old flag: the Orb waits for its button (`PromisedRebootComesBack`, `main.c:439`);
* on the way from vertical to horizontal the first edge is the extra bump's, though
  `polarizer_wheel.h` says the encoder is used only within a window around the target (`ReportedIsThere`);
* `dfu_primary_confirm` may fail, `app_init_state` ignores it, and the next reset reverts the update (`UpdateKept`, `boot.c:857`);
* the lens or the frame rate can be set during a focus sweep, a restart ends it, and on Diamond the eye camera's output can be on before
  the camera is (`FocusSweepIsComplete`); a frame rate of 0 stops a sweep for good (`SweepEnds`);
* the shell gives back a semaphore it did not get in 5 ms (`JobsRunInOrder`, `AcksAnswerTheirJobs`);
* `job_ack` does not look at what `publish_new` returns: an answer it refuses, after 5 ms without the buffers or on a full
  transmit queue, is never given (`QueuedJobsAreAnswered`, `runner.c:112`);
* `can_stop` or `can_start` fails in the restart of the battery's bus, which nothing repeats (`BusOffEnds`, `battery_ruby.c:397-407`);
* a fan speed set between the end of an emergency and the restoring of the old speed is undone (`SpeedComesBack`);
* a round of voltages of which only some messages were sent forgets the extremes of the others (`ExtremesAreKept`); a new
  period wakes the publish thread out of the settling time of a capacitor (`MuxIsExclusive`).

## 5. What is proved

`StorageProofs`, for every area size, page size, block size, set of records and
number of cuts and faults, from `StorageConstants`, `PayloadAssumption` (a record has
as many payload blocks as its size asks for) and `BenignPayload` (no payload block reads
as an unused or a valid header, and the first one not as a freed one; section 4 says what
happens without it). `BenignPayload` is a hypothesis of the theorems, and the passing runs
use payloads that satisfy it:

| Theorem | States |
|---|---|
| `StorageInductive` | `Spec => []Inductive` |
| `StorageKeepsRecords` | `Spec => []FlashHoldsLive` |
| `StorageFindsRecords` | `Spec => []IndexesMatchLive` |
| `StorageIsFifo` | `Spec => []PeekIsOldest` |
| `StorageLossNeedsError` | `Spec => LossNeedsError` (an action property) |
| `StorageImplementsFifo` | `Spec => ImplementsFifo`, the refinement of `RecordFifo` |

The three invariants are not inductive: what a boot finds depends on what every block of the flash
reads as, including those of freed records and of pushes that were cut. `Inductive`
adds `Control` (for each `pc`, how the indexes and the operation's own variables
relate) and, while `intact`, the shape of the log: the live records follow each other
without a gap, each with its header and payload (`LiveChain`), no block below them can be taken for an unused or a valid
header and the place of the next header is erased (`AroundLive`), the blocks above it are programmed from the bottom, by a push that was cut
(`CleanAbove`), a boot's walk is at the end of a live record or below all
of them (`WalkOnLive`) and ends at `top` unless a read failed or the area is full (`WalkEndsAtTop`), and a push in progress has
written what it claims (`PushedSoFar`). The proof goes action by action, with lemmas about a
`FlashWrite` that leaves other blocks alone and about the records of a sequence after `Append` and `Tail`.

`StorageImplementsFifo` assumes no failed access (`MaxFaults = 0`) and no cut in the middle of an erase
(`CutPoints` without `erase` and `init_erase`), as the run `storage_fifo` does: a cut erase may leave old records in the
pages it has not reached, and a failed access may lose the records of a boot without an error. The number of all other cuts is arbitrary. The mapping
takes the records of `live` as the queue, and as the answer the one that is settled: `then` while an
operation resets the area, `ret` otherwise. Beside `Inductive` the step proof needs `Unfailed`: at each point
what the operation will answer, and that the area is intact, being erased, or new and not opened. Each action is then one of `Push`, `Peek`, `Free`, `Fail` and
`Restart` or changes nothing the FIFO sees. The lemmas `NothingInGarbage`, `NothingFound` and `LastIsFreed`
say why the three steps that drop the whole log without an error find it empty or hold its last record.

`StorageProofs` goes on with the threads of `PubSub` on this FIFO, for any number of publishers, messages
and resets, from `PubSubConstants` too. That assumes that a record fits into the flusher's buffer: `publish`
encodes it into a buffer of the same type, `struct pub_entry_s` (`pubsub.c:45-49`, `322-335`).

| Theorem | States |
|---|---|
| `PubSubSendsOnce` | `PubSubSpec => []SentOncePerReset` |
| `PubSubFreesWhatItSent` | `PubSubSpec => []FreedWereSent`, with no cut in the middle of a push or an erase |

A step of `PubSub` is a step of `Storage` (`PubSubIsStorage`), so that `Inductive` is kept; `HolderInductive` says which call the holder of `sem_storage` is in.
Neither needs fairness. `SentInductive` is a budget: a message has one header in flash and none before its publisher is done (`StoredOnce`), and
how often it was handed to CAN, the present attempt included, exceeds the resets and failed accesses by at most one; by one only when its record
is gone, is being erased, or is the one the flusher's next free will find (`Beyond`). It holds for
cuts at any point. `FreeInductive` follows the record between peek and free without `sem_storage`: it stays the oldest (`HandIsOldest`) because a push
of another thread only appends, and a push never resets the area (`PushGoesOn`) because all blocks above the log are
erased (`ErasedAbove`). A push that was cut leaves programmed blocks there; the next push then fails, resets the area and drops
the record in the flusher's hand, whose free may then hit a newer one: hence the hypothesis.

`PowerProofs`, for every number of poll iterations, every set of delays and any number
of requests, from `PowerConstants`:

| Theorem | States |
|---|---|
| `PowerIsInductive` | `Spec => []PowerInductive` |
| `PowerJetsonSupplied` | `Spec => []JetsonNeedsSupplies` |
| `PowerWaitingIsDark` | `Spec => []WaitingIsDark` |
| `PowerKeepsUpdate` | `Spec => []UpdateKept` |
| `PowerKeepsPromise` | `Spec => []PromisedRebootComesBack` |

`PowerInductive` says which supplies are on at each point of the boot (`BootOrder`) and of the
shutdown (`ShutdownOrder`), what a press of the button has lit (`PressOrder`), from
where on the boot has tried to confirm the image (`UpdateOrder`) and that an accepted request is in the backup
register (`Latched`). The supplies cannot be shown to be on without the order of both threads,
because the shutdown may begin before the boot has ended.

`DfuProofs`, for every size of block, write, sector, slot and image, any number of requests and of
failed accesses, from `DfuConstants`. What it says of sizes is in `dfu.h:8-45` and the BUILD_ASSERTs of `dfu.c:40-47`: a block
fits in a write, a write is whole double words, a sector whole writes, the buffer not larger
than a sector, and the slot whole sectors. That a block fits in a write comes from the message it travels in, an
`image_block` in one CAN FD frame; its maximum is a constant of generated code:

| Theorem | States |
|---|---|
| `FollowsImage` | `Spec => []SlotFollowsImage` |
| `FindErasedFlash` | `Spec => []WritesFindErasedFlash` |
| `OwnAcks` | `Spec => []AcksAreOwn` |
| `CompleteWhenVerified` | `Spec => []VerifiedIsComplete` |

`DfuInductive` is the handshake of `sem_dfu_free_space` and `sem_dfu_full`: who may touch `dfu_state`. For a Jetson with one
request at a time `InTurnInductive` adds that what the thread works on is the last request
(`PendingIsLast`), that the runner waits for it (`RunnerIsLast`), and how far a check has compared the slot
(`CheckedSoFar`); this is what fails with two requests under way. For an upload without errors `UploadInductive` follows the bytes: the slot holds the
image up to `offset`, the buffer continues it (`Filled`, `Buffer`), what is left fits into the slot (`Fitting`) and
the flash from the bytes written to the end of the sector is erased (`SectorsErased`). It needs both because a write
is a multiple of 64 bytes while a block is not: the remainder is carried over, and the padded last
write may cross into a sector that must have been erased before. The
arithmetic of multiples is in lemmas of its own.

`RunnerProofs`, for every queue size, number of remotes, messages and resets, from `RunnerAssumption`:

| Theorem | States |
|---|---|
| `InArrivalOrder` | `Spec => []JobsRunInOrder` |
| `OwnAnswers` | `Spec => []AcksAnswerTheirJobs` |

`JobsInductive`: only the producer that holds `new_job_sem` has the static job, a producer handles its messages one by one, so what is
queued, waiting and executed of a source is increasing. It holds whatever the shell does with the semaphore, for the messages that
are not `clashed`: two producers clash only once it is `broken`. `AcksInductive` adds that a job carries the address of its sender, and
that each answer belongs to an execution, or to the context that a firmware request left; while the DFU thread
reads a context field by field, that what it has read and what is there are of one request unless `torn`. This one holds as
long as the semaphore is not `broken` (section 4).

`IrCameraProofs`, for every set of on-times, frame rates, sweep lengths and strobe edges and any number of
requests, on both boards, from `IrAssumption`:

| Theorem | States |
|---|---|
| `TooCloseLedsOff` | `Spec => []LedsOffWhenTooClose` |
| `FlashLimits` | `Spec => []FlashWithinLimits` |
| `SweepIsComplete` | `Spec => FocusSweepIsComplete` (an action property) |

`FlashWithinLimits` is about the pulse in the timers, which is not always the one of the settings: the ToF thread writes
a copy back that may be older than the frame rate in force. `FlashInductive` shows that in that case the LEDs are off and the on-time is zero
(`StaleIsDark`), and that a runner asleep in its critical section has written the pulse it is about to switch on (`SleeperIsReady`).
`SweepInductive` counts the exposures of a sweep nobody has disturbed, the one in progress included; until `SweepTriggers` they are
without a frame, from then on each has its own focus.

`ThermalProofs`, for every list of sensors and all temperatures, speeds, periods and thresholds, from
`ThermalAssumption` (the initial speed is not zero: `FAN_INITIAL_SPEED_PERCENT` is 1):

| Theorem | States |
|---|---|
| `FullSpeed` | `Spec => []FullSpeedWhileHot` |
| `SpeedBack` | `Spec => []SpeedComesBack` |
| `CriticalCutOff` | `Spec => []CriticalIsCutOff` |

`FanInductive` says who may set the fans at each point (the callback or the runner, `WhoSets`), which of their registers already show the new speed
(`HotFans`) and which speed is to come back (`AskedFor`). `CriticalInductive`: the timer
of a sensor is at least as long as its critical averages took, whatever another sensor did to the common clock.

`PolarizerProofs`, for every size of the turn, centre of the extra bump and widths of the bumps, every set of angles and
starting places, any number of commands, attempts and faults, from `PolarizerConstants` and `WheelAssumption`:

| Theorem | States |
|---|---|
| `ReportIsRight` | `Spec => []ReportedIsThere` |
| `CalibrationIsRight` | `Spec => []CalibrationMeasuresItsBump` |

What is assumed of the constants is in `polarizer_wheel.h` and in the parameters at the head of `polarizer_wheel.c`: 48 steps are a turn, so
that it is divisible by three; half a bump is about ¾ of a step; edges 2½ to 4 steps apart (18.75° to 30°) are the close pair, and
no other pair of neighbours is that close. `Structure` says which state the thread and the state machine can be in together. Places are
counted by `Past` from the end of the bump of pass-through, so that the four bumps lie in one order and only pass-through, the one that spans the zero of the
count, is a turn on. `CalTrack` follows a calibration from edge to edge: the bump it numbers is the one the wheel approaches,
enters, crosses or leaves, and on the bump the width counted so far is the way from its first edge; a width
is then the bump's own (`OwnWidths`), also when a spin ends in the middle of it. The report needs
five facts at once. While homing, the count is the way from the edge of the last bump (`HomeTrack`), so that a count in the window
can only be the extra bump's, and the next edge is that of pass-through (`PassTrack`). From there on the count is the place of
the wheel up to `drift` and `Tolerance` (`Counts`), with another zero while the homing ends (`Zeroed`). An edge that the thread
sees late lies as far back as the pulses since (`EdgeSeen`), which is why setting the count to `NotchEdge` keeps `Counts`. A
wheel that jams while it is homed meets no edge any more, so that nothing but a timeout follows: the invariant needs this case
(`stuck`), else it is not inductive. As in the runs, no pulse is lost or late during a homing or a calibration unless the wheel is
stuck, and nothing is claimed of a report once `lost` says why the count is not to be trusted.

`SupplyProofs`, for `Battery`, every set of packs and identity messages and all timeouts, from `BatteryAssumption`
(a pack is neither a cord nor nothing; the announcement comes before the reboot):

| Theorem | States |
|---|---|
| `OnePack` | `Spec => []InfoOfOnePack` |
| `AnnouncementKept` | `Spec => RebootKeepsItsAnnouncement` (an action property) |
| `BusOffNoted` | `Spec => []BusOffIsNoted` |

`IdentityInductive`: a pack answers only what it was asked itself, and no pack can be inserted between the
clearing of the buffers and the requests. `ShutdownInductive`: the timeout counts only silent
periods, and with the time announced it does not exceed the time to the reboot. `BusOffIsNoted` is the safety half of `BusOffEnds`: a
controller that is bus-off is flagged, or the thread is about to act on it, or its restart has failed. `BusInductive` adds that
bus-off is then also the last state reported; it rests on the flag being cleared before the state is read.

and for `Voltage`, every set of values and periods, number of positions and length of the self-test, from `VoltageAssumption`:

| Theorem | States |
|---|---|
| `ExtremesKept` | `Spec => []ExtremesAreKept` |
| `MuxExclusive` | `Spec => []MuxIsExclusive` |
| `PassSustained` | `PASS <= 2` implies `Spec => []PassIsSustained` |

`PASS` is 2 in the code. The hypothesis is needed: a failed loop takes one from the count of passed loops, it does
not reset it, so with a `PASS` of 3 the self-test could pass without three good loops in a row.

The inductive invariants hold on the instances of the runs too; the runs check what follows from them.

Only model-checked: what must eventually happen (`StoredAreSent`, `PublishReturns`, `EveryRequestAcked`, `RebootHappens`,
`CommandsEnd`, `SweepEnds`, `AutoOffWorks`, `QueuedJobsAreAnswered`, `SemaphoreComesBack`, `BusOffEnds`, `RemovalIsAnswered`,
`PublishingHappens`). Liveness under fairness needs `ENABLED`, which is out of the prover's reach. Every
invariant and action property of a passing run is a theorem.
No statement about recursive data is made: the modules use no RECURSIVE operator.

## 6. Plan

In this order; each step adds its actions, its properties and a mutation for each.

1. `Config` over `Storage`: the update as free and push, power cut in between, RAM against flash.
2. The transmit queues of `can_messaging` with their slabs and reset; the receive ring of `uart_messaging`.
3. `Health`: restart of the heartbeat while its thread leaves, pings, registered states.
4. `Mirror`: homing in a thread against set-angle requests.

Abstract specifications worth stating besides `RecordFifo`: a job queue that executes
each accepted job once (`Runner`), and a switch of LEDs that is on only while safe (`IrCamera`).

## 7. Not modelled

The control loop of `liquid_lens` and the conversion of voltages and temperatures are numerical; LED
animations are layout; drivers, register accesses and the motor driver's SPI are I/O;
logging, versions, diagnostics and the shell only read or format. The watchdog is a
hardware timer fed by one thread. The bootloader is Zephyr's port of MCUboot; `Power`
assumes only that it reverts an image that was not confirmed at the next reset. The
parts named in the plan are not modelled yet; the hazards known there are in
`PROJECT.json` with a note. In the modelled parts: message encoding, CRC arithmetic (a CRC is right or
wrong), wall-clock time in `Power`, version queries of `Dfu`, Pearl and Diamond pin differences in
`Power`, the idle-current scaling and statistics of `Polarizer`, the polynomials of sweeps in `IrCamera`, the ranges of the self-test in `Voltage` and
the values `Battery` only copies are left out.
