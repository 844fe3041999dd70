------------------------------- MODULE Runner -------------------------------
(***************************************************************************)
(* The job runner of the main board (runner.c), the threads that feed it   *)
(* (canbus_rx.c, canbus_rx_isotp.c, uart_messaging.c and the shell, cli.c) *)
(* and the acknowledgements it gives back.                                 *)
(*                                                                         *)
(* Four producers decode a message into the shared statics mcu_message and *)
(* new, under new_job_sem, and put new in process_queue; the runner thread *)
(* takes the jobs one by one and calls the handler of the payload. Taking  *)
(* the semaphore and putting in a full queue both time out after 5 ms. A   *)
(* producer that waits in k_msgq_put is resumed by the consumer, which     *)
(* copies what new holds by then.                                          *)
(*                                                                         *)
(* A message is its number; its payload is chosen when the runner looks at *)
(* it. A handler is the set of the answers it can give: the result of the  *)
(* subsystem it calls is any of those the subsystem can return (IrCamera,  *)
(* Polarizer, Power, Dfu and Thermal model what the calls do). A handler   *)
(* is one step, as the runner executes one job at a time; it may run       *)
(* between any two steps of the DFU thread, whose priority is lower and    *)
(* whose callback reads the context of a request field by field.           *)
(***************************************************************************)
EXTENDS Integers, Sequences, FiniteSets, SequencesExt, TLC

CONSTANTS QueueSize,    \* length of process_queue (8 in the code)
          RemoteSlots,  \* ARRAY_SIZE(active_remotes)
          Apps,         \* ISO-TP remotes: CONFIG_CAN_ISOTP_REMOTE_ID + app
          Payloads,     \* payload tags the messages carry
          Commands,     \* shell commands entered
          Diamond,      \* the board: Diamond or Pearl
          Cone,         \* CONFIG_DT_HAS_DIAMOND_CONE_ENABLED
          CiBuild,      \* BUILD_FROM_CI
          MaxMessages,  \* bound: messages sent to the board
          MaxResets     \* bound: resets by a fatal error

ASSUME RunnerAssumption ==
    /\ {QueueSize, RemoteSlots} \subseteq Nat \ {0}
    /\ Apps \subseteq 8..15
    /\ Diamond \in BOOLEAN /\ Cone \in BOOLEAN /\ CiBuild \in BOOLEAN
    /\ MaxMessages \in Nat /\ MaxResets \in Nat

Producers == {"can", "isotp", "uart", "cli"}

VARIABLES
    at,           \* per producer: where it is and with which message
    left,         \* jobs of the shell command that are still to be sent
    new_job_sem,
    new,          \* static: the job being prepared, from the static mcu_message
    process_queue,
    runner_tid,   \* the runner thread exists
    active,       \* active_remotes
    context,      \* static contexts of the two asynchronous DFU handlers
    dfu_busy,     \* sem_dfu_free_space is taken: the DFU thread has a request
    dfu_ctx,      \* dfu_state.ctx: the context to answer with, or "none"
    answer,       \* the callback of the DFU thread: where it is, what it read
    sent,         \* history: what each message is
    queued,       \* history: messages put in process_queue
    accepted,     \* history: messages whose producer was told RET_SUCCESS
    ran,          \* history: jobs the runner executed, in order
    acks,         \* history: acknowledgements published; nth tells them apart
    unheard,      \* history: requests with an answer that publish_new refused
    lost,         \* history: messages wiped out by a reset
    broken,       \* history: the shell gave back a semaphore it did not hold
    clashed,      \* history: messages prepared while another one was
    resets

statics == <<new_job_sem, new>>
dfu == <<dfu_busy, dfu_ctx, answer>>
answers == <<acks, unheard>>
history == <<sent, accepted, lost, broken, clashed, resets>>
vars == <<at, left, statics, process_queue, runner_tid, active,
          context, dfu, queued, ran, answers, history>>

-----------------------------------------------------------------------------
(* Addresses *)

JetsonTx == 128   \* CONFIG_CAN_ADDRESS_MCU_TO_JETSON_TX
McuTx == 64       \* CONFIG_CAN_ADDRESS_MCU_TO_MCU_TX
LocalId == 1      \* CONFIG_CAN_ISOTP_LOCAL_ID

\* CAN_ADDR_IS_ISOTP | CAN_ADDR_IS_DEST | src << 4 | dest
StdIdDestination(src, dest) == 256 + 512 + src * 16 + dest

IsIsoTp(addr) == (addr \div 256) % 2 = 1

\* Mutant: the flags are kept and the identifiers are not swapped
KeptAddress(addr) == IF IsIsoTp(addr) THEN addr ELSE JetsonTx

\* The flags are kept, source and destination change places
ReplyAddress(addr) ==
    IF IsIsoTp(addr)
    THEN (addr \div 256) * 256 + (addr % 16) * 16 + ((addr \div 16) % 16)
    ELSE JetsonTx

-----------------------------------------------------------------------------
(* The handlers: the sequences of acknowledgements each can give *)

\* switch (ret): the cases of the table, FAIL by default
Switch(rets, table) ==
    {<<IF r \in DOMAIN table THEN table[r] ELSE "FAIL">> : r \in rets}

Success == {<<"SUCCESS">>}
Unsupported == {<<"OPERATION_NOT_SUPPORTED">>}
OutOfRange == {<<"RANGE">>}
Failure == {<<"FAIL">>}
SuccessOrFail == Success \cup Failure

handle_infrared_leds_message ==
    Switch({"SUCCESS", "BUSY", "FORBIDDEN", "INVALID_PARAM"},
           [SUCCESS |-> "SUCCESS", BUSY |-> "INVALID_STATE",
            FORBIDDEN |-> "FORBIDDEN", INVALID_PARAM |-> "OPERATION_NOT_SUPPORTED"])

handle_led_on_time_message ==
    Switch({"SUCCESS", "FORBIDDEN", "INVALID_PARAM"},
           [SUCCESS |-> "SUCCESS", FORBIDDEN |-> "FORBIDDEN", INVALID_PARAM |-> "RANGE"])

\* ir_camera_system_enable_ir_eye_camera and _disable_: refused during a sweep
handle_triggering_ir_eye_camera ==
    Switch({"SUCCESS", "BUSY"}, [SUCCESS |-> "SUCCESS", BUSY |-> "INVALID_STATE"])

\* The result of the other cameras' functions is not looked at
handle_triggering_other_camera == Success

handle_shutdown == OutOfRange \cup SuccessOrFail
handle_reboot_message == OutOfRange \cup SuccessOrFail

\* A delay out of range falls through to the failure path: two answers
handle_reboot_orb == {<<"RANGE", "FAIL">>} \cup SuccessOrFail

handle_set_config == OutOfRange \cup SuccessOrFail
handle_boot_complete == SuccessOrFail

\* Unknown angle type, auto-homing in progress, or the result of the motors
handle_mirror_angle_message ==
    Failure \cup {<<"IN_PROGRESS">>} \cup
    Switch({"SUCCESS", "INVALID_PARAM", "BUSY", "INVALID_STATE"},
           [SUCCESS |-> "SUCCESS", INVALID_PARAM |-> "RANGE"])

handle_mirror_angle_relative_message ==
    Failure \cup {<<"IN_PROGRESS">>} \cup
    Switch({"SUCCESS", "INVALID_PARAM", "BUSY", "INVALID_STATE"},
           [SUCCESS |-> "SUCCESS", INVALID_PARAM |-> "RANGE"])

handle_temperature_sample_period_message == Success \cup OutOfRange

handle_fan_speed ==
    {<<"OVER_TEMPERATURE">>} \cup OutOfRange \cup Success \cup Unsupported

handle_user_leds_pattern == OutOfRange \cup SuccessOrFail

\* center, ring and distributor: an unknown format fails like the drivers
handle_user_center_leds_sequence == SuccessOrFail
handle_user_ring_leds_sequence == SuccessOrFail
handle_distributor_leds_sequence == SuccessOrFail

handle_cone_leds_sequence ==
    CASE ~Diamond -> Unsupported
      [] Diamond /\ ~Cone -> Failure
      [] Diamond /\ Cone -> SuccessOrFail
handle_cone_leds_pattern == IF Diamond /\ Cone THEN Success ELSE Unsupported
handle_white_leds_brightness == IF Diamond THEN OutOfRange \cup Success ELSE Unsupported

handle_user_leds_brightness == OutOfRange \cup Success
handle_distributor_leds_pattern == OutOfRange \cup SuccessOrFail
handle_distributor_leds_brightness == OutOfRange \cup SuccessOrFail
handle_fw_img_sec_activate == SuccessOrFail
handle_fw_img_primary_confirm ==
    {<<"VERSION">>, <<"INVALID_STATE">>} \cup SuccessOrFail

handle_fps ==
    Switch({"SUCCESS", "BUSY", "FORBIDDEN", "INVALID_PARAM"},
           [SUCCESS |-> "SUCCESS", BUSY |-> "INVALID_STATE",
            FORBIDDEN |-> "FORBIDDEN", INVALID_PARAM |-> "RANGE"])

\* Homing in progress; stall detection or an unknown mode; the result
handle_do_mirror_homing == {<<"IN_PROGRESS">>} \cup Unsupported \cup SuccessOrFail

\* The answer goes out before the lens is switched on or off
handle_liquid_lens == OutOfRange \cup Success

handle_power_cycle ==
    Switch({"SUCCESS", "NOT_FOUND", "INVALID_PARAM", "FORBIDDEN", "INTERNAL"},
           [SUCCESS |-> "SUCCESS", NOT_FOUND |-> "OPERATION_NOT_SUPPORTED",
            INVALID_PARAM |-> "RANGE", FORBIDDEN |-> "FORBIDDEN"])

\* Homing and calibration answer INVALID_STATE where a move answers RANGE or FAIL
handle_polarizer ==
    IF Diamond
    THEN Unsupported \cup {<<"INVALID_STATE">>} \cup
         Switch({"SUCCESS", "BUSY", "INVALID_PARAM", "INVALID_STATE"},
                [SUCCESS |-> "SUCCESS", BUSY |-> "IN_PROGRESS", INVALID_PARAM |-> "RANGE"])
    ELSE Unsupported
handle_polarizer_wheel_settings == IF Diamond THEN Success ELSE Unsupported

handle_voltage_request == Success
\* heartbeat_boom always succeeds
handle_heartbeat == Success
handle_value_get_message == Success \cup OutOfRange

handle_focus_sweep_values ==
    Switch({"SUCCESS", "BUSY", "INVALID_PARAM"},
           [SUCCESS |-> "SUCCESS", BUSY |-> "INVALID_STATE", INVALID_PARAM |-> "RANGE"])
handle_focus_sweep_polynomial ==
    Switch({"SUCCESS", "BUSY", "INVALID_PARAM"},
           [SUCCESS |-> "SUCCESS", BUSY |-> "INVALID_STATE"])
handle_mirror_sweep_polynomial ==
    Switch({"SUCCESS", "BUSY"}, [SUCCESS |-> "SUCCESS", BUSY |-> "INVALID_STATE"])

PerformSweep ==
    Switch({"SUCCESS", "BUSY", "INVALID_STATE", "FORBIDDEN"},
           [SUCCESS |-> "SUCCESS", BUSY |-> "IN_PROGRESS",
            INVALID_STATE |-> "INVALID_STATE", FORBIDDEN |-> "FORBIDDEN"])
handle_perform_focus_sweep == PerformSweep
handle_perform_mirror_sweep == PerformSweep

\* publish_flush is called first, PubSub models it
handle_sync_diag_data == Success
handle_diag_test_data == IF CiBuild THEN Unsupported ELSE Success
handle_set_time ==
    Switch({"SUCCESS", "INVALID_PARAM", "INTERNAL"},
           [SUCCESS |-> "SUCCESS", INVALID_PARAM |-> "RANGE"])

\* What dfu_load and dfu_secondary_check_async answer at once
handle_dfu_block_message ==
    Switch({"SUCCESS", "NO_MEM", "INVALID_PARAM", "BUSY"},
           [SUCCESS |-> "SUCCESS", NO_MEM |-> "INVALID_STATE",
            INVALID_PARAM |-> "RANGE", BUSY |-> "IN_PROGRESS"])
handle_fw_img_crc == {<<"INVALID_STATE">>} \cup Failure

\* handle_message_callbacks
Handlers == [
    shutdown |-> handle_shutdown, reboot |-> handle_reboot_message,
    reboot_orb |-> handle_reboot_orb, set_config |-> handle_set_config,
    boot_complete |-> handle_boot_complete,
    mirror_angle |-> handle_mirror_angle_message,
    mirror_angle_relative |-> handle_mirror_angle_relative_message,
    do_homing |-> handle_do_mirror_homing,
    infrared_leds |-> handle_infrared_leds_message,
    led_on_time |-> handle_led_on_time_message, fps |-> handle_fps,
    start_ir_eye |-> handle_triggering_ir_eye_camera,
    stop_ir_eye |-> handle_triggering_ir_eye_camera,
    start_ir_face |-> handle_triggering_other_camera,
    stop_ir_face |-> handle_triggering_other_camera,
    start_rgb_face |-> handle_triggering_other_camera,
    stop_rgb_face |-> handle_triggering_other_camera,
    start_2dtof |-> handle_triggering_other_camera,
    stop_2dtof |-> handle_triggering_other_camera,
    focus_values |-> handle_focus_sweep_values,
    focus_polynomial |-> handle_focus_sweep_polynomial,
    focus_sweep |-> handle_perform_focus_sweep,
    mirror_polynomial |-> handle_mirror_sweep_polynomial,
    mirror_sweep |-> handle_perform_mirror_sweep,
    liquid_lens |-> handle_liquid_lens,
    user_leds_pattern |-> handle_user_leds_pattern,
    user_leds_brightness |-> handle_user_leds_brightness,
    center_leds |-> handle_user_center_leds_sequence,
    ring_leds |-> handle_user_ring_leds_sequence,
    distributor_leds |-> handle_distributor_leds_sequence,
    distributor_pattern |-> handle_distributor_leds_pattern,
    distributor_brightness |-> handle_distributor_leds_brightness,
    cone_leds |-> handle_cone_leds_sequence,
    cone_pattern |-> handle_cone_leds_pattern,
    white_leds |-> handle_white_leds_brightness,
    fan_speed |-> handle_fan_speed,
    temperature_period |-> handle_temperature_sample_period_message,
    voltage_request |-> handle_voltage_request,
    power_cycle |-> handle_power_cycle, polarizer |-> handle_polarizer,
    polarizer_settings |-> handle_polarizer_wheel_settings,
    heartbeat |-> handle_heartbeat, value_get |-> handle_value_get_message,
    sync_diag |-> handle_sync_diag_data, diag_test |-> handle_diag_test_data,
    set_time |-> handle_set_time,
    sec_activate |-> handle_fw_img_sec_activate,
    primary_confirm |-> handle_fw_img_primary_confirm,
    dfu_block |-> handle_dfu_block_message, fw_check |-> handle_fw_img_crc]

\* A payload without a handler is answered, too
Answers(payload) ==
    IF payload \in DOMAIN Handlers THEN Handlers[payload] ELSE Unsupported

Deferred == [dfu_block |-> "block", fw_check |-> "check"]

-----------------------------------------------------------------------------
(* The shell: the jobs a command sends, one after the other *)

CliDeviceJobs == [
    reboot |-> <<"reboot">>, fan |-> <<"fan_speed">>, mirror |-> <<"mirror_angle">>,
    heartbeat |-> <<"heartbeat">>, voltage |-> <<"voltage_request">>,
    liquid_lens |-> <<"liquid_lens">>, homing |-> <<"do_homing">>, fps |-> <<"fps">>]
CliLedJobs == [
    user_leds |-> <<"user_leds_pattern">>, op_leds_pattern |-> <<"distributor_pattern">>,
    op_leds_brightness |-> <<"distributor_brightness">>]
CliSystemJobs == [power_cycle |-> <<"power_cycle">>, date |-> <<"set_time">>,
                  white_leds |-> <<"white_leds">>]
\* The calibration is started from the shell's thread, without a job
CliPolarizerJobs == [polarizer |-> <<"polarizer">>, polarizer_calibrate |-> <<>>]
CliIrJobs == [ir_leds |-> <<"led_on_time", "infrared_leds">>]

CliJobs == CliDeviceJobs @@ CliLedJobs @@ CliSystemJobs @@ CliPolarizerJobs @@ CliIrJobs

-----------------------------------------------------------------------------
(* The state at reset, and what the threads receive *)

Nobody == [step |-> "idle", msg |-> 0]
Quiet == [step |-> "none", ctx |-> "none", num |-> 0, torn |-> FALSE]
NoJob == [remote |-> "none", addr |-> 0, num |-> 0, msg |-> 0]

Init == /\ at = [p \in Producers |-> Nobody]
        /\ left = <<>>
        /\ new_job_sem = 1
        /\ new = NoJob
        /\ process_queue = <<>>
        /\ runner_tid = FALSE
        /\ active = {}
        /\ context = [block |-> NoJob, check |-> NoJob]
        /\ dfu_busy = FALSE
        /\ dfu_ctx = "none"
        /\ answer = Quiet
        /\ sent = <<>>
        /\ queued = {}
        /\ accepted = {}
        /\ ran = <<>>
        /\ acks = {}
        /\ unheard = {}
        /\ lost = {}
        /\ broken = FALSE
        /\ clashed = {}
        /\ resets = 0

\* runner_init
runner_init == /\ ~runner_tid
               /\ runner_tid' = TRUE
               /\ active' = {McuTx}
               /\ UNCHANGED <<at, left, statics, process_queue, context, dfu,
                              queued, ran, answers, history>>

\* What the threads receive: on the CAN bus from the Jetson and the security
\* MCU, by ISO-TP from its applications, on the UART. Garbled stands for what
\* is dropped: frames that cannot be decoded or are not for the main board,
\* and a UART message that the DMA has written over
Kinds == [can |-> {"jetson", "sec", "garbled"}, isotp |-> {"jetson"}, uart |-> {"jetson", "sec"}]
Destinations(p) == IF p = "isotp" THEN {StdIdDestination(a, LocalId) : a \in Apps} ELSE {0}

\* A thread takes the next message off its receive queue and calls the handler,
\* which returns at once while there is no runner thread. A message that found
\* the receive queue full, or was cancelled by k_poll, never gets here
Receives(p) ==
    /\ at[p] = Nobody
    /\ Len(sent) < MaxMessages
    /\ \E k \in Kinds[p], d \in Destinations(p) :
          sent' = Append(sent, [from |-> p, kind |-> k, dest |-> d, payload |-> "any"])
    /\ at' = [at EXCEPT ![p] = IF runner_tid THEN [step |-> "take", msg |-> Len(sent) + 1]
                                             ELSE Nobody]
    /\ UNCHANGED <<left, statics, process_queue, runner_tid, active, context, dfu,
                   queued, ran, answers, accepted, lost, broken, clashed, resets>>

CanReceives == Receives("can")
IsoTpReceives == Receives("isotp")
UartReceives == Receives("uart")

-----------------------------------------------------------------------------
(* The shell *)

\* runner_handle_new_cli does not look for the runner thread
CliCalls(jobs) ==
    /\ at["cli"] = Nobody
    /\ jobs # <<>> /\ Len(sent) + Len(jobs) <= MaxMessages
    /\ sent' = Append(sent, [from |-> "cli", kind |-> "jetson", dest |-> 0,
                             payload |-> Head(jobs)])
    /\ left' = Tail(jobs)
    /\ at' = [at EXCEPT !["cli"] = [step |-> "take", msg |-> Len(sent) + 1]]
    /\ UNCHANGED <<statics, process_queue, runner_tid, active, context, dfu, queued, ran,
                   answers, accepted, lost, broken, clashed, resets>>

\* A shell command and its next job
CliEnters == left = <<>> /\ \E c \in Commands : CliCalls(CliJobs[c])
CliGoesOn == CliCalls(left)

-----------------------------------------------------------------------------
(* runner_handle_new_can, runner_handle_new_uart, runner_handle_new_cli *)

GoesTo(p, step) == at' = [at EXCEPT ![p].step = step]

\* k_sem_give, on a semaphore that counts to 1, and back to the caller
Returns(p) == /\ new_job_sem' = 1
              /\ at' = [at EXCEPT ![p] = Nobody]

Preparing == {p \in Producers : at[p].step \in {"decode", "put"}}

\* What two producers prepare at the same time is noted
PreparesWith(p) ==
    /\ GoesTo(p, "decode")
    /\ clashed' = IF Preparing = {} THEN clashed
                  ELSE clashed \cup {at[q].msg : q \in Preparing \cup {p}}
    /\ UNCHANGED <<left, new, process_queue, runner_tid, active, context, dfu, queued,
                   ran, answers, sent, accepted, lost, broken, resets>>

\* Mutant: the job is prepared whether or not the semaphore was taken
TakesNoSem(p) == /\ at[p].step = "take"
                 /\ new_job_sem' = 0
                 /\ PreparesWith(p)

TakesSem(p) == /\ at[p].step = "take"
               /\ new_job_sem = 1
               /\ new_job_sem' = 0
               /\ PreparesWith(p)

\* 5 ms without the semaphore: BUSY. The shell is told RET_SUCCESS and gives
\* back what it did not get
SemTimesOut(p) ==
    /\ at[p].step = "take"
    /\ new_job_sem = 0
    /\ IF p = "cli"
       THEN /\ Returns(p)
            /\ accepted' = accepted \cup {at[p].msg}
            /\ broken' = TRUE
       ELSE /\ at' = [at EXCEPT ![p] = Nobody]
            /\ UNCHANGED <<new_job_sem, accepted, broken>>
    /\ UNCHANGED <<left, new, process_queue, runner_tid, active, context, dfu, queued,
                   ran, answers, sent, lost, clashed, resets>>

CanJob(m) ==
    IF sent[m].kind = "sec"
    THEN [remote |-> "sec", addr |-> McuTx, num |-> 0, msg |-> m]
    ELSE [remote |-> "jetson", addr |-> ReplyAddress(sent[m].dest), num |-> m, msg |-> m]

OtherJob(remote, m) == [remote |-> remote, addr |-> 0, num |-> 0, msg |-> m]

JobOf(p, m) == IF p \in {"can", "isotp"} THEN CanJob(m) ELSE OtherJob(p, m)

\* Each field from the one or the other
Mixed(a, b) == {[remote |-> r.remote, addr |-> d.addr, num |-> n.num, msg |-> m.msg] :
                   r, d, n, m \in {a, b}}

\* new is written field by field: who has written it too, and still prepares
\* its job, may leave any of its fields there
Written(p) ==
    IF \E q \in Producers \ {p} : at[q].step = "put"
    THEN Mixed(JobOf(p, at[p].msg), new) ELSE {JobOf(p, at[p].msg)}

\* Mutant: the semaphore is not given back for a message that is dropped
DecodesKeepsSem(p) ==
    /\ at[p].step = "decode"
    /\ LET m == at[p].msg
           mine == sent[m].kind = "jetson" \/ (sent[m].kind = "sec" /\ p # "uart")
       IN IF mine
          THEN /\ new' \in Written(p)
               /\ GoesTo(p, "put")
          ELSE /\ at' = [at EXCEPT ![p] = Nobody]
               /\ UNCHANGED new
    /\ UNCHANGED <<left, new_job_sem, process_queue, runner_tid, active, context, dfu,
                   queued, ran, answers, history>>

\* pb_decode_ex into mcu_message and the copy into new; the shell has its
\* message already. A message that cannot be decoded, or is not for the main
\* board, is dropped; over UART only the Jetson's messages are
Decodes(p) ==
    /\ at[p].step = "decode"
    /\ LET m == at[p].msg
           mine == sent[m].kind = "jetson" \/ (sent[m].kind = "sec" /\ p # "uart")
       IN IF mine
          THEN /\ new' \in Written(p)
               /\ GoesTo(p, "put")
               /\ UNCHANGED new_job_sem
          ELSE Returns(p) /\ UNCHANGED new
    /\ UNCHANGED <<left, process_queue, runner_tid, active, context, dfu,
                   queued, ran, answers, history>>

\* k_msgq_put: at once, or when the runner makes room
Puts(p) == /\ at[p].step = "put"
           /\ Len(process_queue) < QueueSize
           /\ process_queue' = Append(process_queue, new)
           /\ queued' = queued \cup {new.msg}
           /\ accepted' = accepted \cup {at[p].msg}
           /\ Returns(p)
           /\ UNCHANGED <<left, new, runner_tid, active, context,
                          dfu, ran, answers, sent, lost, broken, clashed, resets>>

\* 5 ms with a full queue: BUSY. The shell stops a command that fails
PutTimesOut(p) == /\ at[p].step = "put"
                  /\ Len(process_queue) = QueueSize
                  /\ Returns(p)
                  /\ left' = IF p = "cli" THEN <<>> ELSE left
                  /\ UNCHANGED <<new, process_queue, runner_tid,
                                 active, context, dfu, queued, ran, answers, history>>

Produce(p) == TakesSem(p) \/ SemTimesOut(p) \/ Decodes(p) \/ Puts(p)
                  \/ PutTimesOut(p)
-----------------------------------------------------------------------------
(* The runner thread *)

\* subscribe_add, on every job from the CAN bus
Subscribed(addr) ==
    IF addr = 0 \/ (addr \notin active /\ Cardinality(active) = RemoteSlots)
    THEN active ELSE active \cup {addr}

\* Up to n acknowledgements: publish_new sends an acknowledgement whether or not
\* the remote is subscribed, but gives up after 5 ms without the buffers and when
\* the transmission cannot be queued; nobody looks at what it returns
Publishes(addr, num, n, torn) ==
    \E heard \in 0..n :
       /\ LET before == Cardinality({a \in acks : a.num = num})
          IN acks' = acks \cup {[addr |-> addr, num |-> num, nth |-> before + i, torn |-> torn] :
                                   i \in 1..heard}
       /\ unheard' = IF heard < n THEN unheard \cup {num} ELSE unheard

\* Mutant: errors are logged, not sent
AckSuccessOnly(codes, job) ==
    IF job.remote = "jetson" /\ \E i \in 1..Len(codes) : codes[i] = "SUCCESS"
    THEN Publishes(job.addr, job.num, 1, FALSE) ELSE UNCHANGED answers

\* job_ack, once per code: only messages from the CAN bus are acknowledged.
\* (job_counter counts the successful ones: Power has what main.c looks at of it)
JobAck(codes, job) ==
    IF job.remote = "jetson"
    THEN Publishes(job.addr, job.num, Len(codes), FALSE) ELSE UNCHANGED answers

\* A handler that answers before it returns; an activation clears dfu_state
AnswersNow(job, payload) ==
    /\ payload \notin DOMAIN Deferred
    /\ \E codes \in Answers(payload) : JobAck(codes, job)
    /\ dfu_ctx' \in IF payload = "sec_activate" THEN {dfu_ctx, "none"} ELSE {dfu_ctx}
    /\ UNCHANGED <<context, dfu_busy, answer>>

\* The static context of a DFU handler, that the callback may be reading
Notes(job, c) ==
    /\ context' = [context EXCEPT ![c] = [remote |-> job.remote, addr |-> job.addr,
                                          num |-> job.num, msg |-> job.msg]]
    /\ answer' = IF answer.ctx = c /\ answer.step \in {"number", "address"}
                 THEN [answer EXCEPT !.torn = TRUE] ELSE answer

\* -EINPROGRESS: the DFU thread answers
DfuQueues(c) == /\ ~dfu_busy
                /\ dfu_busy' = TRUE
                /\ dfu_ctx' = c
                /\ UNCHANGED answers

\* The block is buffered with others
DfuBuffers(job, c) == /\ c = "block"
                      /\ ~dfu_busy
                      /\ dfu_ctx' = c
                      /\ UNCHANGED dfu_busy
                      /\ JobAck(<<"SUCCESS">>, job)

DfuRefuses(job, payload) == /\ \E codes \in Answers(payload) \ Success : JobAck(codes, job)
                            /\ UNCHANGED <<dfu_busy, dfu_ctx>>

\* The DFU handlers note whom to answer before they know who will answer. The
\* check waits for dfu_busy for 10 ms; nothing reads its context meanwhile
DfuHandler(job, payload) ==
    /\ payload \in DOMAIN Deferred
    /\ LET c == Deferred[payload]
       IN /\ Notes(job, c)
          /\ DfuQueues(c) \/ DfuBuffers(job, c) \/ DfuRefuses(job, payload)

\* The callback table of the security MCU has the ping only, without an answer
SecHandler(job) == UNCHANGED <<answers, context, dfu>>

PayloadsOf(m) == IF sent[m].payload = "any" THEN Payloads ELSE {sent[m].payload}

\* How the handler of a payload answers
Way(payload) == CASE payload \in DOMAIN Deferred -> "deferred"
                  [] payload = "reboot_orb" -> "twice"
                  [] OTHER -> "once"

Takes == process_queue' = Tail(process_queue)

RunnerExecutes ==
    /\ runner_tid
    /\ process_queue # <<>>
    /\ Takes
    /\ LET job == Head(process_queue)
       IN /\ active' = Subscribed(job.addr)
          /\ \E payload \in IF job.remote = "sec" THEN {"ping"} ELSE PayloadsOf(job.msg) :
                /\ ran' = Append(ran, [msg |-> job.msg, way |-> Way(payload)])
                /\ IF job.remote = "sec" THEN SecHandler(job)
                   ELSE AnswersNow(job, payload) \/ DfuHandler(job, payload)
    /\ UNCHANGED <<at, left, statics, runner_tid, queued, history>>

-----------------------------------------------------------------------------
(* The DFU thread, as far as it answers *)

otherVars == <<at, left, statics, process_queue, runner_tid, active, context, queued, ran,
               history>>

\* What the thread does with a request is Dfu's. It frees dfu_state, which an
\* image that is too large has cleared, before it looks for the callback
DfuGives == /\ dfu_busy
            /\ answer.step = "none"
            /\ dfu_busy' = FALSE
            /\ dfu_ctx' \in IF dfu_ctx = "block" THEN {"block", "none"} ELSE {dfu_ctx}
            /\ answer' = [Quiet EXCEPT !.step = "call"]
            /\ UNCHANGED <<answers, otherVars>>

\* dfu_cb(ctx): all callbacks are handle_err_code
DfuCalls == /\ answer.step = "call"
            /\ answer' = IF dfu_ctx = "none" THEN Quiet
                         ELSE [Quiet EXCEPT !.step = "remote", !.ctx = dfu_ctx]
            /\ UNCHANGED <<dfu_busy, dfu_ctx, answers, otherVars>>

\* handle_err_code: the codes it gives
handle_err_code ==
    Switch({"SUCCESS", "INVALID_PARAM", "INVALID_STATE", "INTERNAL"},
           [SUCCESS |-> "SUCCESS", INVALID_PARAM |-> "RANGE", INVALID_STATE |-> "IN_PROGRESS"])

\* The UART and the shell are not answered
DfuReadsRemote ==
    /\ answer.step = "remote"
    /\ answer' = IF context[answer.ctx].remote = "jetson"
                 THEN [answer EXCEPT !.step = "number"] ELSE Quiet
    /\ UNCHANGED <<dfu_busy, dfu_ctx, answers, otherVars>>

DfuReadsNumber ==
    /\ answer.step = "number"
    /\ answer' = [answer EXCEPT !.step = "address", !.num = context[answer.ctx].num]
    /\ UNCHANGED <<dfu_busy, dfu_ctx, answers, otherVars>>

DfuPublishes ==
    /\ answer.step = "address"
    /\ \E codes \in handle_err_code :
          Publishes(context[answer.ctx].addr, answer.num, Len(codes), answer.torn)
    /\ answer' = Quiet
    /\ UNCHANGED <<dfu_busy, dfu_ctx, otherVars>>

DfuAnswers == DfuGives \/ DfuCalls \/ DfuReadsRemote \/ DfuReadsNumber \/ DfuPublishes

\* handle_diag_test_data, a fatal error: the board resets
FatalTest ==
    /\ runner_tid /\ ~CiBuild
    /\ resets < MaxResets
    /\ process_queue # <<>>
    /\ LET job == Head(process_queue)
       IN /\ "diag_test" \in PayloadsOf(job.msg)
          /\ job.remote # "sec"
          /\ ran' = Append(ran, [msg |-> job.msg, way |-> Way("diag_test")])
          /\ IF job.remote = "jetson"
             THEN Publishes(job.addr, job.num, 1, FALSE) ELSE UNCHANGED answers
    /\ lost' = 1..Len(sent)
    /\ resets' = resets + 1
    /\ at' = [p \in Producers |-> Nobody]
    /\ left' = <<>>
    /\ new_job_sem' = 1
    /\ new' = NoJob
    /\ process_queue' = <<>>
    /\ runner_tid' = FALSE
    /\ active' = {}
    /\ context' = [block |-> NoJob, check |-> NoJob]
    /\ dfu_busy' = FALSE
    /\ dfu_ctx' = "none"
    /\ answer' = Quiet
    /\ UNCHANGED <<sent, accepted, broken, clashed, queued>>

-----------------------------------------------------------------------------
(* Specification *)

Done == /\ Len(sent) = MaxMessages
        /\ \A p \in Producers : at[p] = Nobody
        /\ runner_tid /\ process_queue = <<>> /\ ~dfu_busy /\ answer = Quiet
        /\ UNCHANGED vars

Next == \/ runner_init
        \/ CanReceives \/ IsoTpReceives \/ UartReceives
        \/ \E p \in Producers : Produce(p)
        \/ CliEnters \/ CliGoesOn
        \/ RunnerExecutes \/ DfuAnswers \/ FatalTest
        \/ Done

\* The threads are scheduled and the timeouts expire
Fairness == /\ WF_vars(runner_init)
            /\ \A p \in Producers : WF_vars(Produce(p))
            /\ WF_vars(RunnerExecutes) /\ WF_vars(DfuAnswers)

Spec == Init /\ [][Next]_vars
FairSpec == Spec /\ Fairness

-----------------------------------------------------------------------------
(* Properties *)

\* Where the sender of a message listens
Listens(m) == IF sent[m].from = "isotp"
              THEN CHOOSE a \in {StdIdDestination(LocalId, b) : b \in Apps} :
                      sent[m].dest = StdIdDestination(a % 16, LocalId)
              ELSE JetsonTx

AnswersTo(m) == {a \in acks : a.num = m}
RanAs(m) == {ran[i].way : i \in {j \in 1..Len(ran) : ran[j].msg = m}}

\* As long as the shell has not released a semaphore it did not hold, every
\* acknowledgement carries the number of a request that the runner executed
\* and goes to the address its sender listens to, unless the next firmware
\* request wrote over the context while the DFU thread read it; and a request
\* is answered once, except a firmware request, whose context the next one
\* overwrites, and a reboot_orb with a delay out of range.
AcksAnswerTheirJobs ==
    ~broken =>
       /\ \A a \in acks : ~a.torn =>
                         /\ a.num \in 1..Len(sent) /\ sent[a.num].kind = "jetson"
                         /\ a.addr = Listens(a.num)
                         /\ RanAs(a.num) # {}
       /\ \A m \in 1..Len(sent) :
             Cardinality(AnswersTo(m)) > 1 => RanAs(m) \subseteq {"deferred", "twice"}

\* Two jobs are prepared at the same time only if the shell released a semaphore
\* it did not hold. Whatever it did, for the other jobs: a message is in the
\* queue or was executed exactly if its producer returned RET_SUCCESS, but for a
\* job of the shell that timed out; the jobs of one source are executed in the
\* order they arrived, and none is executed twice.
JobsRunInOrder ==
    /\ clashed # {} => broken
    /\ \A m \in (queued \ accepted) \cup (accepted \ queued) :
          \/ m \in clashed
          \/ m \notin queued /\ broken /\ sent[m].from = "cli"
    /\ \A i, j \in 1..Len(ran) :
          i < j /\ sent[ran[i].msg].from = sent[ran[j].msg].from
             => ran[i].msg < ran[j].msg \/ {ran[i].msg, ran[j].msg} \cap clashed # {}

\* A queued job is executed unless the board resets first, and the Jetson gets
\* an answer unless it could not be published or the DFU is to give it. Nothing
\* is said of jobs that were prepared at the same time.
QueuedJobsAreAnswered ==
    \A m \in 1..MaxMessages :
       m \in queued ~>
          \/ m \in lost \cup clashed
          \/ /\ RanAs(m) # {}
             /\ \/ AnswersTo(m) # {}
                \/ m \in unheard
                \/ sent[m].kind # "jetson" \/ sent[m].from \in {"uart", "cli"}
                \/ RanAs(m) \subseteq {"deferred"}

\* The right to prepare a job is never lost: whatever a producer receives,
\* the semaphore is given back.
SemaphoreComesBack == []<>(new_job_sem = 1)
=============================================================================
