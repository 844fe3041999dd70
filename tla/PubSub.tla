------------------------------- MODULE PubSub -------------------------------
(***************************************************************************)
(* main_board/src/pubsub/pubsub.c on top of the flash FIFO of Storage: the *)
(* threads that publish messages, the thread that flushes the stored ones  *)
(* to the Jetson and the runner that adds subscribers and asks for the     *)
(* flush.  A record of Storage is a message with its destination in front. *)
(*                                                                         *)
(* A thread that calls an operation of Storage waits for sem_storage and   *)
(* holds it until the operation returns; pub_buffers_sem is held by a      *)
(* publisher from TakeBuffers to its return.                               *)
(***************************************************************************)
EXTENDS Storage, FiniteSets

CONSTANTS
    Publishers,     \* threads that publish
    Flusher,        \* pub_stored_thread
    Main,           \* the thread that runs initialize()
    Nobody,         \* sem_storage is free
    Destination,    \* [Records -> Remotes]: where a message goes
    Priority,       \* [Records -> priorities]: sub_prios
    Remotes,        \* remote addresses
    McuRemote,      \* CONFIG_CAN_ADDRESS_MCU_TO_MCU_TX
    RemoteSlots,    \* entries of active_remotes
    FrameMax,       \* CAN_FRAME_MAX_SIZE, in bytes
    EntrySize       \* sizeof(struct pub_entry_s)

Priorities == {"STORE", "TRY_SENDING", "DISCARD"}

ASSUME PubSubConstants ==
    /\ {Flusher, Main, Nobody} \cap Publishers = {}
    /\ Flusher # Main /\ Flusher # Nobody /\ Main # Nobody
    /\ Destination \in [Records -> Remotes]
    /\ Priority \in [Records -> Priorities]
    /\ McuRemote \in Remotes
    /\ RemoteSlots \in Nat /\ FrameMax \in Nat
    /\ EntrySize \in BufferSizes
    /\ \A m \in Records : RecordSize[m] <= EntrySize

VARIABLES
    main,       \* has initialize() called pubsub_storage_init?
    caller,     \* who holds sem_storage
    active,     \* active_remotes
    pub,        \* where each publisher is in publish(), and with which message
    flush,      \* where pub_stored_thread is, and with which message
    offered,    \* bound: the messages published so far, each of them once
    flushed,    \* history: how often the flusher handed a message to CAN
    dropped     \* history: the records it freed

pubRam == <<main, caller, active, pub, flush>>
pubHistory == <<offered, flushed, dropped>>
pubVars == <<vars, pubRam, pubHistory>>

At(point, m) == [at |-> point, msg |-> m]
Idle == At("idle", NoRecord)

PubSubInit == /\ Init
              /\ main = "boot"
              /\ caller = Nobody
              /\ active = {}
              /\ pub = [t \in Publishers |-> Idle]
              /\ flush = Idle
              /\ offered = {}
              /\ flushed = [m \in Records |-> 0]
              /\ dropped = {}

-----------------------------------------------------------------------------
(* Calls of Storage *)

\* What pub_stored_thread does with the answer to its call
AfterCall(answer) ==
    CASE flush.at = "peek" /\ answer.code = "SUCCESS" -> At("send", answer.rec)
      [] flush.at = "peek" /\ answer.code = "NO_MEM"  -> At("discard", NoRecord)
      [] flush.at = "peek" /\ answer.code \notin {"SUCCESS", "NO_MEM"} -> Idle
      [] OTHER                                        -> At("peek", NoRecord)

\* Mutant: an operation that fails returns without k_sem_give
CallsNoGive(t) ==
    IF pc' # "ready"
    THEN caller' = t /\ UNCHANGED <<main, pub, flush>>
    ELSE /\ caller' = IF ret'.code = "SUCCESS" THEN Nobody ELSE t
         /\ main' = IF t = Main THEN "up" ELSE main
         /\ pub' = IF t \in Publishers THEN [pub EXCEPT ![t] = Idle] ELSE pub
         /\ flush' = IF t = Flusher THEN AfterCall(ret') ELSE flush

\* A call of thread t goes on, or returns and lets the next caller in
Calls(t) ==
    IF pc' # "ready"
    THEN caller' = t /\ UNCHANGED <<main, pub, flush>>
    ELSE /\ caller' = Nobody
         /\ main' = IF t = Main THEN "up" ELSE main
         /\ pub' = IF t \in Publishers THEN [pub EXCEPT ![t] = Idle] ELSE pub
         /\ flush' = IF t = Flusher THEN AfterCall(ret') ELSE flush

\* The call in progress takes its next step
StorageStep == /\ caller # Nobody
               /\ \/ CheckFirstBlock \/ CheckFirstBlockFails
                  \/ Walk \/ WalkRecordFault \/ WalkHeaderFault \/ Settle
                  \/ Erase
                  \/ Push
               /\ Calls(caller)
               /\ UNCHANGED <<active, pubHistory>>

\* initialize() sets the storage up before any other thread publishes
PubsubStorageInit == /\ main = "boot"
                     /\ caller = Nobody
                     /\ StorageInit \/ StorageInitCannotOpen
                     /\ Calls(Main)
                     /\ UNCHANGED <<active, pubHistory>>

Ready == main = "up" /\ caller = Nobody

\* A call of an area that could not be opened
AnswersNotInitialized(op) == /\ ~fa
                             /\ Refuse(op, "NOT_INITIALIZED")
                             /\ UNCHANGED faults

-----------------------------------------------------------------------------
(* publish *)

IsStarted(r) == r \in active

\* A message that may be discarded is, while its remote is not active
Discards(m, force) == /\ ~force
                      /\ ~IsStarted(Destination[m])
                      /\ Destination[m] # McuRemote
                      /\ Priority[m] = "DISCARD"

\* publish_new or publish_store, up to k_sem_take
Publish(t, m, force) ==
    /\ main = "up"
    /\ pub[t] = Idle
    /\ m \notin offered
    /\ offered' = offered \cup {m}
    /\ pub' = IF Discards(m, force) THEN pub
              ELSE [pub EXCEPT ![t] = At(IF force THEN "wait_store" ELSE "wait", m)]
    /\ UNCHANGED <<vars, main, caller, active, flush, flushed, dropped>>

BuffersTaken == \E t \in Publishers : pub[t].at \in {"push", "send"}

\* Stored, if asked for, or if its remote is still not active
Stores(t) == LET m == pub[t].msg IN
             /\ Destination[m] # McuRemote
             /\ \/ pub[t].at = "wait_store"
                \/ ~IsStarted(Destination[m]) /\ Priority[m] = "STORE"

TakeBuffers(t) == /\ pub[t].at \in {"wait", "wait_store"}
                  /\ ~BuffersTaken
                  /\ pub' = [pub EXCEPT ![t].at = IF Stores(t) THEN "push" ELSE "send"]
                  /\ UNCHANGED <<vars, main, caller, active, flush, pubHistory>>

\* The buffers are not given back within 5 ms: RET_ERROR_BUSY
BuffersBusy(t) == /\ pub[t].at \in {"wait", "wait_store"}
                  /\ BuffersTaken
                  /\ pub' = [pub EXCEPT ![t] = Idle]
                  /\ UNCHANGED <<vars, main, caller, active, flush, pubHistory>>

PublishPush(t) == /\ Ready
                  /\ pub[t].at = "push"
                  /\ \/ StoragePush(pub[t].msg)
                     \/ AnswersNotInitialized("push")
                  /\ Calls(t)
                  /\ UNCHANGED <<active, pubHistory>>

\* can_messaging_async_tx takes the message or not: nothing is kept of it
PublishSend(t) == /\ pub[t].at = "send"
                  /\ pub' = [pub EXCEPT ![t] = Idle]
                  /\ UNCHANGED <<vars, main, caller, active, flush, pubHistory>>

-----------------------------------------------------------------------------
(* pub_stored_thread *)

\* Mutant: a running thread is not waited for, but started again
PublishFlushNoJoin == /\ main = "up"
                      /\ caller # Flusher
                      /\ flush' = At("peek", NoRecord)
                      /\ UNCHANGED <<vars, main, caller, active, pub, pubHistory>>

\* publish_flush starts the thread unless it runs
PublishFlush == /\ main = "up"
                /\ flush = Idle
                /\ flush' = At("peek", NoRecord)
                /\ UNCHANGED <<vars, main, caller, active, pub, pubHistory>>

FlushPeek == /\ Ready
             /\ flush.at = "peek"
             /\ StoragePeek(EntrySize) \/ AnswersNotInitialized("peek")
             /\ Calls(Flusher)
             /\ UNCHANGED <<active, pubHistory>>

\* can_messaging_async_tx takes the bytes of the record, its destination counted
Sendable(m) == RecordSize[m] <= FrameMax

\* The remote of the record is not active, or CAN cannot take it for now: the
\* thread ends, to be started again by the next publish_flush
FlushComesBackLater == /\ flush.at = "send"
                       /\ flush' = Idle
                       /\ UNCHANGED <<vars, main, caller, active, pub, pubHistory>>

\* Mutant: the record is freed before it is handed to CAN
FlushSendUnsent == /\ flush.at = "send"
                   /\ flush' = [flush EXCEPT !.at = "free"]
                   /\ UNCHANGED <<vars, main, caller, active, pub, pubHistory>>

FlushSend == /\ flush.at = "send"
             /\ IsStarted(Destination[flush.msg])
             /\ flush' = [flush EXCEPT !.at = "free"]
             /\ flushed' = IF Sendable(flush.msg)
                           THEN [flushed EXCEPT ![flush.msg] = @ + 1]
                           ELSE flushed
             /\ UNCHANGED <<vars, main, caller, active, pub, offered, dropped>>

\* The record is sent, or will never be: free it and throttle; a record that
\* does not fit into the buffer is freed unread
FlushFree == /\ Ready
             /\ flush.at \in {"free", "discard"}
             /\ StorageFree \/ AnswersNotInitialized("free")
             /\ Calls(Flusher)
             /\ dropped' = IF flash' # flash THEN dropped \cup {flash[rd_idx].owner}
                           ELSE dropped
             /\ UNCHANGED <<active, offered, flushed>>

-----------------------------------------------------------------------------
(* The runner, and resets *)

\* Mutant: the last entry of active_remotes is never used
SubscribeAddOneLess(r) == /\ main = "up"
                          /\ r \notin active
                          /\ Cardinality(active) < RemoteSlots - 1
                          /\ active' = active \cup {r}
                          /\ UNCHANGED <<vars, main, caller, pub, flush, pubHistory>>

\* subscribe_add, on every message the runner gets from the Jetson
SubscribeAdd(r) == /\ main = "up"
                   /\ r \notin active
                   /\ Cardinality(active) < RemoteSlots
                   /\ active' = active \cup {r}
                   /\ UNCHANGED <<vars, main, caller, pub, flush, pubHistory>>

Reset == /\ PowerCut
         /\ main' = "boot"
         /\ caller' = Nobody
         /\ active' = {}
         /\ pub' = [t \in Publishers |-> Idle]
         /\ flush' = Idle
         /\ UNCHANGED pubHistory

Publishing == \E t \in Publishers :
                 \/ \E m \in Records, force \in BOOLEAN : Publish(t, m, force)
                 \/ TakeBuffers(t)
                 \/ BuffersBusy(t)
                 \/ PublishPush(t)
                 \/ PublishSend(t)

Flushing == FlushPeek \/ FlushComesBackLater \/ FlushSend \/ FlushFree

PubSubNext == \/ PubsubStorageInit
              \/ StorageStep
              \/ Publishing
              \/ PublishFlush
              \/ Flushing
              \/ \E r \in Remotes \ {McuRemote} : SubscribeAdd(r)
              \/ Reset

PubSubSpec == PubSubInit /\ [][PubSubNext]_pubVars

-----------------------------------------------------------------------------
(* Safety *)

\* The flusher hands a stored message to CAN once, and once more only after a
\* reset of the MCU or a failed access to the flash kept it from freeing the
\* record.
SentOncePerReset == \A m \in Records : flushed[m] <= 1 + cuts + (MaxFaults - faults)

\* As long as no access to the flash fails, a stored message is freed only after
\* it was handed to CAN, or because it is too large for a frame (pubsub.h of
\* publish_store: "message stored and will be sent later"). A failed write makes
\* a push reset the area behind the flusher, which then frees a newer record.
FreedWereSent == faults = MaxFaults =>
                    \A m \in dropped : flushed[m] > 0 \/ ~Sendable(m)

-----------------------------------------------------------------------------
(* Liveness: every thread that can run does (the flusher yields by k_msleep   *)
(* and at its end), the Jetson keeps sending messages and asks for a flush    *)
(* again and again, and CAN takes a message that is offered again and again.  *)

Threads == /\ WF_pubVars(PubsubStorageInit)
           /\ WF_pubVars(StorageStep)
           /\ \A t \in Publishers :
                /\ WF_pubVars(TakeBuffers(t) \/ BuffersBusy(t))
                /\ SF_pubVars(PublishPush(t))
                /\ WF_pubVars(PublishSend(t))
           /\ SF_pubVars(FlushPeek)
           /\ SF_pubVars(FlushFree)
           /\ WF_pubVars(FlushComesBackLater \/ FlushSend)

Jetson == /\ \A r \in Remotes \ {McuRemote} : WF_pubVars(SubscribeAdd(r))
          /\ WF_pubVars(PublishFlush)
          /\ SF_pubVars(FlushSend)

PubSubFairSpec == PubSubSpec /\ Threads /\ Jetson

\* A message that is in flash is eventually handed to CAN, unless an access to
\* the flash fails before.
StoredAreSent == \A m \in Records :
                    (\E i \in 1..Len(live) : live[i].rec = m)
                        ~> (flushed[m] > 0 \/ ~Sendable(m) \/ faults < MaxFaults)

\* A publisher returns from publish().
PublishReturns == \A t \in Publishers : (pub[t] # Idle) ~> (pub[t] = Idle)
=============================================================================
