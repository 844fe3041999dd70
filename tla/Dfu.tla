-------------------------------- MODULE Dfu --------------------------------
(***************************************************************************)
(* Firmware update: lib/dfu/dfu.c with the handlers of the runner that     *)
(* drive it (main_board/src/runner/runner.c).  The Jetson sends an image   *)
(* block by block, asks for a check of its CRC and for its activation; the *)
(* runner queues the blocks in dfu_state and the DFU thread writes them to *)
(* the secondary slot.                                                     *)
(*                                                                         *)
(* The runner has a higher priority than the DFU thread: a handler runs to *)
(* its end, or to the wait of dfu_secondary_check_async, while the thread  *)
(* may be anywhere.  The Jetson is modelled as far as it numbers requests, *)
(* goes on to the next block, repeats the last one or starts again.        *)
(*                                                                         *)
(* A byte of image g at position p is <<g, p>>, g >= 1.                    *)
(***************************************************************************)
EXTENDS Integers, Sequences, FiniteSets

CONSTANTS
    BlockMax,       \* DFU_BLOCK_SIZE_MAX
    WriteSize,      \* DFU_BLOCKS_WRITE_SIZE
    DWord,          \* what a write to the flash is a multiple of
    Sector,         \* DFU_FLASH_SECTOR_SIZE
    SlotSize,       \* size of the secondary slot
    ImageBlocks,    \* [images -> number of blocks]
    LastSize,       \* [images -> size of the last block]
    Windows,        \* how many requests the Jetson may have unanswered
    MaxRequests,    \* bound on the requests
    MaxFaults       \* bound on failed flash accesses

Images == DOMAIN ImageBlocks

\* DFU_BLOCKS_BUFFER_SIZE
BufferMin == WriteSize - 1 + BlockMax
BufferSize == (BufferMin + DWord) - (BufferMin % DWord)

\* The sizes are 64 (at most, a block fits into a CAN frame), 64, 8 and a page
\* of the flash
ASSUME DfuConstants ==
    /\ BlockMax \in Nat \ {0}
    /\ WriteSize \in Nat \ {0}
    /\ DWord \in Nat \ {0}
    /\ Sector \in Nat \ {0}
    /\ SlotSize \in Nat \ {0} /\ SlotSize % Sector = 0
    /\ BlockMax <= WriteSize /\ WriteSize % DWord = 0
    /\ Sector % WriteSize = 0 /\ BufferSize <= Sector
    /\ Windows \subseteq Nat /\ MaxRequests \in Nat /\ MaxFaults \in Nat
    /\ Images \subseteq Nat \ {0}
    /\ \A g \in Images : ImageBlocks[g] \in Nat \ {0} /\ LastSize[g] \in 1..BlockMax

OldByte == <<0, 0>>         \* the image that was in the slot before
ErasedByte == <<0, 1>>      \* erased flash, 0xff
ZeroByte == <<0, 2>>        \* a buffer that memset cleared

ImageSize(g) == (ImageBlocks[g] - 1) * BlockMax + LastSize[g]
BlockSizeOf(g, k) == IF k + 1 = ImageBlocks[g] THEN LastSize[g] ELSE BlockMax
Block(g, k) == [i \in 1..BlockSizeOf(g, k) |-> <<g, k * BlockMax + i - 1>>]

VARIABLES
    slot,       \* the secondary slot
    buf,        \* dfu_state.bytes up to dfu_state.wr_idx
    number,     \* dfu_state.block_number
    count,      \* dfu_state.block_count
    offset,     \* dfu_state.flash_offset
    phase,      \* dfu_state.state
    crc,        \* dfu_state.expected_crc32: the image it is of
    cb,         \* dfu_state.dfu_cb and ctx: whose context, "none" for NULL
    free,       \* sem_dfu_free_space
    full,       \* sem_dfu_full
    thread,     \* where the DFU thread is, with its locals
    context,    \* the static contexts of the two handlers: ack numbers
    runner,     \* the request a handler waits with, 0 if none
    faults,     \* flash accesses that may still fail
    requests,   \* history: what the Jetson has sent
    acks,       \* history: what was acknowledged
    loaded,     \* history: the requests dfu_load accepted
    image,      \* history: the image whose block 0 was accepted last, 0 if none
    clean,      \* history: since then no access failed, nothing was activated
                \* and no block of another image was accepted
    window      \* how many requests the Jetson has unanswered at most

state == <<buf, number, count, offset, phase, crc, cb>>
history == <<requests, acks, loaded, image, clean>>
vars == <<slot, state, free, full, thread, context, runner, faults, history, window>>

Waiting == [at |-> "wait", err |-> "SUCCESS", len |-> 0, pos |-> 0]

Init == /\ slot = [p \in 0..(SlotSize - 1) |-> OldByte]
        /\ buf = <<>>
        /\ number = 0
        /\ count = 0
        /\ offset = 0
        /\ phase = "IN_PROGRESS"
        /\ crc = 0
        /\ cb = "none"
        /\ free = 1
        /\ full = 0
        /\ thread = Waiting
        /\ context = [block |-> 0, check |-> 0]
        /\ runner = 0
        /\ faults = MaxFaults
        /\ requests = <<>>
        /\ acks = {}
        /\ loaded = {}
        /\ image = 0
        /\ clean = TRUE
        /\ window \in Windows

-----------------------------------------------------------------------------
(* The Jetson *)

Acked(n) == \E a \in acks : a.num = n
Succeeded(n) == [num |-> n, code |-> "SUCCESS"] \in acks

MaySend == /\ runner = 0
           /\ Len(requests) < MaxRequests
           /\ Cardinality({n \in 1..Len(requests) : ~Acked(n)}) < window

\* The number of the request that is being handled
Num == Len(requests) + 1

\* The first block of an image at any time; then the block that was sent last
\* again or the next one, even if the last one was refused
MaySendBlock(g, k) ==
    /\ MaySend
    /\ \/ k = 0
       \/ /\ requests # <<>>
          /\ LET last == requests[Len(requests)] IN
             /\ last.kind = "block" /\ last.g = g
             /\ k \in {last.k, last.k + 1}

Sends(kind, g, k) == requests' = Append(requests, [kind |-> kind, g |-> g, k |-> k])
Ack(n, code) == acks' = acks \cup {[num |-> n, code |-> code]}

\* A flash access fails; the upload is then no longer clean
FlashFault == /\ faults > 0
              /\ faults' = faults - 1
              /\ clean' = FALSE

-----------------------------------------------------------------------------
(* handle_dfu_block_message and dfu_load *)

\* Mutant: the order of the blocks is not checked
ParamsValidAnyOrder(g, k) == /\ k <= ImageBlocks[g]
                             /\ count # 0 \/ k = 0

ParamsValid(g, k) == /\ k = 0 \/ k = number + 1
                     /\ k <= ImageBlocks[g]
                     /\ count # 0 \/ k = 0

\* The handler notes the ack number before it calls dfu_load
HandleBlock(g, k) == /\ MaySendBlock(g, k)
                     /\ Sends("block", g, k)
                     /\ context' = [context EXCEPT !.block = Num]
                     /\ UNCHANGED <<slot, thread, runner, faults>>

\* Mutant: a block that is refused is acknowledged as if it were loaded
DfuLoadRefusedQuietly(g, k) == /\ HandleBlock(g, k)
                               /\ ~ParamsValid(g, k)
                               /\ Ack(Num, "SUCCESS")
                               /\ UNCHANGED <<state, free, full, loaded, image, clean>>

DfuLoadRefused(g, k) == /\ HandleBlock(g, k)
                        /\ ~ParamsValid(g, k)
                        /\ Ack(Num, "RANGE")
                        /\ UNCHANGED <<state, free, full, loaded, image, clean>>

DfuLoadBusy(g, k) == /\ HandleBlock(g, k)
                     /\ ParamsValid(g, k)
                     /\ free = 0
                     /\ Ack(Num, "IN_PROGRESS")
                     /\ UNCHANGED <<state, free, full, loaded, image, clean>>

Buffered(k) == IF k = 0 THEN <<>> ELSE buf

\* dfu_state for block k, a new image if k is 0
LoadBlock(g, k) == /\ HandleBlock(g, k)
                   /\ ParamsValid(g, k)
                   /\ free = 1
                   /\ number' = k
                   /\ IF k = 0
                      THEN /\ count' = ImageBlocks[g]
                           /\ offset' = 0
                           /\ phase' = "IN_PROGRESS"
                           /\ crc' = 0
                           /\ image' = g
                           /\ clean' = TRUE
                      ELSE /\ clean' = (clean /\ g = image)
                           /\ UNCHANGED <<count, offset, phase, crc, image>>

HasRoom(g, k) == Len(Buffered(k)) + BlockSizeOf(g, k) <= BufferSize

DfuLoadNoMem(g, k) == /\ LoadBlock(g, k)
                      /\ ~HasRoom(g, k)
                      /\ buf' = Buffered(k)
                      /\ Ack(Num, "INVALID_STATE")
                      /\ UNCHANGED <<cb, free, full, loaded>>

\* Enough bytes for a write, or the last block
Ready(g, k) == \/ Len(Buffered(k)) + BlockSizeOf(g, k) >= WriteSize
               \/ k = count' - 1

FillBuffer(g, k) == /\ LoadBlock(g, k)
                    /\ HasRoom(g, k)
                    /\ buf' = Buffered(k) \o Block(g, k)
                    /\ cb' = "block"
                    /\ loaded' = loaded \cup {Num}

DfuLoadBuffered(g, k) == /\ FillBuffer(g, k)
                         /\ ~Ready(g, k)
                         /\ Ack(Num, "SUCCESS")
                         /\ UNCHANGED <<free, full>>

\* Mutant: the DFU thread is not woken up
DfuLoadQueuedNoWake(g, k) == /\ FillBuffer(g, k)
                             /\ Ready(g, k)
                             /\ free' = 0
                             /\ UNCHANGED <<full, acks>>

\* The DFU thread will acknowledge the request
DfuLoadQueued(g, k) == /\ FillBuffer(g, k)
                       /\ Ready(g, k)
                       /\ free' = 0
                       /\ full' = 1
                       /\ UNCHANGED acks

DfuLoad(g, k) == \/ DfuLoadRefused(g, k)
                 \/ DfuLoadBusy(g, k)
                 \/ DfuLoadNoMem(g, k)
                 \/ DfuLoadBuffered(g, k)
                 \/ DfuLoadQueued(g, k)

-----------------------------------------------------------------------------
(* handle_fw_img_crc and dfu_secondary_check_async *)

\* The Jetson asks about the image it sent last; the handler waits up to 10 ms
\* for sem_dfu_free_space
HandleCheck(g) == /\ MaySend
                  /\ requests # <<>>
                  /\ requests[Len(requests)].kind = "block"
                  /\ requests[Len(requests)].g = g
                  /\ Sends("check", g, 0)
                  /\ context' = [context EXCEPT !.check = Num]
                  /\ runner' = Num
                  /\ UNCHANGED <<slot, state, free, full, thread, faults,
                                 acks, loaded, image, clean>>

CheckQueued == /\ runner # 0
               /\ free = 1
               /\ phase = "FINISHED_VERIFY"
               /\ free' = 0
               /\ full' = 1
               /\ cb' = "check"
               /\ crc' = requests[runner].g
               /\ runner' = 0
               /\ UNCHANGED <<slot, buf, number, count, offset, phase, thread,
                              context, faults, history>>

\* The image is not complete: dfu_secondary_check_async returns 0
CheckTooEarly == /\ runner # 0
                 /\ free = 1
                 /\ phase # "FINISHED_VERIFY"
                 /\ Ack(runner, "FAIL")
                 /\ runner' = 0
                 /\ UNCHANGED <<slot, state, free, full, thread, context, faults,
                                requests, loaded, image, clean>>

CheckTimesOut == /\ runner # 0
                 /\ free = 0
                 /\ Ack(runner, "INVALID_STATE")
                 /\ runner' = 0
                 /\ UNCHANGED <<slot, state, free, full, thread, context, faults,
                                requests, loaded, image, clean>>

DfuSecondaryCheckAsync == CheckQueued \/ CheckTooEarly \/ CheckTimesOut

-----------------------------------------------------------------------------
(* handle_fw_img_sec_activate and dfu_secondary_activate *)

\* memset(&dfu_state, 0, sizeof(dfu_state))
ClearState == /\ buf' = <<>>
              /\ number' = 0
              /\ count' = 0
              /\ offset' = 0
              /\ phase' = "IN_PROGRESS"
              /\ crc' = 0
              /\ cb' = "none"

\* The header in the slot has the magic of an image, or a size of zero
HeaderAccepted == slot[0] # ErasedByte

\* boot_set_pending and boot_swap_type_multi write and read the trailer of the
\* slot, behind every image
HandleActivate == /\ MaySend
                  /\ Sends("activate", 0, 0)
                  /\ \/ /\ HeaderAccepted
                        /\ ClearState
                        /\ clean' = FALSE
                        /\ Ack(Num, "SUCCESS")
                        /\ UNCHANGED faults
                     \/ /\ ~HeaderAccepted
                        /\ Ack(Num, "FAIL")
                        /\ UNCHANGED <<state, clean, faults>>
                     \/ /\ HeaderAccepted
                        /\ FlashFault
                        /\ Ack(Num, "FAIL")
                        /\ UNCHANGED state
                  /\ UNCHANGED <<slot, free, full, thread, context, runner, loaded, image>>

-----------------------------------------------------------------------------
(* process_dfu_blocks_thread *)

ThreadGoesTo(point, err) == thread' = [thread EXCEPT !.at = point, !.err = err]

ThreadWakes == /\ thread.at = "wait"
               /\ full = 1
               /\ full' = 0
               /\ thread' = [Waiting EXCEPT
                    !.at = IF phase = "IN_PROGRESS" THEN "begin" ELSE "check"]
               /\ UNCHANGED <<slot, state, free, context, runner, faults, history>>

\* flash_area_open
OpenFails == /\ thread.at = "begin"
             /\ FlashFault
             /\ ThreadGoesTo("give", "INVALID_STATE")
             /\ UNCHANGED <<slot, state, free, full, context, runner,
                            requests, acks, loaded, image>>

TooLarge == offset = 0 /\ count * BlockMax > SlotSize

ImageTooLarge == /\ thread.at = "begin"
                 /\ TooLarge
                 /\ ClearState
                 /\ ThreadGoesTo("give", "INVALID_PARAM")
                 /\ UNCHANGED <<slot, free, full, context, runner, faults, history>>

\* The last block, padded to a double word; else DFU_BLOCKS_WRITE_SIZE bytes
IsLast == number = count - 1
Padded(len) == IF len % DWord = 0 THEN len ELSE (len + DWord) - (len % DWord)
BytesToWrite == IF IsLast THEN Padded(Len(buf)) ELSE WriteSize

ThreadBegins == /\ thread.at = "begin"
                /\ ~TooLarge
                /\ thread' = [thread EXCEPT !.at = "erase", !.len = BytesToWrite]
                /\ phase' = IF IsLast THEN "FINISHED_VERIFY" ELSE phase
                /\ UNCHANGED <<slot, buf, number, count, offset, crc, cb, free, full,
                               context, runner, faults, history>>

\* Mutant: a write that runs into the next sector does not erase it
NeedsEraseAtBoundary(len) == offset % Sector = 0

\* On a sector boundary, or the write runs into the next sector
NeedsErase(len) == \/ offset % Sector = 0
                   \/ len > WriteSize /\ (offset % Sector) + len > Sector

\* The sector to erase: the next one unless on a boundary
EraseFrom == IF offset % Sector = 0 THEN offset ELSE (offset - (offset % Sector)) + Sector

EraseSector == /\ thread.at = "erase"
               /\ slot' = IF NeedsErase(thread.len)
                          THEN [p \in 0..(SlotSize - 1) |->
                                  IF p \in EraseFrom..(EraseFrom + Sector - 1)
                                  THEN ErasedByte ELSE slot[p]]
                          ELSE slot
               /\ ThreadGoesTo("write", "SUCCESS")
               /\ UNCHANGED <<state, free, full, context, runner, faults, history>>

EraseSectorFails == /\ thread.at = "erase"
                    /\ NeedsErase(thread.len)
                    /\ FlashFault
                    /\ ThreadGoesTo("give", "INTERNAL")
                    /\ UNCHANGED <<slot, state, free, full, context, runner,
                                   requests, acks, loaded, image>>

\* What is in the buffer at i: behind the bytes loaded, padding, or zeros once
\* dfu_state was cleared
BufferByte(i) == IF i <= Len(buf) THEN buf[i]
                 ELSE IF count = 0 THEN ZeroByte ELSE ErasedByte

\* The flash programs erased bytes only
CanWrite(len) == /\ offset + len <= SlotSize
                 /\ \A p \in offset..(offset + len - 1) : slot[p] = ErasedByte

WriteBlock == /\ thread.at = "write"
              /\ CanWrite(thread.len)
              /\ slot' = [p \in 0..(SlotSize - 1) |->
                            IF p \in offset..(offset + thread.len - 1)
                            THEN BufferByte(p - offset + 1) ELSE slot[p]]
              /\ buf' = IF Len(buf) >= thread.len
                        THEN SubSeq(buf, thread.len + 1, Len(buf)) ELSE <<>>
              /\ offset' = offset + thread.len
              /\ ThreadGoesTo("give", "SUCCESS")
              /\ UNCHANGED <<number, count, phase, crc, cb, free, full, context,
                             runner, faults, history>>

WriteBlockFails == /\ thread.at = "write"
                   /\ \/ /\ ~CanWrite(thread.len)
                         /\ UNCHANGED <<faults, clean>>
                      \/ FlashFault
                   /\ ThreadGoesTo("give", "INTERNAL")
                   /\ UNCHANGED <<slot, state, free, full, context, runner,
                                  requests, acks, loaded, image>>

\* dfu_secondary_check: the size is the one in the header of the slot
HeaderImage == IF slot[0][1] \in Images /\ slot[0][2] = 0 THEN slot[0][1] ELSE 0

\* CRC and image differ as soon as one byte does
PageMatches(from, upTo) ==
    \A p \in from..(upTo - 1) : p < ImageSize(HeaderImage) => slot[p] = <<crc, p>>

\* One page is read
CheckPage == /\ thread.at = "check"
             /\ HeaderImage # 0
             /\ thread.pos < ImageSize(HeaderImage)
             /\ LET upTo == thread.pos + Sector IN
                /\ upTo <= SlotSize
                /\ thread' = [thread EXCEPT
                     !.pos = upTo,
                     !.err = IF PageMatches(thread.pos, upTo) THEN @ ELSE "INVALID_STATE"]
             /\ UNCHANGED <<slot, state, free, full, context, runner, faults, history>>

\* Mutant: the last page is read only if it is full
CheckEndsEarly == /\ thread.at = "check"
                  /\ HeaderImage # 0 => thread.pos + Sector > ImageSize(HeaderImage)
                  /\ ThreadGoesTo("give", IF HeaderImage = 0 THEN "INVALID_STATE" ELSE thread.err)
                  /\ UNCHANGED <<slot, state, free, full, context, runner, faults, history>>

CheckEnds == /\ thread.at = "check"
             /\ HeaderImage # 0 => thread.pos >= ImageSize(HeaderImage)
             /\ ThreadGoesTo("give", IF HeaderImage = 0 THEN "INVALID_STATE" ELSE thread.err)
             /\ UNCHANGED <<slot, state, free, full, context, runner, faults, history>>

CheckReadFails == /\ thread.at = "check"
                  /\ FlashFault
                  /\ ThreadGoesTo("give", "INTERNAL")
                  /\ UNCHANGED <<slot, state, free, full, context, runner,
                                 requests, acks, loaded, image>>

\* dfu_state can be filled again
ThreadGives == /\ thread.at = "give"
               /\ free' = 1
               /\ ThreadGoesTo("call", thread.err)
               /\ UNCHANGED <<slot, state, full, context, runner, faults, history>>

\* handle_err_code
AckCode(err) == CASE err = "SUCCESS"       -> "SUCCESS"
                  [] err = "INVALID_PARAM" -> "RANGE"
                  [] err = "INVALID_STATE" -> "IN_PROGRESS"
                  [] OTHER                 -> "FAIL"

\* dfu_cb(ctx, err_code), unless it is NULL
ThreadCalls == /\ thread.at = "call"
               /\ IF cb = "none" THEN UNCHANGED acks ELSE Ack(context[cb], AckCode(thread.err))
               /\ thread' = Waiting
               /\ UNCHANGED <<slot, state, free, full, context, runner, faults,
                              requests, loaded, image, clean>>

ProcessDfuBlocks == \/ ThreadWakes
                    \/ OpenFails \/ ImageTooLarge \/ ThreadBegins
                    \/ EraseSector \/ EraseSectorFails
                    \/ WriteBlock \/ WriteBlockFails
                    \/ CheckPage \/ CheckEnds \/ CheckReadFails
                    \/ ThreadGives \/ ThreadCalls

Handlers == \/ \E g \in Images : \E k \in 0..(ImageBlocks[g] - 1) : DfuLoad(g, k)
            \/ \E g \in Images : HandleCheck(g)
            \/ DfuSecondaryCheckAsync
            \/ HandleActivate

Next == (Handlers \/ ProcessDfuBlocks) /\ UNCHANGED window

Spec == Init /\ [][Next]_vars

-----------------------------------------------------------------------------
(* Properties *)

\* The bytes of blocks 0..number of the image
BytesLoaded == IF number + 1 >= ImageBlocks[image] THEN ImageSize(image)
               ELSE (number + 1) * BlockMax

\* Between two writes, what is in the slot and behind it in the buffer is the
\* image from its first byte to the end of the last block accepted: no block is
\* lost, repeated or out of place, and the padding comes last.
SlotFollowsImage ==
    (clean /\ count # 0 /\ thread.at \in {"wait", "call"}) =>
        /\ \A p \in 0..(offset - 1) :
              slot[p] = IF p < ImageSize(image) THEN <<image, p>> ELSE ErasedByte
        /\ \A i \in 1..Len(buf) : buf[i] = <<image, offset + i - 1>>
        /\ IF offset + Len(buf) > ImageSize(image)
           THEN buf = <<>> /\ phase = "FINISHED_VERIFY"
           ELSE offset + Len(buf) = BytesLoaded

\* The sectors are erased before they are written: unless a flash access failed
\* or the image was given up, the slot takes every write.
WritesFindErasedFlash == clean /\ thread.at = "give" => thread.err # "INTERNAL"

\* A check that is acknowledged with success has read a complete image: the slot
\* holds every byte of the image the Jetson asked about. (With a second request
\* under way it may not: between ThreadGives and ThreadCalls the check replaces
\* the callback, and is told the result of the block before it.)
VerifiedIsComplete ==
    window = 1 => \A n \in 1..Len(requests) :
        (requests[n].kind = "check" /\ Succeeded(n) /\ n = Len(requests)) =>
            \A p \in 0..(ImageSize(requests[n].g) - 1) : slot[p] = <<requests[n].g, p>>

\* A Jetson that waits for each answer is told success only for a request that
\* was accepted (runner.c: "if the operation is not over, the DFU module will
\* handle acknowledgement"). With a second request under way, the number of a
\* refused block replaces that of the one the DFU thread works on.
AcksAreOwn == window = 1 =>
                 \A n \in 1..Len(requests) :
                     (requests[n].kind = "block" /\ Succeeded(n)) => n \in loaded

\* The DFU thread runs whenever it can, and the runner's wait ends.
Fairness == /\ WF_vars(ProcessDfuBlocks /\ UNCHANGED window)
            /\ WF_vars(DfuSecondaryCheckAsync /\ UNCHANGED window)
FairSpec == Spec /\ Fairness

\* Every request of a Jetson that waits for each answer is answered (dfu.h:
\* "process_cb will be called to provide the actual status"), unless it is for
\* an image that is too large.
Fits(n) == requests[n].kind # "block" \/ ImageBlocks[requests[n].g] * BlockMax <= SlotSize
EveryRequestAcked ==
    \A n \in 1..MaxRequests : (window = 1 /\ n = Len(requests) /\ Fits(n)) ~> Acked(n)
=============================================================================
