------------------------------ MODULE DfuProofs -----------------------------
(***************************************************************************)
(* The firmware update of Dfu, for every size of blocks, writes, sectors,  *)
(* slot and images, every number of requests and of flash faults.          *)
(*                                                                         *)
(* Three inductive invariants: the handshake of the two semaphores; for a  *)
(* Jetson that waits for each answer, that what the DFU thread works on is *)
(* its last request; and for a clean upload, whatever the Jetson does in   *)
(* the meantime, that slot and buffer together hold the image so far and   *)
(* that the rest of the sector is erased.                                  *)
(***************************************************************************)
EXTENDS Dfu, FiniteSetTheorems, SequenceTheorems, TLAPS

-----------------------------------------------------------------------------
(* The handshake *)

Points == {"wait", "begin", "erase", "write", "check", "give", "call"}
Errors == {"SUCCESS", "INVALID_STATE", "INVALID_PARAM", "INTERNAL"}
Kinds == {"block", "check", "activate"}
Bytes == Nat \X Nat

Request == [kind : Kinds, g : Nat, k : Nat]

\* dfu_state
StateTypes == /\ buf \in Seq(Bytes)
              /\ number \in Nat /\ count \in Nat /\ offset \in Nat
              /\ phase \in {"IN_PROGRESS", "FINISHED_VERIFY"}
              /\ crc \in Nat
              /\ cb \in {"none", "block", "check"}
              /\ image \in Images \cup {0}

\* The DFU thread
ThreadTypes == /\ slot \in [0..(SlotSize - 1) -> Bytes]
               /\ free \in {0, 1} /\ full \in {0, 1}
               /\ thread \in [at : Points, err : Errors, len : Nat, pos : Nat]

\* The Jetson and the handlers
RequestTypes == /\ requests \in Seq(Request)
                /\ runner \in 0..Len(requests)
                /\ context \in [{"block", "check"} -> Nat]

\* sem_dfu_free_space is free only while the thread has nothing to write, and
\* sem_dfu_full is taken before it begins
Handshake ==
    /\ free = 1 => full = 0 /\ thread.at \in {"wait", "call"}
    /\ full = 1 => thread.at \in {"wait", "call"}

DfuInductive == StateTypes /\ ThreadTypes /\ RequestTypes /\ Handshake

-----------------------------------------------------------------------------
(* A Jetson that waits for each answer *)

\* The DFU thread has something to do
Pending == full = 1 \/ thread.at # "wait"

Last == Len(requests)

AcksAreOfRequests == \A a \in acks : a.num \in 1..Len(requests)

\* The thread is woken up for one request at a time
OneAtATime == full = 1 => thread.at = "wait"

\* What the DFU thread works on is the last request, and not answered yet
PendingIsLast ==
    Pending => /\ requests # <<>> /\ runner = 0
               /\ ~Acked(Last)
               /\ cb # "none" => context[cb] = Last /\ requests[Last].kind = cb
               /\ cb = "block" => Last \in loaded

\* So is what the runner waits with
RunnerIsLast ==
    runner # 0 => /\ runner = Last /\ ~Acked(Last)
                  /\ requests[Last].kind = "check" /\ requests[Last].g \in Images
                  /\ context["check"] = Last

\* The slot holds image g
Holds(g) == \A p \in 0..(ImageSize(g) - 1) : slot[p] = <<g, p>>

\* A check that is under way is of the image that was asked for, and has found
\* no other byte as long as it is successful
CheckedSoFar ==
    Pending /\ cb = "check" =>
        /\ crc = requests[Last].g /\ crc \in Images
        /\ phase = "FINISHED_VERIFY"
        /\ thread.at \in {"wait", "check", "give", "call"}
        /\ thread.at = "check" /\ thread.err = "SUCCESS" =>
              \A p \in 0..(thread.pos - 1) :
                 HeaderImage # 0 /\ (p < ImageSize(HeaderImage) => slot[p] = <<crc, p>>)
        /\ thread.at \in {"give", "call"} /\ thread.err = "SUCCESS" => Holds(crc)

LoadedAcks == \A n \in 1..Len(requests) :
                 (requests[n].kind = "block" /\ Succeeded(n)) => n \in loaded

VerifiedLast ==
    requests # <<>> /\ requests[Last].kind = "check" /\ Succeeded(Last) => Holds(requests[Last].g)

InTurn == /\ AcksAreOfRequests
          /\ OneAtATime
          /\ PendingIsLast
          /\ RunnerIsLast
          /\ CheckedSoFar
          /\ LoadedAcks
          /\ VerifiedLast

InTurnInductive == DfuInductive /\ (window = 1 => InTurn)

-----------------------------------------------------------------------------
(* A clean upload *)

SectorEnd == (offset - (offset % Sector)) + Sector
Erased(from, end) == \A p \in from..(end - 1) : p \in 0..(SlotSize - 1) => slot[p] = ErasedByte

\* There is something left to write
Open == phase = "IN_PROGRESS" \/ thread.at \in {"erase", "write"}

\* The state is about the image whose block 0 was accepted last
OfImage == /\ image \in Images
           /\ count = ImageBlocks[image]
           /\ number < count
           /\ phase = "FINISHED_VERIFY" => number = count - 1

\* Slot and buffer hold what was accepted
Filled ==
    /\ offset <= SlotSize
    /\ \A p \in 0..(offset - 1) :
          slot[p] = IF p < ImageSize(image) THEN <<image, p>> ELSE ErasedByte
    /\ \A i \in 1..Len(buf) : buf[i] = <<image, offset + i - 1>>
    /\ IF Open THEN offset + Len(buf) = BytesLoaded
               ELSE buf = <<>> /\ offset >= ImageSize(image)

\* The buffer has room for a block, and bytes for a write when there is to be one
Buffer ==
    phase = "IN_PROGRESS" \/ thread.at \in {"erase", "write"} =>
        /\ Len(buf) < WriteSize + BlockMax
        /\ full = 0 /\ thread.at \in {"give", "call", "wait"} => Len(buf) < WriteSize
        /\ full = 1 \/ thread.at \in {"begin", "erase", "write"} =>
              Len(buf) >= WriteSize \/ IsLast
        /\ offset % WriteSize = 0

\* The image fits, once that was checked
Fitting == offset > 0 \/ thread.at \in {"erase", "write"} => count * BlockMax <= SlotSize

\* The rest of a sector that was begun is erased; so is all that is to be written
SectorsErased ==
    /\ Open /\ (offset % Sector # 0 \/ thread.at = "write") => Erased(offset, SectorEnd)
    /\ thread.at = "write" => Erased(offset, offset + thread.len)

\* The thread has what to write, and is in the right part
Writing ==
    /\ thread.at \in {"erase", "write"} => thread.len = BytesToWrite
    /\ thread.at = "begin" => phase = "IN_PROGRESS"
    /\ thread.at \in {"erase", "write"} => (phase = "FINISHED_VERIFY" <=> IsLast)
    /\ thread.at = "check" => phase = "FINISHED_VERIFY"
    /\ thread.at \in {"check", "give"} => thread.err # "INTERNAL"

Upload == /\ OfImage
          /\ Filled
          /\ Buffer
          /\ Fitting
          /\ SectorsErased
          /\ Writing

\* Without an image nothing is written
Nothing == /\ thread.at \in {"wait", "give", "call"}
           /\ full = 0 /\ phase = "IN_PROGRESS"
           /\ thread.at = "give" => thread.err # "INTERNAL"

Clean == /\ clean \in BOOLEAN
         /\ clean = TRUE => IF count # 0 THEN Upload ELSE Nothing

UploadInductive == DfuInductive /\ Clean

-----------------------------------------------------------------------------
(* Proofs: the handshake *)

\* A request is added behind the others
LEMMA Requested ==
    ASSUME RequestTypes, NEW kind \in Kinds, NEW g \in Nat, NEW k \in Nat, Sends(kind, g, k)
    PROVE  /\ requests' \in Seq(Request)
           /\ Len(requests) \in Nat /\ Len(requests') = Len(requests) + 1
           /\ \A n \in 1..Len(requests) : requests'[n] = requests[n]
           /\ requests'[Len(requests) + 1] = [kind |-> kind, g |-> g, k |-> k]
           /\ Num = Len(requests) + 1 /\ requests' # <<>>
PROOF
  <1> DEFINE e == [kind |-> kind, g |-> g, k |-> k]
  <1>1. e \in Request /\ requests' = Append(requests, e) /\ requests \in Seq(Request)
    BY DEF RequestTypes, Sends, Request
  <1> HIDE DEF e
  <1>2. /\ requests' \in Seq(Request)
        /\ Len(requests) \in Nat /\ Len(requests') = Len(requests) + 1
        /\ \A n \in 1..Len(requests) : requests'[n] = requests[n]
        /\ requests'[Len(requests) + 1] = e
        /\ requests' # <<>>
    BY <1>1
  <1> QED
    BY <1>2 DEF e, Num

\* A block has its bytes
LEMMA BlockBytes ==
    ASSUME NEW g \in Images, NEW k \in 0..(ImageBlocks[g] - 1)
    PROVE  /\ g \in Nat \ {0} /\ k \in Nat /\ ImageBlocks[g] \in Nat \ {0}
           /\ BlockSizeOf(g, k) \in 1..BlockMax
           /\ Block(g, k) \in Seq(Bytes) /\ Len(Block(g, k)) = BlockSizeOf(g, k)
           /\ \A i \in 1..BlockSizeOf(g, k) : Block(g, k)[i] = <<g, k * BlockMax + i - 1>>
PROOF
  <1>1. g \in Nat \ {0} /\ k \in Nat /\ BlockSizeOf(g, k) \in 1..BlockMax /\ BlockMax \in Nat
        /\ ImageBlocks[g] \in Nat \ {0}
    BY DfuConstants DEF BlockSizeOf
  <1>2. k * BlockMax \in Nat
    BY <1>1
  <1> DEFINE start == k * BlockMax
             size == BlockSizeOf(g, k)
  <1>3. Block(g, k) = [i \in 1..size |-> <<g, start + i - 1>>]
    BY DEF Block
  <1> HIDE DEF start, size
  <1>4. size \in Nat /\ start \in Nat
    BY <1>1, <1>2 DEF size, start
  <1>5. \A i \in 1..size : <<g, start + i - 1>> \in Bytes
    BY <1>1, <1>4 DEF Bytes
  <1>6. Block(g, k) \in [1..size -> Bytes]
    BY <1>3, <1>5
  <1>7. Block(g, k) \in Seq(Bytes)
    BY <1>4, <1>6, SeqDef
  <1>8. Len(Block(g, k)) = size
    BY <1>4, <1>6, <1>7, LenProperties
  <1>9. \A i \in 1..size : Block(g, k)[i] = <<g, start + i - 1>>
    BY <1>3
  <1> QED
    BY <1>1, <1>7, <1>8, <1>9 DEF size, start

\* The padding of the last write goes to the next double word
LEMMA PaddedIs ==
    ASSUME NEW len \in Nat
    PROVE  /\ Padded(len) \in Nat /\ len <= Padded(len) /\ Padded(len) < len + DWord
           /\ len % DWord = 0 => Padded(len) = len
PROOF
  <1>1. DWord \in Nat \ {0}
    BY DfuConstants
  <1>2. len % DWord \in 0..(DWord - 1)
    BY <1>1
  <1> QED
    BY <1>1, <1>2 DEF Padded

\* A handler that does not touch dfu_state and the semaphores
LEMMA HandshakeKept ==
    ASSUME DfuInductive, RequestTypes', StateTypes', UNCHANGED <<slot, thread, free, full>>
    PROVE  DfuInductive'
PROOF
  BY DEF DfuInductive, ThreadTypes, Handshake

\* The handler of a block
LEMMA HandshakeLoad ==
    ASSUME DfuInductive, NEW g \in Images, NEW k \in 0..(ImageBlocks[g] - 1), DfuLoad(g, k)
    PROVE  DfuInductive'
PROOF
  <1>1. /\ g \in Nat \ {0} /\ k \in Nat /\ ImageBlocks[g] \in Nat
        /\ Block(g, k) \in Seq(Bytes)
    BY BlockBytes
  <1>2. HandleBlock(g, k)
    BY DEF DfuLoad, DfuLoadRefused, DfuLoadBusy, DfuLoadNoMem, DfuLoadBuffered, DfuLoadQueued,
           LoadBlock, FillBuffer
  <1>3. RequestTypes'
    <2>1. Sends("block", g, k) /\ "block" \in Kinds /\ RequestTypes
      BY <1>2 DEF HandleBlock, Kinds, DfuInductive
    <2>2. /\ requests' \in Seq(Request) /\ Len(requests) \in Nat
          /\ Len(requests') = Len(requests) + 1 /\ Num = Len(requests) + 1
      BY <1>1, <2>1, Requested
    <2>3. runner' = runner /\ context' = [context EXCEPT !["block"] = Num]
      BY <1>2 DEF HandleBlock
    <2> QED
      BY <2>1, <2>2, <2>3 DEF RequestTypes
  <1>4. UNCHANGED <<slot, thread>>
    BY <1>2 DEF HandleBlock
  <1>5. CASE UNCHANGED <<state, free, full, image>>
    <2>1. StateTypes'
      BY <1>5 DEF DfuInductive, StateTypes, state
    <2> QED
      BY <1>3, <1>4, <1>5, <2>1, HandshakeKept
  <1>6. ASSUME LoadBlock(g, k), buf' = Buffered(k) \/ buf' = Buffered(k) \o Block(g, k),
               cb' \in {cb, "block"},
               UNCHANGED <<free, full>> \/ (free' = 0 /\ full' = 1)
        PROVE  DfuInductive'
    <2>1. buf' \in Seq(Bytes)
      <3>1. Buffered(k) \in Seq(Bytes)
        BY DEF Buffered, DfuInductive, StateTypes
      <3> QED
        BY <1>1, <1>6, <3>1, ConcatProperties
    <2>2. StateTypes'
      BY <1>1, <1>6, <2>1 DEF LoadBlock, DfuInductive, StateTypes
    <2>3. free = 1
      BY <1>6 DEF LoadBlock
    <2>4. ThreadTypes' /\ Handshake'
      BY <1>4, <1>6, <2>3 DEF DfuInductive, ThreadTypes, Handshake
    <2> QED
      BY <1>3, <2>2, <2>4 DEF DfuInductive
  <1>7. CASE DfuLoadNoMem(g, k) \/ DfuLoadBuffered(g, k) \/ DfuLoadQueued(g, k)
    BY <1>6, <1>7 DEF DfuLoadNoMem, DfuLoadBuffered, DfuLoadQueued, FillBuffer
  <1>8. CASE DfuLoadRefused(g, k) \/ DfuLoadBusy(g, k)
    BY <1>5, <1>8 DEF DfuLoadRefused, DfuLoadBusy
  <1> QED
    BY <1>7, <1>8 DEF DfuLoad

\* memset of dfu_state
LEMMA ClearedTypes ==
    ASSUME StateTypes, ClearState \/ UNCHANGED state, image' = image
    PROVE  StateTypes'
PROOF
  <1>1. <<>> \in Seq(Bytes)
    OBVIOUS
  <1>2. CASE ClearState
    BY <1>1, <1>2 DEF StateTypes, ClearState
  <1>3. CASE UNCHANGED state
    BY <1>3 DEF StateTypes, state
  <1> QED
    BY <1>2, <1>3

\* The handlers of a check and of an activation
LEMMA HandshakeRequests ==
    ASSUME DfuInductive,
           (\E g \in Images : HandleCheck(g)) \/ DfuSecondaryCheckAsync \/ HandleActivate
    PROVE  DfuInductive'
PROOF
  <1>0. StateTypes /\ RequestTypes
    BY DEF DfuInductive
  <1>1. ASSUME NEW g \in Images, HandleCheck(g)
        PROVE  DfuInductive'
    <2>1. g \in Nat /\ "check" \in Kinds /\ Sends("check", g, 0)
      BY <1>1, DfuConstants DEF HandleCheck, Kinds
    <2>2. /\ requests' \in Seq(Request) /\ Len(requests) \in Nat
          /\ Len(requests') = Len(requests) + 1 /\ Num = Len(requests) + 1
      BY <1>0, <2>1, Requested
    <2>3. runner' = Num /\ context' = [context EXCEPT !["check"] = Num]
      BY <1>1 DEF HandleCheck
    <2>4. RequestTypes'
      BY <1>0, <2>2, <2>3 DEF RequestTypes
    <2>5. UNCHANGED <<slot, thread, free, full>> /\ UNCHANGED state /\ image' = image
      BY <1>1 DEF HandleCheck
    <2> QED
      BY <1>0, <2>4, <2>5, ClearedTypes, HandshakeKept
  <1>2. CASE CheckQueued
    <2>0. requests \in Seq(Request) /\ runner \in 1..Len(requests)
      BY <1>0, <1>2 DEF CheckQueued, RequestTypes
    <2>1. requests[runner].g \in Nat
      <3>1. requests[runner] \in Request
        BY <2>0, ElementOfSeq
      <3> QED
        BY <3>1 DEF Request
    <2>2. StateTypes'
      BY <1>0, <1>2, <2>1 DEF CheckQueued, StateTypes, history
    <2>3. RequestTypes'
      BY <1>0, <1>2 DEF CheckQueued, RequestTypes, history
    <2>4. ThreadTypes' /\ Handshake'
      BY <1>2 DEF CheckQueued, DfuInductive, ThreadTypes, Handshake
    <2> QED
      BY <2>2, <2>3, <2>4 DEF DfuInductive
  <1>3. CASE CheckTooEarly \/ CheckTimesOut
    <2>1. UNCHANGED <<slot, thread, free, full, requests, context, image>> /\ UNCHANGED state
          /\ runner' = 0
      BY <1>3 DEF CheckTooEarly, CheckTimesOut
    <2>2. RequestTypes'
      BY <1>0, <2>1 DEF RequestTypes
    <2> QED
      BY <1>0, <2>1, <2>2, ClearedTypes, HandshakeKept
  <1>4. CASE HandleActivate
    <2>1. Sends("activate", 0, 0) /\ "activate" \in Kinds
      BY <1>4 DEF HandleActivate, Kinds
    <2>2. /\ requests' \in Seq(Request) /\ Len(requests) \in Nat
          /\ Len(requests') = Len(requests) + 1
      BY <1>0, <2>1, Requested
    <2>3. ClearState \/ UNCHANGED state
      BY <1>4 DEF HandleActivate
    <2>4. UNCHANGED <<slot, free, full, thread, context, runner, image>>
      BY <1>4 DEF HandleActivate
    <2>5. RequestTypes'
      BY <1>0, <2>2, <2>4 DEF RequestTypes
    <2> QED
      BY <1>0, <2>3, <2>4, <2>5, ClearedTypes, HandshakeKept
  <1> QED
    BY <1>1, <1>2, <1>3, <1>4 DEF DfuSecondaryCheckAsync

\* The DFU thread takes the handshake on
LEMMA HandshakeThread ==
    ASSUME DfuInductive, ProcessDfuBlocks
    PROVE  DfuInductive'
PROOF
  <1>0. StateTypes /\ ThreadTypes /\ RequestTypes /\ Handshake
    BY DEF DfuInductive
  <1>1. thread \in [at : Points, err : Errors, len : Nat, pos : Nat]
    BY <1>0 DEF ThreadTypes
  <1>2. UNCHANGED <<requests, context, runner, image>>
    BY DEF ProcessDfuBlocks, ThreadWakes, OpenFails, ImageTooLarge, ThreadBegins, EraseSector,
           EraseSectorFails, WriteBlock, WriteBlockFails, CheckPage, CheckEnds, CheckReadFails,
           ThreadGives, ThreadCalls, history
  <1>3. RequestTypes'
    BY <1>0, <1>2 DEF RequestTypes
  <1>4. ASSUME ClearState \/ UNCHANGED state, ThreadTypes', Handshake'
        PROVE  DfuInductive'
    BY <1>0, <1>2, <1>3, <1>4, ClearedTypes DEF DfuInductive
  <1>5. CASE ThreadWakes
    BY <1>0, <1>1, <1>4, <1>5 DEF ThreadWakes, ThreadTypes, Handshake, Waiting, Points, Errors
  <1>6. ASSUME thread.at \notin {"wait", "call"}, UNCHANGED <<free, full, slot>>,
               ClearState \/ UNCHANGED state,
               thread' \in [at : Points \ {"wait", "call"}, err : Errors, len : Nat, pos : Nat]
        PROVE  DfuInductive'
    BY <1>0, <1>4, <1>6 DEF ThreadTypes, Handshake
  <1>7. CASE OpenFails \/ ImageTooLarge \/ EraseSectorFails \/ WriteBlockFails \/ CheckReadFails
             \/ CheckEnds
    BY <1>1, <1>6, <1>7 DEF OpenFails, ImageTooLarge, EraseSectorFails, WriteBlockFails,
       CheckReadFails, CheckEnds, ThreadGoesTo, Points, Errors
  <1>8. CASE CheckPage
    <2>1. PICK err \in Errors : thread' = [thread EXCEPT !.pos = thread.pos + Sector, !.err = err]
      BY <1>1, <1>8 DEF CheckPage, Errors
    <2>2. thread.pos + Sector \in Nat
      BY <1>1, DfuConstants
    <2>3. thread' \in [at : Points \ {"wait", "call"}, err : Errors, len : Nat, pos : Nat]
      BY <1>1, <1>8, <2>1, <2>2 DEF CheckPage, Points
    <2> QED
      BY <1>6, <1>8, <2>3 DEF CheckPage
  <1>9. CASE ThreadBegins
    <2>1. BytesToWrite \in Nat
      <3>1. Len(buf) \in Nat
        BY <1>0 DEF StateTypes
      <3>2. Padded(Len(buf)) \in Nat
        BY <3>1, PaddedIs
      <3> QED
        BY <3>2, DfuConstants DEF BytesToWrite
    <2>2. StateTypes'
      BY <1>0, <1>2, <1>9 DEF ThreadBegins, StateTypes
    <2>3. thread' \in [at : Points, err : Errors, len : Nat, pos : Nat] /\ thread'.at = "erase"
      BY <1>1, <1>9, <2>1 DEF ThreadBegins, Points, Errors
    <2>4. ThreadTypes' /\ Handshake'
      BY <1>0, <1>9, <2>3 DEF ThreadBegins, ThreadTypes, Handshake
    <2> QED
      BY <1>3, <2>2, <2>4 DEF DfuInductive
  <1>10. CASE EraseSector
    <2>1. thread' \in [at : Points, err : Errors, len : Nat, pos : Nat] /\ thread'.at = "write"
      BY <1>1, <1>10 DEF EraseSector, ThreadGoesTo, Points, Errors
    <2>2. slot' \in [0..(SlotSize - 1) -> Bytes]
      BY <1>0, <1>10 DEF EraseSector, ThreadTypes, ErasedByte, Bytes
    <2>3. ThreadTypes' /\ Handshake'
      BY <1>0, <1>10, <2>1, <2>2 DEF EraseSector, ThreadTypes, Handshake
    <2> QED
      BY <1>4, <1>10, <2>3 DEF EraseSector
  <1>11. CASE WriteBlock
    <2>1. thread' \in [at : Points, err : Errors, len : Nat, pos : Nat] /\ thread'.at = "give"
      BY <1>1, <1>11 DEF WriteBlock, ThreadGoesTo, Points, Errors
    <2>2. offset \in Nat /\ thread.len \in Nat /\ buf \in Seq(Bytes) /\ Len(buf) \in Nat
          /\ slot \in [0..(SlotSize - 1) -> Bytes]
      BY <1>0, <1>1 DEF StateTypes, ThreadTypes
    <2>3. \A p \in offset..(offset + thread.len - 1) : BufferByte(p - offset + 1) \in Bytes
      <3>1. \A i \in 1..Len(buf) : buf[i] \in Bytes
        BY <2>2, ElementOfSeq
      <3> QED
        BY <2>2, <3>1 DEF BufferByte, ErasedByte, ZeroByte, Bytes
    <2>4. slot' \in [0..(SlotSize - 1) -> Bytes]
      BY <1>11, <2>2, <2>3 DEF WriteBlock
    <2>5. buf' \in Seq(Bytes)
      <3>1. CASE Len(buf) >= thread.len
        BY <1>11, <2>2, <3>1, SubSeqProperties DEF WriteBlock
      <3>2. CASE ~(Len(buf) >= thread.len)
        BY <1>11, <3>2 DEF WriteBlock
      <3> QED
        BY <3>1, <3>2
    <2>6. StateTypes'
      BY <1>0, <1>2, <1>11, <2>2, <2>5 DEF WriteBlock, StateTypes
    <2>7. ThreadTypes' /\ Handshake'
      BY <1>0, <1>11, <2>1, <2>4 DEF WriteBlock, ThreadTypes, Handshake
    <2> QED
      BY <1>3, <2>6, <2>7 DEF DfuInductive
  <1>12. CASE ThreadGives
    BY <1>0, <1>1, <1>4, <1>12 DEF ThreadGives, ThreadGoesTo, ThreadTypes, Handshake, Points, Errors
  <1>13. CASE ThreadCalls
    BY <1>0, <1>1, <1>4, <1>13 DEF ThreadCalls, Waiting, ThreadTypes, Handshake, Points, Errors
  <1> QED
    BY <1>5, <1>7, <1>8, <1>9, <1>10, <1>11, <1>12, <1>13 DEF ProcessDfuBlocks

\* The handshake holds in every step
LEMMA HandshakeStep ==
    ASSUME DfuInductive, [Next]_vars
    PROVE  DfuInductive'
PROOF
  <1>1. CASE UNCHANGED vars
    BY <1>1 DEF vars, state, history, DfuInductive, StateTypes, ThreadTypes, RequestTypes, Handshake
  <1>2. CASE Handlers
    BY <1>2, HandshakeLoad, HandshakeRequests DEF Handlers
  <1>3. CASE ProcessDfuBlocks
    BY <1>3, HandshakeThread
  <1> QED
    BY <1>1, <1>2, <1>3 DEF Next

\* The handshake at the start
LEMMA HandshakeInit ==
    ASSUME Init
    PROVE  DfuInductive
PROOF
  <1>1. StateTypes
    BY DEF Init, StateTypes
  <1>2. ThreadTypes
    BY DEF Init, ThreadTypes, OldByte, Bytes, Waiting, Points, Errors
  <1>3. RequestTypes
    BY DEF Init, RequestTypes
  <1> QED
    BY <1>1, <1>2, <1>3 DEF Init, Handshake, DfuInductive, Waiting

-----------------------------------------------------------------------------
(* Proofs: a Jetson that waits for each answer *)

\* Only what is acknowledged becomes so
LEMMA NewAck ==
    ASSUME NEW n, NEW code, Ack(n, code)
    PROVE  /\ \A m : Acked(m)' <=> (Acked(m) \/ m = n)
           /\ \A m : Succeeded(m)' <=> (Succeeded(m) \/ (m = n /\ code = "SUCCESS"))
PROOF
  <1>1. acks' = acks \cup {[num |-> n, code |-> code]}
    BY DEF Ack
  <1>2. \A m : Acked(m)' <=> (Acked(m) \/ m = n)
    <2> DEFINE e == [num |-> n, code |-> code]
    <2>1. e.num = n /\ acks' = acks \cup {e}
      BY <1>1
    <2> HIDE DEF e
    <2> QED
      BY <2>1 DEF Acked
  <1>3. \A m : Succeeded(m)' <=> (Succeeded(m) \/ (m = n /\ code = "SUCCESS"))
    BY <1>1 DEF Succeeded
  <1> QED
    BY <1>2, <1>3

\* A success is an acknowledgement
LEMMA SuccessIsAck ==
    ASSUME NEW n, Succeeded(n)
    PROVE  Acked(n)
PROOF
  <1>1. [num |-> n, code |-> "SUCCESS"] \in acks
    BY DEF Succeeded
  <1> QED
    BY <1>1 DEF Acked

\* A Jetson that waits for each answer sends when nothing is under way
LEMMA SendsAlone ==
    ASSUME DfuInductive, InTurn, window = 1, MaySend
    PROVE  ~Pending /\ runner = 0
PROOF
  <1> DEFINE open == {n \in 1..Len(requests) : ~Acked(n)}
  <1>1. Len(requests) \in Nat /\ runner = 0 /\ Cardinality(open) < 1
    BY DEF DfuInductive, RequestTypes, MaySend
  <1>2. IsFiniteSet(1..Len(requests))
    BY <1>1, FS_Interval
  <1>3. open \subseteq 1..Len(requests)
    OBVIOUS
  <1> HIDE DEF open
  <1>4. IsFiniteSet(open)
    BY <1>2, <1>3, FS_Subset
  <1>5. Cardinality(open) \in Nat
    BY <1>4, FS_CardinalityType
  <1>6. Cardinality(open) = 0
    BY <1>1, <1>5
  <1>7. open = {}
    BY <1>4, <1>6, FS_EmptySet
  <1>8. Pending => Len(requests) \in open
    <2>1. Pending => requests # <<>> /\ ~Acked(Len(requests))
      BY DEF InTurn, PendingIsLast, Last
    <2>2. requests # <<>> => Len(requests) \in 1..Len(requests)
      BY <1>1 DEF DfuInductive, RequestTypes
    <2> QED
      BY <2>1, <2>2 DEF open
  <1> QED
    BY <1>1, <1>7, <1>8

\* A request is sent, and answered or not, with nothing to do for the thread
LEMMA TurnOfRequest ==
    ASSUME DfuInductive, InTurn,
           NEW kind \in Kinds, NEW g \in Nat, NEW k \in Nat, Sends(kind, g, k),
           NEW n, n = Num, NEW code,
           \/ UNCHANGED acks
           \/ /\ Ack(n, code)
              /\ code = "SUCCESS" => kind # "check" /\ (kind = "block" => n \in loaded'),
           loaded \subseteq loaded'
    PROVE  /\ AcksAreOfRequests' /\ LoadedAcks' /\ VerifiedLast'
           /\ UNCHANGED acks => ~Acked(Last)'
           /\ requests' # <<>> /\ Last' = n /\ requests'[n] = [kind |-> kind, g |-> g, k |-> k]
PROOF
  <1>1. /\ Len(requests) \in Nat /\ Len(requests') = Len(requests) + 1
        /\ \A m \in 1..Len(requests) : requests'[m] = requests[m]
        /\ requests'[n] = [kind |-> kind, g |-> g, k |-> k]
        /\ n = Len(requests) + 1 /\ requests' # <<>>
    BY Requested DEF DfuInductive
  <1>2. ~Acked(n) /\ ~Succeeded(n)
    <2>1. ~Acked(n)
      BY <1>1 DEF InTurn, AcksAreOfRequests, Acked
    <2> QED
      BY <2>1, SuccessIsAck
  <1>3. AcksAreOfRequests'
    <2>1. \A a \in acks : a.num \in 1..Len(requests)
      BY DEF InTurn, AcksAreOfRequests
    <2>2. \A a \in acks' : a \in acks \/ a.num = n
      BY DEF Ack
    <2> QED
      BY <1>1, <2>1, <2>2 DEF AcksAreOfRequests
  <1>4. \A m : Succeeded(m)' =>
              (Succeeded(m) \/ (m = n /\ kind # "check" /\ (kind = "block" => n \in loaded')))
    <2>1. CASE UNCHANGED acks
      BY <2>1 DEF Succeeded
    <2>2. CASE ~UNCHANGED acks
      BY <2>2, NewAck
    <2> QED
      BY <2>1, <2>2
  <1>5. requests'[n].kind = kind
    BY <1>1
  <1>6. LoadedAcks'
    <2>1. \A m \in 1..Len(requests) : requests[m].kind = "block" /\ Succeeded(m) => m \in loaded
      BY DEF InTurn, LoadedAcks
    <2>2. ASSUME NEW m \in 1..(Len(requests) + 1), requests'[m].kind = "block", Succeeded(m)'
          PROVE  m \in loaded'
      <3>1. CASE m = n
        BY <1>2, <1>4, <1>5, <2>2, <3>1
      <3>2. CASE m # n
        <4>1. m \in 1..Len(requests)
          BY <1>1, <3>2
        <4> QED
          BY <1>1, <1>4, <2>1, <2>2, <3>2, <4>1
      <3> QED
        BY <3>1, <3>2
    <2> QED
      BY <1>1, <2>2 DEF LoadedAcks
  <1>7. Last' = n
    BY <1>1 DEF Last
  <1>8. VerifiedLast'
    BY <1>2, <1>4, <1>5, <1>7 DEF VerifiedLast
  <1>9. UNCHANGED acks => ~Acked(Last)'
    BY <1>2, <1>7 DEF Acked
  <1> QED
    BY <1>1, <1>3, <1>6, <1>7, <1>8, <1>9

\* The handler of a block
LEMMA TurnOfBlock ==
    ASSUME DfuInductive, InTurn, window = 1,
           NEW g \in Images, NEW k \in 0..(ImageBlocks[g] - 1), DfuLoad(g, k)
    PROVE  InTurn'
PROOF
  <1>1. g \in Nat /\ k \in Nat /\ "block" \in Kinds
    BY BlockBytes DEF Kinds
  <1>2. HandleBlock(g, k)
    BY DEF DfuLoad, DfuLoadRefused, DfuLoadBusy, DfuLoadNoMem, DfuLoadBuffered, DfuLoadQueued,
           LoadBlock, FillBuffer
  <1>3. Sends("block", g, k) /\ MaySend /\ UNCHANGED <<thread, runner>>
        /\ context' = [context EXCEPT !["block"] = Num]
    BY <1>2 DEF HandleBlock, MaySendBlock
  <1>4. ~Pending /\ runner = 0
    BY <1>3, SendsAlone
  <1>5. full = 0 /\ thread.at = "wait"
    BY <1>4 DEF Pending, DfuInductive, ThreadTypes
  <1>6. PICK n : n = Num
    OBVIOUS
  <1>7. RunnerIsLast'
    BY <1>3, <1>4 DEF RunnerIsLast
  <1>8. ASSUME NEW code, Ack(n, code), code = "SUCCESS" => n \in loaded', loaded \subseteq loaded',
               full' = full
        PROVE  InTurn'
    <2>0. "block" # "check" /\ (code = "SUCCESS" => ("block" = "block" => n \in loaded'))
      BY <1>8
    <2>1. AcksAreOfRequests' /\ LoadedAcks' /\ VerifiedLast'
      BY <1>1, <1>3, <1>6, <1>8, <2>0, TurnOfRequest
    <2>2. ~Pending'
      BY <1>3, <1>5, <1>8 DEF Pending
    <2> QED
      BY <1>5, <1>7, <1>8, <2>1, <2>2 DEF InTurn, PendingIsLast, CheckedSoFar, OneAtATime
  <1>9. CASE DfuLoadRefused(g, k) \/ DfuLoadBusy(g, k) \/ DfuLoadNoMem(g, k) \/ DfuLoadBuffered(g, k)
    <2>1. CASE DfuLoadRefused(g, k)
      BY <1>6, <1>8, <2>1 DEF DfuLoadRefused
    <2>2. CASE DfuLoadBusy(g, k)
      BY <1>6, <1>8, <2>2 DEF DfuLoadBusy
    <2>3. CASE DfuLoadNoMem(g, k)
      BY <1>6, <1>8, <2>3 DEF DfuLoadNoMem
    <2>4. CASE DfuLoadBuffered(g, k)
      BY <1>6, <1>8, <2>4 DEF DfuLoadBuffered, FillBuffer
    <2> QED
      BY <1>9, <2>1, <2>2, <2>3, <2>4
  <1>10. CASE DfuLoadQueued(g, k)
    <2>1. UNCHANGED acks /\ n \in loaded' /\ loaded \subseteq loaded' /\ cb' = "block"
      BY <1>6, <1>10 DEF DfuLoadQueued, FillBuffer
    <2>2. /\ AcksAreOfRequests' /\ LoadedAcks' /\ VerifiedLast'
          /\ ~Acked(Last)' /\ requests' # <<>> /\ Last' = n
          /\ requests'[n] = [kind |-> "block", g |-> g, k |-> k]
      BY <1>1, <1>3, <1>6, <2>1, TurnOfRequest
    <2>3. context'["block"] = n
      BY <1>3, <1>6 DEF DfuInductive, RequestTypes
    <2>4. PendingIsLast'
      BY <1>3, <1>4, <2>1, <2>2, <2>3 DEF PendingIsLast
    <2>5. CheckedSoFar' /\ OneAtATime'
      BY <1>3, <1>5, <2>1 DEF CheckedSoFar, OneAtATime
    <2> QED
      BY <1>7, <2>2, <2>4, <2>5 DEF InTurn
  <1> QED
    BY <1>9, <1>10 DEF DfuLoad

\* The handlers of a check and of an activation
LEMMA TurnOfOthers ==
    ASSUME DfuInductive, InTurn, window = 1,
           (\E g \in Images : HandleCheck(g)) \/ HandleActivate
    PROVE  InTurn'
PROOF
  <1>1. PICK n : n = Num
    OBVIOUS
  <1>2. ASSUME MaySend, thread' = thread, full' = full
        PROVE  /\ ~Pending' /\ PendingIsLast' /\ CheckedSoFar' /\ OneAtATime'
               /\ runner = 0
    <2>1. ~Pending /\ runner = 0
      BY <1>2, SendsAlone
    <2>2. ~Pending' /\ full' # 1
      BY <1>2, <2>1 DEF Pending
    <2> QED
      BY <2>1, <2>2 DEF PendingIsLast, CheckedSoFar, OneAtATime
  <1>3. ASSUME NEW g \in Images, HandleCheck(g)
        PROVE  InTurn'
    <2>1. /\ MaySend /\ Sends("check", g, 0) /\ runner' = n
          /\ context' = [context EXCEPT !["check"] = n]
          /\ UNCHANGED <<acks, loaded, thread, full>>
      BY <1>1, <1>3 DEF HandleCheck
    <2>2. g \in Nat /\ "check" \in Kinds
      BY DfuConstants DEF Kinds
    <2>3. /\ AcksAreOfRequests' /\ LoadedAcks' /\ VerifiedLast'
          /\ ~Acked(Last)' /\ requests' # <<>> /\ Last' = n
          /\ requests'[n] = [kind |-> "check", g |-> g, k |-> 0]
      BY <1>1, <2>1, <2>2, TurnOfRequest
    <2>4. context'["check"] = n
      BY <2>1 DEF DfuInductive, RequestTypes
    <2>5. RunnerIsLast'
      BY <2>1, <2>3, <2>4 DEF RunnerIsLast
    <2> QED
      BY <1>2, <2>1, <2>3, <2>5 DEF InTurn
  <1>4. CASE HandleActivate
    <2>1. /\ MaySend /\ Sends("activate", 0, 0)
          /\ UNCHANGED <<loaded, thread, full, runner>>
      BY <1>4 DEF HandleActivate
    <2>2. PICK code : Ack(n, code)
      BY <1>1, <1>4 DEF HandleActivate
    <2>3. "activate" \in Kinds
      BY DEF Kinds
    <2>4. AcksAreOfRequests' /\ LoadedAcks' /\ VerifiedLast'
      BY <1>1, <2>1, <2>2, <2>3, TurnOfRequest
    <2>5. RunnerIsLast'
      BY <1>2, <2>1 DEF RunnerIsLast
    <2> QED
      BY <1>2, <2>1, <2>4, <2>5 DEF InTurn
  <1> QED
    BY <1>3, <1>4

\* The wait of a check is over
LEMMA TurnOfCheck ==
    ASSUME DfuInductive, InTurn, DfuSecondaryCheckAsync
    PROVE  InTurn'
PROOF
  <1>1. /\ runner # 0 /\ UNCHANGED <<requests, loaded, context, slot, thread>> /\ runner' = 0
        /\ UNCHANGED <<phase>>
    BY DEF DfuSecondaryCheckAsync, CheckQueued, CheckTooEarly, CheckTimesOut, history, state
  <1>2. /\ runner = Last /\ ~Acked(Last) /\ requests[Last].kind = "check"
        /\ requests[Last].g \in Images /\ context["check"] = Last
    BY <1>1 DEF InTurn, RunnerIsLast
  <1>3. ~Pending /\ full = 0 /\ thread.at = "wait"
    BY <1>1 DEF InTurn, PendingIsLast, Pending, DfuInductive, ThreadTypes
  <1>4. RunnerIsLast' /\ Last' = Last
    BY <1>1 DEF RunnerIsLast, Last
  <1>5. Last \in 1..Len(requests) /\ requests # <<>>
    BY <1>1, <1>2 DEF DfuInductive, RequestTypes
  <1>6. CASE CheckQueued
    <2>1. acks' = acks /\ cb' = "check" /\ crc' = requests[Last].g /\ phase' = "FINISHED_VERIFY"
      BY <1>1, <1>2, <1>6 DEF CheckQueued, history
    <2>2. AcksAreOfRequests' /\ LoadedAcks'
      BY <1>1, <2>1 DEF InTurn, AcksAreOfRequests, LoadedAcks, Succeeded
    <2>3. VerifiedLast'
      <3>1. ~Succeeded(Last)'
        BY <1>2, <1>4, <2>1, SuccessIsAck DEF Succeeded
      <3> QED
        BY <3>1 DEF VerifiedLast
    <2>4. PendingIsLast'
      <3>1. ~Acked(Last)'
        BY <1>2, <1>4, <2>1 DEF Acked
      <3> QED
        BY <1>1, <1>2, <1>4, <1>5, <2>1, <3>1 DEF PendingIsLast
    <2>5. CheckedSoFar' /\ OneAtATime'
      BY <1>1, <1>2, <1>3, <1>4, <2>1 DEF CheckedSoFar, OneAtATime
    <2> QED
      BY <1>4, <2>2, <2>3, <2>4, <2>5 DEF InTurn
  <1>7. CASE CheckTooEarly \/ CheckTimesOut
    <2>1. PICK n : n = Last
      OBVIOUS
    <2>2. full' = full /\ (Ack(n, "FAIL") \/ Ack(n, "INVALID_STATE"))
      BY <1>2, <1>7, <2>1 DEF CheckTooEarly, CheckTimesOut
    <2>3. \A m : Succeeded(m)' => Succeeded(m)
      BY <2>2, NewAck
    <2>4. AcksAreOfRequests'
      <3>1. \A a \in acks' : a \in acks \/ a.num = n
        BY <2>2 DEF Ack
      <3> QED
        BY <1>1, <1>5, <2>1, <3>1 DEF InTurn, AcksAreOfRequests
    <2>5. LoadedAcks'
      BY <1>1, <2>3 DEF InTurn, LoadedAcks
    <2>6. VerifiedLast'
      <3>1. ~Succeeded(n)
        BY <1>2, <2>1, SuccessIsAck
      <3> QED
        BY <1>4, <2>1, <2>3, <3>1 DEF VerifiedLast
    <2>7. ~Pending' /\ OneAtATime'
      BY <1>1, <1>3, <2>2 DEF Pending, OneAtATime
    <2> QED
      BY <1>4, <2>4, <2>5, <2>6, <2>7 DEF InTurn, PendingIsLast, CheckedSoFar
  <1> QED
    BY <1>6, <1>7 DEF DfuSecondaryCheckAsync

\* A step of the thread before it calls the callback, as far as the requests go
LEMMA TurnOfThread ==
    ASSUME DfuInductive, InTurn, Pending, CheckedSoFar', full' \in {0, full}, full' = 1 => thread'.at = "wait",
           cb' \in {cb, "none"}, UNCHANGED <<requests, acks, loaded, context, runner>>
    PROVE  InTurn'
PROOF
  <1>1. /\ requests # <<>> /\ runner = 0 /\ ~Acked(Last)
        /\ cb # "none" => context[cb] = Last /\ requests[Last].kind = cb
        /\ cb = "block" => Last \in loaded
    BY DEF InTurn, PendingIsLast
  <1>2. Last' = Last /\ (\A n : Acked(n)' = Acked(n)) /\ (\A n : Succeeded(n)' = Succeeded(n))
    BY DEF Last, Acked, Succeeded
  <1>3. ~Acked(Last)'
    BY <1>1, <1>2 DEF Acked
  <1>4. PendingIsLast'
    BY <1>1, <1>2, <1>3 DEF PendingIsLast
  <1>5. AcksAreOfRequests'
    BY DEF InTurn, AcksAreOfRequests
  <1>6. LoadedAcks'
    BY <1>2 DEF InTurn, LoadedAcks
  <1>7. VerifiedLast'
    <2>1. ~Succeeded(Last)'
      BY <1>1, <1>2, SuccessIsAck DEF Succeeded
    <2> QED
      BY <2>1 DEF VerifiedLast
  <1> QED
    BY <1>1, <1>4, <1>5, <1>6, <1>7 DEF InTurn, RunnerIsLast, OneAtATime

\* The size of an image
LEMMA ImageSizeIs ==
    ASSUME NEW g \in Images
    PROVE  /\ ImageSize(g) \in Nat \ {0}
           /\ ImageSize(g) <= ImageBlocks[g] * BlockMax
           /\ \A k \in 0..(ImageBlocks[g] - 2) : (k + 1) * BlockMax < ImageSize(g)
PROOF
  <1>1. /\ ImageBlocks[g] \in Nat \ {0} /\ LastSize[g] \in 1..BlockMax /\ BlockMax \in Nat
    BY DfuConstants
  <1>2. (ImageBlocks[g] - 1) * BlockMax \in Nat
    BY <1>1
  <1>3. ImageBlocks[g] * BlockMax = (ImageBlocks[g] - 1) * BlockMax + BlockMax
    BY <1>1
  <1>4. ASSUME NEW k \in 0..(ImageBlocks[g] - 2)
        PROVE  (k + 1) * BlockMax <= (ImageBlocks[g] - 1) * BlockMax
    <2> DEFINE d == ImageBlocks[g] - 1 - (k + 1)
    <2>1. d \in Nat /\ ImageBlocks[g] - 1 = (k + 1) + d
      BY <1>1
    <2> HIDE DEF d
    <2>2. (ImageBlocks[g] - 1) * BlockMax = (k + 1) * BlockMax + d * BlockMax /\ d * BlockMax \in Nat
          /\ (k + 1) * BlockMax \in Nat
      BY <1>1, <2>1
    <2> QED
      BY <2>2
  <1> QED
    BY <1>1, <1>2, <1>3, <1>4 DEF ImageSize

\* What a check has found when it ends
LEMMA CheckFinds ==
    ASSUME DfuInductive, InTurn, Pending, cb = "check", CheckEnds, thread'.err = "SUCCESS"
    PROVE  Holds(crc)
PROOF
  <1>1. /\ thread.at = "check"
        /\ HeaderImage # 0 => thread.pos >= ImageSize(HeaderImage)
        /\ thread' = [thread EXCEPT !.at = "give",
                                    !.err = IF HeaderImage = 0 THEN "INVALID_STATE" ELSE thread.err]
    BY DEF CheckEnds, ThreadGoesTo
  <1>2. thread \in [at : Points, err : Errors, len : Nat, pos : Nat]
    BY DEF DfuInductive, ThreadTypes
  <1>3. HeaderImage # 0 /\ thread.err = "SUCCESS"
    BY <1>1, <1>2
  <1>4. /\ crc \in Images
        /\ \A p \in 0..(thread.pos - 1) :
              HeaderImage # 0 /\ (p < ImageSize(HeaderImage) => slot[p] = <<crc, p>>)
    BY <1>1, <1>3 DEF InTurn, CheckedSoFar
  <1>5. HeaderImage \in Images /\ HeaderImage = slot[0][1]
    BY <1>3 DEF HeaderImage
  <1>6. ImageSize(HeaderImage) \in Nat \ {0} /\ thread.pos \in Nat
        /\ thread.pos >= ImageSize(HeaderImage)
    BY <1>1, <1>2, <1>3, <1>5, ImageSizeIs
  <1>7. slot[0] = <<crc, 0>>
    BY <1>4, <1>6
  <1>8. HeaderImage = crc
    BY <1>5, <1>7
  <1> QED
    BY <1>4, <1>6, <1>8 DEF Holds

\* The steps of the DFU thread
LEMMA TurnOfProcess ==
    ASSUME DfuInductive, InTurn, ProcessDfuBlocks
    PROVE  InTurn'
PROOF
  <1>1. thread \in [at : Points, err : Errors, len : Nat, pos : Nat] /\ full \in {0, 1}
    BY DEF DfuInductive, ThreadTypes
  <1>2. Pending
    BY DEF Pending, ProcessDfuBlocks, ThreadWakes, OpenFails, ImageTooLarge, ThreadBegins,
           EraseSector, EraseSectorFails, WriteBlock, WriteBlockFails, CheckPage, CheckEnds,
           CheckReadFails, ThreadGives, ThreadCalls
  <1>3. UNCHANGED <<requests, loaded, context, runner>>
    BY DEF ProcessDfuBlocks, ThreadWakes, OpenFails, ImageTooLarge, ThreadBegins, EraseSector,
           EraseSectorFails, WriteBlock, WriteBlockFails, CheckPage, CheckEnds, CheckReadFails,
           ThreadGives, ThreadCalls, history
  <1>4. Last' = Last
    BY <1>3 DEF Last
  <1>5. cb = "check" => /\ crc = requests[Last].g /\ crc \in Images /\ phase = "FINISHED_VERIFY"
                        /\ thread.at \in {"wait", "check", "give", "call"}
    BY <1>2 DEF InTurn, CheckedSoFar
  <1>6. full = 1 => thread.at = "wait"
    BY DEF InTurn, OneAtATime
  <1>7. CASE ThreadWakes
    <2>1. cb = "check" => thread'.at = "check" /\ thread'.pos = 0
      BY <1>5, <1>7 DEF ThreadWakes, Waiting
    <2>2. UNCHANGED <<cb, crc, phase, acks>> /\ full' = 0
      BY <1>7 DEF ThreadWakes, state, history
    <2>3. CheckedSoFar'
      BY <1>3, <1>4, <1>5, <2>1, <2>2 DEF CheckedSoFar
    <2> QED
      BY <1>2, <1>3, <2>2, <2>3, TurnOfThread
  <1>8. CASE \/ OpenFails \/ ImageTooLarge \/ ThreadBegins \/ EraseSector \/ EraseSectorFails
             \/ WriteBlock \/ WriteBlockFails
    <2>1. thread.at \in {"begin", "erase", "write"} /\ cb' \in {cb, "none"} /\ UNCHANGED <<full, acks>>
      BY <1>8 DEF OpenFails, ImageTooLarge, ThreadBegins, EraseSector, EraseSectorFails,
           WriteBlock, WriteBlockFails, state, history, ClearState
    <2>2. cb' # "check"
      BY <1>5, <2>1
    <2>3. CheckedSoFar'
      BY <2>2 DEF CheckedSoFar
    <2> QED
      BY <1>2, <1>3, <1>6, <2>1, <2>3, TurnOfThread
  <1>9. ASSUME thread.at \in {"check", "give"}, UNCHANGED <<slot, state, full, acks>>, thread'.at # "wait",
               cb = "check" => CheckedSoFar'
        PROVE  InTurn'
    <2>1. CheckedSoFar'
      BY <1>9 DEF CheckedSoFar, state
    <2> QED
      BY <1>2, <1>3, <1>6, <1>9, <2>1, TurnOfThread DEF state
  <1>10. CASE CheckPage
    <2>1. /\ thread.at = "check" /\ thread'.at = "check" /\ thread'.pos = thread.pos + Sector
          /\ HeaderImage # 0
          /\ thread'.err = "SUCCESS" =>
                /\ thread.err = "SUCCESS"
                /\ \A p \in thread.pos..(thread.pos + Sector - 1) :
                      p < ImageSize(HeaderImage) => slot[p] = <<crc, p>>
          /\ UNCHANGED <<slot, state, full, acks>>
      <3> DEFINE upTo == thread.pos + Sector
                 e == IF PageMatches(thread.pos, upTo) THEN thread.err ELSE "INVALID_STATE"
      <3>1. /\ thread.at = "check" /\ HeaderImage # 0
            /\ thread' = [thread EXCEPT !.pos = upTo, !.err = e]
            /\ UNCHANGED <<slot, state, full, acks>>
        BY <1>1, <1>10 DEF CheckPage, history
      <3>2. e = "SUCCESS" => thread.err = "SUCCESS" /\ PageMatches(thread.pos, upTo)
        OBVIOUS
      <3> HIDE DEF e
      <3>3. thread'.at = "check" /\ thread'.pos = upTo /\ thread'.err = e
        BY <1>1, <3>1
      <3>4. PageMatches(thread.pos, upTo) =>
               \A p \in thread.pos..(thread.pos + Sector - 1) :
                  p < ImageSize(HeaderImage) => slot[p] = <<crc, p>>
        <4>1. thread.pos \in Nat /\ Sector \in Nat
          BY <1>1, DfuConstants
        <4> QED
          BY <4>1 DEF PageMatches
      <3>5. thread'.err = "SUCCESS" => thread.err = "SUCCESS" /\ PageMatches(thread.pos, upTo)
        BY <3>2, <3>3
      <3>6. thread'.pos = thread.pos + Sector
        BY <3>3
      <3> HIDE DEF upTo
      <3> QED
        BY <3>1, <3>3, <3>4, <3>5, <3>6
    <2>2. ASSUME cb = "check"
          PROVE  CheckedSoFar'
      <3>1. UNCHANGED <<slot, crc, phase, cb>> /\ HeaderImage' = HeaderImage
        BY <2>1 DEF state, HeaderImage
      <3>2. ASSUME thread'.err = "SUCCESS", NEW p \in 0..(thread'.pos - 1)
            PROVE  HeaderImage # 0 /\ (p < ImageSize(HeaderImage) => slot[p] = <<crc, p>>)
        <4>1. \A q \in 0..(thread.pos - 1) :
                 HeaderImage # 0 /\ (q < ImageSize(HeaderImage) => slot[q] = <<crc, q>>)
          BY <1>2, <2>1, <2>2, <3>2 DEF InTurn, CheckedSoFar
        <4>2. p \in 0..(thread.pos - 1) \/ p \in thread.pos..(thread.pos + Sector - 1)
          BY <1>1, <2>1, <3>2, DfuConstants
        <4> QED
          BY <2>1, <3>2, <4>1, <4>2
      <3> QED
        BY <1>3, <1>4, <1>5, <2>1, <2>2, <3>1, <3>2 DEF CheckedSoFar
    <2> QED
      BY <1>9, <2>1, <2>2
  <1>11. CASE CheckEnds
    <2>1. thread.at = "check" /\ thread'.at = "give" /\ UNCHANGED <<slot, state, full, acks>>
      BY <1>1, <1>11 DEF CheckEnds, ThreadGoesTo, history
    <2>2. ASSUME cb = "check"
          PROVE  CheckedSoFar'
      <3>1. thread'.err = "SUCCESS" => Holds(crc)
        BY <1>2, <1>11, <2>2, CheckFinds
      <3>2. thread'.err = "SUCCESS" => Holds(crc)'
        BY <2>1, <3>1 DEF Holds, state
      <3> QED
        BY <1>3, <1>4, <1>5, <2>1, <2>2, <3>2 DEF CheckedSoFar, state
    <2> QED
      BY <1>9, <2>1, <2>2
  <1>12. CASE CheckReadFails
    <2>1. /\ thread.at = "check" /\ thread'.at = "give" /\ thread'.err = "INTERNAL"
          /\ UNCHANGED <<slot, state, full, acks>>
      BY <1>1, <1>12 DEF CheckReadFails, ThreadGoesTo
    <2>2. cb = "check" => CheckedSoFar'
      BY <1>3, <1>4, <1>5, <2>1 DEF CheckedSoFar, state
    <2> QED
      BY <1>9, <2>1, <2>2
  <1>13. CASE ThreadGives
    <2>1. /\ thread.at = "give" /\ thread'.at = "call" /\ thread'.err = thread.err
          /\ UNCHANGED <<slot, state, full, acks>>
      BY <1>1, <1>13 DEF ThreadGives, ThreadGoesTo, history
    <2>2. ASSUME cb = "check"
          PROVE  CheckedSoFar'
      <3>1. thread'.err = "SUCCESS" => Holds(crc)
        BY <1>2, <2>1, <2>2 DEF InTurn, CheckedSoFar
      <3>2. thread'.err = "SUCCESS" => Holds(crc)'
        BY <2>1, <3>1 DEF Holds, state
      <3> QED
        BY <1>3, <1>4, <1>5, <2>1, <2>2, <3>2 DEF CheckedSoFar, state
    <2> QED
      BY <1>9, <2>1, <2>2
  <1>14. CASE ThreadCalls
    <2>0. thread.at = "call" /\ thread'.at = "wait" /\ UNCHANGED <<slot, full, crc>> /\ full = 0
      BY <1>1, <1>6, <1>14 DEF ThreadCalls, Waiting, state
    <2>1. ~Pending'
      BY <2>0 DEF Pending
    <2>2. /\ requests # <<>> /\ runner = 0 /\ ~Acked(Last)
          /\ cb # "none" => context[cb] = Last /\ requests[Last].kind = cb
          /\ cb = "block" => Last \in loaded
      BY <1>2 DEF InTurn, PendingIsLast
    <2>3. PICK n : n = Last
      OBVIOUS
    <2>4. n \in 1..Len(requests)
      BY <2>2, <2>3 DEF Last, DfuInductive, RequestTypes
    <2>5. IF cb = "none" THEN UNCHANGED acks ELSE Ack(n, AckCode(thread.err))
      BY <1>14, <2>2, <2>3 DEF ThreadCalls
    <2>6. AckCode(thread.err) = "SUCCESS" => thread.err = "SUCCESS"
      BY <1>1 DEF AckCode, Errors
    <2>7. \A m : Succeeded(m)' => Succeeded(m) \/ (m = n /\ cb # "none" /\ thread.err = "SUCCESS")
      <3>1. CASE cb = "none"
        BY <2>5, <3>1 DEF Succeeded
      <3>2. CASE cb # "none"
        BY <2>5, <2>6, <3>2, NewAck
      <3> QED
        BY <3>1, <3>2
    <2>8. AcksAreOfRequests'
      <3>1. \A a \in acks' : a \in acks \/ a.num = n
        BY <2>5 DEF Ack
      <3> QED
        BY <1>3, <2>4, <3>1 DEF InTurn, AcksAreOfRequests
    <2>9. LoadedAcks'
      BY <1>3, <2>2, <2>3, <2>7 DEF InTurn, LoadedAcks
    <2>10. VerifiedLast'
      <3>1. ASSUME requests[n].kind = "check", Succeeded(n)'
            PROVE  Holds(requests[n].g)
        <4>1. ~Succeeded(n)
          BY <2>2, <2>3, SuccessIsAck
        <4>2. cb = "check" /\ thread.err = "SUCCESS"
          BY <2>2, <2>3, <2>7, <3>1, <4>1
        <4>3. Holds(crc) /\ crc = requests[n].g
          BY <1>2, <1>5, <2>0, <2>3, <4>2 DEF InTurn, CheckedSoFar
        <4> QED
          BY <4>3
      <3>2. \A g : Holds(g)' = Holds(g)
        BY <2>0 DEF Holds
      <3> QED
        BY <1>3, <1>4, <2>0, <2>3, <3>1 DEF VerifiedLast, Holds
    <2> QED
      BY <1>3, <2>0, <2>1, <2>2, <2>8, <2>9, <2>10
         DEF InTurn, PendingIsLast, CheckedSoFar, RunnerIsLast, OneAtATime
  <1> QED
    BY <1>7, <1>8, <1>10, <1>11, <1>12, <1>13, <1>14 DEF ProcessDfuBlocks

\* Every step keeps the turns
LEMMA InTurnStep ==
    ASSUME InTurnInductive, [Next]_vars
    PROVE  InTurnInductive'
PROOF
  <1>1. DfuInductive /\ DfuInductive'
    BY HandshakeStep DEF InTurnInductive
  <1>2. window' = window
    BY DEF Next, vars
  <1>3. ASSUME window = 1
        PROVE  InTurn'
    <2>1. InTurn
      BY <1>3 DEF InTurnInductive
    <2>2. CASE UNCHANGED vars
      BY <2>1, <2>2 DEF vars, state, history, InTurn, AcksAreOfRequests, PendingIsLast, RunnerIsLast,
         CheckedSoFar, LoadedAcks, VerifiedLast, OneAtATime, Pending, Last, Acked, Succeeded, Holds,
         HeaderImage
    <2>3. CASE Handlers
      BY <1>1, <1>3, <2>1, <2>3, TurnOfBlock, TurnOfOthers, TurnOfCheck DEF Handlers
    <2>4. CASE ProcessDfuBlocks
      BY <1>1, <2>1, <2>4, TurnOfProcess
    <2> QED
      BY <2>2, <2>3, <2>4 DEF Next
  <1> QED
    BY <1>1, <1>2, <1>3 DEF InTurnInductive

\* The turns in every state
LEMMA InTurnAlways == Spec => []InTurnInductive
PROOF
  <1>1. Init => InTurnInductive
    <2>1. ASSUME Init
          PROVE  InTurn
      BY <2>1 DEF Init, InTurn, AcksAreOfRequests, PendingIsLast, RunnerIsLast, CheckedSoFar,
         LoadedAcks, VerifiedLast, OneAtATime, Pending, Waiting
    <2> QED
      BY <2>1, HandshakeInit DEF InTurnInductive
  <1>2. InTurnInductive /\ [Next]_vars => InTurnInductive'
    BY InTurnStep
  <1> QED
    BY <1>1, <1>2, PTL DEF Spec

\* A Jetson that waits for each answer is told success only for blocks that
\* dfu_load accepted: a block that was refused is never taken for one that the
\* thread wrote.
THEOREM OwnAcks == Spec => []AcksAreOwn
PROOF
  <1>1. InTurnInductive => AcksAreOwn
    BY DEF InTurnInductive, InTurn, LoadedAcks, AcksAreOwn
  <1> QED
    BY <1>1, InTurnAlways, PTL

\* It is told that the check succeeded only if the slot holds every byte of the
\* image it asked about, whatever faults the flash had before.
THEOREM CompleteWhenVerified == Spec => []VerifiedIsComplete
PROOF
  <1>1. InTurnInductive => VerifiedIsComplete
    BY DEF InTurnInductive, InTurn, VerifiedLast, VerifiedIsComplete, Last, Holds
  <1> QED
    BY <1>1, InTurnAlways, PTL

-----------------------------------------------------------------------------
(* Proofs: sizes and multiples *)

\* Quotient and rest of a division
LEMMA DivMod ==
    ASSUME NEW a \in Nat, NEW d \in Nat \ {0}
    PROVE  /\ a \div d \in Nat /\ a % d \in 0..(d - 1)
           /\ a = d * (a \div d) + (a % d)
PROOF
  <1>1. a % d \in 0..(d - 1)
    OBVIOUS
  <1>2. a \div d \in Nat
    OBVIOUS
  <1>3. a = d * (a \div d) + (a % d)
    OBVIOUS
  <1> QED
    BY <1>1, <1>2, <1>3

\* The rest is the one smaller than the divisor
LEMMA ModOf ==
    ASSUME NEW q \in Nat, NEW d \in Nat \ {0}, NEW r \in 0..(d - 1)
    PROVE  (d * q + r) % d = r
PROOF
  <1> DEFINE a == d * q + r
  <1>0. d * q \in Nat
    OBVIOUS
  <1>1. a \in Nat
    BY <1>0
  <1>2. a \div d \in Nat /\ a % d \in 0..(d - 1) /\ a = d * (a \div d) + (a % d)
    BY <1>1, DivMod
  <1> DEFINE p == a \div d
  <1> DEFINE s == a % d
  <1>3. p \in Nat /\ s \in 0..(d - 1) /\ d * p + s = d * q + r
    BY <1>2
  <1> HIDE DEF a, p, s
  <1>4. s - r = d * (q - p)
    BY <1>3
  <1>5. CASE q > p
    <2>1. d * (q - p) >= d
      BY <1>3, <1>5
    <2> QED
      BY <1>3, <1>4, <2>1
  <1>6. CASE q < p
    <2>1. d * (q - p) <= 0 - d
      BY <1>3, <1>6
    <2> QED
      BY <1>3, <1>4, <2>1
  <1>7. CASE q = p
    BY <1>3, <1>7
  <1>8. s = r
    BY <1>3, <1>5, <1>6, <1>7
  <1> QED
    BY <1>8 DEF a, s

\* A multiple leaves no rest
LEMMA Multiple ==
    ASSUME NEW q \in Nat, NEW d \in Nat \ {0}
    PROVE  d * q \in Nat /\ (d * q) % d = 0
PROOF
  <1>1. d * q \in Nat /\ 0 \in 0..(d - 1)
    OBVIOUS
  <1>2. (d * q + 0) % d = 0
    BY <1>1, ModOf
  <1> QED
    BY <1>1, <1>2

\* What leaves no rest is a multiple
LEMMA Quotient ==
    ASSUME NEW a \in Nat, NEW d \in Nat \ {0}, a % d = 0
    PROVE  \E q \in Nat : a = d * q
PROOF
  <1>1. a \div d \in Nat /\ a = d * (a \div d) + (a % d)
    BY DivMod
  <1>2. d * (a \div d) \in Nat
    BY <1>1
  <1>3. a = d * (a \div d)
    BY <1>1, <1>2
  <1> QED
    BY <1>1, <1>3

\* Multiples add up to a multiple
LEMMA SumOfMultiples ==
    ASSUME NEW a \in Nat, NEW b \in Nat, NEW d \in Nat \ {0}, a % d = 0, b % d = 0
    PROVE  (a + b) % d = 0
PROOF
  <1>1. PICK p \in Nat : a = d * p
    BY Quotient
  <1>2. PICK q \in Nat : b = d * q
    BY Quotient
  <1>3. a + b = d * (p + q) /\ p + q \in Nat
    BY <1>1, <1>2
  <1>4. (d * (p + q)) % d = 0
    BY <1>3, Multiple
  <1> QED
    BY <1>3, <1>4

\* A multiple of a multiple is one
LEMMA MultipleOfMultiple ==
    ASSUME NEW a \in Nat, NEW b \in Nat \ {0}, NEW c \in Nat \ {0}, a % b = 0, b % c = 0
    PROVE  a % c = 0
PROOF
  <1>1. PICK p \in Nat : a = b * p
    BY Quotient
  <1>2. PICK q \in Nat : b = c * q
    BY Quotient
  <1>3. a = c * (q * p) /\ q * p \in Nat
    BY <1>1, <1>2
  <1>4. (c * (q * p)) % c = 0
    BY <1>3, Multiple
  <1> QED
    BY <1>3, <1>4

\* Between two multiples there is room for the divisor
LEMMA MultiplesApart ==
    ASSUME NEW a \in Nat, NEW b \in Nat, NEW d \in Nat \ {0}, a % d = 0, b % d = 0, a < b
    PROVE  a + d <= b
PROOF
  <1>1. PICK p \in Nat : a = d * p
    BY Quotient
  <1>2. PICK q \in Nat : b = d * q
    BY Quotient
  <1>3. p < q
    BY <1>1, <1>2
  <1>4. d * q >= d * (p + 1)
    BY <1>3
  <1> QED
    BY <1>1, <1>2, <1>4

\* A write that begins at a multiple of its size ends in the same sector
LEMMA RestOfMultiple ==
    ASSUME NEW a \in Nat, NEW s \in Nat \ {0}, NEW w \in Nat \ {0}, a % w = 0, s % w = 0
    PROVE  (a % s) + w <= s
PROOF
  <1>1. PICK u \in Nat : a = w * u
    BY Quotient
  <1>2. PICK t \in Nat : s = w * t
    BY Quotient
  <1> DEFINE q == a \div s
             r == a % s
  <1>3. q \in Nat /\ r \in 0..(s - 1) /\ a = s * q + r
    BY DivMod
  <1>4. r = a % s
    OBVIOUS
  <1> HIDE DEF q, r
  <1>5. t * q \in Nat
    BY <1>3
  <1> DEFINE m == u - t * q
  <1>6. s * q = w * (t * q)
    BY <1>2, <1>3
  <1>7. m \in Int /\ r = w * m
    BY <1>1, <1>3, <1>5, <1>6
  <1>8. r < w * t
    BY <1>2, <1>3
  <1> HIDE DEF m
  <1>9. m + 1 <= t
    BY <1>7, <1>8
  <1>10. w * (m + 1) <= w * t
    BY <1>7, <1>9
  <1>11. w * (m + 1) = w * m + w
    BY <1>7
  <1> QED
    BY <1>2, <1>4, <1>7, <1>10, <1>11

\* The next write begins in the same sector or on the next boundary
LEMMA NextInSector ==
    ASSUME NEW a \in Nat, NEW s \in Nat \ {0}, NEW w \in Nat, (a % s) + w <= s
    PROVE  /\ (a % s) + w < s => (a + w) % s = (a % s) + w
           /\ (a % s) + w = s => (a + w) % s = 0
PROOF
  <1> DEFINE q == a \div s
             r == a % s
  <1>1. q \in Nat /\ r \in 0..(s - 1) /\ a = s * q + r
    BY DivMod
  <1>2. ASSUME r + w < s
        PROVE  (a + w) % s = r + w
    <2>1. a + w = s * q + (r + w) /\ r + w \in 0..(s - 1)
      BY <1>1, <1>2
    <2>2. (s * q + (r + w)) % s = r + w
      BY <1>1, <2>1, ModOf
    <2> QED
      BY <2>1, <2>2
  <1>3. ASSUME r + w = s
        PROVE  (a + w) % s = 0
    <2>1. a + w = s * (q + 1) /\ q + 1 \in Nat
      BY <1>1, <1>3
    <2>2. (s * (q + 1)) % s = 0
      BY <2>1, Multiple
    <2> QED
      BY <2>1, <2>2
  <1> QED
    BY <1>2, <1>3

\* A size rounded up to the next double word
LEMMA RoundedUp ==
    ASSUME NEW len \in Nat
    PROVE  /\ (len + DWord) - (len % DWord) \in Nat
           /\ ((len + DWord) - (len % DWord)) % DWord = 0
           /\ len < (len + DWord) - (len % DWord)
PROOF
  <1>1. DWord \in Nat \ {0}
    BY DfuConstants
  <1> DEFINE q == len \div DWord
             r == len % DWord
  <1>2. q \in Nat /\ r \in 0..(DWord - 1) /\ len = DWord * q + r
    BY <1>1, DivMod
  <1>3. r = len % DWord
    OBVIOUS
  <1> HIDE DEF q, r
  <1>4. (len + DWord) - r = DWord * (q + 1) /\ q + 1 \in Nat
    BY <1>1, <1>2
  <1>5. DWord * (q + 1) \in Nat /\ (DWord * (q + 1)) % DWord = 0
    BY <1>1, <1>4, Multiple
  <1>6. len < (len + DWord) - r
    BY <1>1, <1>2
  <1> QED
    BY <1>3, <1>4, <1>5, <1>6

\* The padding of the last write goes to the next double word, within the buffer
LEMMA PaddedFits ==
    ASSUME NEW len \in Nat
    PROVE  /\ Padded(len) % DWord = 0
           /\ len <= BufferMin => Padded(len) <= BufferSize
PROOF
  <1>1. DWord \in Nat \ {0} /\ WriteSize \in Nat \ {0} /\ BlockMax \in Nat \ {0}
    BY DfuConstants
  <1>2. Padded(len) % DWord = 0
    BY RoundedUp DEF Padded
  <1>3. BufferMin \in Nat
    BY <1>1 DEF BufferMin
  <1>4. BufferSize \in Nat /\ BufferSize % DWord = 0 /\ BufferMin < BufferSize
    BY <1>3, RoundedUp DEF BufferSize
  <1>5. Padded(len) \in Nat /\ Padded(len) < len + DWord
    BY PaddedIs
  <1>6. BufferSize < Padded(len) => BufferSize + DWord <= Padded(len)
    BY <1>1, <1>2, <1>4, <1>5, MultiplesApart
  <1> QED
    BY <1>1, <1>2, <1>3, <1>4, <1>5, <1>6

-----------------------------------------------------------------------------
(* Proofs: a clean upload *)

\* The bytes that were accepted, of all the bytes of the image
LEMMA LoadedBytes ==
    ASSUME DfuInductive, OfImage
    PROVE  /\ image \in Nat \ {0} /\ ImageSize(image) \in Nat \ {0} /\ BytesLoaded \in Nat
           /\ BytesLoaded <= ImageSize(image)
           /\ ImageSize(image) <= count * BlockMax
           /\ IsLast => BytesLoaded = ImageSize(image)
           /\ ~IsLast => BytesLoaded = (number + 1) * BlockMax /\ BytesLoaded < ImageSize(image)
PROOF
  <1>1. /\ image \in Images /\ count = ImageBlocks[image] /\ number < count
        /\ number \in Nat /\ count \in Nat /\ BlockMax \in Nat
    BY DfuConstants DEF DfuInductive, StateTypes, OfImage
  <1>2. /\ ImageSize(image) \in Nat \ {0} /\ ImageSize(image) <= ImageBlocks[image] * BlockMax
        /\ \A k \in 0..(ImageBlocks[image] - 2) : (k + 1) * BlockMax < ImageSize(image)
    BY <1>1, ImageSizeIs
  <1>3. image \in Nat \ {0}
    BY <1>1, DfuConstants
  <1>4. CASE IsLast
    BY <1>1, <1>2, <1>3, <1>4 DEF IsLast, BytesLoaded
  <1>5. CASE ~IsLast
    <2>1. number \in 0..(ImageBlocks[image] - 2)
      BY <1>1, <1>5 DEF IsLast
    <2>2. (number + 1) * BlockMax < ImageSize(image) /\ (number + 1) * BlockMax \in Nat
      BY <1>1, <1>2, <2>1
    <2>3. BytesLoaded = (number + 1) * BlockMax
      BY <1>1, <2>1 DEF BytesLoaded
    <2> QED
      BY <1>1, <1>2, <1>3, <1>5, <2>2, <2>3
  <1> QED
    BY <1>4, <1>5

\* A step that touches neither slot nor dfu_state
LEMMA UploadKept ==
    ASSUME Clean, UNCHANGED <<slot, buf, number, count, offset, phase, full, image, clean, thread>>
    PROVE  Clean'
PROOF
  <1>1. Upload' = Upload
    BY DEF Upload, OfImage, Filled, Buffer, Fitting, SectorsErased, Writing, Open, Erased, SectorEnd,
           BytesLoaded, IsLast, BytesToWrite
  <1>2. Nothing' = Nothing
    BY DEF Nothing
  <1> QED
    BY <1>1, <1>2 DEF Clean

\* The first block of an image is buffered
LEMMA UploadFirst ==
    ASSUME DfuInductive, DfuInductive', NEW g \in Images, FillBuffer(g, 0),
           IF Ready(g, 0) THEN full' = 1 ELSE full' = full
    PROVE  Upload'
PROOF
  <1>0. 0 \in 0..(ImageBlocks[g] - 1)
    BY DfuConstants
  <1>1. /\ g \in Nat \ {0} /\ ImageBlocks[g] \in Nat \ {0}
        /\ BlockSizeOf(g, 0) \in 1..BlockMax
        /\ Block(g, 0) \in Seq(Bytes) /\ Len(Block(g, 0)) = BlockSizeOf(g, 0)
        /\ \A i \in 1..BlockSizeOf(g, 0) : Block(g, 0)[i] = <<g, 0 * BlockMax + i - 1>>
    BY <1>0, BlockBytes
  <1>2. /\ free = 1 /\ number' = 0 /\ count' = ImageBlocks[g] /\ offset' = 0
        /\ phase' = "IN_PROGRESS" /\ image' = g /\ thread' = thread
        /\ buf' = <<>> \o Block(g, 0)
    BY DEF FillBuffer, LoadBlock, HandleBlock, Buffered
  <1>3. buf' = Block(g, 0) /\ Len(buf') = BlockSizeOf(g, 0)
    BY <1>1, <1>2, ConcatEmptySeq
  <1>4. thread.at \in {"wait", "call"} /\ full = 0
    BY <1>2 DEF DfuInductive, Handshake
  <1>5. BlockMax \in Nat \ {0} /\ WriteSize \in Nat \ {0} /\ BlockMax <= WriteSize /\ Sector \in Nat \ {0}
        /\ SlotSize \in Nat
    BY DfuConstants
  <1>6. OfImage'
    BY <1>1, <1>2 DEF OfImage
  <1>7. Open' /\ thread'.at \in {"wait", "call"}
    BY <1>2, <1>4 DEF Open
  <1>8. Filled'
    <2>1. \A i \in 1..Len(buf') : buf'[i] = <<image', offset' + i - 1>>
      <3>1. \A i \in 1..BlockSizeOf(g, 0) : 0 * BlockMax + i - 1 = 0 + i - 1
        BY <1>1, <1>5
      <3> QED
        BY <1>1, <1>2, <1>3, <3>1
    <2>2. offset' + Len(buf') = BytesLoaded'
      <3>1. CASE ImageBlocks[g] = 1
        <4>1. Len(buf') = LastSize[g] /\ LastSize[g] \in Nat
          BY <1>3, <3>1, DfuConstants DEF BlockSizeOf
        <4>2. ImageSize(g) = LastSize[g]
          BY <1>5, <3>1, <4>1 DEF ImageSize
        <4>3. BytesLoaded' = ImageSize(g)
          BY <1>2, <3>1 DEF BytesLoaded
        <4> QED
          BY <1>2, <4>1, <4>2, <4>3
      <3>2. CASE ImageBlocks[g] # 1
        <4>1. Len(buf') = BlockMax
          BY <1>1, <1>3, <3>2 DEF BlockSizeOf
        <4>2. BytesLoaded' = (0 + 1) * BlockMax
          BY <1>1, <1>2, <3>2 DEF BytesLoaded
        <4> QED
          BY <1>2, <1>5, <4>1, <4>2
      <3> QED
        BY <3>1, <3>2
    <2>3. offset' <= SlotSize /\ (\A p \in 0..(offset' - 1) : FALSE)
      BY <1>2, <1>5
    <2> QED
      BY <1>7, <2>1, <2>2, <2>3 DEF Filled
  <1>9. Buffer'
    <2>1. Len(buf') < WriteSize + BlockMax
      BY <1>1, <1>3, <1>5
    <2>2. Len(Buffered(0)) = 0
      BY DEF Buffered
    <2>3. full' = 0 => Len(buf') < WriteSize
      BY <1>1, <1>3, <1>5, <2>2 DEF Ready
    <2>4. full' = 1 => Len(buf') >= WriteSize \/ IsLast'
      BY <1>1, <1>2, <1>3, <1>4, <1>5, <2>2 DEF Ready, IsLast
    <2>5. offset' % WriteSize = 0
      <3>1. (WriteSize * 0) % WriteSize = 0
        BY <1>5, Multiple
      <3> QED
        BY <1>2, <1>5, <3>1
    <2> QED
      BY <1>7, <2>1, <2>3, <2>4, <2>5 DEF Buffer
  <1>10. Fitting'
    BY <1>2, <1>7 DEF Fitting
  <1>11. SectorsErased'
    <2>1. offset' % Sector = 0
      <3>1. (Sector * 0) % Sector = 0
        BY <1>5, Multiple
      <3> QED
        BY <1>2, <1>5, <3>1
    <2> QED
      BY <1>7, <2>1 DEF SectorsErased
  <1>12. Writing'
    BY <1>7 DEF Writing
  <1> QED
    BY <1>6, <1>8, <1>9, <1>10, <1>11, <1>12 DEF Upload

\* A further block finds dfu_state in the middle of its image, with room for it
LEMMA NextBlock ==
    ASSUME DfuInductive, Upload, NEW g \in Images, NEW k \in 0..(ImageBlocks[g] - 1),
           k # 0, LoadBlock(g, k), g = image
    PROVE  /\ thread.at \in {"wait", "call"} /\ full = 0 /\ phase = "IN_PROGRESS" /\ Open
           /\ k = number + 1 /\ ~IsLast /\ Len(buf) \in Nat /\ Len(buf) < WriteSize
           /\ offset + Len(buf) = k * BlockMax /\ offset \in Nat
           /\ HasRoom(g, k)
PROOF
  <1>1. free = 1 /\ (k = 0 \/ k = number + 1)
    BY DEF LoadBlock, ParamsValid
  <1>2. thread.at \in {"wait", "call"} /\ full = 0
    BY <1>1 DEF DfuInductive, Handshake
  <1>3. /\ number \in Nat /\ offset \in Nat /\ buf \in Seq(Bytes) /\ count = ImageBlocks[g]
        /\ phase \in {"IN_PROGRESS", "FINISHED_VERIFY"} /\ count \in Nat
        /\ phase = "FINISHED_VERIFY" => number = count - 1
    BY DEF DfuInductive, StateTypes, Upload, OfImage
  <1>4. k = number + 1 /\ number # count - 1
    BY <1>1, <1>3
  <1>5. phase = "IN_PROGRESS" /\ ~IsLast /\ Open
    BY <1>3, <1>4 DEF IsLast, Open
  <1>6. Len(buf) \in Nat /\ Len(buf) < WriteSize
    BY <1>2, <1>3, <1>5 DEF Upload, Buffer
  <1>7. offset + Len(buf) = BytesLoaded
    BY <1>5 DEF Upload, Filled
  <1>8. BytesLoaded = (number + 1) * BlockMax
    BY <1>5, LoadedBytes DEF Upload
  <1>9. HasRoom(g, k)
    <2>1. BlockSizeOf(g, k) \in 1..BlockMax
      BY BlockBytes
    <2>2. WriteSize \in Nat \ {0} /\ BlockMax \in Nat \ {0}
      BY DfuConstants
    <2>3. BufferMin \in Nat
      BY <2>2 DEF BufferMin
    <2>4. BufferMin < BufferSize /\ BufferSize \in Nat
      BY <2>3, RoundedUp DEF BufferSize
    <2>5. Len(Buffered(k)) = Len(buf)
      BY DEF Buffered
    <2> QED
      BY <1>6, <2>1, <2>2, <2>3, <2>4, <2>5 DEF HasRoom, BufferMin
  <1> QED
    BY <1>2, <1>3, <1>4, <1>5, <1>6, <1>7, <1>8, <1>9

\* A further block is buffered
LEMMA UploadNext ==
    ASSUME DfuInductive, DfuInductive', Upload, NEW g \in Images, NEW k \in 0..(ImageBlocks[g] - 1),
           k # 0, FillBuffer(g, k), g = image,
           IF Ready(g, k) THEN full' = 1 ELSE full' = full
    PROVE  Upload'
PROOF
  <1>0. LoadBlock(g, k)
    BY DEF FillBuffer
  <1>1. /\ thread.at \in {"wait", "call"} /\ full = 0 /\ phase = "IN_PROGRESS" /\ Open
        /\ k = number + 1 /\ ~IsLast /\ Len(buf) \in Nat /\ Len(buf) < WriteSize
        /\ offset + Len(buf) = k * BlockMax /\ offset \in Nat
    BY <1>0, NextBlock
  <1>2. /\ number' = k /\ UNCHANGED <<count, offset, phase, image, thread, slot>>
        /\ buf' = buf \o Block(g, k)
    BY DEF FillBuffer, LoadBlock, HandleBlock, Buffered
  <1>3. /\ g \in Nat \ {0} /\ k \in Nat /\ ImageBlocks[g] \in Nat \ {0}
        /\ BlockSizeOf(g, k) \in 1..BlockMax
        /\ Block(g, k) \in Seq(Bytes) /\ Len(Block(g, k)) = BlockSizeOf(g, k)
        /\ \A i \in 1..BlockSizeOf(g, k) : Block(g, k)[i] = <<g, k * BlockMax + i - 1>>
    BY BlockBytes
  <1>4. BlockMax \in Nat \ {0} /\ WriteSize \in Nat \ {0} /\ BlockMax <= WriteSize
        /\ k * BlockMax \in Nat
    BY <1>3, DfuConstants
  <1>5. buf \in Seq(Bytes) /\ number \in Nat /\ count \in Nat
        /\ count = ImageBlocks[g] /\ image = g
    BY DEF DfuInductive, StateTypes, Upload, OfImage
  <1>6. /\ Len(buf') = Len(buf) + BlockSizeOf(g, k)
        /\ \A i \in 1..Len(buf) : buf'[i] = buf[i]
        /\ \A i \in 1..BlockSizeOf(g, k) : buf'[Len(buf) + i] = Block(g, k)[i]
    <2> DEFINE t == Block(g, k)
    <2>1. t \in Seq(Bytes) /\ Len(t) = BlockSizeOf(g, k) /\ buf' = buf \o t
      BY <1>2, <1>3
    <2> HIDE DEF t
    <2>2. Len(buf') = Len(buf) + Len(t) /\ (\A i \in 1..Len(buf) + Len(t) :
             buf'[i] = IF i <= Len(buf) THEN buf[i] ELSE t[i - Len(buf)])
      BY <1>5, <2>1, ConcatProperties
    <2>3. \A i \in 1..Len(buf) : buf'[i] = buf[i]
      BY <1>1, <1>3, <2>1, <2>2
    <2>4. ASSUME NEW i \in 1..BlockSizeOf(g, k)
          PROVE  buf'[Len(buf) + i] = t[i]
      <3>0. Len(buf) \in Nat /\ BlockSizeOf(g, k) \in Nat /\ Len(t) = BlockSizeOf(g, k)
        BY <1>1, <1>3, <1>4, <2>1
      <3>1. Len(buf) + i \in 1..(Len(buf) + Len(t)) /\ ~(Len(buf) + i <= Len(buf))
            /\ (Len(buf) + i) - Len(buf) = i
        BY <3>0
      <3> QED
        BY <2>2, <3>1
    <2> QED
      BY <2>1, <2>2, <2>3, <2>4 DEF t
  <1>7. OfImage'
    BY <1>1, <1>2, <1>3, <1>5 DEF Upload, OfImage
  <1>8. Open' /\ thread'.at \in {"wait", "call"}
    BY <1>1, <1>2 DEF Open
  <1>9. Filled'
    <2>1. ASSUME NEW i \in 1..Len(buf')
          PROVE  buf'[i] = <<image, offset + i - 1>>
      <3>1. CASE i <= Len(buf)
        <4>1. i \in 1..Len(buf)
          BY <1>1, <1>3, <1>6, <3>1
        <4> QED
          BY <1>6, <4>1 DEF Upload, Filled
      <3>2. CASE ~(i <= Len(buf))
        <4> DEFINE j == i - Len(buf)
        <4>1. j \in 1..BlockSizeOf(g, k) /\ Len(buf) + j = i
          BY <1>1, <1>3, <1>4, <1>6, <3>2, SMTT(30)
        <4>2. k * BlockMax + j - 1 = offset + i - 1
          BY <1>1, <1>3, <1>4, <1>6, <4>1
        <4> HIDE DEF j
        <4>3. buf'[Len(buf) + j] = <<g, k * BlockMax + j - 1>>
          BY <1>3, <1>6, <4>1
        <4> QED
          BY <1>5, <4>1, <4>2, <4>3
      <3> QED
        BY <3>1, <3>2
    <2>2. offset' + Len(buf') = BytesLoaded'
      <3>0. offset' + Len(buf') = k * BlockMax + BlockSizeOf(g, k)
        <4> DEFINE start == k * BlockMax
                   size == BlockSizeOf(g, k)
        <4>1. /\ offset + Len(buf) = start /\ Len(buf') = Len(buf) + size
              /\ offset \in Nat /\ Len(buf) \in Nat /\ size \in Nat /\ offset' = offset
          BY <1>1, <1>2, <1>3, <1>4, <1>6
        <4> HIDE DEF start, size
        <4>2. offset' + Len(buf') = start + size
          BY <4>1
        <4> QED
          BY <4>2 DEF start, size
      <3>1. CASE k + 1 = ImageBlocks[g]
        <4>1. BlockSizeOf(g, k) = LastSize[g]
          BY <3>1 DEF BlockSizeOf
        <4>2. ImageBlocks[g] - 1 = k
          <5>1. k \in Nat /\ ImageBlocks[g] \in Nat
            BY <1>3
          <5> QED
            BY <3>1, <5>1
        <4>3. ImageSize(g) = k * BlockMax + LastSize[g]
          BY <4>2 DEF ImageSize
        <4>4. BytesLoaded' = ImageSize(g)
          BY <1>2, <1>3, <1>5, <3>1 DEF BytesLoaded
        <4> QED
          BY <3>0, <4>1, <4>3, <4>4
      <3>2. CASE k + 1 # ImageBlocks[g]
        <4>1. BlockSizeOf(g, k) = BlockMax
          BY <3>2 DEF BlockSizeOf
        <4>2. BytesLoaded' = (k + 1) * BlockMax
          BY <1>2, <1>3, <1>5, <3>2 DEF BytesLoaded
        <4>3. (k + 1) * BlockMax = k * BlockMax + BlockMax
          BY <1>3, <1>4
        <4> QED
          BY <3>0, <4>1, <4>2, <4>3
      <3> QED
        BY <3>1, <3>2
    <2>3. /\ offset <= SlotSize
          /\ \A p \in 0..(offset - 1) :
                slot[p] = IF p < ImageSize(image) THEN <<image, p>> ELSE ErasedByte
      BY DEF Upload, Filled
    <2> QED
      BY <1>2, <1>8, <2>1, <2>2, <2>3 DEF Filled
  <1>10. Buffer'
    <2>1. Len(buf') < WriteSize + BlockMax
      BY <1>1, <1>3, <1>4, <1>6
    <2>2. Len(Buffered(k)) = Len(buf)
      BY DEF Buffered
    <2>3. full' = 0 => Len(buf') < WriteSize
      BY <1>1, <1>3, <1>4, <1>6, <2>2 DEF Ready
    <2>4. full' = 1 => Len(buf') >= WriteSize \/ IsLast'
      BY <1>1, <1>2, <1>6, <2>2 DEF Ready, IsLast
    <2>5. offset % WriteSize = 0
      BY <1>1 DEF Upload, Buffer
    <2> QED
      BY <1>2, <1>8, <2>1, <2>3, <2>4, <2>5 DEF Buffer
  <1>11. Fitting' /\ SectorsErased'
    <2>1. Fitting /\ SectorsErased
      BY DEF Upload
    <2>2. Fitting'
      BY <1>2, <2>1 DEF Fitting
    <2>3. SectorsErased'
      BY <1>1, <1>2, <2>1 DEF SectorsErased, Erased, SectorEnd, Open
    <2> QED
      BY <2>2, <2>3
  <1>12. Writing'
    BY <1>8 DEF Writing
  <1> QED
    BY <1>7, <1>9, <1>10, <1>11, <1>12 DEF Upload

\* The handler of a block
LEMMA UploadLoad ==
    ASSUME UploadInductive, DfuInductive',
           NEW g \in Images, NEW k \in 0..(ImageBlocks[g] - 1), DfuLoad(g, k)
    PROVE  Clean'
PROOF
  <1>0. DfuInductive /\ Clean
    BY DEF UploadInductive
  <1>1. CASE DfuLoadRefused(g, k) \/ DfuLoadBusy(g, k)
    BY <1>0, <1>1, UploadKept DEF DfuLoadRefused, DfuLoadBusy, HandleBlock, state
  <1>2. ASSUME FillBuffer(g, k), IF Ready(g, k) THEN full' = 1 ELSE full' = full
        PROVE  Clean'
    <2>1. CASE k = 0
      <3>1. Upload'
        BY <1>0, <1>2, <2>1, UploadFirst
      <3>2. clean' = TRUE /\ count' = ImageBlocks[g]
        BY <1>2, <2>1 DEF FillBuffer, LoadBlock
      <3>3. count' # 0
        BY <3>2, DfuConstants
      <3> QED
        BY <3>1, <3>2, <3>3 DEF Clean
    <2>2. CASE k # 0
      <3>1. clean' = (clean /\ g = image) /\ count' = count /\ (count # 0 \/ k = 0)
        BY <1>2, <2>2 DEF FillBuffer, LoadBlock, ParamsValid
      <3>2. clean' \in BOOLEAN
        BY <3>1
      <3>3. ASSUME clean' = TRUE
            PROVE  Upload'
        <4>1. clean = TRUE /\ g = image
          BY <1>0, <3>1, <3>3 DEF Clean
        <4>2. Upload
          BY <1>0, <2>2, <3>1, <4>1 DEF Clean
        <4> QED
          BY <1>0, <1>2, <2>2, <4>1, <4>2, UploadNext
      <3> QED
        BY <2>2, <3>1, <3>2, <3>3 DEF Clean
    <2> QED
      BY <2>1, <2>2
  <1>3. CASE DfuLoadBuffered(g, k)
    BY <1>2, <1>3 DEF DfuLoadBuffered
  <1>4. CASE DfuLoadQueued(g, k)
    BY <1>2, <1>4 DEF DfuLoadQueued
  <1>5. CASE DfuLoadNoMem(g, k)
    <2>0. LoadBlock(g, k) /\ ~HasRoom(g, k)
      BY <1>5 DEF DfuLoadNoMem
    <2>1. k # 0
      <3>1. ASSUME k = 0
            PROVE  HasRoom(g, k)
        <4>1. BlockSizeOf(g, k) \in 1..BlockMax
          BY BlockBytes
        <4>2. WriteSize \in Nat \ {0} /\ BlockMax \in Nat \ {0}
          BY DfuConstants
        <4>3. BufferMin \in Nat
          BY <4>2 DEF BufferMin
        <4>4. BufferMin < BufferSize /\ BufferSize \in Nat
          BY <4>3, RoundedUp DEF BufferSize
        <4>5. Len(Buffered(k)) = 0
          BY <3>1 DEF Buffered
        <4> QED
          BY <4>1, <4>2, <4>3, <4>4, <4>5 DEF HasRoom, BufferMin
      <3> QED
        BY <2>0, <3>1
    <2>2. clean' = (clean /\ g = image) /\ (count # 0 \/ k = 0)
      BY <2>0, <2>1 DEF LoadBlock, ParamsValid
    <2>3. clean' # TRUE
      <3>1. ASSUME clean' = TRUE
            PROVE  FALSE
        <4>1. clean = TRUE /\ g = image
          BY <1>0, <2>2, <3>1 DEF Clean
        <4>2. Upload
          BY <1>0, <2>1, <2>2, <4>1 DEF Clean
        <4> QED
          BY <1>0, <2>0, <2>1, <4>1, <4>2, NextBlock
      <3> QED
        BY <3>1
    <2>4. clean' \in BOOLEAN
      BY <2>2
    <2> QED
      BY <2>3, <2>4 DEF Clean
  <1> QED
    BY <1>1, <1>3, <1>4, <1>5 DEF DfuLoad

\* The handlers of a check and of an activation
LEMMA UploadRequests ==
    ASSUME UploadInductive,
           (\E g \in Images : HandleCheck(g)) \/ DfuSecondaryCheckAsync \/ HandleActivate
    PROVE  Clean'
PROOF
  <1>0. DfuInductive /\ Clean
    BY DEF UploadInductive
  <1>1. CASE (\E g \in Images : HandleCheck(g)) \/ CheckTooEarly \/ CheckTimesOut
    BY <1>0, <1>1, UploadKept DEF HandleCheck, CheckTooEarly, CheckTimesOut, state
  <1>2. CASE CheckQueued
    <2>1. /\ phase = "FINISHED_VERIFY" /\ free = 1
          /\ UNCHANGED <<slot, buf, number, count, offset, phase, image, clean, thread>>
      BY <1>2 DEF CheckQueued, history
    <2>2. thread.at \in {"wait", "call"}
      BY <1>0, <2>1 DEF DfuInductive, Handshake
    <2>3. Upload => Upload'
      <3>1. Buffer'
        BY <2>1, <2>2 DEF Buffer
      <3> QED
        BY <2>1, <3>1 DEF Upload, OfImage, Filled, Fitting, SectorsErased, Writing, Open, Erased,
           SectorEnd, BytesLoaded, IsLast, BytesToWrite
    <2>4. ~Nothing
      BY <2>1 DEF Nothing
    <2> QED
      BY <1>0, <2>1, <2>3, <2>4 DEF Clean
  <1>3. CASE HandleActivate
    <2>1. CASE clean' = FALSE
      BY <2>1 DEF Clean
    <2>2. CASE UNCHANGED state /\ UNCHANGED clean
      BY <1>0, <1>3, <2>2, UploadKept DEF HandleActivate, state
    <2> QED
      BY <1>3, <2>1, <2>2 DEF HandleActivate, FlashFault
  <1> QED
    BY <1>1, <1>2, <1>3 DEF DfuSecondaryCheckAsync

\* Steps of the thread that touch neither slot nor dfu_state
LEMMA UploadMoves ==
    ASSUME UploadInductive,
           ThreadWakes \/ CheckPage \/ CheckEnds \/ ThreadGives \/ ThreadCalls
    PROVE  Clean'
PROOF
  <1>0. DfuInductive /\ Clean
    BY DEF UploadInductive
  <1>1. /\ thread \in [at : Points, err : Errors, len : Nat, pos : Nat] /\ full \in {0, 1}
        /\ full = 1 => thread.at \in {"wait", "call"}
        /\ phase \in {"IN_PROGRESS", "FINISHED_VERIFY"}
    BY <1>0 DEF DfuInductive, ThreadTypes, Handshake, StateTypes
  <1>2. UNCHANGED <<slot, buf, number, count, offset, phase, image, clean>>
    BY DEF ThreadWakes, CheckPage, CheckEnds, ThreadGives, ThreadCalls, state, history
  <1>3. thread.at \in {"wait", "check", "give", "call"}
    BY DEF ThreadWakes, CheckPage, CheckEnds, ThreadGives, ThreadCalls
  <1>4. ASSUME thread'.at \in {"wait", "begin", "check", "give", "call"},
               Upload => Buffer' /\ Writing', Nothing => Nothing'
        PROVE  Clean'
    <2>1. Open' = Open
      BY <1>2, <1>3, <1>4 DEF Open
    <2>2. OfImage' = OfImage
      BY <1>2 DEF OfImage
    <2>3. Filled' = Filled
      BY <1>2, <2>1 DEF Filled, BytesLoaded
    <2>4. Fitting' = Fitting
      BY <1>2, <1>3, <1>4 DEF Fitting
    <2>5. SectorsErased' = SectorsErased
      BY <1>2, <1>3, <1>4, <2>1 DEF SectorsErased, Erased, SectorEnd
    <2>6. Upload => Upload'
      BY <1>4, <2>2, <2>3, <2>4, <2>5 DEF Upload
    <2> QED
      BY <1>0, <1>2, <1>4, <2>6 DEF Clean
  <1>5. CASE ThreadWakes
    <2>1. /\ thread.at = "wait" /\ full = 1 /\ full' = 0
          /\ thread'.at = IF phase = "IN_PROGRESS" THEN "begin" ELSE "check"
          /\ thread'.err = "SUCCESS"
      BY <1>5 DEF ThreadWakes, Waiting
    <2>2. ~Nothing
      BY <2>1 DEF Nothing
    <2>3. Upload => Buffer'
      BY <1>2, <2>1 DEF Upload, Buffer, IsLast
    <2>4. Writing'
      BY <1>1, <1>2, <2>1 DEF Writing
    <2> QED
      BY <1>4, <2>1, <2>2, <2>3, <2>4
  <1>6. CASE CheckPage
    <2>1. /\ thread.at = "check" /\ thread'.at = "check" /\ full' = full
          /\ thread'.err \in {thread.err, "INVALID_STATE"}
      BY <1>1, <1>6 DEF CheckPage
    <2>2. ~Nothing
      BY <2>1 DEF Nothing
    <2>3. Upload => Buffer'
      BY <1>2, <2>1 DEF Upload, Buffer, Writing, IsLast
    <2>4. Upload => Writing'
      BY <1>2, <2>1 DEF Upload, Writing
    <2> QED
      BY <1>4, <2>1, <2>2, <2>3, <2>4
  <1>7. CASE CheckEnds
    <2>1. /\ thread.at = "check" /\ thread'.at = "give" /\ full' = full
          /\ thread'.err \in {thread.err, "INVALID_STATE"}
      BY <1>1, <1>7 DEF CheckEnds, ThreadGoesTo
    <2>2. ~Nothing
      BY <2>1 DEF Nothing
    <2>3. Upload => Buffer'
      BY <1>2, <2>1 DEF Upload, Buffer, Writing, IsLast
    <2>4. Upload => Writing'
      BY <1>2, <2>1 DEF Upload, Writing
    <2> QED
      BY <1>4, <2>1, <2>2, <2>3, <2>4
  <1>8. CASE ThreadGives
    <2>1. thread.at = "give" /\ thread'.at = "call" /\ full' = full /\ full = 0
      BY <1>1, <1>8 DEF ThreadGives, ThreadGoesTo
    <2>2. Nothing => Nothing'
      BY <1>2, <2>1 DEF Nothing
    <2>3. Upload => Buffer'
      BY <1>2, <2>1 DEF Upload, Buffer, IsLast
    <2>4. Writing'
      BY <2>1 DEF Writing
    <2> QED
      BY <1>4, <2>1, <2>2, <2>3, <2>4
  <1>9. CASE ThreadCalls
    <2>1. thread.at = "call" /\ thread'.at = "wait" /\ full' = full
      BY <1>1, <1>9 DEF ThreadCalls, Waiting
    <2>2. Nothing => Nothing'
      BY <1>2, <2>1 DEF Nothing
    <2>3. Upload => Buffer'
      BY <1>2, <2>1 DEF Upload, Buffer, IsLast
    <2>4. Writing'
      BY <2>1 DEF Writing
    <2> QED
      BY <1>4, <2>1, <2>2, <2>3, <2>4
  <1> QED
    BY <1>5, <1>6, <1>7, <1>8, <1>9

\* The thread looks at what it has to write
LEMMA UploadBegins ==
    ASSUME UploadInductive, ImageTooLarge \/ ThreadBegins
    PROVE  Clean'
PROOF
  <1>0. DfuInductive /\ Clean
    BY DEF UploadInductive
  <1>1. thread \in [at : Points, err : Errors, len : Nat, pos : Nat] /\ full = 0 /\ thread.at = "begin"
    BY <1>0 DEF DfuInductive, ThreadTypes, Handshake, ImageTooLarge, ThreadBegins
  <1>2. clean' = clean
    BY DEF ImageTooLarge, ThreadBegins, history
  <1>3. clean = TRUE => count # 0 /\ Upload
    BY <1>0, <1>1 DEF Clean, Nothing
  <1>4. CASE ImageTooLarge
    <2>1. /\ count' = 0 /\ phase' = "IN_PROGRESS" /\ full' = full
          /\ thread'.at = "give" /\ thread'.err = "INVALID_PARAM"
      BY <1>1, <1>4 DEF ImageTooLarge, ClearState, ThreadGoesTo
    <2>2. Nothing'
      BY <1>1, <2>1 DEF Nothing
    <2> QED
      BY <1>0, <1>2, <2>1, <2>2 DEF Clean
  <1>5. CASE ThreadBegins
    <2>1. /\ ~TooLarge /\ thread'.at = "erase" /\ thread'.len = BytesToWrite
          /\ phase' = IF IsLast THEN "FINISHED_VERIFY" ELSE phase
          /\ UNCHANGED <<slot, buf, number, count, offset, full, image>>
      BY <1>1, <1>5 DEF ThreadBegins, history
    <2>2. IsLast' = IsLast /\ BytesToWrite' = BytesToWrite /\ BytesLoaded' = BytesLoaded
          /\ SectorEnd' = SectorEnd
      BY <2>1 DEF IsLast, BytesToWrite, BytesLoaded, SectorEnd
    <2>3. ASSUME Upload
          PROVE  Upload'
      <3>1. phase = "IN_PROGRESS"
        BY <1>1, <2>3 DEF Upload, Writing
      <3>2. Open /\ Open'
        BY <2>1, <3>1 DEF Open
      <3>3. OfImage'
        BY <2>1, <2>3, <3>1 DEF Upload, OfImage, IsLast
      <3>4. Filled'
        BY <2>1, <2>2, <2>3, <3>2 DEF Upload, Filled
      <3>5. Buffer'
        BY <1>1, <2>1, <2>2, <2>3, <3>1 DEF Upload, Buffer
      <3>6. Fitting'
        <4>1. offset \in Nat /\ count * BlockMax \in Nat /\ SlotSize \in Nat
          BY <1>0, DfuConstants DEF DfuInductive, StateTypes
        <4> QED
          BY <2>1, <2>3, <4>1 DEF Upload, Fitting, TooLarge
      <3>7. SectorsErased'
        BY <2>1, <2>2, <2>3, <3>2 DEF Upload, SectorsErased, Erased
      <3>8. Writing'
        BY <2>1, <2>2, <3>1 DEF Writing
      <3> QED
        BY <3>3, <3>4, <3>5, <3>6, <3>7, <3>8 DEF Upload
    <2> QED
      BY <1>0, <1>2, <1>3, <2>1, <2>3 DEF Clean
  <1> QED
    BY <1>4, <1>5

\* What is to be written fits into a sector; a write of DFU_BLOCKS_WRITE_SIZE
\* does not cross the end of one
LEMMA WriteFits ==
    ASSUME DfuInductive, Upload, thread.at \in {"erase", "write"}
    PROVE  /\ thread.len = BytesToWrite /\ thread.len \in Nat /\ Len(buf) \in Nat /\ offset \in Nat
           /\ thread.len <= Sector
           /\ offset % Sector \in 0..(Sector - 1)
           /\ (offset % Sector) + WriteSize <= Sector
           /\ offset + Len(buf) = BytesLoaded
           /\ IsLast => phase = "FINISHED_VERIFY" /\ Len(buf) <= thread.len /\ thread.len = Padded(Len(buf))
           /\ ~IsLast => /\ phase = "IN_PROGRESS" /\ thread.len = WriteSize
                         /\ WriteSize <= Len(buf) /\ Len(buf) < WriteSize + BlockMax
           /\ offset + thread.len <= SlotSize
           /\ offset % WriteSize = 0
PROOF
  <1>1. /\ thread.len \in Nat /\ buf \in Seq(Bytes) /\ offset \in Nat /\ Len(buf) \in Nat
        /\ count \in Nat /\ phase \in {"IN_PROGRESS", "FINISHED_VERIFY"}
    BY DEF DfuInductive, ThreadTypes, StateTypes
  <1>2. /\ thread.len = BytesToWrite /\ (phase = "FINISHED_VERIFY" <=> IsLast) /\ Open
        /\ Len(buf) < WriteSize + BlockMax /\ (Len(buf) >= WriteSize \/ IsLast)
        /\ offset % WriteSize = 0
        /\ offset + Len(buf) = BytesLoaded /\ count * BlockMax <= SlotSize
    BY DEF Upload, Writing, Buffer, Fitting, Filled, Open
  <1>3. /\ WriteSize \in Nat \ {0} /\ Sector \in Nat \ {0} /\ BlockMax \in Nat \ {0} /\ DWord \in Nat \ {0}
        /\ SlotSize \in Nat \ {0} /\ Sector % WriteSize = 0 /\ WriteSize % DWord = 0
        /\ SlotSize % Sector = 0 /\ BufferSize <= Sector
    BY DfuConstants
  <1>4. /\ BytesLoaded \in Nat /\ BytesLoaded <= SlotSize /\ (IsLast => BytesLoaded = ImageSize(image))
    <2>1. /\ BytesLoaded \in Nat /\ BytesLoaded <= ImageSize(image) /\ ImageSize(image) \in Nat
          /\ ImageSize(image) <= count * BlockMax /\ (IsLast => BytesLoaded = ImageSize(image))
      BY LoadedBytes DEF Upload
    <2>2. count * BlockMax \in Nat
      BY <1>1, <1>3
    <2> QED
      BY <1>2, <1>3, <2>1, <2>2
  <1>5. (offset % Sector) + WriteSize <= Sector
    BY <1>1, <1>2, <1>3, RestOfMultiple
  <1>6. offset % Sector \in 0..(Sector - 1)
    BY <1>1, <1>3, DivMod
  <1>7. WriteSize <= Sector
    BY <1>3, <1>5, <1>6
  <1>8. CASE IsLast
    <2>1. thread.len = Padded(Len(buf))
      BY <1>2, <1>8 DEF BytesToWrite
    <2>2. Padded(Len(buf)) \in Nat /\ Len(buf) <= Padded(Len(buf))
          /\ Padded(Len(buf)) < Len(buf) + DWord
      BY <1>1, PaddedIs
    <2>3. /\ Padded(Len(buf)) % DWord = 0
          /\ Len(buf) <= BufferMin => Padded(Len(buf)) <= BufferSize
      BY <1>1, PaddedFits
    <2>4. Len(buf) <= BufferMin
      BY <1>1, <1>2, <1>3 DEF BufferMin
    <2>5. BufferSize \in Nat
      <3>1. BufferMin \in Nat
        BY <1>3 DEF BufferMin
      <3> QED
        BY <3>1, RoundedUp DEF BufferSize
    <2>6. thread.len <= Sector
      BY <1>3, <2>1, <2>2, <2>3, <2>4, <2>5
    <2>7. offset + Padded(Len(buf)) <= SlotSize
      <3>1. offset % DWord = 0
        BY <1>1, <1>2, <1>3, MultipleOfMultiple
      <3>2. (offset + Padded(Len(buf))) % DWord = 0
        BY <1>1, <1>3, <2>2, <2>3, <3>1, SumOfMultiples
      <3>3. Sector % DWord = 0
        BY <1>3, MultipleOfMultiple
      <3>4. SlotSize % DWord = 0
        BY <1>3, <3>3, MultipleOfMultiple
      <3>5. offset + Padded(Len(buf)) \in Nat
        BY <1>1, <2>2
      <3>6. SlotSize < offset + Padded(Len(buf)) => SlotSize + DWord <= offset + Padded(Len(buf))
        BY <1>3, <3>2, <3>4, <3>5, MultiplesApart
      <3>7. offset + Padded(Len(buf)) < SlotSize + DWord
        BY <1>1, <1>2, <1>3, <1>4, <2>2
      <3> QED
        BY <1>3, <3>5, <3>6, <3>7
    <2> QED
      BY <1>1, <1>2, <1>5, <1>6, <1>8, <2>1, <2>2, <2>6, <2>7
  <1>9. CASE ~IsLast
    <2>1. thread.len = WriteSize /\ Len(buf) >= WriteSize /\ phase = "IN_PROGRESS"
      BY <1>1, <1>2, <1>9 DEF BytesToWrite
    <2>2. offset + WriteSize <= SlotSize
      BY <1>1, <1>2, <1>3, <1>4, <2>1
    <2> QED
      BY <1>1, <1>2, <1>3, <1>5, <1>6, <1>7, <1>9, <2>1, <2>2
  <1> QED
    BY <1>8, <1>9

\* The sector is erased where the write begins, and the next one where it ends there
LEMMA UploadErases ==
    ASSUME UploadInductive, EraseSector
    PROVE  Clean'
PROOF
  <1>0. DfuInductive /\ Clean
    BY DEF UploadInductive
  <1>1. /\ thread \in [at : Points, err : Errors, len : Nat, pos : Nat]
        /\ slot \in [0..(SlotSize - 1) -> Bytes] /\ Sector \in Nat \ {0} /\ SlotSize \in Nat \ {0}
        /\ WriteSize \in Nat \ {0}
    BY <1>0, DfuConstants DEF DfuInductive, ThreadTypes
  <1>2. /\ thread.at = "erase" /\ thread'.at = "write" /\ thread'.len = thread.len
        /\ UNCHANGED <<buf, number, count, offset, phase, full, image, clean>>
    BY <1>1 DEF EraseSector, ThreadGoesTo, state, history
  <1>3. clean = TRUE => count # 0 /\ Upload
    BY <1>0, <1>2 DEF Clean, Nothing
  <1>4. IsLast' = IsLast /\ BytesToWrite' = BytesToWrite /\ BytesLoaded' = BytesLoaded
        /\ SectorEnd' = SectorEnd
    BY <1>2 DEF IsLast, BytesToWrite, BytesLoaded, SectorEnd
  <1>5. \A p \in 0..(SlotSize - 1) :
           slot'[p] = IF NeedsErase(thread.len) /\ p \in EraseFrom..(EraseFrom + Sector - 1)
                      THEN ErasedByte ELSE slot[p]
    BY DEF EraseSector
  <1>6. ASSUME Upload
        PROVE  Upload'
    <2>1. /\ thread.len = BytesToWrite /\ thread.len \in Nat /\ offset \in Nat
          /\ thread.len <= Sector
          /\ offset % Sector \in 0..(Sector - 1)
          /\ (offset % Sector) + WriteSize <= Sector
          /\ offset + thread.len <= SlotSize
      BY <1>0, <1>2, <1>6, WriteFits
    <2> DEFINE r == offset % Sector
    <2>2. /\ r \in 0..(Sector - 1) /\ r + WriteSize <= Sector
          /\ SectorEnd = (offset - r) + Sector
          /\ EraseFrom = IF r = 0 THEN offset ELSE (offset - r) + Sector
          /\ NeedsErase(thread.len) <=> (r = 0 \/ (thread.len > WriteSize /\ r + thread.len > Sector))
      BY <2>1 DEF SectorEnd, EraseFrom, NeedsErase
    <2>3. Open /\ Open'
      BY <1>2 DEF Open
    <2>4. r # 0 => Erased(offset, SectorEnd)
      BY <1>6, <2>3 DEF Upload, SectorsErased
    <2> HIDE DEF r
    <2>5. \A p \in 0..(offset - 1) : slot'[p] = slot[p]
      <3>1. EraseFrom >= offset /\ EraseFrom \in Nat
        BY <1>1, <2>1, <2>2
      <3>2. \A p \in 0..(offset - 1) : p \in 0..(SlotSize - 1) /\ p \notin EraseFrom..(EraseFrom + Sector - 1)
        BY <1>1, <2>1, <3>1
      <3> QED
        BY <1>5, <3>2
    <2>6. Erased(offset, SectorEnd)'
      <3>1. ASSUME NEW p \in offset..(SectorEnd - 1), p \in 0..(SlotSize - 1)
            PROVE  slot'[p] = ErasedByte
        <4>1. CASE r = 0
          <5>1. EraseFrom = offset /\ SectorEnd = offset + Sector /\ NeedsErase(thread.len)
            BY <1>1, <2>1, <2>2, <4>1
          <5>2. p \in EraseFrom..(EraseFrom + Sector - 1)
            BY <1>1, <2>1, <3>1, <5>1
          <5> QED
            BY <1>5, <3>1, <5>1, <5>2
        <4>2. CASE r # 0
          <5>1. slot[p] = ErasedByte
            BY <2>4, <3>1, <4>2 DEF Erased
          <5> QED
            BY <1>5, <3>1, <5>1
        <4> QED
          BY <4>1, <4>2
      <3> QED
        BY <1>2, <1>4, <3>1 DEF Erased
    <2>7. Erased(offset, offset + thread.len)'
      <3>1. ASSUME NEW p \in offset..(offset + thread.len - 1), p \in 0..(SlotSize - 1)
            PROVE  slot'[p] = ErasedByte
        <4>1. CASE p < SectorEnd
          <5>1. p \in offset..(SectorEnd - 1)
            BY <1>1, <2>1, <2>2, <3>1, <4>1
          <5> QED
            BY <1>2, <1>4, <2>6, <3>1, <5>1 DEF Erased
        <4>2. CASE ~(p < SectorEnd)
          <5>1. r # 0 /\ r + thread.len > Sector /\ thread.len > WriteSize
            BY <1>1, <2>1, <2>2, <3>1, <4>2
          <5>2. NeedsErase(thread.len) /\ EraseFrom = SectorEnd
            BY <2>2, <5>1
          <5>3. p \in EraseFrom..(EraseFrom + Sector - 1)
            BY <1>1, <2>1, <2>2, <3>1, <4>2, <5>2
          <5> QED
            BY <1>5, <3>1, <5>2, <5>3
        <4> QED
          BY <2>1, <2>2, <3>1, <4>1, <4>2
      <3>2. offset' = offset /\ thread'.len = thread.len
        BY <1>2
      <3>3. \A p \in offset'..((offset' + thread'.len) - 1) :
               p \in 0..(SlotSize - 1) => slot'[p] = ErasedByte
        BY <1>1, <2>1, <3>1, <3>2
      <3> QED
        BY <3>3 DEF Erased
    <2>8. OfImage'
      BY <1>2, <1>6 DEF Upload, OfImage
    <2>9. Filled'
      BY <1>2, <1>4, <1>6, <2>3, <2>5 DEF Upload, Filled
    <2>10. Buffer'
      BY <1>2, <1>4, <1>6 DEF Upload, Buffer
    <2>11. Fitting'
      BY <1>2, <1>6 DEF Upload, Fitting
    <2>12. SectorsErased'
      BY <2>6, <2>7, <1>2 DEF SectorsErased
    <2>13. Writing'
      BY <1>2, <1>4, <1>6 DEF Upload, Writing
    <2> QED
      BY <2>8, <2>9, <2>10, <2>11, <2>12, <2>13 DEF Upload
  <1> QED
    BY <1>0, <1>2, <1>3, <1>6 DEF Clean

\* The flash takes every write of a clean upload
LEMMA UploadCanWrite ==
    ASSUME DfuInductive, Upload, thread.at = "write"
    PROVE  CanWrite(thread.len)
PROOF
  <1>1. offset \in Nat /\ thread.len \in Nat /\ offset + thread.len <= SlotSize
    BY WriteFits
  <1>2. Erased(offset, offset + thread.len)
    BY DEF Upload, SectorsErased
  <1>3. SlotSize \in Nat
    BY DfuConstants
  <1>4. \A p \in offset..(offset + thread.len - 1) : p \in 0..(SlotSize - 1)
    BY <1>1, <1>3
  <1> QED
    BY <1>1, <1>2, <1>4 DEF CanWrite, Erased

\* The slot after a write
LEMMA Written ==
    ASSUME DfuInductive, Upload, WriteBlock
    PROVE  /\ \A p \in 0..(offset - 1) : slot'[p] = slot[p]
           /\ \A p \in offset..(offset + thread.len - 1) :
                 slot'[p] = IF p - offset + 1 <= Len(buf) THEN <<image, p>> ELSE ErasedByte
           /\ \A p \in (offset + thread.len)..(SlotSize - 1) : slot'[p] = slot[p]
PROOF
  <1>1. thread.at = "write"
    BY DEF WriteBlock
  <1>2. /\ offset \in Nat /\ thread.len \in Nat /\ offset + thread.len <= SlotSize /\ Len(buf) \in Nat
        /\ SlotSize \in Nat
    BY <1>1, WriteFits, DfuConstants
  <1>3. \A p \in 0..(SlotSize - 1) :
           slot'[p] = IF p \in offset..(offset + thread.len - 1)
                      THEN BufferByte(p - offset + 1) ELSE slot[p]
    BY DEF WriteBlock
  <1>4. \A p \in 0..(offset - 1) : slot'[p] = slot[p]
    <2>1. \A p \in 0..(offset - 1) : p \in 0..(SlotSize - 1) /\ p \notin offset..(offset + thread.len - 1)
      BY <1>2
    <2> QED
      BY <1>3, <2>1
  <1>5. \A p \in (offset + thread.len)..(SlotSize - 1) : slot'[p] = slot[p]
    <2>1. \A p \in (offset + thread.len)..(SlotSize - 1) :
             p \in 0..(SlotSize - 1) /\ p \notin offset..(offset + thread.len - 1)
      BY <1>2
    <2> QED
      BY <1>3, <2>1
  <1>6. ASSUME NEW p \in offset..(offset + thread.len - 1)
        PROVE  slot'[p] = IF p - offset + 1 <= Len(buf) THEN <<image, p>> ELSE ErasedByte
    <2>1. p \in 0..(SlotSize - 1) /\ p - offset + 1 \in Nat \ {0} /\ offset + (p - offset + 1) - 1 = p
      BY <1>2, <1>6
    <2>2. slot'[p] = BufferByte(p - offset + 1)
      BY <1>3, <1>6, <2>1
    <2>3. count # 0
      BY DEF DfuInductive, StateTypes, Upload, OfImage
    <2> DEFINE i == p - offset + 1
    <2>4. i \in Nat \ {0} /\ offset + i - 1 = p
      BY <2>1
    <2>5. slot'[p] = BufferByte(i)
      BY <2>2
    <2> HIDE DEF i
    <2>6. CASE i <= Len(buf)
      <3>1. i \in 1..Len(buf)
        BY <1>2, <2>4, <2>6
      <3>2. buf[i] = <<image, offset + i - 1>>
        BY <3>1 DEF Upload, Filled
      <3>3. slot'[p] = buf[i]
        BY <2>5, <2>6 DEF BufferByte
      <3>4. slot'[p] = <<image, p>>
        BY <2>4, <3>2, <3>3
      <3> QED
        BY <2>6, <3>4 DEF i
    <2>7. CASE ~(i <= Len(buf))
      <3>1. slot'[p] = ErasedByte
        BY <2>3, <2>5, <2>7 DEF BufferByte
      <3> QED
        BY <2>7, <3>1 DEF i
    <2> QED
      BY <2>6, <2>7
  <1> QED
    BY <1>4, <1>5, <1>6

\* The last write takes all of the buffer
LEMMA UploadWritesLast ==
    ASSUME DfuInductive, DfuInductive', Upload, WriteBlock, IsLast
    PROVE  Upload'
PROOF
  <1>0. /\ thread.at = "write"
        /\ UNCHANGED <<number, count, phase, image>> /\ offset' = offset + thread.len
        /\ CanWrite(thread.len)
    BY DEF WriteBlock, history
  <1>1. /\ thread.len \in Nat /\ Len(buf) \in Nat /\ offset \in Nat
        /\ offset + Len(buf) = BytesLoaded
        /\ phase = "FINISHED_VERIFY" /\ Len(buf) <= thread.len
        /\ offset + thread.len <= SlotSize
    BY <1>0, WriteFits
  <1>2. thread'.at = "give" /\ thread'.err = "SUCCESS"
    BY DEF DfuInductive, ThreadTypes, WriteBlock, ThreadGoesTo
  <1>3. buf' = <<>>
    <2>1. CASE Len(buf) >= thread.len
      <3>1. buf' = SubSeq(buf, Len(buf) + 1, Len(buf))
        BY <1>1, <2>1 DEF WriteBlock
      <3>2. buf \in Seq(Bytes)
        BY DEF DfuInductive, StateTypes
      <3> QED
        BY <1>1, <3>1, <3>2, SubSeqEmpty
    <2>2. CASE ~(Len(buf) >= thread.len)
      BY <2>2 DEF WriteBlock
    <2> QED
      BY <2>1, <2>2
  <1>4. BytesLoaded = ImageSize(image) /\ ImageSize(image) \in Nat
    BY LoadedBytes DEF Upload
  <1>5. ~Open'
    BY <1>0, <1>1, <1>2 DEF Open
  <1>6. OfImage'
    BY <1>0 DEF Upload, OfImage
  <1>7. Filled'
    <2>1. ASSUME NEW p \in 0..(offset' - 1)
          PROVE  slot'[p] = IF p < ImageSize(image) THEN <<image, p>> ELSE ErasedByte
      <3>1. CASE p < offset
        <4>1. p \in 0..(offset - 1)
          BY <1>0, <1>1, <3>1
        <4>2. slot'[p] = slot[p]
          BY <4>1, Written
        <4> QED
          BY <4>1, <4>2 DEF Upload, Filled
      <3>2. CASE ~(p < offset)
        <4>1. p \in offset..(offset + thread.len - 1)
          BY <1>0, <1>1, <3>2
        <4>2. slot'[p] = IF p - offset + 1 <= Len(buf) THEN <<image, p>> ELSE ErasedByte
          BY <4>1, Written
        <4>3. (p - offset + 1 <= Len(buf)) <=> (p < ImageSize(image))
          BY <1>1, <1>4, <4>1
        <4> QED
          BY <4>2, <4>3
      <3> QED
        BY <3>1, <3>2
    <2>2. offset' <= SlotSize /\ offset' >= ImageSize(image)
      BY <1>0, <1>1, <1>4
    <2>3. \A i \in 1..Len(buf') : FALSE
      BY <1>3
    <2> QED
      BY <1>0, <1>3, <1>5, <2>1, <2>2, <2>3 DEF Filled
  <1>8. Buffer' /\ SectorsErased' /\ Writing'
    BY <1>0, <1>1, <1>2, <1>5 DEF Buffer, SectorsErased, Writing
  <1>9. Fitting'
    BY <1>0 DEF Upload, Fitting
  <1> QED
    BY <1>6, <1>7, <1>8, <1>9 DEF Upload

\* A write before the last one leaves less than a write in the buffer
LEMMA UploadWritesOne ==
    ASSUME DfuInductive, DfuInductive', Upload, WriteBlock, ~IsLast
    PROVE  Upload'
PROOF
  <1>0. /\ thread.at = "write"
        /\ UNCHANGED <<number, count, phase, image, full>> /\ offset' = offset + thread.len
    BY DEF WriteBlock, history
  <1>1. /\ thread.len = WriteSize /\ Len(buf) \in Nat /\ offset \in Nat
        /\ offset % Sector \in 0..(Sector - 1)
        /\ (offset % Sector) + WriteSize <= Sector
        /\ offset + Len(buf) = BytesLoaded
        /\ phase = "IN_PROGRESS" /\ WriteSize <= Len(buf) /\ Len(buf) < WriteSize + BlockMax
        /\ offset + WriteSize <= SlotSize
        /\ offset % WriteSize = 0
    BY <1>0, WriteFits
  <1>2. thread'.at = "give" /\ thread'.err = "SUCCESS"
    BY DEF DfuInductive, ThreadTypes, WriteBlock, ThreadGoesTo
  <1>3. WriteSize \in Nat \ {0} /\ Sector \in Nat \ {0} /\ SlotSize \in Nat /\ BlockMax \in Nat
        /\ BlockMax <= WriteSize
    BY DfuConstants
  <1>4. /\ Len(buf') = Len(buf) - WriteSize
        /\ \A i \in 1..(Len(buf) - WriteSize) : buf'[i] = buf[WriteSize + i]
    <2>1. buf' = SubSeq(buf, WriteSize + 1, Len(buf))
      BY <1>1 DEF WriteBlock
    <2>2. buf \in Seq(Bytes)
      BY DEF DfuInductive, StateTypes
    <2>3. \A i \in (WriteSize + 1)..Len(buf) : buf[i] \in Bytes
      <3>1. \A i \in (WriteSize + 1)..Len(buf) : i \in 1..Len(buf)
        BY <1>1, <1>3
      <3> QED
        BY <2>2, <3>1, ElementOfSeq
    <2> DEFINE m == WriteSize + 1
               n == Len(buf)
    <2>4. m \in Int /\ n \in Int /\ (\A i \in m..n : buf[i] \in Bytes) /\ buf' = SubSeq(buf, m, n)
      BY <1>1, <1>3, <2>1, <2>3
    <2> HIDE DEF m, n
    <2>5. /\ Len(buf') = IF m <= n THEN n - m + 1 ELSE 0
          /\ \A i \in 1..(n - m + 1) : buf'[i] = buf[m + i - 1]
      BY <2>4, SubSeqProperties
    <2>6. n - m + 1 = Len(buf) - WriteSize /\ (m <= n \/ Len(buf) - WriteSize = 0)
      BY <1>1, <1>3 DEF m, n
    <2>7. \A i \in 1..(Len(buf) - WriteSize) : m + i - 1 = WriteSize + i
      BY <1>1, <1>3 DEF m
    <2> QED
      BY <2>5, <2>6, <2>7
  <1>5. /\ BytesLoaded < ImageSize(image) /\ ImageSize(image) \in Nat /\ BytesLoaded \in Nat
    BY LoadedBytes DEF Upload
  <1>6. IsLast' = IsLast /\ BytesLoaded' = BytesLoaded /\ Open /\ Open'
    BY <1>0, <1>1 DEF IsLast, BytesLoaded, Open
  <1>7. OfImage'
    BY <1>0 DEF Upload, OfImage
  <1>8. Filled'
    <2>1. ASSUME NEW p \in 0..(offset' - 1)
          PROVE  slot'[p] = IF p < ImageSize(image) THEN <<image, p>> ELSE ErasedByte
      <3>1. CASE p < offset
        <4>1. p \in 0..(offset - 1)
          BY <1>0, <1>1, <3>1
        <4>2. slot'[p] = slot[p]
          BY <4>1, Written
        <4> QED
          BY <4>1, <4>2 DEF Upload, Filled
      <3>2. CASE ~(p < offset)
        <4>1. p \in offset..(offset + thread.len - 1)
          BY <1>0, <1>1, <1>3, <3>2
        <4>2. slot'[p] = IF p - offset + 1 <= Len(buf) THEN <<image, p>> ELSE ErasedByte
          BY <4>1, Written
        <4>3. p - offset + 1 <= Len(buf) /\ p < ImageSize(image)
          BY <1>1, <1>3, <1>5, <4>1
        <4> QED
          BY <4>2, <4>3
      <3> QED
        BY <1>0, <1>1, <3>1, <3>2
    <2>2. offset' <= SlotSize
      BY <1>0, <1>1
    <2>3. ASSUME NEW i \in 1..Len(buf')
          PROVE  buf'[i] = <<image, offset' + i - 1>>
      <3>1. WriteSize + i \in 1..Len(buf) /\ offset + (WriteSize + i) - 1 = offset' + i - 1
        BY <1>0, <1>1, <1>3, <1>4
      <3>2. buf[WriteSize + i] = <<image, offset + (WriteSize + i) - 1>>
        BY <3>1 DEF Upload, Filled
      <3>3. buf'[i] = buf[WriteSize + i]
        BY <1>4
      <3> QED
        BY <3>1, <3>2, <3>3
    <2>4. offset' + Len(buf') = BytesLoaded'
      BY <1>0, <1>1, <1>3, <1>4, <1>6
    <2> QED
      BY <1>0, <1>6, <2>1, <2>2, <2>3, <2>4 DEF Filled
  <1>9. Buffer'
    <2>1. Len(buf') < WriteSize /\ Len(buf') < WriteSize + BlockMax
      BY <1>1, <1>3, <1>4
    <2>2. full' = 0
      BY <1>0 DEF DfuInductive, Handshake, ThreadTypes
    <2>3. offset' % WriteSize = 0
      <3>1. WriteSize % WriteSize = 0
        <4>1. (WriteSize * 1) % WriteSize = 0
          BY <1>3, Multiple
        <4> QED
          BY <1>3, <4>1
      <3>2. (offset + WriteSize) % WriteSize = 0
        BY <1>1, <1>3, <3>1, SumOfMultiples
      <3> QED
        BY <1>0, <1>1, <3>2
    <2> QED
      BY <1>2, <2>1, <2>2, <2>3 DEF Buffer
  <1>10. Fitting'
    BY <1>0 DEF Upload, Fitting
  <1>11. SectorsErased'
    <2> DEFINE r == offset % Sector
    <2>1. /\ r \in 0..(Sector - 1) /\ r + WriteSize <= Sector
          /\ r + WriteSize < Sector => (offset + WriteSize) % Sector = r + WriteSize
          /\ r + WriteSize = Sector => (offset + WriteSize) % Sector = 0
      <3>1. /\ offset \in Nat /\ Sector \in Nat \ {0} /\ WriteSize \in Nat
            /\ (offset % Sector) + WriteSize <= Sector
            /\ offset % Sector \in 0..(Sector - 1)
        BY <1>1, <1>3
      <3>2. /\ (offset % Sector) + WriteSize < Sector =>
                  (offset + WriteSize) % Sector = (offset % Sector) + WriteSize
            /\ (offset % Sector) + WriteSize = Sector => (offset + WriteSize) % Sector = 0
        BY <3>1, NextInSector
      <3> QED
        BY <3>1, <3>2
    <2>2. SectorEnd = (offset - r) + Sector
      BY DEF SectorEnd
    <2>3. Erased(offset, SectorEnd)
      BY <1>0, <1>6 DEF Upload, SectorsErased
    <2>4. SectorEnd' = (offset' - (offset' % Sector)) + Sector
      BY DEF SectorEnd
    <2> HIDE DEF r
    <2>5. ASSUME offset' % Sector # 0
          PROVE  Erased(offset, SectorEnd)'
      <3>1. offset' % Sector = r + WriteSize
        BY <1>0, <1>1, <1>3, <2>1, <2>5
      <3>2. SectorEnd' = SectorEnd /\ SectorEnd \in Int
        <4>1. SectorEnd' = ((offset + WriteSize) - (r + WriteSize)) + Sector
          BY <1>0, <1>1, <2>4, <3>1
        <4>2. offset \in Nat /\ WriteSize \in Nat /\ r \in Nat /\ Sector \in Nat
          BY <1>1, <1>3, <2>1
        <4> QED
          BY <2>2, <4>1, <4>2
      <3>3. ASSUME NEW p \in offset'..(SectorEnd - 1), p \in 0..(SlotSize - 1)
            PROVE  slot'[p] = ErasedByte
        <4>1. p \in (offset + thread.len)..(SlotSize - 1) /\ p \in offset..(SectorEnd - 1)
          BY <1>0, <1>1, <1>3, <3>2, <3>3
        <4>2. slot'[p] = slot[p]
          BY <4>1, Written
        <4> QED
          BY <2>3, <3>3, <4>1, <4>2 DEF Erased
      <3> QED
        BY <3>2, <3>3 DEF Erased
    <2> QED
      BY <1>2, <2>5 DEF SectorsErased
  <1>12. Writing'
    BY <1>2 DEF Writing
  <1> QED
    BY <1>7, <1>8, <1>9, <1>10, <1>11, <1>12 DEF Upload

\* The thread writes
LEMMA UploadWrites ==
    ASSUME UploadInductive, DfuInductive', WriteBlock \/ WriteBlockFails
    PROVE  Clean'
PROOF
  <1>0. DfuInductive /\ Clean /\ thread.at = "write"
    BY DEF UploadInductive, WriteBlock, WriteBlockFails
  <1>1. clean = TRUE => count # 0 /\ Upload
    BY <1>0 DEF Clean, Nothing
  <1>2. CASE WriteBlock
    <2>1. clean' = clean /\ count' = count
      BY <1>2 DEF WriteBlock, history
    <2>2. Upload => Upload'
      BY <1>0, <1>2, UploadWritesLast, UploadWritesOne
    <2> QED
      BY <1>0, <1>1, <2>1, <2>2 DEF Clean
  <1>3. CASE WriteBlockFails
    <2>1. CASE clean' = FALSE
      BY <2>1 DEF Clean
    <2>2. CASE ~CanWrite(thread.len) /\ clean' = clean
      <3>1. clean' # TRUE /\ clean' \in BOOLEAN
        BY <1>0, <1>1, <2>2, UploadCanWrite DEF Clean
      <3> QED
        BY <3>1 DEF Clean
    <2> QED
      BY <1>3, <2>1, <2>2 DEF WriteBlockFails, FlashFault
  <1> QED
    BY <1>2, <1>3

\* Every step keeps the upload
LEMMA UploadStep ==
    ASSUME UploadInductive, [Next]_vars
    PROVE  UploadInductive'
PROOF
  <1>0. DfuInductive /\ DfuInductive' /\ Clean
    BY HandshakeStep DEF UploadInductive
  <1>1. CASE UNCHANGED vars
    BY <1>0, <1>1, UploadKept DEF UploadInductive, vars, state, history
  <1>2. CASE Handlers
    BY <1>0, <1>2, UploadLoad, UploadRequests DEF Handlers, UploadInductive
  <1>3. CASE OpenFails \/ EraseSectorFails \/ CheckReadFails
    <2>1. clean' = FALSE
      BY <1>3 DEF OpenFails, EraseSectorFails, CheckReadFails, FlashFault
    <2> QED
      BY <1>0, <2>1 DEF Clean, UploadInductive
  <1>4. CASE ThreadWakes \/ CheckPage \/ CheckEnds \/ ThreadGives \/ ThreadCalls
    BY <1>0, <1>4, UploadMoves DEF UploadInductive
  <1>5. CASE ImageTooLarge \/ ThreadBegins
    BY <1>0, <1>5, UploadBegins DEF UploadInductive
  <1>6. CASE EraseSector
    BY <1>0, <1>6, UploadErases DEF UploadInductive
  <1>7. CASE WriteBlock \/ WriteBlockFails
    BY <1>0, <1>7, UploadWrites DEF UploadInductive
  <1> QED
    BY <1>1, <1>2, <1>3, <1>4, <1>5, <1>6, <1>7 DEF Next, ProcessDfuBlocks

\* The upload in every state
LEMMA UploadAlways == Spec => []UploadInductive
PROOF
  <1>1. Init => UploadInductive
    <2>1. ASSUME Init
          PROVE  Clean
      BY <2>1 DEF Init, Clean, Nothing, Waiting
    <2> QED
      BY <2>1, HandshakeInit DEF UploadInductive
  <1>2. UploadInductive /\ [Next]_vars => UploadInductive'
    BY UploadStep
  <1> QED
    BY <1>1, <1>2, PTL DEF Spec

\* Slot and buffer hold the image up to the last block accepted, for every
\* length of image, block, write and sector: what dfu_load buffers and the
\* thread writes, with remainders, padding and sector ends, loses no byte.
THEOREM FollowsImage == Spec => []SlotFollowsImage
PROOF
  <1>1. ASSUME UploadInductive
        PROVE  SlotFollowsImage
    <2>1. SUFFICES ASSUME clean, count # 0, thread.at \in {"wait", "call"}
                   PROVE  /\ \A p \in 0..(offset - 1) :
                                slot[p] = IF p < ImageSize(image) THEN <<image, p>> ELSE ErasedByte
                          /\ \A i \in 1..Len(buf) : buf[i] = <<image, offset + i - 1>>
                          /\ IF offset + Len(buf) > ImageSize(image)
                             THEN buf = <<>> /\ phase = "FINISHED_VERIFY"
                             ELSE offset + Len(buf) = BytesLoaded
      BY DEF SlotFollowsImage
    <2>2. DfuInductive /\ Upload
      BY <1>1, <2>1 DEF UploadInductive, Clean
    <2>3. /\ \A p \in 0..(offset - 1) :
                slot[p] = IF p < ImageSize(image) THEN <<image, p>> ELSE ErasedByte
          /\ \A i \in 1..Len(buf) : buf[i] = <<image, offset + i - 1>>
          /\ IF Open THEN offset + Len(buf) = BytesLoaded
                     ELSE buf = <<>> /\ offset >= ImageSize(image)
      BY <2>2 DEF Upload, Filled
    <2>4. /\ ImageSize(image) \in Nat /\ BytesLoaded \in Nat /\ BytesLoaded <= ImageSize(image)
          /\ IsLast => BytesLoaded = ImageSize(image)
      BY <2>2, LoadedBytes DEF Upload
    <2>5. Len(buf) \in Nat /\ offset \in Nat /\ phase \in {"IN_PROGRESS", "FINISHED_VERIFY"}
      BY <2>2 DEF DfuInductive, StateTypes
    <2>6. CASE Open
      BY <2>3, <2>4, <2>5, <2>6
    <2>7. CASE ~Open
      <3>1. phase = "FINISHED_VERIFY" /\ IsLast
        BY <2>2, <2>5, <2>7 DEF Open, Upload, OfImage, IsLast
      <3>2. buf = <<>> /\ Len(buf) = 0 /\ offset >= ImageSize(image)
        BY <2>3, <2>7
      <3>3. IF offset + Len(buf) > ImageSize(image)
            THEN buf = <<>> /\ phase = "FINISHED_VERIFY"
            ELSE offset + Len(buf) = BytesLoaded
        BY <2>4, <2>5, <3>1, <3>2
      <3> QED
        BY <2>3, <3>3
    <2> QED
      BY <2>6, <2>7
  <1> QED
    BY <1>1, UploadAlways, PTL

\* The flash never refuses a write of a clean upload: every byte was erased
\* before it is written, also where the last write runs into the next sector.
THEOREM FindErasedFlash == Spec => []WritesFindErasedFlash
PROOF
  <1>1. ASSUME UploadInductive
        PROVE  WritesFindErasedFlash
    <2>1. ASSUME clean, thread.at = "give"
          PROVE  thread.err # "INTERNAL"
      <3>1. clean = TRUE
        BY <1>1, <2>1 DEF UploadInductive, Clean
      <3>2. IF count # 0 THEN Upload ELSE Nothing
        BY <1>1, <3>1 DEF UploadInductive, Clean
      <3> QED
        BY <2>1, <3>2 DEF Upload, Writing, Nothing
    <2> QED
      BY <2>1 DEF WritesFindErasedFlash
  <1> QED
    BY <1>1, UploadAlways, PTL
=============================================================================
