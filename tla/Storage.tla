------------------------------ MODULE Storage ------------------------------
(***************************************************************************)
(* The flash FIFO of lib/storage/storage.c, as built for the STM32G4 flash *)
(* (FLASH_WRITE_BLOCK_SIZE is one double word and a storage_header_t is    *)
(* exactly one block).  Offsets are counted in blocks.                     *)
(*                                                                         *)
(* The operations hold sem_storage from their first access to the area to  *)
(* their return, so at most one of them is in progress: pc says which of   *)
(* its flash accesses comes next.  A power cut may happen between any two  *)
(* flash accesses; RAM is then lost, flash stays as it is.                 *)
(*                                                                         *)
(* live, top and intact are history variables: they record what callers    *)
(* were promised and no action reads them.                                 *)
(***************************************************************************)
EXTENDS Integers, Sequences

CONSTANTS
    Records,        \* the records callers may push
    NoRecord,       \* no record
    RecordSize,     \* [Records -> bytes]
    Payload,        \* [Records -> sequence of blocks, as a header reads them]
    BlockSize,      \* FLASH_WRITE_BLOCK_SIZE, in bytes
    AreaBlocks,     \* fa_size, in blocks
    PageBlocks,     \* one erase page, in blocks
    MinimumEmpty,   \* MINIMUM_EMPTY_SPACE, in blocks
    BufferSizes,    \* the buffer sizes storage_peek is called with, in bytes
    CutPoints,      \* the points of an operation where power may be cut
    MaxCuts,        \* bound on power cuts
    MaxFaults       \* bound on failed flash accesses

Magic == {"unused", "valid", "invalid", "data"}
UnusedSize == 65535         \* record_size of an erased header
INVALID_INDEX == -1

ASSUME StorageConstants ==
    /\ NoRecord \notin Records
    /\ BlockSize \in Nat \ {0}
    /\ AreaBlocks \in Nat \ {0}
    /\ PageBlocks \in Nat \ {0}
    /\ MinimumEmpty \in Nat
    /\ MaxCuts \in Nat
    /\ MaxFaults \in Nat
    /\ \A n \in BufferSizes : n \in Nat /\ n < UnusedSize
    /\ \A r \in Records : RecordSize[r] \in Nat \ {0} /\ RecordSize[r] < UnusedSize

VARIABLES
    flash,      \* content of the area, block by block
    fa,         \* area->fa # NULL
    rd_idx,     \* area->rd_idx
    wr_idx,     \* area->wr_idx
    pc,         \* the next flash access of the operation holding sem_storage
    rec,        \* the record being pushed
    idx,        \* block that access is about
    then,       \* what the operation returns once reset_area is done
    ret,        \* what the last operation returned
    cuts,       \* power cuts so far
    faults,     \* flash accesses that may still fail
    live,       \* history: records stored and not freed, oldest first
    top,        \* history: the block after the newest stored record
    intact      \* history: since the last complete erase no erase was cut
                \* short and no boot skipped a record it could not read

ramVars == <<fa, rd_idx, wr_idx, pc, rec, idx, then>>
history == <<live, top, intact>>
vars == <<flash, ramVars, ret, cuts, faults, history>>

-----------------------------------------------------------------------------
(* Blocks *)

\* Blocks a record takes in flash: the last one is padded
Blocks(size) == (size + BlockSize - 1) \div BlockSize

Word(m, s, r, p) == [magic |-> m, size |-> s, owner |-> r, part |-> p]
Erased == Word("unused", UnusedSize, NoRecord, 0)
Zero == Word("invalid", 0, NoRecord, 0)
Garbage == Word("data", 0, NoRecord, 0)

\* The header storage_push writes; its CRC identifies the record
Header(r) == Word("valid", RecordSize[r], r, 0)

\* Block j of the record r, and what it looks like if read as a header
PayloadWord(r, j) == Word(Payload[r][j].magic, Payload[r][j].size, r, j)

Words == [magic : Magic, size : Nat,
          owner : Records \cup {NoRecord}, part : Nat]

ASSUME PayloadAssumption ==
    \A r \in Records :
        /\ Blocks(RecordSize[r]) \in Nat \ {0}
        /\ Len(Payload[r]) = Blocks(RecordSize[r])
        /\ \A j \in 1..Blocks(RecordSize[r]) :
               /\ Payload[r][j].magic \in Magic
               /\ Payload[r][j].size \in Nat

\* The CRC in the header at block i matches the record_size bytes after it.
\* A block of a payload that only looks like a header never has a matching CRC.
CrcMatches(i) ==
    LET h == flash[i] IN
    /\ h.part = 0
    /\ h.owner # NoRecord
    /\ i + Blocks(h.size) < AreaBlocks
    /\ \A j \in 1..Blocks(h.size) : flash[i + j] = PayloadWord(h.owner, j)

\* flash_area_write of w at block b: a programmed block only takes zeros
Programmable(b, w) == flash[b] = Erased \/ w.magic = "invalid"

\* fa_size, in bytes
AreaBytes == AreaBlocks * BlockSize

NextHeader(i) == i + 1 + Blocks(flash[i].size)

-----------------------------------------------------------------------------
(* Return to the caller *)

Answer(op, code, r) == [op |-> op, code |-> code, rec |-> r]
NoAnswer == Answer("none", "SUCCESS", NoRecord)

Return(answer) == /\ pc' = "ready"
                  /\ ret' = answer
                  /\ rec' = NoRecord
                  /\ idx' = 0
                  /\ then' = NoAnswer

\* One flash access fails
FlashFault == /\ faults > 0
              /\ faults' = faults - 1

\* reset_area: erase page by page, then init_area, then return answer
ResetArea(answer) == /\ pc' = "erase"
                     /\ idx' = 0
                     /\ then' = answer
                     /\ rec' = NoRecord
                     /\ live' = <<>>
                     /\ intact' = FALSE
                     /\ UNCHANGED <<ret, top>>

Init == /\ flash \in {[b \in 0..(AreaBlocks - 1) |-> w] : w \in {Erased, Garbage}}
        /\ fa = FALSE
        /\ rd_idx = 0
        /\ wr_idx = 0
        /\ pc = "ready"
        /\ rec = NoRecord
        /\ idx = 0
        /\ then = NoAnswer
        /\ ret = NoAnswer
        /\ cuts = 0
        /\ faults = MaxFaults
        /\ live = <<>>
        /\ top = 0
        /\ intact = (flash[0] = Erased)

-----------------------------------------------------------------------------
(* storage_init and init_area *)

\* storage_init after a boot: open the area and start init_area
StorageInit == /\ pc = "ready"
               /\ ~fa
               /\ fa' = TRUE
               /\ rd_idx' = INVALID_INDEX
               /\ wr_idx' = INVALID_INDEX
               /\ pc' = "check"
               /\ then' = Answer("init", "SUCCESS", NoRecord)
               /\ UNCHANGED <<flash, rec, idx, ret, cuts, faults, history>>

\* flash_area_open fails: the area stays closed
StorageInitCannotOpen == /\ pc = "ready"
                         /\ ~fa
                         /\ FlashFault
                         /\ rd_idx' = 0
                         /\ wr_idx' = 0
                         /\ Return(Answer("init", "NOT_INITIALIZED", NoRecord))
                         /\ UNCHANGED <<flash, fa, cuts, history>>

\* init_area fails: storage_init erases the area, reset_area goes on regardless
InitAreaFails == /\ rd_idx' = 0
                 /\ wr_idx' = 0
                 /\ IF then.op = "init"
                    THEN /\ pc' = "init_erase"
                         /\ idx' = 0
                         /\ live' = <<>>
                         /\ intact' = FALSE
                         /\ UNCHANGED <<rec, then, ret, top>>
                    ELSE /\ Return(then)
                         /\ UNCHANGED history

\* The first block must read as a header
CheckFirstBlock == /\ pc = "check"
                   /\ flash[0].magic \in {"unused", "valid", "invalid"}
                   /\ pc' = "walk"
                   /\ idx' = 0
                   /\ UNCHANGED <<flash, fa, rd_idx, wr_idx, rec, then, ret,
                                  cuts, faults, history>>

CheckFirstBlockFails == /\ pc = "check"
                        /\ \/ /\ flash[0].magic = "data"
                              /\ UNCHANGED faults
                           \/ FlashFault
                        /\ InitAreaFails
                        /\ UNCHANGED <<flash, fa, cuts>>

\* Where the walk goes after block i
WalkNext(i) == IF flash[i].magic = "valid" THEN NextHeader(i) ELSE i + 1

\* One iteration of the loop of init_area; found is what it makes of rd_idx
WalkTo(found) ==
    IF flash[idx].magic = "unused"
    THEN /\ rd_idx' = found
         /\ wr_idx' = idx
         /\ pc' = "settle"
         /\ UNCHANGED idx
    ELSE /\ rd_idx' = found
         /\ idx' = WalkNext(idx)
         /\ pc' = IF WalkNext(idx) + 1 < AreaBlocks THEN "walk" ELSE "settle"
         /\ UNCHANGED wr_idx

\* Mutant: every valid record moves rd_idx, not only the first
IsFirstValidAny == flash[idx].magic = "valid"

IsFirstValid == /\ rd_idx = INVALID_INDEX
                /\ flash[idx].magic = "valid"

Walk == /\ pc = "walk"
        /\ WalkTo(IF IsFirstValid /\ CrcMatches(idx) THEN idx ELSE rd_idx)
        /\ UNCHANGED <<flash, fa, rec, then, ret, cuts, faults, history>>

\* The record cannot be read: its CRC does not match and the walk skips it
WalkRecordFault == /\ pc = "walk"
                   /\ IsFirstValid
                   /\ FlashFault
                   /\ WalkTo(rd_idx)
                   /\ intact' = FALSE
                   /\ UNCHANGED <<flash, fa, rec, then, ret, cuts, live, top>>

\* The header cannot be read: both indexes are forgotten
WalkHeaderFault == /\ pc = "walk"
                   /\ FlashFault
                   /\ rd_idx' = INVALID_INDEX
                   /\ wr_idx' = INVALID_INDEX
                   /\ pc' = "settle"
                   /\ UNCHANGED <<flash, fa, rec, idx, then, ret, cuts, history>>

\* The end of init_area: a full area has no unused block, an empty one no
\* valid record
Settle ==
    /\ pc = "settle"
    /\ UNCHANGED <<flash, fa, cuts, faults>>
    /\ IF rd_idx = INVALID_INDEX /\ wr_idx = INVALID_INDEX
       THEN InitAreaFails
       ELSE /\ wr_idx' = IF wr_idx = INVALID_INDEX THEN AreaBlocks ELSE wr_idx
            /\ rd_idx' = IF rd_idx = INVALID_INDEX THEN wr_idx ELSE rd_idx
            /\ Return(then)
            /\ UNCHANGED history

-----------------------------------------------------------------------------
(* flash_area_erase, page by page *)

ErasePage == /\ pc \in {"erase", "init_erase"}
             /\ flash' = [b \in 0..(AreaBlocks - 1) |->
                            IF b \in idx..(idx + PageBlocks - 1)
                            THEN Erased ELSE flash[b]]
             /\ UNCHANGED <<fa, cuts, faults, live>>
             /\ IF idx + PageBlocks < AreaBlocks
                THEN /\ idx' = idx + PageBlocks
                     /\ UNCHANGED <<rd_idx, wr_idx, pc, rec, then, ret, top, intact>>
                ELSE /\ top' = 0
                     /\ intact' = TRUE
                     /\ IF pc = "erase"
                        THEN /\ pc' = "check"
                             /\ rd_idx' = INVALID_INDEX
                             /\ wr_idx' = INVALID_INDEX
                             /\ UNCHANGED <<rec, idx, then, ret>>
                        ELSE /\ Return(then)
                             /\ UNCHANGED <<rd_idx, wr_idx>>

\* A page does not erase: reset_area ignores it, storage_init reports it
EraseFails == /\ pc \in {"erase", "init_erase"}
              /\ FlashFault
              /\ UNCHANGED <<flash, fa, cuts, history>>
              /\ IF pc = "erase"
                 THEN /\ pc' = "check"
                      /\ rd_idx' = INVALID_INDEX
                      /\ wr_idx' = INVALID_INDEX
                      /\ UNCHANGED <<rec, idx, then, ret>>
                 ELSE /\ Return(Answer("init", "INTERNAL", NoRecord))
                      /\ UNCHANGED <<rd_idx, wr_idx>>

-----------------------------------------------------------------------------
(* The operations *)

\* An operation that only answers
Refuse(op, code) == /\ Return(Answer(op, code, NoRecord))
                    /\ UNCHANGED <<flash, fa, rd_idx, wr_idx, cuts, history>>

\* The operations before storage_init, or after it could not open the area
NotInitialized == /\ pc = "ready"
                  /\ ~fa
                  /\ \E op \in {"peek", "free", "push"} : Refuse(op, "NOT_INITIALIZED")
                  /\ UNCHANGED faults

PeekEmpty == /\ pc = "ready"
             /\ fa
             /\ rd_idx = wr_idx
             /\ Refuse("peek", "NOT_FOUND")
             /\ UNCHANGED faults

\* A read outside of the area fails
HeaderReadable == rd_idx < AreaBlocks

\* The buffer cannot hold the record
PeekTooSmall(size) == /\ pc = "ready"
                      /\ fa
                      /\ rd_idx # wr_idx
                      /\ HeaderReadable
                      /\ size < flash[rd_idx].size
                      /\ Refuse("peek", "NO_MEM")
                      /\ UNCHANGED faults

RecordIsValid(i) == flash[i].magic = "valid" /\ CrcMatches(i)

PeekRecord(size) == /\ pc = "ready"
                    /\ fa
                    /\ rd_idx # wr_idx
                    /\ HeaderReadable
                    /\ size >= flash[rd_idx].size
                    /\ RecordIsValid(rd_idx)
                    /\ Return(Answer("peek", "SUCCESS", flash[rd_idx].owner))
                    /\ UNCHANGED <<flash, fa, rd_idx, wr_idx, cuts, faults, history>>

\* The record is not valid or cannot be read: the whole area is reset
PeekResets(size) ==
    /\ pc = "ready"
    /\ fa
    /\ rd_idx # wr_idx
    /\ \/ /\ ~HeaderReadable
          /\ UNCHANGED faults
       \/ /\ HeaderReadable
          /\ size >= flash[rd_idx].size
          /\ ~RecordIsValid(rd_idx)
          /\ UNCHANGED faults
       \/ FlashFault
    /\ ResetArea(Answer("peek", "INVALID_STATE", NoRecord))
    /\ UNCHANGED <<flash, fa, rd_idx, wr_idx, cuts>>

StoragePeek(size) == \/ PeekEmpty
                     \/ PeekTooSmall(size)
                     \/ PeekRecord(size)
                     \/ PeekResets(size)

\* The header at rd_idx is not valid, or cannot be read (it is then all zeros)
FreeNotFound ==
    /\ pc = "ready"
    /\ fa
    /\ \/ /\ HeaderReadable => flash[rd_idx].magic # "valid"
          /\ UNCHANGED faults
       \/ FlashFault
    /\ Refuse("free", "NOT_FOUND")

FreeCannotWrite == /\ pc = "ready"
                   /\ fa
                   /\ HeaderReadable
                   /\ flash[rd_idx].magic = "valid"
                   /\ FlashFault
                   /\ Refuse("free", "INTERNAL")

\* Mutant: the area is erased although records are left to read
WorthErasingUnread(rd) == AreaBlocks - wr_idx < MinimumEmpty

\* Nothing left to read and little room left to write
WorthErasing(rd) == /\ rd >= wr_idx
                    /\ AreaBlocks - wr_idx < MinimumEmpty

\* Mutant: rd_idx is moved before the header it points at is invalidated
FreeRecordSwapped ==
    /\ pc = "ready"
    /\ fa
    /\ HeaderReadable
    /\ flash[rd_idx].magic = "valid"
    /\ NextHeader(rd_idx) < AreaBlocks
    /\ flash' = [flash EXCEPT ![NextHeader(rd_idx)] = Zero]
    /\ rd_idx' = NextHeader(rd_idx)
    /\ UNCHANGED <<fa, wr_idx, cuts, faults, top, intact>>
    /\ Return(Answer("free", "SUCCESS", flash[rd_idx].owner))
    /\ live' = IF live = <<>> THEN live ELSE Tail(live)

\* Invalidate the oldest record; reset the area when that empties it
FreeRecord ==
    /\ pc = "ready"
    /\ fa
    /\ HeaderReadable
    /\ flash[rd_idx].magic = "valid"
    /\ flash' = [flash EXCEPT ![rd_idx] = Zero]
    /\ rd_idx' = NextHeader(rd_idx)
    /\ UNCHANGED <<fa, wr_idx, cuts, faults>>
    /\ LET answer == Answer("free", "SUCCESS", flash[rd_idx].owner) IN
       IF WorthErasing(NextHeader(rd_idx))
       THEN ResetArea(answer)
       ELSE /\ Return(answer)
            /\ live' = IF live = <<>> THEN live ELSE Tail(live)
            /\ UNCHANGED <<top, intact>>

StorageFree == FreeNotFound \/ FreeCannotWrite \/ FreeRecord

Fits(r) == wr_idx + 1 + Blocks(RecordSize[r]) <= AreaBlocks

PushRefused(r) == /\ pc = "ready"
                  /\ fa
                  /\ \/ /\ RecordSize[r] > AreaBytes
                        /\ Refuse("push", "INVALID_PARAM")
                     \/ /\ RecordSize[r] <= AreaBytes
                        /\ ~Fits(r)
                        /\ Refuse("push", "NO_MEM")
                  /\ UNCHANGED faults

PushBegin(r) == /\ pc = "ready"
                /\ fa
                /\ RecordSize[r] <= AreaBytes
                /\ Fits(r)
                /\ pc' = "write"
                /\ rec' = r
                /\ idx' = 1
                /\ UNCHANGED <<flash, fa, rd_idx, wr_idx, then, ret, cuts, faults, history>>

StoragePush(r) == PushRefused(r) \/ PushBegin(r)

\* The record first, block by block, behind the place of its header
PushWrite == /\ pc = "write"
             /\ Programmable(wr_idx + idx, PayloadWord(rec, idx))
             /\ flash' = [flash EXCEPT ![wr_idx + idx] = PayloadWord(rec, idx)]
             /\ idx' = idx + 1
             /\ pc' = IF idx = Blocks(RecordSize[rec]) THEN "header" ELSE "write"
             /\ UNCHANGED <<fa, rd_idx, wr_idx, rec, then, ret, cuts, faults, history>>

PushWriteFails == /\ pc = "write"
                  /\ \/ /\ ~Programmable(wr_idx + idx, PayloadWord(rec, idx))
                        /\ UNCHANGED faults
                     \/ FlashFault
                  /\ ResetArea(Answer("push", "INTERNAL", NoRecord))
                  /\ UNCHANGED <<flash, fa, rd_idx, wr_idx, cuts>>

\* Read back, the record differs from what was written
PushReadBackFails == /\ pc = "header"
                     /\ FlashFault
                     /\ ResetArea(Answer("push", "INVALID_STATE", NoRecord))
                     /\ UNCHANGED <<flash, fa, rd_idx, wr_idx, cuts>>

\* Then the header, which makes the record valid
PushHeader ==
    /\ pc = "header"
    /\ Programmable(wr_idx, Header(rec))
    /\ flash' = [flash EXCEPT ![wr_idx] = Header(rec)]
    /\ wr_idx' = wr_idx + 1 + Blocks(RecordSize[rec])
    /\ Return(Answer("push", "SUCCESS", rec))
    /\ live' = Append(live, [pos |-> wr_idx, rec |-> rec])
    /\ top' = wr_idx + 1 + Blocks(RecordSize[rec])
    /\ UNCHANGED <<fa, rd_idx, cuts, faults, intact>>

PushHeaderFails == /\ pc = "header"
                   /\ \/ /\ ~Programmable(wr_idx, Header(rec))
                         /\ UNCHANGED faults
                      \/ FlashFault
                   /\ ResetArea(Answer("push", "INTERNAL", NoRecord))
                   /\ UNCHANGED <<flash, fa, rd_idx, wr_idx, cuts>>

-----------------------------------------------------------------------------
(* Power is cut: RAM is lost, the flash keeps what was programmed *)

PowerCut == /\ pc \in CutPoints
            /\ cuts < MaxCuts
            /\ cuts' = cuts + 1
            /\ fa' = FALSE
            /\ rd_idx' = 0
            /\ wr_idx' = 0
            /\ Return(NoAnswer)
            /\ UNCHANGED <<flash, faults, history>>

Boot == \/ StorageInit
        \/ StorageInitCannotOpen
        \/ CheckFirstBlock
        \/ CheckFirstBlockFails
        \/ Walk
        \/ WalkRecordFault
        \/ WalkHeaderFault
        \/ Settle

Erase == ErasePage \/ EraseFails

Push == \/ PushWrite
        \/ PushWriteFails
        \/ PushReadBackFails
        \/ PushHeader
        \/ PushHeaderFails

Call == \/ NotInitialized
        \/ StorageFree
        \/ \E size \in BufferSizes : StoragePeek(size)
        \/ \E r \in Records : StoragePush(r)

Next == Boot \/ Erase \/ Push \/ Call \/ PowerCut

Spec == Init /\ [][Next]_vars

-----------------------------------------------------------------------------
(* Properties *)

Points == {"ready", "check", "walk", "settle", "erase", "init_erase", "write", "header"}
Codes == {"SUCCESS", "NOT_INITIALIZED", "NOT_FOUND", "NO_MEM", "INVALID_STATE",
          "INVALID_PARAM", "INTERNAL"}
Answers == [op : {"none", "init", "peek", "free", "push"}, code : Codes,
            rec : Records \cup {NoRecord}]

\* The type of every variable but the flags
Types ==  /\ flash \in [0..(AreaBlocks - 1) -> Words]
          /\ rd_idx \in Int
          /\ wr_idx \in Int
          /\ pc \in Points
          /\ rec \in Records \cup {NoRecord}
          /\ idx \in Nat
          /\ then \in Answers
          /\ ret \in Answers
          /\ cuts \in 0..MaxCuts
          /\ faults \in 0..MaxFaults
          /\ live \in Seq([pos : 0..(AreaBlocks - 1), rec : Records])
          /\ top \in 0..AreaBlocks

Flags == fa \in BOOLEAN /\ intact \in BOOLEAN

\* Every variable has its type.
TypeOK == Types /\ Flags

\* What the proofs and the passing runs assume of the records: no block of a
\* record reads as an unused or a valid header, and the first one is not zero.
BenignPayload ==
    \A r \in Records :
        /\ \A j \in 1..Blocks(RecordSize[r]) : Payload[r][j].magic \in {"data", "invalid"}
        /\ Payload[r][1].magic = "data"

\* The block after the record of entry e of live, and the oldest live block
End(e) == e.pos + 1 + Blocks(RecordSize[e.rec])
First == IF live = <<>> THEN top ELSE live[1].pos

\* The live records lie one behind the other from First to top, each with its
\* header and all of its payload.
LiveChain ==
    /\ \A i \in 1..Len(live) :
         /\ End(live[i]) <= top
         /\ flash[live[i].pos] = Header(live[i].rec)
         /\ \A j \in 1..Blocks(RecordSize[live[i].rec]) :
              flash[live[i].pos + j] = PayloadWord(live[i].rec, j)
    /\ \A i, k \in 1..Len(live) : i < k => End(live[i]) <= live[k].pos
    /\ \A i \in 1..(Len(live) - 1) : live[i + 1].pos = End(live[i])
    /\ live # <<>> => End(live[Len(live)]) = top

\* Below the live records nothing reads as a header a boot would stop at or
\* jump over; the place of the next header is erased.
AroundLive ==
    /\ \A b \in 0..(First - 1) : flash[b].magic \in {"data", "invalid"}
    /\ First > 0 => flash[0].magic = "invalid"
    /\ top < AreaBlocks => flash[top] = Erased

\* However power was cut and whatever flash access failed, the flash of an
\* intact area holds exactly the records storage_push accepted and
\* storage_free did not free, in their order (storage.h: "First In First Out
\* storage").
FlashHoldsLive == intact => LiveChain /\ AroundLive

\* When no operation is in progress, the indexes that storage_init found or the
\* operations moved are those of the live records (a boot takes an area whose
\* last block only is unused for a full one).
IndexesMatchLive ==
    (intact /\ fa /\ pc \in {"ready", "write", "header"}) =>
        /\ rd_idx = First
        /\ wr_idx = top \/ (wr_idx = AreaBlocks /\ top = AreaBlocks - 1)

\* The record storage_peek returns is the oldest one stored and not freed.
PeekIsOldest ==
    (intact /\ pc = "ready" /\ ret.op = "peek" /\ ret.code = "SUCCESS") =>
        live # <<>> /\ ret.rec = live[1].rec

\* Steps that lose no live record: they keep, append to or free the oldest of them
Keeps == \/ live' = live
         \/ \E e \in [pos : 0..(AreaBlocks - 1), rec : Records] : live' = Append(live, e)
         \/ live # <<>> /\ live' = Tail(live)

\* While no flash access has failed, a stored record leaves only by
\* storage_free, or when a push finds the blocks behind wr_idx already
\* programmed: neither the erase of storage_free nor a boot drops a record.
LossNeedsError ==
    [][intact /\ faults' = MaxFaults => Keeps \/ pc = "write"]_vars

\* The answer an operation will give is settled once it starts reset_area.
\* As long as no erase is cut short and no flash access fails, this module
\* implements the FIFO of RecordFifo: peek and free serve the oldest record,
\* power cuts and boots lose none, and an operation that loses records fails.
Fifo == INSTANCE RecordFifo WITH
            queue <- [i \in 1..Len(live) |-> live[i].rec],
            answer <- IF then.op \in {"none", "init"} THEN ret ELSE then
ImplementsFifo == Fifo!Spec

-----------------------------------------------------------------------------
(* The inductive invariant *)

\* How the points of an operation constrain the indexes, whatever the flash
\* contains.
Control ==
    /\ pc # "ready" => fa
    /\ fa /\ pc \in {"ready", "write", "header"} => rd_idx >= 0 /\ wr_idx \in 0..AreaBlocks
    /\ ~fa \/ pc = "init_erase" => rd_idx = 0 /\ wr_idx = 0
    /\ pc = "check" => rd_idx = INVALID_INDEX /\ wr_idx = INVALID_INDEX
    /\ pc = "walk" => idx < AreaBlocks /\ rd_idx \in -1..(AreaBlocks - 1) /\ wr_idx = INVALID_INDEX
    /\ pc = "settle" => rd_idx \in -1..(AreaBlocks - 1) /\ wr_idx \in -1..(AreaBlocks - 1)
    /\ pc \in {"write", "header"} => rec \in Records /\ Fits(rec)
    /\ pc = "write" => idx \in 1..Blocks(RecordSize[rec])
    /\ pc = "header" => idx = Blocks(RecordSize[rec]) + 1
    /\ pc \in {"erase", "init_erase"} => \A b \in 0..(AreaBlocks - 1) : b < idx => flash[b] = Erased
    /\ pc \in {"erase", "init_erase"} => live = <<>> /\ ~intact
    /\ then.op = "peek" => then.code # "SUCCESS"

\* Above the place of the next header, the blocks of a push that was cut short
\* come first: if the first block is erased, all of them are.
CleanAbove ==
    (top + 1 < AreaBlocks /\ flash[top + 1] = Erased) =>
        \A b \in (top + 1)..(AreaBlocks - 1) : flash[b] = Erased

\* The walk of a boot has not passed the oldest live record, or has found it
\* and is at the end of a live record.
WalkOnLive ==
    \/ rd_idx = INVALID_INDEX /\ idx <= First
    \/ live # <<>> /\ rd_idx = First /\ \E i \in 1..Len(live) : idx = End(live[i])

\* It ends at top, at the end of the area, or on a failed read.
WalkEndsAtTop ==
    \/ /\ rd_idx = INVALID_INDEX /\ wr_idx = INVALID_INDEX
       /\ live = <<>> \/ faults < MaxFaults
    \/ live = <<>> /\ rd_idx = INVALID_INDEX /\ wr_idx = top
    \/ /\ live # <<>> /\ rd_idx = First
       /\ wr_idx = top \/ (wr_idx = INVALID_INDEX /\ top >= AreaBlocks - 1)

\* The blocks a push has written so far, and the erased ones after them
PushedSoFar ==
    /\ \A j \in 1..(idx - 1) : flash[top + j] = PayloadWord(rec, j)
    /\ idx > 1 => \A b \in (top + idx)..(AreaBlocks - 1) : flash[b] = Erased

Log == /\ LiveChain
       /\ AroundLive
       /\ CleanAbove
       /\ pc = "walk" => WalkOnLive
       /\ pc = "settle" => WalkEndsAtTop
       /\ pc \in {"write", "header"} => PushedSoFar
       /\ pc \in {"check", "walk", "settle"} /\ then.op # "init" => live = <<>> /\ top = 0

\* Types, control and, as long as the area is intact, the log: preserved by
\* every step of storage.c.
Inductive == /\ TypeOK
             /\ Control
             /\ intact => Log
             /\ IndexesMatchLive
             /\ PeekIsOldest
=============================================================================
