--------------------------- MODULE StorageProofs ---------------------------
(***************************************************************************)
(* Proofs about Storage, for every area size, page size, set of records,   *)
(* number of power cuts and number of failed flash accesses, and about     *)
(* PubSub, whose threads share a Storage.                                  *)
(***************************************************************************)
EXTENDS PubSub, SequenceTheorems, TLAPS

\* A record takes a natural number of blocks.
LEMMA BlocksNat == \A s \in Nat : Blocks(s) \in Nat
  <1> SUFFICES ASSUME NEW s \in Nat PROVE Blocks(s) \in Nat
      OBVIOUS
  <1>1. s + BlockSize - 1 \in Nat /\ BlockSize \in Nat \ {0}
      BY StorageConstants
  <1> QED BY <1>1 DEF Blocks

\* The blocks the module writes are words.
LEMMA WordTypes ==
    /\ Erased \in Words /\ Zero \in Words /\ Garbage \in Words
    /\ \A r \in Records : Header(r) \in Words
    /\ \A r \in Records : \A j \in 1..Blocks(RecordSize[r]) : PayloadWord(r, j) \in Words
  <1>1. Erased \in Words /\ Zero \in Words /\ Garbage \in Words
      BY DEF Erased, Zero, Garbage, Word, Words, Magic, UnusedSize
  <1>2. ASSUME NEW r \in Records PROVE Header(r) \in Words
    <2>1. RecordSize[r] \in Nat
        BY StorageConstants
    <2> QED BY <2>1 DEF Header, Word, Words, Magic
  <1>3. ASSUME NEW r \in Records, NEW j \in 1..Blocks(RecordSize[r])
        PROVE  PayloadWord(r, j) \in Words
    <2>1. Payload[r][j].magic \in Magic /\ Payload[r][j].size \in Nat
        BY PayloadAssumption
    <2> QED BY <2>1, PayloadAssumption DEF PayloadWord, Word, Words
  <1> QED BY <1>1, <1>2, <1>3

\* What a block of the area gives when it is read as a header.
LEMMA ReadTypes ==
    ASSUME Types, NEW i \in 0..(AreaBlocks - 1)
    PROVE  /\ flash[i] \in Words
           /\ flash[i].magic \in Magic
           /\ flash[i].size \in Nat
           /\ flash[i].owner \in Records \cup {NoRecord}
           /\ Blocks(flash[i].size) \in Nat
           /\ NextHeader(i) \in Nat /\ NextHeader(i) > i
           /\ WalkNext(i) \in Nat /\ WalkNext(i) > i
  <1>1. flash[i] \in Words
      BY DEF Types
  <1>2. flash[i].magic \in Magic /\ flash[i].size \in Nat
        /\ flash[i].owner \in Records \cup {NoRecord}
      BY <1>1 DEF Words
  <1>3. Blocks(flash[i].size) \in Nat
      BY <1>2, BlocksNat
  <1>4. NextHeader(i) \in Nat /\ NextHeader(i) > i
      BY <1>3 DEF NextHeader
  <1>5. WalkNext(i) \in Nat /\ WalkNext(i) > i
      BY <1>4 DEF WalkNext
  <1> QED BY <1>1, <1>2, <1>3, <1>4, <1>5

\* No live record is a list of live records.
LEMMA NoLive == <<>> \in Seq([pos : 0..(AreaBlocks - 1), rec : Records])
  OBVIOUS

\* Types and control are inductive.
LEMMA TypesControlInit == Init => Types /\ Control
  <1> SUFFICES ASSUME Init PROVE Types /\ Control
      OBVIOUS
  <1>1. flash \in [0..(AreaBlocks - 1) -> Words]
      BY WordTypes DEF Init
  <1>2. live \in Seq([pos : 0..(AreaBlocks - 1), rec : Records])
      BY NoLive DEF Init
  <1> QED BY StorageConstants, <1>1, <1>2
          DEF Init, Types, Control, Points, Answer, NoAnswer, Answers, Codes

\* Every step of storage.c keeps the types and the control points.
LEMMA TypesControlStep ==
    ASSUME Types, Control, [Next]_vars
    PROVE  Types' /\ Control'
  <1> USE StorageConstants, NoLive
  <1> USE DEF Types, Control, Points, INVALID_INDEX, Answer, NoAnswer, Answers, Codes
  <1>1. ASSUME StorageInit PROVE Types' /\ Control'
    <2>1. Types'
        BY <1>1 DEF StorageInit, history
    <2>2. Control'
        BY <1>1 DEF StorageInit, history
    <2> QED BY <2>1, <2>2
  <1>2. ASSUME StorageInitCannotOpen PROVE Types' /\ Control'
    <2>1. Types'
        BY <1>2 DEF StorageInitCannotOpen, Return, FlashFault, history
    <2>2. Control'
        BY <1>2 DEF StorageInitCannotOpen, Return, FlashFault, history
    <2> QED BY <2>1, <2>2
  <1>3. ASSUME CheckFirstBlock PROVE Types' /\ Control'
    <2>1. Types'
        BY <1>3 DEF CheckFirstBlock, history
    <2>2. Control'
        BY <1>3 DEF CheckFirstBlock, history
    <2> QED BY <2>1, <2>2
  <1>4. ASSUME CheckFirstBlockFails PROVE Types' /\ Control'
    <2>1. Types'
      <3>1. CASE then.op = "init"
          BY <1>4, <3>1 DEF CheckFirstBlockFails, InitAreaFails, FlashFault
      <3>2. CASE then.op # "init"
          BY <1>4, <3>2 DEF CheckFirstBlockFails, InitAreaFails, Return, FlashFault, history
      <3> QED BY <3>1, <3>2
    <2>2. Control'
        BY <1>4 DEF CheckFirstBlockFails, InitAreaFails, Return, FlashFault, history
    <2> QED BY <2>1, <2>2
  <1>5. ASSUME Walk PROVE Types' /\ Control'
    <2> USE DEF Walk, WalkTo, FlashFault, history
    <2>1. /\ idx \in 0..(AreaBlocks - 1)
          /\ WalkNext(idx) \in Nat
        BY <1>5, ReadTypes
    <2>2. Types'
        BY <1>5, <2>1
    <2>3. Control'
        BY <1>5, <2>1
    <2> QED BY <2>2, <2>3
  <1>6. ASSUME WalkRecordFault PROVE Types' /\ Control'
    <2> USE DEF WalkRecordFault, WalkTo, FlashFault, history
    <2>1. /\ idx \in 0..(AreaBlocks - 1)
          /\ WalkNext(idx) \in Nat
        BY <1>6, ReadTypes
    <2>2. Types'
        BY <1>6, <2>1
    <2>3. Control'
        BY <1>6, <2>1
    <2> QED BY <2>2, <2>3
  <1>7. ASSUME WalkHeaderFault PROVE Types' /\ Control'
    <2>1. Types'
        BY <1>7 DEF WalkHeaderFault, FlashFault, history
    <2>2. Control'
        BY <1>7 DEF WalkHeaderFault, FlashFault, history
    <2> QED BY <2>1, <2>2
  <1>8. ASSUME Settle PROVE Types' /\ Control'
    <2>1. Types'
      <3>1. CASE rd_idx = INVALID_INDEX /\ wr_idx = INVALID_INDEX /\ then.op = "init"
          BY <1>8, <3>1 DEF Settle, InitAreaFails
      <3>2. CASE rd_idx = INVALID_INDEX /\ wr_idx = INVALID_INDEX /\ then.op # "init"
          BY <1>8, <3>2 DEF Settle, InitAreaFails, Return, history
      <3>3. CASE ~(rd_idx = INVALID_INDEX /\ wr_idx = INVALID_INDEX)
          BY <1>8, <3>3 DEF Settle, Return, history
      <3> QED BY <3>1, <3>2, <3>3
    <2>2. Control'
        BY <1>8 DEF Settle, InitAreaFails, Return, history
    <2> QED BY <2>1, <2>2
  <1>9. ASSUME ErasePage PROVE Types' /\ Control'
    <2> USE DEF ErasePage, Return, history
    <2>1. flash' \in [0..(AreaBlocks - 1) -> Words]
        BY <1>9, WordTypes
    <2>2. Types'
        BY <1>9, <2>1
    <2>3. Control'
        BY <1>9
    <2> QED BY <2>2, <2>3
  <1>10. ASSUME EraseFails PROVE Types' /\ Control'
    <2>1. Types'
        BY <1>10 DEF EraseFails, Return, FlashFault, history
    <2>2. Control'
        BY <1>10 DEF EraseFails, Return, FlashFault, history
    <2> QED BY <2>1, <2>2
  <1>11. ASSUME PushWrite PROVE Types' /\ Control'
    <2> USE DEF PushWrite, history
    <2>1. /\ rec \in Records
          /\ Blocks(RecordSize[rec]) \in Nat \ {0}
          /\ PayloadWord(rec, idx) \in Words
        BY <1>11, PayloadAssumption, WordTypes
    <2>2. Types'
      <3>1. flash' \in [0..(AreaBlocks - 1) -> Words]
          BY <1>11, <2>1
      <3> QED BY <1>11, <2>1, <3>1
    <2>3. Control'
        BY <1>11, <2>1 DEF Fits
    <2> QED BY <2>2, <2>3
  <1>12. ASSUME PushWriteFails PROVE Types' /\ Control'
    <2>1. Types'
        BY <1>12 DEF PushWriteFails, ResetArea, FlashFault, history
    <2>2. Control'
        BY <1>12 DEF PushWriteFails, ResetArea, FlashFault, history
    <2> QED BY <2>1, <2>2
  <1>13. ASSUME PushReadBackFails PROVE Types' /\ Control'
    <2>1. Types'
        BY <1>13 DEF PushReadBackFails, ResetArea, FlashFault, history
    <2>2. Control'
        BY <1>13 DEF PushReadBackFails, ResetArea, FlashFault, history
    <2> QED BY <2>1, <2>2
  <1>14. ASSUME PushHeader PROVE Types' /\ Control'
    <2> USE DEF PushHeader, Return, history
    <2>1. /\ rec \in Records
          /\ Blocks(RecordSize[rec]) \in Nat \ {0}
          /\ wr_idx \in 0..(AreaBlocks - 1)
          /\ wr_idx + 1 + Blocks(RecordSize[rec]) \in 0..AreaBlocks
          /\ Header(rec) \in Words
        BY <1>14, PayloadAssumption, WordTypes DEF Fits
    <2>2. live' \in Seq([pos : 0..(AreaBlocks - 1), rec : Records])
        BY <1>14, <2>1
    <2>3. Types'
        BY <1>14, <2>1, <2>2
    <2>4. Control'
        BY <1>14, <2>1
    <2> QED BY <2>3, <2>4
  <1>15. ASSUME PushHeaderFails PROVE Types' /\ Control'
    <2>1. Types'
        BY <1>15 DEF PushHeaderFails, ResetArea, FlashFault, history
    <2>2. Control'
        BY <1>15 DEF PushHeaderFails, ResetArea, FlashFault, history
    <2> QED BY <2>1, <2>2
  <1>16. ASSUME NotInitialized PROVE Types' /\ Control'
    <2>1. Types'
        BY <1>16 DEF NotInitialized, Refuse, Return, history
    <2>2. Control'
        BY <1>16 DEF NotInitialized, Refuse, Return, history
    <2> QED BY <2>1, <2>2
  <1>17. ASSUME PeekEmpty PROVE Types' /\ Control'
    <2>1. Types'
        BY <1>17 DEF PeekEmpty, Refuse, Return, history
    <2>2. Control'
        BY <1>17 DEF PeekEmpty, Refuse, Return, history
    <2> QED BY <2>1, <2>2
  <1>18. ASSUME NEW size \in BufferSizes, PeekTooSmall(size) PROVE Types' /\ Control'
    <2>1. Types'
        BY <1>18 DEF PeekTooSmall, Refuse, Return, history
    <2>2. Control'
        BY <1>18 DEF PeekTooSmall, Refuse, Return, history
    <2> QED BY <2>1, <2>2
  <1>19. ASSUME NEW size \in BufferSizes, PeekRecord(size) PROVE Types' /\ Control'
    <2> USE DEF PeekRecord, Return, history
    <2>1. flash[rd_idx].owner \in Records \cup {NoRecord}
        BY <1>19, ReadTypes DEF HeaderReadable
    <2>2. Types'
        BY <1>19, <2>1
    <2>3. Control'
        BY <1>19
    <2> QED BY <2>2, <2>3
  <1>81. ASSUME NEW size \in BufferSizes, PeekResets(size) PROVE Types' /\ Control'
    <2>1. Types'
        BY <1>81 DEF PeekResets, ResetArea, FlashFault, history
    <2>2. Control'
        BY <1>81 DEF PeekResets, ResetArea, FlashFault, history
    <2> QED BY <2>1, <2>2
  <1>21. ASSUME FreeNotFound PROVE Types' /\ Control'
    <2>1. Types'
        BY <1>21 DEF FreeNotFound, Refuse, Return, FlashFault, history
    <2>2. Control'
        BY <1>21 DEF FreeNotFound, Refuse, Return, FlashFault, history
    <2> QED BY <2>1, <2>2
  <1>22. ASSUME FreeCannotWrite PROVE Types' /\ Control'
    <2>1. Types'
        BY <1>22 DEF FreeCannotWrite, Refuse, Return, FlashFault, history
    <2>2. Control'
        BY <1>22 DEF FreeCannotWrite, Refuse, Return, FlashFault, history
    <2> QED BY <2>1, <2>2
  <1>23. ASSUME FreeRecord PROVE Types' /\ Control'
    <2> USE DEF FreeRecord, history
    <2>1. /\ rd_idx \in 0..(AreaBlocks - 1)
          /\ flash[rd_idx].owner \in Records \cup {NoRecord}
          /\ NextHeader(rd_idx) \in Nat
      <3>1. rd_idx \in 0..(AreaBlocks - 1)
          BY <1>23 DEF HeaderReadable
      <3> QED BY <3>1, ReadTypes
    <2>2. flash' \in [0..(AreaBlocks - 1) -> Words]
        BY <1>23, WordTypes
    <2>3. CASE WorthErasing(NextHeader(rd_idx))
        BY <1>23, <2>1, <2>2, <2>3 DEF ResetArea
    <2>4. CASE ~WorthErasing(NextHeader(rd_idx))
      <3>1. live' \in Seq([pos : 0..(AreaBlocks - 1), rec : Records])
        <4>1. CASE live = <<>>
            BY <1>23, <2>4, <4>1
        <4>2. CASE live # <<>>
          <5>1. Tail(live) \in Seq([pos : 0..(AreaBlocks - 1), rec : Records])
              BY <4>2, HeadTailProperties
          <5> QED BY <1>23, <2>4, <4>2, <5>1
        <4> QED BY <4>1, <4>2
      <3> QED BY <1>23, <2>1, <2>2, <2>4, <3>1 DEF Return
    <2> QED BY <2>3, <2>4
  <1>24. ASSUME NEW r \in Records, PushRefused(r) PROVE Types' /\ Control'
    <2>1. CASE Refuse("push", "INVALID_PARAM")
        BY <1>24, <2>1 DEF PushRefused, Refuse, Return, history
    <2>2. CASE Refuse("push", "NO_MEM")
        BY <1>24, <2>2 DEF PushRefused, Refuse, Return, history
    <2> QED BY <1>24, <2>1, <2>2 DEF PushRefused
  <1>25. ASSUME NEW r \in Records, PushBegin(r) PROVE Types' /\ Control'
    <2> USE DEF PushBegin, history
    <2>1. Blocks(RecordSize[r]) \in Nat \ {0}
        BY PayloadAssumption
    <2>2. Types'
        BY <1>25, <2>1
    <2>3. Control'
        BY <1>25, <2>1 DEF Fits
    <2> QED BY <2>2, <2>3
  <1>26. ASSUME PowerCut PROVE Types' /\ Control'
    <2>1. Types'
        BY <1>26 DEF PowerCut, Return, history
    <2>2. Control'
        BY <1>26 DEF PowerCut, Return, history
    <2> QED BY <2>1, <2>2
  <1>27. ASSUME UNCHANGED vars PROVE Types' /\ Control'
      BY <1>27 DEF vars, ramVars, history, Fits
  <1> QED
      BY <1>1, <1>2, <1>3, <1>4, <1>5, <1>6, <1>7, <1>8, <1>9, <1>10, <1>11, <1>12, <1>13, <1>14, <1>15, <1>16, <1>17, <1>18, <1>19, <1>81, <1>21, <1>22, <1>23, <1>24, <1>25, <1>26, <1>27
         DEF Next, Boot, Erase, Push, Call, StoragePeek, StorageFree, StoragePush

-----------------------------------------------------------------------------
(* The log *)

\* What the entries of live are.
LEMMA LiveTypes ==
    ASSUME Types, NEW i \in 1..Len(live)
    PROVE  /\ live[i].rec \in Records
           /\ live[i].pos \in 0..(AreaBlocks - 1)
           /\ Blocks(RecordSize[live[i].rec]) \in Nat \ {0}
           /\ End(live[i]) \in Nat
           /\ End(live[i]) = live[i].pos + 1 + Blocks(RecordSize[live[i].rec])
           /\ End(live[i]) >= live[i].pos + 2
  <1>1. live[i] \in [pos : 0..(AreaBlocks - 1), rec : Records]
    <2>1. live \in Seq([pos : 0..(AreaBlocks - 1), rec : Records])
        BY DEF Types
    <2> QED BY <2>1, ElementOfSeq
  <1>2. live[i].rec \in Records /\ live[i].pos \in 0..(AreaBlocks - 1)
      BY <1>1
  <1>3. Blocks(RecordSize[live[i].rec]) \in Nat \ {0}
      BY <1>2, PayloadAssumption
  <1> QED BY <1>2, <1>3 DEF End

\* The oldest block that matters is a block or the end of the area.
LEMMA FirstType ==
    ASSUME Types
    PROVE  /\ First \in 0..AreaBlocks
           /\ live = <<>> => First = top
           /\ live # <<>> => 1 \in 1..Len(live) /\ First = live[1].pos
  <1>1. CASE live = <<>>
      BY <1>1 DEF First, Types
  <1>2. CASE live # <<>>
    <2>1. Len(live) \in Nat /\ Len(live) >= 1
        BY <1>2, EmptySeq DEF Types
    <2>2. live[1].pos \in 0..(AreaBlocks - 1)
        BY <2>1, LiveTypes
    <2> QED BY <1>2, <2>1, <2>2, StorageConstants DEF First
  <1> QED BY <1>1, <1>2

\* Steps that touch neither the flash nor the history keep the log.
LEMMA LogFrame ==
    ASSUME UNCHANGED <<flash, live, top>>
    PROVE  /\ First' = First
           /\ LiveChain => LiveChain'
           /\ AroundLive => AroundLive'
           /\ CleanAbove => CleanAbove'
  <1>1. First' = First
      BY DEF First
  <1>2. LiveChain => LiveChain'
      BY DEF LiveChain, End
  <1>3. AroundLive => AroundLive'
      BY <1>1 DEF AroundLive
  <1>4. CleanAbove => CleanAbove'
      BY DEF CleanAbove
  <1> QED BY <1>1, <1>2, <1>3, <1>4

\* In an intact area that is open, a valid header at rd_idx is the one of the
\* oldest live record.
LEMMA ValidAtReadIndex ==
    ASSUME Types, Control, intact, Log, IndexesMatchLive, fa, pc = "ready",
           rd_idx < AreaBlocks, flash[rd_idx].magic = "valid"
    PROVE  /\ live # <<>>
           /\ rd_idx = live[1].pos
           /\ flash[rd_idx] = Header(live[1].rec)
           /\ NextHeader(rd_idx) = End(live[1])
  <1>1. rd_idx = First
      BY DEF IndexesMatchLive
  <1>2. live # <<>>
    <2>1. SUFFICES ASSUME live = <<>> PROVE FALSE
        OBVIOUS
    <2>2. rd_idx = top
        BY <1>1, <2>1, FirstType
    <2>3. flash[rd_idx] = Erased
        BY <2>2 DEF Log, AroundLive
    <2> QED BY <2>3 DEF Erased, Word
  <1>3. 1 \in 1..Len(live) /\ rd_idx = live[1].pos
      BY <1>1, <1>2, FirstType
  <1>4. flash[rd_idx] = Header(live[1].rec)
      BY <1>3 DEF Log, LiveChain
  <1>5. flash[rd_idx].size = RecordSize[live[1].rec]
      BY <1>4 DEF Header, Word
  <1> QED BY <1>2, <1>3, <1>4, <1>5 DEF NextHeader, End

\* A push that writes its header adds its record behind the live ones.
LEMMA PushHeaderLog ==
    ASSUME BenignPayload, Types, Control, intact, Log, IndexesMatchLive, PushHeader
    PROVE  Log' /\ IndexesMatchLive'
  <1> DEFINE n == Blocks(RecordSize[rec])
             e == [pos |-> wr_idx, rec |-> rec]
             T == [pos : 0..(AreaBlocks - 1), rec : Records]
  <1>1. /\ rec \in Records
        /\ n \in Nat \ {0}
        /\ wr_idx \in 0..AreaBlocks
        /\ wr_idx + 1 + n <= AreaBlocks
        /\ idx = n + 1
        /\ fa
      BY PayloadAssumption, StorageConstants DEF PushHeader, Control, Fits
  <1>2. wr_idx = top
      BY <1>1, StorageConstants DEF IndexesMatchLive, PushHeader
  <1>3. /\ \A j \in 1..n : flash[top + j] = PayloadWord(rec, j)
        /\ \A b \in (top + n + 1)..(AreaBlocks - 1) : flash[b] = Erased
    <2> HIDE DEF n
    <2>0. top \in Int
        BY DEF Types
    <2>1. idx - 1 = n /\ idx > 1 /\ top + idx = top + n + 1
        BY <1>1, <2>0
    <2> QED BY <2>1 DEF Log, PushedSoFar, PushHeader
  <1>4. /\ flash' = [flash EXCEPT ![top] = Header(rec)]
        /\ top' = top + 1 + n
        /\ live' = Append(live, e)
        /\ pc' = "ready" /\ fa' /\ intact'
        /\ wr_idx' = top' /\ rd_idx' = rd_idx
      BY <1>1, <1>2 DEF PushHeader, Return
  <1>5. /\ flash'[top] = Header(rec)
        /\ \A b \in 0..(AreaBlocks - 1) : b # top => flash'[b] = flash[b]
        /\ top \in 0..(AreaBlocks - 1)
      BY <1>1, <1>2, <1>4, StorageConstants DEF Types
  <1>6. e \in T /\ live \in Seq(T)
      BY <1>1, <1>2, <1>5 DEF Types
  <1>7. /\ Len(live') = Len(live) + 1
        /\ \A i \in 1..Len(live) : live'[i] = live[i]
        /\ live'[Len(live) + 1] = e
        /\ live' # <<>>
        /\ Len(live) \in Nat
      BY <1>4, <1>6, AppendProperties, SMTT(30)
  <1>8. End(e) = top'
      BY <1>2, <1>4 DEF End
  <1>9. First' = First
    <2>1. CASE live = <<>>
        BY <2>1, <1>7, <1>2, FirstType DEF First
    <2>2. CASE live # <<>>
        BY <2>2, <1>7, FirstType DEF First
    <2> QED BY <2>1, <2>2
  <1>10. \A i \in 1..Len(live) : End(live[i]) <= top
      BY DEF Log, LiveChain
  <1>11. LiveChain'
    <2>1. ASSUME NEW i \in 1..Len(live')
          PROVE  /\ End(live'[i]) <= top'
                 /\ flash'[live'[i].pos] = Header(live'[i].rec)
                 /\ \A j \in 1..Blocks(RecordSize[live'[i].rec]) :
                        flash'[live'[i].pos + j] = PayloadWord(live'[i].rec, j)
      <3>1. CASE i = Len(live) + 1
          BY <3>1, <1>1, <1>2, <1>3, <1>4, <1>5, <1>7, <1>8
      <3>2. CASE i \in 1..Len(live)
        <4>1. /\ live[i].pos \in 0..(AreaBlocks - 1)
              /\ Blocks(RecordSize[live[i].rec]) \in Nat
              /\ End(live[i]) \in Nat
              /\ End(live[i]) = live[i].pos + 1 + Blocks(RecordSize[live[i].rec])
              /\ End(live[i]) <= top
            BY <3>2, <1>10, LiveTypes
        <4>2. /\ flash[live[i].pos] = Header(live[i].rec)
              /\ \A j \in 1..Blocks(RecordSize[live[i].rec]) :
                     flash[live[i].pos + j] = PayloadWord(live[i].rec, j)
            BY <3>2 DEF Log, LiveChain
        <4>3. \A b \in live[i].pos..(End(live[i]) - 1) : flash'[b] = flash[b]
            BY <4>1, <1>5, StorageConstants
        <4>4. live'[i] = live[i]
            BY <3>2, <1>7
        <4>5. End(live[i]) <= top'
            BY <4>1, <1>1, <1>4, <1>5
        <4>6. flash'[live[i].pos] = Header(live[i].rec)
          <5>1. live[i].pos \in live[i].pos..(End(live[i]) - 1)
              BY <4>1
          <5> QED BY <4>2, <4>3, <5>1
        <4>7. ASSUME NEW j \in 1..Blocks(RecordSize[live[i].rec])
              PROVE  flash'[live[i].pos + j] = PayloadWord(live[i].rec, j)
            BY <4>1, <4>2, <4>3, SMTT(30)
        <4> QED BY <4>4, <4>5, <4>6, <4>7
      <3> QED BY <3>1, <3>2, <1>7
    <2>2. ASSUME NEW i \in 1..Len(live'), NEW k \in 1..Len(live'), i < k
          PROVE  End(live'[i]) <= live'[k].pos
      <3>1. i \in 1..Len(live) /\ live'[i] = live[i]
          BY <2>2, <1>7
      <3>2. CASE k = Len(live) + 1
          BY <3>1, <3>2, <1>2, <1>7, <1>10
      <3>3. CASE k \in 1..Len(live)
          BY <2>2, <3>1, <3>3, <1>7 DEF Log, LiveChain
      <3> QED BY <3>2, <3>3, <1>7
    <2>3. ASSUME NEW i \in 1..(Len(live') - 1)
          PROVE  live'[i + 1].pos = End(live'[i])
      <3>1. i \in 1..Len(live) /\ live'[i] = live[i]
          BY <1>7
      <3>2. CASE i = Len(live)
        <4>1. End(live[i]) = top
            BY <3>1, <3>2, <1>6, EmptySeq DEF Log, LiveChain
        <4> QED BY <3>1, <3>2, <4>1, <1>2, <1>7
      <3>3. CASE i \in 1..(Len(live) - 1)
          BY <3>1, <3>3, <1>7 DEF Log, LiveChain
      <3> QED BY <3>1, <3>2, <3>3, <1>7
    <2>4. End(live'[Len(live')]) = top'
        BY <1>7, <1>8
    <2> QED BY <2>1, <2>2, <2>3, <2>4 DEF LiveChain, End
  <1>12. AroundLive'
    <2>1. First \in 0..top
      <3>1. CASE live = <<>>
          BY <3>1, FirstType, <1>5
      <3>2. CASE live # <<>>
        <4>1. 1 \in 1..Len(live) /\ First = live[1].pos
            BY <3>2, FirstType
        <4> QED BY <4>1, LiveTypes, <1>5, <1>10, StorageConstants
      <3> QED BY <3>1, <3>2
    <2>2. \A b \in 0..(First - 1) : flash'[b] = flash[b]
        BY <2>1, <1>5, StorageConstants
    <2>3. \A b \in 0..(First' - 1) : flash'[b].magic \in {"data", "invalid"}
        BY <2>2, <1>9 DEF Log, AroundLive
    <2>4. First' > 0 => flash'[0].magic = "invalid"
        BY <2>1, <2>2, <1>9 DEF Log, AroundLive
    <2>5. top' < AreaBlocks => flash'[top'] = Erased
        BY <1>1, <1>3, <1>4, <1>5, StorageConstants
    <2> QED BY <2>3, <2>4, <2>5 DEF AroundLive
  <1>13. CleanAbove'
      BY <1>1, <1>3, <1>4, <1>5 DEF CleanAbove
  <1>14. Log'
      BY <1>4, <1>11, <1>12, <1>13 DEF Log
  <1>15. IndexesMatchLive'
      BY <1>4, <1>9, <1>1 DEF IndexesMatchLive, PushHeader
  <1> QED BY <1>14, <1>15

\* A free invalidates the oldest live record and only that one.
LEMMA FreeRecordLog ==
    ASSUME BenignPayload, Types, Control, intact, Log, IndexesMatchLive, FreeRecord, intact'
    PROVE  /\ Log' /\ IndexesMatchLive'
           /\ live # <<>> /\ live' = Tail(live)
  <1> DEFINE T == [pos : 0..(AreaBlocks - 1), rec : Records]
             n == Blocks(RecordSize[live[1].rec])
  <1>1. /\ live # <<>>
        /\ rd_idx = live[1].pos
        /\ NextHeader(rd_idx) = End(live[1])
        /\ fa
      BY ValidAtReadIndex DEF FreeRecord, HeaderReadable
  <1>2. /\ flash' = [flash EXCEPT ![rd_idx] = Zero]
        /\ rd_idx' = End(live[1])
        /\ live' = Tail(live)
        /\ pc' = "ready"
        /\ UNCHANGED <<fa, wr_idx, top, intact>>
      BY <1>1 DEF FreeRecord, ResetArea, Return
  <1>3. live \in Seq(T) /\ Len(live) \in Nat \ {0}
      BY <1>1, EmptySeq DEF Types
  <1>4. /\ Len(live') = Len(live) - 1
        /\ \A i \in 1..Len(live') : live'[i] = live[i + 1]
        /\ live' \in Seq(T)
      BY <1>1, <1>2, <1>3, HeadTailProperties
  <1>5. /\ live[1].pos \in 0..(AreaBlocks - 1)
        /\ n \in Nat \ {0}
        /\ End(live[1]) \in Nat
        /\ End(live[1]) = live[1].pos + 1 + n
        /\ First = live[1].pos
      BY <1>1, <1>3, LiveTypes, FirstType
  <1>6. /\ flash'[live[1].pos] = Zero
        /\ \A b \in 0..(AreaBlocks - 1) : b # live[1].pos => flash'[b] = flash[b]
      BY <1>1, <1>2, <1>5 DEF Types
  <1>7. /\ \A i \in 1..Len(live) : End(live[i]) <= top
        /\ top \in 0..AreaBlocks
      BY DEF Log, LiveChain, Types
  <1>81. End(live[1]) <= top /\ live[1].pos < top
    <2>1. 1 \in 1..Len(live)
        BY <1>3
    <2>2. End(live[1]) <= top
        BY <2>1, <1>7
    <2> QED BY <2>2, <1>5, <1>7
  <1>8. First' = End(live[1])
    <2>1. CASE live' = <<>>
      <3>1. Len(live) = 1
          BY <2>1, <1>3, <1>4, EmptySeq
      <3>2. End(live[1]) = top
          BY <3>1, <1>1 DEF Log, LiveChain
      <3> QED BY <2>1, <3>2, <1>2 DEF First
    <2>2. CASE live' # <<>>
      <3>1. Len(live') \in Nat \ {0}
          BY <2>2, <1>4, EmptySeq
      <3>2. live'[1] = live[2] /\ 1 \in 1..(Len(live) - 1)
          BY <3>1, <1>3, <1>4
      <3>3. live[1 + 1].pos = End(live[1])
          BY <3>2 DEF Log, LiveChain
      <3> QED BY <2>2, <3>2, <3>3 DEF First
    <2> QED BY <2>1, <2>2
  <1>9. LiveChain'
    <2>1. ASSUME NEW i \in 1..Len(live')
          PROVE  /\ End(live'[i]) <= top'
                 /\ flash'[live'[i].pos] = Header(live'[i].rec)
                 /\ \A j \in 1..Blocks(RecordSize[live'[i].rec]) :
                        flash'[live'[i].pos + j] = PayloadWord(live'[i].rec, j)
      <3> DEFINE k == i + 1
      <3>1. k \in 1..Len(live) /\ 1 < k /\ live'[i] = live[k] /\ 1 \in 1..Len(live)
          BY <1>3, <1>4, SMTT(30)
      <3> HIDE DEF k
      <3>2. /\ live[k].pos \in 0..(AreaBlocks - 1)
            /\ Blocks(RecordSize[live[k].rec]) \in Nat
            /\ End(live[k]) \in Nat
            /\ End(live[k]) = live[k].pos + 1 + Blocks(RecordSize[live[k].rec])
            /\ End(live[k]) <= top
          BY <3>1, <1>7, LiveTypes
      <3>3. End(live[1]) <= live[k].pos
          BY <3>1 DEF Log, LiveChain
      <3>4. /\ flash[live[k].pos] = Header(live[k].rec)
            /\ \A j \in 1..Blocks(RecordSize[live[k].rec]) :
                   flash[live[k].pos + j] = PayloadWord(live[k].rec, j)
          BY <3>1 DEF Log, LiveChain
      <3>5. \A b \in live[k].pos..(End(live[k]) - 1) : flash'[b] = flash[b]
        <4>1. ASSUME NEW b \in live[k].pos..(End(live[k]) - 1)
              PROVE  b \in 0..(AreaBlocks - 1) /\ b # live[1].pos
          <5> HIDE DEF n
          <5>1. b \in Nat /\ live[k].pos <= b /\ b < End(live[k])
              BY <3>2
          <5>2. b < AreaBlocks
              BY <5>1, <3>2, <1>7, StorageConstants
          <5>3. live[1].pos < End(live[1])
              BY <1>5
          <5>4. live[1].pos < b
              BY <5>1, <5>3, <3>2, <3>3, <1>5, SMTT(30)
          <5> QED BY <5>1, <5>2, <5>4, <1>5, StorageConstants
        <4> QED BY <4>1, <1>6
      <3>6. flash'[live[k].pos] = Header(live[k].rec)
        <4>1. live[k].pos \in live[k].pos..(End(live[k]) - 1)
            BY <3>2
        <4> QED BY <3>4, <3>5, <4>1
      <3>7. ASSUME NEW j \in 1..Blocks(RecordSize[live[k].rec])
            PROVE  flash'[live[k].pos + j] = PayloadWord(live[k].rec, j)
        <4>1. live[k].pos + j \in live[k].pos..(End(live[k]) - 1)
            BY <3>2
        <4> QED BY <3>4, <3>5, <4>1
      <3> QED BY <3>1, <3>2, <3>6, <3>7, <1>2
    <2>2. ASSUME NEW i \in 1..Len(live'), NEW k \in 1..Len(live'), i < k
          PROVE  End(live'[i]) <= live'[k].pos
      <3>1. i + 1 \in 1..Len(live) /\ k + 1 \in 1..Len(live) /\ i + 1 < k + 1
          BY <2>2, <1>3, <1>4
      <3> QED BY <3>1, <1>4 DEF Log, LiveChain
    <2>3. ASSUME NEW i \in 1..(Len(live') - 1)
          PROVE  live'[i + 1].pos = End(live'[i])
      <3>1. /\ i \in 1..Len(live') /\ i + 1 \in 1..Len(live')
            /\ i + 1 \in 1..(Len(live) - 1)
          BY <1>3, <1>4
      <3> QED BY <3>1, <1>4 DEF Log, LiveChain
    <2>4. live' # <<>> => End(live'[Len(live')]) = top'
      <3>1. SUFFICES ASSUME live' # <<>> PROVE End(live'[Len(live')]) = top'
          OBVIOUS
      <3>2. Len(live') \in 1..Len(live') /\ Len(live') + 1 = Len(live)
          BY <3>1, <1>3, <1>4, EmptySeq
      <3> QED BY <3>2, <1>1, <1>2, <1>4 DEF Log, LiveChain
    <2> QED BY <2>1, <2>2, <2>3, <2>4 DEF LiveChain, End
  <1>10. AroundLive'
    <2>1. ASSUME NEW b \in 0..(End(live[1]) - 1)
          PROVE  flash'[b].magic \in {"data", "invalid"}
      <3>1. b \in 0..(AreaBlocks - 1)
          BY <1>5, <1>7, <1>81, StorageConstants
      <3>2. CASE b < live[1].pos
          BY <3>1, <3>2, <1>5, <1>6 DEF Log, AroundLive
      <3>3. CASE b = live[1].pos
          BY <3>3, <1>6 DEF Zero, Word
      <3>4. CASE b > live[1].pos
        <4>1. PICK j \in 1..n : b = live[1].pos + j
          <5>1. b - live[1].pos \in 1..n
              BY <3>4, <1>5
          <5> QED BY <5>1, <1>5
        <4>2. flash'[b] = PayloadWord(live[1].rec, j)
          <5>1. flash[live[1].pos + j] = PayloadWord(live[1].rec, j)
              BY <1>3, SMTT(30) DEF Log, LiveChain
          <5>2. b # live[1].pos
              BY <3>4, <1>5
          <5> QED BY <3>1, <4>1, <5>1, <5>2, <1>6
        <4>3. live[1].rec \in Records
            BY <1>3, LiveTypes
        <4> QED BY <4>1, <4>2, <4>3 DEF PayloadWord, Word, BenignPayload
      <3> QED BY <3>2, <3>3, <3>4, <1>5
    <2>2. flash'[0].magic = "invalid"
      <3>1. CASE live[1].pos = 0
          BY <3>1, <1>6 DEF Zero, Word
      <3>2. CASE live[1].pos > 0
          BY <3>2, <1>5, <1>6, StorageConstants DEF Log, AroundLive
      <3> QED BY <3>1, <3>2, <1>5
    <2>3. top < AreaBlocks => flash'[top] = Erased
        BY <1>5, <1>6, <1>7, <1>81, StorageConstants DEF Log, AroundLive
    <2> QED BY <2>1, <2>2, <2>3, <1>2, <1>8 DEF AroundLive
  <1>11. CleanAbove'
    <2>1. \A b \in (top + 1)..(AreaBlocks - 1) : flash'[b] = flash[b]
      <3>1. ASSUME NEW b \in (top + 1)..(AreaBlocks - 1)
            PROVE  b \in 0..(AreaBlocks - 1) /\ b # live[1].pos
        <4> HIDE DEF n
        <4> QED BY <1>5, <1>7, <1>81, StorageConstants
      <3> QED BY <3>1, <1>6
    <2> QED BY <2>1, <1>2, <1>7, StorageConstants DEF Log, CleanAbove
  <1>12. Log'
      BY <1>2, <1>9, <1>10, <1>11 DEF Log
  <1>13. IndexesMatchLive'
      BY <1>1, <1>2, <1>8 DEF IndexesMatchLive, FreeRecord
  <1> QED BY <1>1, <1>2, <1>12, <1>13

\* A block written by a push lies above the live records.
LEMMA PushWriteLog ==
    ASSUME BenignPayload, Types, Control, intact, Log, IndexesMatchLive, PushWrite
    PROVE  Log' /\ IndexesMatchLive'
  <1> DEFINE n == Blocks(RecordSize[rec])
  <1>1. /\ rec \in Records
        /\ n \in Nat \ {0}
        /\ idx \in 1..n
        /\ wr_idx \in 0..AreaBlocks
        /\ wr_idx + 1 + n <= AreaBlocks
        /\ fa
      BY PayloadAssumption, StorageConstants DEF PushWrite, Control, Fits
  <1>2. wr_idx = top
      BY <1>1, StorageConstants DEF IndexesMatchLive, PushWrite
  <1>3. /\ flash' = [flash EXCEPT ![top + idx] = PayloadWord(rec, idx)]
        /\ idx' = idx + 1
        /\ pc' \in {"write", "header"}
        /\ Programmable(top + idx, PayloadWord(rec, idx))
        /\ UNCHANGED <<fa, rd_idx, wr_idx, rec, live, top, intact>>
      BY <1>2 DEF PushWrite, history
  <1> HIDE DEF n
  <1>4. /\ top + idx \in 0..(AreaBlocks - 1)
        /\ top \in 0..(AreaBlocks - 1)
        /\ flash'[top + idx] = PayloadWord(rec, idx)
        /\ \A b \in 0..(AreaBlocks - 1) : b # top + idx => flash'[b] = flash[b]
    <2>1. top + idx \in 0..(AreaBlocks - 1) /\ top \in 0..(AreaBlocks - 1)
        BY <1>1, <1>2, StorageConstants
    <2> QED BY <2>1, <1>3 DEF Types
  <1>5. \A b \in 0..top : flash'[b] = flash[b]
      BY <1>1, <1>4, StorageConstants
  <1>6. First' = First /\ First \in 0..top
    <2>1. First' = First
        BY <1>3 DEF First
    <2>2. CASE live = <<>>
        BY <2>1, <2>2, FirstType, <1>4
    <2>3. CASE live # <<>>
      <3>1. 1 \in 1..Len(live) /\ First = live[1].pos
          BY <2>3, FirstType
      <3>2. End(live[1]) <= top
          BY <3>1 DEF Log, LiveChain
      <3> QED BY <2>1, <3>1, <3>2, LiveTypes, <1>4, StorageConstants
    <2> QED BY <2>2, <2>3
  <1>7. LiveChain'
    <2>1. ASSUME NEW i \in 1..Len(live)
          PROVE  /\ flash'[live[i].pos] = Header(live[i].rec)
                 /\ \A j \in 1..Blocks(RecordSize[live[i].rec]) :
                        flash'[live[i].pos + j] = PayloadWord(live[i].rec, j)
      <3>1. /\ live[i].pos \in Nat
            /\ Blocks(RecordSize[live[i].rec]) \in Nat
            /\ live[i].pos + 1 + Blocks(RecordSize[live[i].rec]) <= top
          BY LiveTypes DEF Log, LiveChain
      <3>2. /\ flash[live[i].pos] = Header(live[i].rec)
            /\ \A j \in 1..Blocks(RecordSize[live[i].rec]) :
                   flash[live[i].pos + j] = PayloadWord(live[i].rec, j)
          BY DEF Log, LiveChain
      <3>3. live[i].pos \in 0..top
          BY <3>1, <1>4
      <3>4. \A j \in 1..Blocks(RecordSize[live[i].rec]) : live[i].pos + j \in 0..top
          BY <3>1, <1>4
      <3> QED BY <3>2, <3>3, <3>4, <1>5
    <2>2. LiveChain /\ live' = live /\ top' = top
        BY <1>3 DEF Log
    <2>3. /\ \A i \in 1..Len(live) : End(live[i]) <= top
          /\ \A i, k \in 1..Len(live) : i < k => End(live[i]) <= live[k].pos
          /\ \A i \in 1..(Len(live) - 1) : live[i + 1].pos = End(live[i])
          /\ live # <<>> => End(live[Len(live)]) = top
        BY <2>2, Zenon DEF LiveChain
    <2> QED BY <2>1, <2>2, <2>3, Zenon DEF LiveChain
  <1>8. AroundLive'
    <2>1. \A b \in 0..(First - 1) : flash'[b] = flash[b]
        BY <1>4, <1>5, <1>6
    <2>2. flash'[0] = flash[0] /\ flash'[top] = flash[top]
        BY <1>4, <1>5
    <2> QED BY <2>1, <2>2, <1>3, <1>6 DEF Log, AroundLive
  <1>9. PayloadWord(rec, 1) # Erased
      BY <1>1 DEF BenignPayload, PayloadWord, Erased, Word
  <1>10. idx = 1 => flash[top + 1] = Erased
    <2>1. SUFFICES ASSUME idx = 1 PROVE flash[top + 1] = Erased
        OBVIOUS
    <2>2. PayloadWord(rec, 1).magic = "data"
        BY <1>1 DEF BenignPayload, PayloadWord, Word
    <2> QED BY <1>3, <2>1, <2>2 DEF Programmable
  <1>11. \A b \in (top + idx)..(AreaBlocks - 1) : flash[b] = Erased
    <2>1. CASE idx = 1
        BY <2>1, <1>10, <1>4, StorageConstants DEF Log, CleanAbove
    <2>2. CASE idx > 1
        BY <2>2 DEF Log, PushedSoFar, PushWrite
    <2> QED BY <2>1, <2>2, <1>1
  <1>12. PushedSoFar'
    <2>1. ASSUME NEW j \in 1..idx PROVE flash'[top + j] = PayloadWord(rec, j)
      <3>1. CASE j = idx
          BY <3>1, <1>4
      <3>2. CASE j \in 1..(idx - 1)
        <4>1. flash[top + j] = PayloadWord(rec, j)
            BY <3>2 DEF Log, PushedSoFar, PushWrite
        <4>2. top + j \in 0..(AreaBlocks - 1) /\ top + j # top + idx
            BY <3>2, <1>1, <1>4, StorageConstants
        <4> QED BY <4>1, <4>2, <1>4
      <3> QED BY <3>1, <3>2, <1>1
    <2>2. ASSUME NEW b \in (top + idx + 1)..(AreaBlocks - 1) PROVE flash'[b] = Erased
      <3>1. b \in (top + idx)..(AreaBlocks - 1) /\ b \in 0..(AreaBlocks - 1) /\ b # top + idx
          BY <1>1, <1>4, StorageConstants
      <3> QED BY <3>1, <1>4, <1>11
    <2>3. idx' - 1 = idx /\ top' + idx' = top + idx + 1
        BY <1>1, <1>3, <1>4
    <2> QED BY <2>1, <2>2, <2>3, <1>3 DEF PushedSoFar
  <1>13. CleanAbove'
    <2>1. flash'[top + 1] # Erased
      <3>1. flash'[top + 1] = PayloadWord(rec, 1)
        <4>1. 1 \in 1..(idx' - 1)
            BY <1>1, <1>3
        <4> QED BY <4>1, <1>3, <1>12 DEF PushedSoFar
      <3> QED BY <3>1, <1>9
    <2> QED BY <2>1, <1>3 DEF CleanAbove
  <1>14. Log'
      BY <1>3, <1>7, <1>8, <1>12, <1>13 DEF Log
  <1>15. IndexesMatchLive'
      BY <1>3, <1>6 DEF IndexesMatchLive, PushWrite
  <1> QED BY <1>14, <1>15

\* A live record is found valid by the walk, with its CRC.
LEMMA LiveIsValid ==
    ASSUME Types, LiveChain, NEW i \in 1..Len(live)
    PROVE  /\ flash[live[i].pos].magic = "valid"
           /\ CrcMatches(live[i].pos)
           /\ NextHeader(live[i].pos) = End(live[i])
           /\ live[i].pos + 2 <= End(live[i])
  <1>1. /\ flash[live[i].pos] = Header(live[i].rec)
        /\ \A j \in 1..Blocks(RecordSize[live[i].rec]) :
               flash[live[i].pos + j] = PayloadWord(live[i].rec, j)
        /\ End(live[i]) <= top
      BY DEF LiveChain
  <1>2. /\ flash[live[i].pos].magic = "valid"
        /\ flash[live[i].pos].size = RecordSize[live[i].rec]
        /\ flash[live[i].pos].owner = live[i].rec
        /\ flash[live[i].pos].part = 0
      BY <1>1 DEF Header, Word
  <1>3. live[i].rec # NoRecord
      BY LiveTypes, StorageConstants
  <1>4. live[i].pos + Blocks(RecordSize[live[i].rec]) < AreaBlocks
    <2>1. top \in 0..AreaBlocks
        BY DEF Types
    <2> QED BY <1>1, <2>1, LiveTypes, StorageConstants, SMTT(30)
  <1>5. CrcMatches(live[i].pos)
      BY <1>1, <1>2, <1>3, <1>4 DEF CrcMatches
  <1>6. NextHeader(live[i].pos) = End(live[i])
      BY <1>2 DEF NextHeader, End
  <1> QED BY <1>2, <1>5, <1>6, LiveTypes

\* The walk of a boot reaches the oldest live record and then follows the live
\* records to top.
LEMMA WalkLog ==
    ASSUME BenignPayload, Types, Control, intact, Log, Walk
    PROVE  /\ pc' = "walk" => WalkOnLive'
           /\ pc' = "settle" => WalkEndsAtTop'
  <1>1. /\ UNCHANGED <<flash, live, top, faults, fa, intact>>
        /\ First' = First
      BY LogFrame DEF Walk, history
  <1>2. /\ idx \in 0..(AreaBlocks - 1)
        /\ WalkNext(idx) \in Nat
        /\ wr_idx = INVALID_INDEX
        /\ WalkOnLive
        /\ First \in 0..AreaBlocks
        /\ top \in 0..AreaBlocks
    <2>1. idx \in 0..(AreaBlocks - 1) /\ wr_idx = INVALID_INDEX /\ top \in 0..AreaBlocks
        BY StorageConstants DEF Walk, Types, Control
    <2>2. WalkOnLive
        BY DEF Walk, Log
    <2> QED BY <2>1, <2>2, ReadTypes, FirstType
  <1>3. ASSUME live # <<>> PROVE 1 \in 1..Len(live) /\ First = live[1].pos
      BY <1>3, FirstType
  <1>4. CASE rd_idx = INVALID_INDEX /\ idx < First
    <2>1. flash[idx].magic \in {"data", "invalid"}
        BY <1>2, <1>4 DEF Log, AroundLive
    <2>2. /\ rd_idx' = INVALID_INDEX /\ wr_idx' = INVALID_INDEX
          /\ idx' = idx + 1
          /\ pc' = IF idx + 2 < AreaBlocks THEN "walk" ELSE "settle"
        BY <2>1, <1>2, <1>4 DEF Walk, WalkTo, IsFirstValid, WalkNext
    <2>3. CASE pc' = "walk"
        BY <2>2, <2>3, <1>1, <1>2, <1>4 DEF WalkOnLive
    <2>4. CASE pc' = "settle"
      <3>1. AreaBlocks <= First + 1
          BY <2>2, <2>4, <1>2, <1>4, StorageConstants
      <3>2. live = <<>>
        <4>1. SUFFICES ASSUME live # <<>> PROVE FALSE
            OBVIOUS
        <4>2. End(live[1]) <= top /\ First = live[1].pos
            BY <4>1, <1>3 DEF Log, LiveChain
        <4> QED BY <3>1, <4>1, <4>2, <1>2, <1>3, LiveTypes, StorageConstants, SMTT(30)
      <3> QED BY <2>2, <3>2, <1>1, <2>4 DEF WalkEndsAtTop
    <2> QED BY <2>2, <2>3, <2>4
  <1>5. CASE rd_idx = INVALID_INDEX /\ idx = First /\ live = <<>>
    <2>1. idx = top /\ flash[idx] = Erased
        BY <1>2, <1>5, FirstType, StorageConstants DEF Log, AroundLive
    <2>2. flash[idx].magic = "unused"
        BY <2>1 DEF Erased, Word
    <2>3. rd_idx' = INVALID_INDEX /\ wr_idx' = top /\ pc' = "settle"
        BY <2>1, <2>2, <1>5 DEF Walk, WalkTo, IsFirstValid
    <2> QED BY <2>3, <1>1, <1>5 DEF WalkEndsAtTop
  <1>6. ASSUME NEW i \in 1..Len(live), idx = live[i].pos,
               IF rd_idx = INVALID_INDEX THEN i = 1 ELSE rd_idx = First
        PROVE  /\ pc' = "walk" => WalkOnLive'
               /\ pc' = "settle" => WalkEndsAtTop'
    <2>1. /\ flash[idx].magic = "valid" /\ CrcMatches(idx)
          /\ NextHeader(idx) = End(live[i]) /\ idx + 2 <= End(live[i])
          /\ live # <<>> /\ First = live[1].pos /\ 1 \in 1..Len(live)
        BY <1>6, <1>3, LiveIsValid, EmptySeq DEF Log
    <2>2. /\ rd_idx' = First /\ wr_idx' = INVALID_INDEX
          /\ idx' = End(live[i])
          /\ pc' = IF End(live[i]) + 1 < AreaBlocks THEN "walk" ELSE "settle"
        BY <2>1, <1>2, <1>6 DEF Walk, WalkTo, IsFirstValid, WalkNext
    <2>3. CASE pc' = "walk"
        BY <2>1, <2>2, <2>3, <1>1 DEF WalkOnLive, End
    <2>4. CASE pc' = "settle"
      <3>1. End(live[i]) <= top /\ End(live[i]) \in Nat
          BY LiveTypes DEF Log, LiveChain
      <3>2. top >= AreaBlocks - 1
          BY <2>2, <2>4, <3>1, <1>2, StorageConstants
      <3> QED BY <2>1, <2>2, <2>4, <3>2, <1>1 DEF WalkEndsAtTop
    <2> QED BY <2>2, <2>3, <2>4
  <1>7. CASE rd_idx = INVALID_INDEX /\ idx = First /\ live # <<>>
      BY <1>3, <1>6, <1>7
  <1>8. CASE rd_idx # INVALID_INDEX
    <2>1. live # <<>> /\ rd_idx = First
        BY <1>2, <1>8 DEF WalkOnLive
    <2>2. PICK i \in 1..Len(live) : idx = End(live[i])
        BY <1>2, <1>8 DEF WalkOnLive
    <2>3. Len(live) \in Nat
        BY DEF Types
    <2>4. CASE i < Len(live)
      <3>1. i + 1 \in 1..Len(live) /\ i \in 1..(Len(live) - 1)
          BY <2>3, <2>4
      <3>2. idx = live[i + 1].pos
          BY <2>2, <3>1 DEF Log, LiveChain
      <3> QED BY <3>1, <3>2, <2>1, <1>6, <1>8
    <2>5. CASE i = Len(live)
      <3>1. idx = top
          BY <2>1, <2>2, <2>5 DEF Log, LiveChain
      <3>2. flash[idx] = Erased
          BY <3>1, <1>2, StorageConstants DEF Log, AroundLive
      <3>3. flash[idx].magic = "unused"
          BY <3>2 DEF Erased, Word
      <3>4. rd_idx' = First /\ wr_idx' = top /\ pc' = "settle"
          BY <3>1, <3>3, <2>1, <1>8 DEF Walk, WalkTo, IsFirstValid
      <3> QED BY <3>4, <2>1, <1>1 DEF WalkEndsAtTop
    <2> QED BY <2>2, <2>3, <2>4, <2>5
  <1>9. rd_idx = INVALID_INDEX => idx < First \/ idx = First
      BY <1>2 DEF WalkOnLive, INVALID_INDEX
  <1> QED BY <1>4, <1>5, <1>7, <1>8, <1>9

\* A block of the area that is erased as a whole is an empty log.
LEMMA ErasedLog ==
    ASSUME Types, live' = <<>>, top' = 0, pc' \notin {"walk", "settle", "write", "header"},
           \A b \in 0..(AreaBlocks - 1) : flash'[b] = Erased
    PROVE  Log' /\ First' = 0
  <1>1. First' = 0
      BY DEF First
  <1>2. Len(live') = 0
      BY EmptySeq
  <1>3. LiveChain'
      BY <1>2 DEF LiveChain
  <1>4. AroundLive'
      BY <1>1, StorageConstants DEF AroundLive
  <1>5. CleanAbove'
      BY StorageConstants DEF CleanAbove
  <1> QED BY <1>1, <1>3, <1>4, <1>5 DEF Log

\* The log, the indexes and what storage_peek returns are preserved.
LEMMA LogStep ==
    ASSUME BenignPayload, Types, Control, intact => Log, IndexesMatchLive, PeekIsOldest,
           [Next]_vars
    PROVE  (intact => Log)' /\ IndexesMatchLive' /\ PeekIsOldest'
  <1>1. ASSUME StorageInit PROVE (intact => Log)' /\ IndexesMatchLive' /\ PeekIsOldest'
    <2>1. UNCHANGED <<flash, live, top, intact>>
        BY <1>1 DEF StorageInit, history
    <2>2. (intact => Log)'
        BY <1>1, <2>1, LogFrame DEF StorageInit, Log, Answer
    <2>3. IndexesMatchLive'
        BY <1>1, <2>1, LogFrame DEF StorageInit, IndexesMatchLive
    <2>4. PeekIsOldest'
        BY <1>1, <2>1 DEF StorageInit, PeekIsOldest, Answer, NoAnswer
    <2> QED BY <2>2, <2>3, <2>4
  <1>2. ASSUME StorageInitCannotOpen PROVE (intact => Log)' /\ IndexesMatchLive' /\ PeekIsOldest'
    <2>1. UNCHANGED <<flash, live, top, intact>>
        BY <1>2 DEF StorageInitCannotOpen, Return, history
    <2>2. (intact => Log)'
        BY <1>2, <2>1, LogFrame DEF StorageInitCannotOpen, Return, Log
    <2>3. IndexesMatchLive'
        BY <1>2, <2>1, LogFrame DEF StorageInitCannotOpen, Return, IndexesMatchLive
    <2>4. PeekIsOldest'
        BY <1>2, <2>1 DEF StorageInitCannotOpen, Return, PeekIsOldest, Answer, NoAnswer
    <2> QED BY <2>2, <2>3, <2>4
  <1>3. ASSUME CheckFirstBlock PROVE (intact => Log)' /\ IndexesMatchLive' /\ PeekIsOldest'
    <2>1. UNCHANGED <<flash, live, top, intact, then, rd_idx, wr_idx>> /\ pc' = "walk" /\ idx' = 0
        BY <1>3 DEF CheckFirstBlock, history
    <2>2. ASSUME intact PROVE Log'
      <3>1. WalkOnLive'
          BY <1>3, <2>1, LogFrame, FirstType DEF CheckFirstBlock, Control, WalkOnLive
      <3> QED BY <1>3, <2>1, <2>2, <3>1, LogFrame DEF Log, CheckFirstBlock
    <2> QED BY <2>1, <2>2 DEF IndexesMatchLive, PeekIsOldest
  <1>4. ASSUME CheckFirstBlockFails PROVE (intact => Log)' /\ IndexesMatchLive' /\ PeekIsOldest'
    <2>1. CASE then.op = "init"
      <3>1. ~intact' /\ pc' # "ready"
          BY <1>4, <2>1 DEF CheckFirstBlockFails, InitAreaFails
      <3> QED BY <3>1 DEF IndexesMatchLive, PeekIsOldest
    <2>2. CASE then.op # "init"
      <3>1. /\ UNCHANGED <<flash, live, top, intact>>
            /\ pc' = "ready" /\ ret' = then
            /\ rd_idx' = 0 /\ wr_idx' = 0
          BY <1>4, <2>2 DEF CheckFirstBlockFails, InitAreaFails, Return, history
      <3>2. intact => live = <<>> /\ top = 0
          BY <1>4, <2>2 DEF CheckFirstBlockFails, Log
      <3>3. (intact => Log)'
          BY <3>1, LogFrame DEF Log
      <3>4. IndexesMatchLive'
          BY <3>1, <3>2 DEF IndexesMatchLive, First
      <3>5. PeekIsOldest'
          BY <3>1 DEF PeekIsOldest, Control
      <3> QED BY <3>3, <3>4, <3>5
    <2> QED BY <2>1, <2>2
  <1>5. ASSUME Walk PROVE (intact => Log)' /\ IndexesMatchLive' /\ PeekIsOldest'
    <2>1. UNCHANGED <<flash, live, top, intact, then>> /\ pc' \in {"walk", "settle"}
        BY <1>5 DEF Walk, WalkTo, history
    <2>2. ASSUME intact PROVE Log'
        BY <1>5, <2>1, <2>2, WalkLog, LogFrame DEF Log, Walk
    <2> QED BY <2>1, <2>2 DEF IndexesMatchLive, PeekIsOldest
  <1>6. ASSUME WalkRecordFault PROVE (intact => Log)' /\ IndexesMatchLive' /\ PeekIsOldest'
    <2>1. ~intact' /\ pc' # "ready"
        BY <1>6 DEF WalkRecordFault, WalkTo
    <2> QED BY <2>1 DEF IndexesMatchLive, PeekIsOldest
  <1>7. ASSUME WalkHeaderFault PROVE (intact => Log)' /\ IndexesMatchLive' /\ PeekIsOldest'
    <2>1. /\ UNCHANGED <<flash, live, top, intact, then>> /\ pc' = "settle"
          /\ rd_idx' = INVALID_INDEX /\ wr_idx' = INVALID_INDEX
          /\ faults' < MaxFaults
        BY <1>7, StorageConstants DEF WalkHeaderFault, FlashFault, history, Types
    <2>2. WalkEndsAtTop'
        BY <2>1 DEF WalkEndsAtTop
    <2>3. ASSUME intact PROVE Log'
        BY <1>7, <2>1, <2>2, <2>3, LogFrame DEF Log, WalkHeaderFault
    <2> QED BY <2>1, <2>3 DEF IndexesMatchLive, PeekIsOldest
  <1>8. ASSUME Settle PROVE (intact => Log)' /\ IndexesMatchLive' /\ PeekIsOldest'
    <2>1. CASE rd_idx = INVALID_INDEX /\ wr_idx = INVALID_INDEX
      <3>1. CASE then.op = "init"
        <4>1. ~intact' /\ pc' # "ready"
            BY <1>8, <2>1, <3>1 DEF Settle, InitAreaFails
        <4> QED BY <4>1 DEF IndexesMatchLive, PeekIsOldest
      <3>2. CASE then.op # "init"
        <4>1. /\ UNCHANGED <<flash, live, top, intact>>
              /\ pc' = "ready" /\ ret' = then
              /\ rd_idx' = 0 /\ wr_idx' = 0
            BY <1>8, <2>1, <3>2 DEF Settle, InitAreaFails, Return, history
        <4>2. intact => live = <<>> /\ top = 0
            BY <1>8, <2>1, <3>2 DEF Settle, Log
        <4>3. (intact => Log)'
            BY <4>1, LogFrame DEF Log
        <4>4. IndexesMatchLive'
            BY <4>1, <4>2 DEF IndexesMatchLive, First
        <4>5. PeekIsOldest'
            BY <4>1 DEF PeekIsOldest, Control
        <4> QED BY <4>3, <4>4, <4>5
      <3> QED BY <3>1, <3>2
    <2>2. CASE ~(rd_idx = INVALID_INDEX /\ wr_idx = INVALID_INDEX)
      <3>1. /\ UNCHANGED <<flash, live, top, intact>>
            /\ pc' = "ready" /\ ret' = then
            /\ wr_idx' = IF wr_idx = INVALID_INDEX THEN AreaBlocks ELSE wr_idx
            /\ rd_idx' = IF rd_idx = INVALID_INDEX THEN wr_idx ELSE rd_idx
          BY <1>8, <2>2 DEF Settle, Return, history
      <3>2. (intact => Log)'
          BY <3>1, LogFrame DEF Log
      <3>3. ASSUME intact
            PROVE  rd_idx' = First /\ (wr_idx' = top \/ (wr_idx' = AreaBlocks /\ top = AreaBlocks - 1))
        <4>1. WalkEndsAtTop /\ First \in 0..AreaBlocks /\ top \in 0..AreaBlocks
            BY <1>8, <3>3, FirstType DEF Settle, Log, Types
        <4>2. CASE live = <<>> /\ rd_idx = INVALID_INDEX /\ wr_idx = top
            BY <3>1, <4>1, <4>2, FirstType, StorageConstants DEF INVALID_INDEX
        <4>3. CASE live # <<>> /\ rd_idx = First /\ wr_idx = top
            BY <3>1, <4>1, <4>3, StorageConstants DEF INVALID_INDEX
        <4>4. CASE live # <<>> /\ rd_idx = First /\ wr_idx = INVALID_INDEX /\ top >= AreaBlocks - 1
            BY <3>1, <4>1, <4>4, StorageConstants DEF INVALID_INDEX
        <4> QED BY <2>2, <4>1, <4>2, <4>3, <4>4 DEF WalkEndsAtTop
      <3>4. IndexesMatchLive'
          BY <3>1, <3>3, LogFrame DEF IndexesMatchLive
      <3>5. PeekIsOldest'
          BY <3>1 DEF PeekIsOldest, Control
      <3> QED BY <3>2, <3>4, <3>5
    <2> QED BY <2>1, <2>2
  <1>9. ASSUME ErasePage PROVE (intact => Log)' /\ IndexesMatchLive' /\ PeekIsOldest'
    <2>1. live = <<>> /\ live' = <<>> /\ ~intact
        BY <1>9 DEF ErasePage, Control
    <2>2. CASE idx + PageBlocks < AreaBlocks
      <3>1. ~intact' /\ pc' # "ready"
          BY <1>9, <2>1, <2>2 DEF ErasePage
      <3> QED BY <3>1 DEF IndexesMatchLive, PeekIsOldest
    <2>3. CASE ~(idx + PageBlocks < AreaBlocks)
      <3>1. \A b \in 0..(AreaBlocks - 1) : flash'[b] = Erased
        <4>1. SUFFICES ASSUME NEW b \in 0..(AreaBlocks - 1) PROVE flash'[b] = Erased
            OBVIOUS
        <4>2. idx \in Nat /\ PageBlocks \in Nat \ {0} /\ AreaBlocks \in Nat
            BY StorageConstants DEF Types
        <4>3. b < idx \/ b \in idx..(idx + PageBlocks - 1)
            BY <4>2, <2>3
        <4> QED BY <1>9, <4>3 DEF ErasePage, Control
      <3>2. top' = 0 /\ pc' \in {"check", "ready"}
          BY <1>9, <2>3 DEF ErasePage, Return
      <3>3. Log' /\ First' = 0
          BY <2>1, <3>1, <3>2, ErasedLog
      <3>4. IndexesMatchLive'
        <4>1. pc' = "ready" => rd_idx' = 0 /\ wr_idx' = 0
            BY <1>9, <2>3 DEF ErasePage, Control
        <4> QED BY <3>2, <3>3, <4>1 DEF IndexesMatchLive
      <3>5. PeekIsOldest'
        <4>1. pc' = "ready" => ret' = then
            BY <1>9, <2>3 DEF ErasePage, Return
        <4> QED BY <4>1 DEF PeekIsOldest, Control
      <3> QED BY <3>3, <3>4, <3>5
    <2> QED BY <2>2, <2>3
  <1>10. ASSUME EraseFails PROVE (intact => Log)' /\ IndexesMatchLive' /\ PeekIsOldest'
    <2>1. ~intact'
        BY <1>10 DEF EraseFails, Control, history
    <2> QED BY <2>1 DEF IndexesMatchLive, PeekIsOldest
  <1>11. ASSUME PushWrite PROVE (intact => Log)' /\ IndexesMatchLive' /\ PeekIsOldest'
    <2>1. UNCHANGED intact /\ pc' # "ready"
        BY <1>11 DEF PushWrite, history
    <2>2. PeekIsOldest'
        BY <2>1 DEF PeekIsOldest
    <2>3. CASE intact
        BY <1>11, <2>1, <2>2, <2>3, PushWriteLog
    <2>4. CASE ~intact
        BY <2>1, <2>2, <2>4 DEF IndexesMatchLive
    <2> QED BY <2>3, <2>4
  <1>12. ASSUME PushWriteFails PROVE (intact => Log)' /\ IndexesMatchLive' /\ PeekIsOldest'
    <2>1. ~intact' /\ pc' # "ready"
        BY <1>12 DEF PushWriteFails, ResetArea
    <2> QED BY <2>1 DEF IndexesMatchLive, PeekIsOldest
  <1>13. ASSUME PushReadBackFails PROVE (intact => Log)' /\ IndexesMatchLive' /\ PeekIsOldest'
    <2>1. ~intact' /\ pc' # "ready"
        BY <1>13 DEF PushReadBackFails, ResetArea
    <2> QED BY <2>1 DEF IndexesMatchLive, PeekIsOldest
  <1>14. ASSUME PushHeader PROVE (intact => Log)' /\ IndexesMatchLive' /\ PeekIsOldest'
    <2>1. UNCHANGED intact /\ ret' = Answer("push", "SUCCESS", rec)
        BY <1>14 DEF PushHeader, Return
    <2>2. PeekIsOldest'
        BY <2>1 DEF PeekIsOldest, Answer
    <2>3. CASE intact
        BY <1>14, <2>1, <2>2, <2>3, PushHeaderLog
    <2>4. CASE ~intact
        BY <2>1, <2>2, <2>4 DEF IndexesMatchLive
    <2> QED BY <2>3, <2>4
  <1>15. ASSUME PushHeaderFails PROVE (intact => Log)' /\ IndexesMatchLive' /\ PeekIsOldest'
    <2>1. ~intact' /\ pc' # "ready"
        BY <1>15 DEF PushHeaderFails, ResetArea
    <2> QED BY <2>1 DEF IndexesMatchLive, PeekIsOldest
  <1>16. ASSUME NotInitialized PROVE (intact => Log)' /\ IndexesMatchLive' /\ PeekIsOldest'
    <2>1. UNCHANGED <<flash, live, top, intact>>
        BY <1>16 DEF NotInitialized, Refuse, Return, history
    <2>2. (intact => Log)'
        BY <1>16, <2>1, LogFrame DEF NotInitialized, Refuse, Return, Log
    <2>3. IndexesMatchLive'
        BY <1>16, <2>1, LogFrame DEF NotInitialized, Refuse, Return, IndexesMatchLive
    <2>4. PeekIsOldest'
        BY <1>16, <2>1 DEF NotInitialized, Refuse, Return, PeekIsOldest, Answer, NoAnswer
    <2> QED BY <2>2, <2>3, <2>4
  <1>17. ASSUME PeekEmpty PROVE (intact => Log)' /\ IndexesMatchLive' /\ PeekIsOldest'
    <2>1. UNCHANGED <<flash, live, top, intact>>
        BY <1>17 DEF PeekEmpty, Refuse, Return, history
    <2>2. (intact => Log)'
        BY <1>17, <2>1, LogFrame DEF PeekEmpty, Refuse, Return, Log
    <2>3. IndexesMatchLive'
        BY <1>17, <2>1, LogFrame DEF PeekEmpty, Refuse, Return, IndexesMatchLive
    <2>4. PeekIsOldest'
        BY <1>17, <2>1 DEF PeekEmpty, Refuse, Return, PeekIsOldest, Answer, NoAnswer
    <2> QED BY <2>2, <2>3, <2>4
  <1>18. ASSUME NEW size \in BufferSizes, PeekTooSmall(size) PROVE (intact => Log)' /\ IndexesMatchLive' /\ PeekIsOldest'
    <2>1. UNCHANGED <<flash, live, top, intact>>
        BY <1>18 DEF PeekTooSmall, Refuse, Return, history
    <2>2. (intact => Log)'
        BY <1>18, <2>1, LogFrame DEF PeekTooSmall, Refuse, Return, Log
    <2>3. IndexesMatchLive'
        BY <1>18, <2>1, LogFrame DEF PeekTooSmall, Refuse, Return, IndexesMatchLive
    <2>4. PeekIsOldest'
        BY <1>18, <2>1 DEF PeekTooSmall, Refuse, Return, PeekIsOldest, Answer, NoAnswer
    <2> QED BY <2>2, <2>3, <2>4
  <1>19. ASSUME NEW size \in BufferSizes, PeekRecord(size) PROVE (intact => Log)' /\ IndexesMatchLive' /\ PeekIsOldest'
    <2>1. /\ UNCHANGED <<flash, live, top, intact, fa, rd_idx, wr_idx>>
          /\ pc = "ready" /\ pc' = "ready"
          /\ ret' = Answer("peek", "SUCCESS", flash[rd_idx].owner)
        BY <1>19 DEF PeekRecord, Return, history
    <2>2. (intact => Log)'
        BY <2>1, LogFrame DEF Log
    <2>3. IndexesMatchLive'
        BY <2>1, LogFrame DEF IndexesMatchLive
    <2>4. PeekIsOldest'
      <3>1. SUFFICES ASSUME intact PROVE live # <<>> /\ flash[rd_idx].owner = live[1].rec
          BY <2>1 DEF PeekIsOldest, Answer
      <3>2. live # <<>> /\ flash[rd_idx] = Header(live[1].rec)
          BY <1>19, <3>1, ValidAtReadIndex DEF PeekRecord, HeaderReadable, RecordIsValid
      <3> QED BY <3>2 DEF Header, Word
    <2> QED BY <2>2, <2>3, <2>4
  <1>20. ASSUME NEW size \in BufferSizes, PeekResets(size) PROVE (intact => Log)' /\ IndexesMatchLive' /\ PeekIsOldest'
    <2>1. ~intact' /\ pc' # "ready"
        BY <1>20 DEF PeekResets, ResetArea
    <2> QED BY <2>1 DEF IndexesMatchLive, PeekIsOldest
  <1>21. ASSUME FreeNotFound PROVE (intact => Log)' /\ IndexesMatchLive' /\ PeekIsOldest'
    <2>1. UNCHANGED <<flash, live, top, intact>>
        BY <1>21 DEF FreeNotFound, Refuse, Return, history
    <2>2. (intact => Log)'
        BY <1>21, <2>1, LogFrame DEF FreeNotFound, Refuse, Return, Log
    <2>3. IndexesMatchLive'
        BY <1>21, <2>1, LogFrame DEF FreeNotFound, Refuse, Return, IndexesMatchLive
    <2>4. PeekIsOldest'
        BY <1>21, <2>1 DEF FreeNotFound, Refuse, Return, PeekIsOldest, Answer, NoAnswer
    <2> QED BY <2>2, <2>3, <2>4
  <1>22. ASSUME FreeCannotWrite PROVE (intact => Log)' /\ IndexesMatchLive' /\ PeekIsOldest'
    <2>1. UNCHANGED <<flash, live, top, intact>>
        BY <1>22 DEF FreeCannotWrite, Refuse, Return, history
    <2>2. (intact => Log)'
        BY <1>22, <2>1, LogFrame DEF FreeCannotWrite, Refuse, Return, Log
    <2>3. IndexesMatchLive'
        BY <1>22, <2>1, LogFrame DEF FreeCannotWrite, Refuse, Return, IndexesMatchLive
    <2>4. PeekIsOldest'
        BY <1>22, <2>1 DEF FreeCannotWrite, Refuse, Return, PeekIsOldest, Answer, NoAnswer
    <2> QED BY <2>2, <2>3, <2>4
  <1>23. ASSUME FreeRecord PROVE (intact => Log)' /\ IndexesMatchLive' /\ PeekIsOldest'
    <2>1. PeekIsOldest'
      <3>1. pc' = "ready" => ret'.op = "free"
        <4>1. CASE WorthErasing(NextHeader(rd_idx))
            BY <1>23, <4>1 DEF FreeRecord, ResetArea
        <4>2. CASE ~WorthErasing(NextHeader(rd_idx))
            BY <1>23, <4>2 DEF FreeRecord, Return, Answer
        <4> QED BY <4>1, <4>2
      <3> QED BY <3>1 DEF PeekIsOldest
    <2>2. CASE intact'
      <3>1. intact
          BY <1>23, <2>2 DEF FreeRecord, ResetArea
      <3> QED BY <1>23, <2>1, <2>2, <3>1, FreeRecordLog
    <2>3. CASE ~intact'
        BY <2>1, <2>3 DEF IndexesMatchLive
    <2> QED BY <2>2, <2>3
  <1>24. ASSUME NEW r \in Records, PushRefused(r) PROVE (intact => Log)' /\ IndexesMatchLive' /\ PeekIsOldest'
    <2>1. UNCHANGED <<flash, live, top, intact>>
        BY <1>24 DEF PushRefused, Refuse, Return, history
    <2>2. (intact => Log)'
        BY <1>24, <2>1, LogFrame DEF PushRefused, Refuse, Return, Log
    <2>3. IndexesMatchLive'
        BY <1>24, <2>1, LogFrame DEF PushRefused, Refuse, Return, IndexesMatchLive
    <2>4. PeekIsOldest'
      <3>1. ret'.op = "push"
        <4>1. ret' = Answer("push", "INVALID_PARAM", NoRecord) \/ ret' = Answer("push", "NO_MEM", NoRecord)
            BY <1>24 DEF PushRefused, Refuse, Return
        <4> QED BY <4>1 DEF Answer
      <3> QED BY <3>1 DEF PeekIsOldest
    <2> QED BY <2>2, <2>3, <2>4
  <1>25. ASSUME NEW r \in Records, PushBegin(r) PROVE (intact => Log)' /\ IndexesMatchLive' /\ PeekIsOldest'
    <2>1. /\ UNCHANGED <<flash, live, top, intact, fa, rd_idx, wr_idx>>
          /\ pc = "ready" /\ pc' = "write" /\ idx' = 1
        BY <1>25 DEF PushBegin, history
    <2>2. PushedSoFar'
        BY <2>1 DEF PushedSoFar
    <2>3. (intact => Log)'
        BY <2>1, <2>2, LogFrame DEF Log
    <2>4. IndexesMatchLive'
        BY <2>1, LogFrame DEF IndexesMatchLive
    <2>5. PeekIsOldest'
        BY <2>1 DEF PeekIsOldest
    <2> QED BY <2>3, <2>4, <2>5
  <1>26. ASSUME PowerCut PROVE (intact => Log)' /\ IndexesMatchLive' /\ PeekIsOldest'
    <2>1. UNCHANGED <<flash, live, top, intact>>
        BY <1>26 DEF PowerCut, Return, history
    <2>2. (intact => Log)'
        BY <1>26, <2>1, LogFrame DEF PowerCut, Return, Log
    <2>3. IndexesMatchLive'
        BY <1>26, <2>1, LogFrame DEF PowerCut, Return, IndexesMatchLive
    <2>4. PeekIsOldest'
        BY <1>26, <2>1 DEF PowerCut, Return, PeekIsOldest, Answer, NoAnswer
    <2> QED BY <2>2, <2>3, <2>4
  <1>27. ASSUME UNCHANGED vars PROVE (intact => Log)' /\ IndexesMatchLive' /\ PeekIsOldest'
    <2>1. UNCHANGED <<flash, live, top, intact, pc, idx, rec, rd_idx, wr_idx, then, fa, ret, faults>>
        BY <1>27 DEF vars, ramVars, history
    <2>2. (intact => Log)'
        BY <2>1, LogFrame DEF Log, WalkOnLive, WalkEndsAtTop, PushedSoFar, End
    <2>3. IndexesMatchLive' /\ PeekIsOldest'
        BY <2>1, LogFrame DEF IndexesMatchLive, PeekIsOldest
    <2> QED BY <2>2, <2>3
  <1> QED
      BY <1>1, <1>2, <1>3, <1>4, <1>5, <1>6, <1>7, <1>8, <1>9, <1>10, <1>11, <1>12, <1>13, <1>14, <1>15, <1>16, <1>17, <1>18, <1>19, <1>20, <1>21, <1>22, <1>23, <1>24, <1>25, <1>26, <1>27
         DEF Next, Boot, Erase, Push, Call, StoragePeek, StorageFree, StoragePush

-----------------------------------------------------------------------------
(* Theorems *)

\* The two flags are flags.
LEMMA FlagsInit == Init => Flags
  BY DEF Init, Flags

\* They stay flags in every step.
LEMMA FlagsStep ==
    ASSUME Flags, [Next]_vars
    PROVE  Flags'
  BY Zenon DEF Flags, Next, vars, ramVars, history, Boot, Erase, Push, Call,
     StorageInit, StorageInitCannotOpen, CheckFirstBlock, CheckFirstBlockFails, Walk,
     WalkRecordFault, WalkHeaderFault, Settle, ErasePage, EraseFails, PushWrite,
     PushWriteFails, PushReadBackFails, PushHeader, PushHeaderFails, NotInitialized,
     StoragePeek, StorageFree, StoragePush, PeekEmpty, PeekTooSmall, PeekRecord, PeekResets,
     FreeNotFound, FreeCannotWrite, FreeRecord, PushRefused, PushBegin, PowerCut,
     InitAreaFails, ResetArea, Refuse

\* The inductive invariant holds initially.
LEMMA InductiveInit == Init => Inductive
  <1> SUFFICES ASSUME Init PROVE Inductive
      OBVIOUS
  <1>1. Types /\ Control /\ Flags
      BY TypesControlInit, FlagsInit
  <1>2. intact => Log
    <2>1. SUFFICES ASSUME intact PROVE Log
        OBVIOUS
    <2>2. \A b \in 0..(AreaBlocks - 1) : flash[b] = Erased
      <3>1. PICK w \in {Erased, Garbage} : flash = [b \in 0..(AreaBlocks - 1) |-> w]
          BY DEF Init
      <3>2. flash[0] = Erased
          BY <2>1 DEF Init
      <3>3. 0 \in 0..(AreaBlocks - 1)
          BY StorageConstants
      <3> QED BY <3>1, <3>2, <3>3
    <2>3. live = <<>> /\ top = 0 /\ pc = "ready" /\ First = 0 /\ Len(live) = 0
        BY EmptySeq DEF Init, First
    <2>4. LiveChain
        BY <2>3 DEF LiveChain
    <2>5. AroundLive /\ CleanAbove
        BY <2>2, <2>3, StorageConstants DEF AroundLive, CleanAbove
    <2> QED BY <2>3, <2>4, <2>5 DEF Log
  <1>3. IndexesMatchLive /\ PeekIsOldest
      BY DEF Init, IndexesMatchLive, PeekIsOldest, NoAnswer, Answer
  <1> QED BY <1>1, <1>2, <1>3 DEF Inductive, TypeOK

\* Every step of storage.c keeps it.
LEMMA InductiveStep ==
    ASSUME BenignPayload, Inductive, [Next]_vars
    PROVE  Inductive'
  <1>1. Types' /\ Control'
      BY TypesControlStep DEF Inductive, TypeOK
  <1>2. Flags'
      BY FlagsStep DEF Inductive, TypeOK
  <1>3. (intact => Log)' /\ IndexesMatchLive' /\ PeekIsOldest'
      BY LogStep DEF Inductive, TypeOK
  <1> QED BY <1>1, <1>2, <1>3 DEF Inductive, TypeOK

\* Whatever the sizes, the records, the power cuts and the failed flash
\* accesses, every behaviour of storage.c keeps the types, the control and, as
\* long as the area is intact, the log.
THEOREM StorageInductive == ASSUME BenignPayload PROVE Spec => []Inductive
  <1>1. Init => Inductive
      BY InductiveInit
  <1>2. Inductive /\ [Next]_vars => Inductive'
      BY InductiveStep
  <1> QED BY <1>1, <1>2, PTL DEF Spec

\* The flash of an intact area holds exactly the records that were stored and
\* not freed, in their order, after any power cut of any operation.
THEOREM StorageKeepsRecords == ASSUME BenignPayload PROVE Spec => []FlashHoldsLive
  <1>1. Inductive => FlashHoldsLive
      BY DEF Inductive, FlashHoldsLive, Log
  <1> QED BY <1>1, StorageInductive, PTL

\* After any boot or operation rd_idx and wr_idx delimit the live records.
THEOREM StorageFindsRecords == ASSUME BenignPayload PROVE Spec => []IndexesMatchLive
  <1>1. Inductive => IndexesMatchLive
      BY DEF Inductive
  <1> QED BY <1>1, StorageInductive, PTL

\* storage_peek only ever returns the oldest record stored and not freed.
THEOREM StorageIsFifo == ASSUME BenignPayload PROVE Spec => []PeekIsOldest
  <1>1. Inductive => PeekIsOldest
      BY DEF Inductive
  <1> QED BY <1>1, StorageInductive, PTL

\* A boot erases an intact area only if it holds no record: the first block of
\* one that does reads as a header.
LEMMA NothingInGarbage ==
    ASSUME BenignPayload, Inductive, intact, flash[0].magic = "data"
    PROVE  live = <<>>
  <1> USE DEF Inductive, TypeOK
  <1>1. SUFFICES ASSUME live # <<>> PROVE FALSE
      OBVIOUS
  <1>2. 1 \in 1..Len(live) /\ First = live[1].pos /\ First \in 0..AreaBlocks
      BY <1>1, FirstType
  <1>3. flash[First].magic = "valid"
      BY <1>2, LiveIsValid DEF Log
  <1>4. First > 0 => flash[0].magic = "invalid"
      BY DEF Log, AroundLive
  <1> QED BY <1>2, <1>3, <1>4, StorageConstants

\* A walk that no failed read disturbs finds neither index only in an area
\* without records.
LEMMA NothingFound ==
    ASSUME Inductive, intact, pc = "settle", faults = MaxFaults,
           rd_idx = INVALID_INDEX, wr_idx = INVALID_INDEX
    PROVE  live = <<>>
  <1> USE DEF Inductive, TypeOK
  <1>1. SUFFICES ASSUME live # <<>> PROVE FALSE
      OBVIOUS
  <1>2. First \in 0..AreaBlocks /\ WalkEndsAtTop
      BY FirstType DEF Log
  <1> QED BY <1>1, <1>2, StorageConstants DEF WalkEndsAtTop, INVALID_INDEX, Types

\* storage_free finds the area worth erasing only when it frees the last record.
LEMMA LastIsFreed ==
    ASSUME Inductive, intact, FreeRecord, WorthErasing(NextHeader(rd_idx))
    PROVE  live # <<>> /\ Tail(live) = <<>>
  <1> USE DEF Inductive, TypeOK
  <1>1. /\ live # <<>> /\ NextHeader(rd_idx) = End(live[1])
        /\ fa /\ pc = "ready"
      BY ValidAtReadIndex DEF FreeRecord, HeaderReadable
  <1>2. /\ live \in Seq([pos : 0..(AreaBlocks - 1), rec : Records])
        /\ Len(live) \in Nat \ {0}
        /\ top \in 0..AreaBlocks
      BY <1>1, EmptySeq DEF Types
  <1>3. End(live[1]) >= wr_idx /\ wr_idx >= top /\ wr_idx \in Nat
      BY <1>1, <1>2, StorageConstants DEF WorthErasing, IndexesMatchLive
  <1>4. Len(live) = 1
    <2>1. SUFFICES ASSUME Len(live) # 1 PROVE FALSE
        OBVIOUS
    <2>2. 2 \in 1..Len(live) /\ 1 \in 1..Len(live)
      <3>1. \A m \in Nat \ {0} : m # 1 => 2 \in 1..m /\ 1 \in 1..m
          OBVIOUS
      <3> QED BY <1>2, <2>1, <3>1
    <2>3. End(live[1]) <= live[2].pos /\ End(live[2]) <= top
        BY <2>2 DEF Log, LiveChain
    <2>4. /\ End(live[1]) \in Nat /\ End(live[2]) \in Nat /\ live[2].pos \in Nat
          /\ End(live[2]) >= live[2].pos + 2
        BY <2>2, LiveTypes, SMTT(30)
    <2> QED BY <1>2, <1>3, <2>3, <2>4
  <1>5. Tail(live) = <<>>
    <2>1. Len(Tail(live)) = 0 /\ Tail(live) \in Seq([pos : 0..(AreaBlocks - 1), rec : Records])
        BY <1>1, <1>2, <1>4, HeadTailProperties
    <2> QED BY <2>1, EmptySeq
  <1> QED BY <1>1, <1>5

\* Which steps shorten the list of live records.
LEMMA LossStep ==
    ASSUME BenignPayload, Inductive, Next, intact, faults' = MaxFaults
    PROVE  Keeps \/ pc = "write"
  <1> USE DEF Inductive, TypeOK
  <1>1. ~FlashFault
      BY StorageConstants DEF FlashFault, Types
  <1>2. ASSUME UNCHANGED live PROVE Keeps
      BY <1>2 DEF Keeps
  <1>3. ASSUME live = <<>>, live' = <<>> PROVE Keeps
      BY <1>3 DEF Keeps
  <1>4. ASSUME CheckFirstBlockFails PROVE Keeps
    <2>1. CASE then.op # "init"
        BY <1>2, <1>4, <2>1 DEF CheckFirstBlockFails, InitAreaFails, history
    <2>2. CASE then.op = "init"
      <3>1. flash[0].magic = "data" /\ live' = <<>>
          BY <1>1, <1>4, <2>2 DEF CheckFirstBlockFails, InitAreaFails
      <3>2. live = <<>>
          BY <3>1, NothingInGarbage
      <3> QED BY <1>3, <3>1, <3>2
    <2> QED BY <2>1, <2>2
  <1>5. ASSUME Settle PROVE Keeps
    <2>1. CASE rd_idx = INVALID_INDEX /\ wr_idx = INVALID_INDEX /\ then.op = "init"
      <3>1. live' = <<>> /\ faults' = faults /\ pc = "settle"
          BY <1>5, <2>1 DEF Settle, InitAreaFails
      <3>2. live = <<>>
          BY <2>1, <3>1, NothingFound
      <3> QED BY <1>3, <3>1, <3>2
    <2>2. CASE ~(rd_idx = INVALID_INDEX /\ wr_idx = INVALID_INDEX /\ then.op = "init")
      <3>1. UNCHANGED live
          BY <1>5, <2>2 DEF Settle, InitAreaFails, history
      <3> QED BY <1>2, <3>1
    <2> QED BY <2>1, <2>2
  <1>6. ASSUME NEW size \in BufferSizes, PeekResets(size) PROVE Keeps
    <2>1. /\ pc = "ready" /\ fa /\ rd_idx # wr_idx
          /\ live' = <<>>
          /\ rd_idx = First
          /\ wr_idx = top \/ (wr_idx = AreaBlocks /\ top = AreaBlocks - 1)
        BY <1>6 DEF PeekResets, ResetArea, IndexesMatchLive
    <2>2. live = <<>>
      <3>1. SUFFICES ASSUME live # <<>> PROVE FALSE
          OBVIOUS
      <3>2. 1 \in 1..Len(live) /\ rd_idx = live[1].pos
          BY <2>1, <3>1, FirstType
      <3>3. RecordIsValid(rd_idx) /\ HeaderReadable
          BY <3>2, LiveIsValid, LiveTypes, StorageConstants DEF RecordIsValid, HeaderReadable, Log
      <3> QED BY <1>1, <1>6, <3>3 DEF PeekResets
    <2> QED BY <1>3, <2>1, <2>2
  <1>7. ASSUME FreeRecord PROVE Keeps
    <2>1. /\ live # <<>> /\ NextHeader(rd_idx) = End(live[1])
          /\ fa /\ pc = "ready"
        BY <1>7, ValidAtReadIndex DEF FreeRecord, HeaderReadable
    <2>2. CASE WorthErasing(NextHeader(rd_idx))
      <3>1. Tail(live) = <<>>
          BY <1>7, <2>2, LastIsFreed
      <3> QED BY <1>7, <2>1, <2>2, <3>1 DEF FreeRecord, ResetArea, Keeps
    <2>3. CASE ~WorthErasing(NextHeader(rd_idx))
        BY <1>7, <2>1, <2>3 DEF FreeRecord, Keeps
    <2> QED BY <2>2, <2>3
  <1>8. ASSUME PushHeader PROVE Keeps
    <2>1. rec \in Records /\ wr_idx \in 0..(AreaBlocks - 1)
        BY <1>8, PayloadAssumption, StorageConstants DEF PushHeader, Control, Fits
    <2>2. [pos |-> wr_idx, rec |-> rec] \in [pos : 0..(AreaBlocks - 1), rec : Records]
        BY <2>1
    <2> QED BY <1>8, <2>2 DEF PushHeader, Keeps
  <1>9. ASSUME PushHeaderFails PROVE FALSE
    <2>1. /\ fa /\ pc = "header" /\ rec \in Records
          /\ wr_idx \in 0..(AreaBlocks - 1)
          /\ ~Programmable(wr_idx, Header(rec))
        BY <1>1, <1>9, PayloadAssumption, StorageConstants DEF PushHeaderFails, Control, Fits
    <2>2. wr_idx = top
        BY <2>1, StorageConstants DEF IndexesMatchLive
    <2> QED BY <2>1, <2>2, StorageConstants DEF Log, AroundLive, Programmable
  <1>10. ASSUME PushWriteFails PROVE pc = "write"
      BY <1>10 DEF PushWriteFails
  <1>11. ~PushReadBackFails
      BY <1>1 DEF PushReadBackFails
  <1>12. ASSUME StorageInit PROVE UNCHANGED live
      BY <1>12 DEF StorageInit, history
  <1>13. ASSUME StorageInitCannotOpen PROVE UNCHANGED live
      BY <1>13 DEF StorageInitCannotOpen, history
  <1>14. ASSUME CheckFirstBlock PROVE UNCHANGED live
      BY <1>14 DEF CheckFirstBlock, history
  <1>15. ASSUME Walk PROVE UNCHANGED live
      BY <1>15 DEF Walk, history
  <1>16. ASSUME WalkRecordFault PROVE UNCHANGED live
      BY <1>16 DEF WalkRecordFault, history
  <1>17. ASSUME WalkHeaderFault PROVE UNCHANGED live
      BY <1>17 DEF WalkHeaderFault, history
  <1>18. ASSUME ErasePage PROVE UNCHANGED live
      BY <1>18 DEF ErasePage, history
  <1>19. ASSUME EraseFails PROVE UNCHANGED live
      BY <1>19 DEF EraseFails, history
  <1>20. ASSUME PushWrite PROVE UNCHANGED live
      BY <1>20 DEF PushWrite, history
  <1>21. ASSUME NotInitialized PROVE UNCHANGED live
      BY <1>21 DEF NotInitialized, Refuse, history
  <1>22. ASSUME PeekEmpty PROVE UNCHANGED live
      BY <1>22 DEF PeekEmpty, Refuse, history
  <1>23. ASSUME NEW size \in BufferSizes, PeekTooSmall(size) PROVE UNCHANGED live
      BY <1>23 DEF PeekTooSmall, Refuse, history
  <1>24. ASSUME NEW size \in BufferSizes, PeekRecord(size) PROVE UNCHANGED live
      BY <1>24 DEF PeekRecord, history
  <1>25. ASSUME FreeNotFound PROVE UNCHANGED live
      BY <1>25 DEF FreeNotFound, Refuse, history
  <1>26. ASSUME FreeCannotWrite PROVE UNCHANGED live
      BY <1>26 DEF FreeCannotWrite, Refuse, history
  <1>27. ASSUME NEW r \in Records, PushRefused(r) PROVE UNCHANGED live
      BY <1>27 DEF PushRefused, Refuse, history
  <1>28. ASSUME NEW r \in Records, PushBegin(r) PROVE UNCHANGED live
      BY <1>28 DEF PushBegin, history
  <1>29. ASSUME PowerCut PROVE UNCHANGED live
      BY <1>29 DEF PowerCut, history
  <1> QED
      BY <1>2, <1>4, <1>5, <1>6, <1>7, <1>8, <1>9, <1>10, <1>11, <1>12, <1>13, <1>14, <1>15, <1>16, <1>17, <1>18, <1>19, <1>20, <1>21, <1>22, <1>23, <1>24, <1>25, <1>26, <1>27, <1>28, <1>29
         DEF Next, Boot, Erase, Push, Call, StoragePeek, StorageFree, StoragePush

\* As long as no flash access fails, no boot, no free and no peek drops a live
\* record: only a push that finds programmed blocks does.
THEOREM StorageLossNeedsError == ASSUME BenignPayload PROVE Spec => LossNeedsError
  <1>1. ASSUME Inductive, [Next]_vars
        PROVE  [intact /\ faults' = MaxFaults => Keeps \/ pc = "write"]_vars
      BY <1>1, LossStep
  <1> QED BY <1>1, StorageInductive, PTL DEF Spec, LossNeedsError

-----------------------------------------------------------------------------
(* Storage implements RecordFifo                                            *)

Entries == [pos : 0..(AreaBlocks - 1), rec : Records]
RecordsOf(s) == [i \in 1..Len(s) |-> s[i].rec]

\* The abstract state, as the refinement mapping has it
Queue == RecordsOf(live)
Given == IF then.op \in {"none", "init"} THEN ret ELSE then

InitAnswer == Answer("init", "SUCCESS", NoRecord)
CallNames == {"peek", "free", "push"}

\* As long as no access fails and no erase is cut, each point of an operation
\* fixes what it will answer, and the area is intact, is being erased, or is a
\* new one that no boot has opened yet.
Unfailed ==
    /\ pc \in {"ready", "write", "header"} => then = NoAnswer
    /\ pc \in {"check", "walk", "settle"} => then.op \in CallNames \/ then = InitAnswer
    /\ pc = "erase" => then.op \in CallNames
    /\ pc = "init_erase" => then = InitAnswer
    /\ \/ intact
       \/ pc \in {"erase", "init_erase"}
       \/ /\ live = <<>> /\ flash[0].magic = "data"
          /\ (pc = "ready" /\ ~fa) \/ (pc = "check" /\ then = InitAnswer)

\* The records of a sequence of entries are a sequence.
LEMMA RecordsOfType ==
    ASSUME NEW s \in Seq(Entries)
    PROVE  /\ RecordsOf(s) \in Seq(Records)
           /\ Len(RecordsOf(s)) = Len(s)
           /\ \A i \in 1..Len(s) : RecordsOf(s)[i] = s[i].rec
  <1>1. Len(s) \in Nat
      BY LenProperties
  <1>2. \A i \in 1..Len(s) : s[i].rec \in Records
    <2> SUFFICES ASSUME NEW i \in 1..Len(s) PROVE s[i].rec \in Records
        OBVIOUS
    <2>1. s[i] \in Entries
        BY ElementOfSeq
    <2> QED BY <2>1 DEF Entries
  <1>3. RecordsOf(s) \in Seq(Records)
      BY <1>1, <1>2 DEF RecordsOf
  <1>4. Len(RecordsOf(s)) = Len(s)
      BY <1>1, <1>2 DEF RecordsOf
  <1>5. \A i \in 1..Len(s) : RecordsOf(s)[i] = s[i].rec
      BY DEF RecordsOf
  <1> QED BY <1>3, <1>4, <1>5

\* No entries, no records.
LEMMA RecordsOfNone == RecordsOf(<<>>) = <<>>
  <1>1. <<>> \in Seq(Entries) /\ Len(<<>>) = 0
      BY EmptySeq
  <1>2. RecordsOf(<<>>) \in Seq(Records) /\ Len(RecordsOf(<<>>)) = 0
      BY <1>1, RecordsOfType
  <1> QED BY <1>2, EmptySeq

\* The records after a push.
LEMMA RecordsOfAppend ==
    ASSUME NEW s \in Seq(Entries), NEW e \in Entries
    PROVE  RecordsOf(Append(s, e)) = Append(RecordsOf(s), e.rec)
  <1>1. e.rec \in Records
      BY DEF Entries
  <1>2. /\ Append(s, e) \in Seq(Entries)
        /\ Len(s) \in Nat
        /\ Len(Append(s, e)) = Len(s) + 1
        /\ \A i \in 1..Len(s) : Append(s, e)[i] = s[i]
        /\ Append(s, e)[Len(s) + 1] = e
      OBVIOUS
  <1>3. /\ RecordsOf(s) \in Seq(Records)
        /\ Len(RecordsOf(s)) = Len(s)
        /\ \A i \in 1..Len(s) : RecordsOf(s)[i] = s[i].rec
      BY RecordsOfType
  <1>4. /\ RecordsOf(Append(s, e)) \in Seq(Records)
        /\ Len(RecordsOf(Append(s, e))) = Len(s) + 1
        /\ \A i \in 1..(Len(s) + 1) : RecordsOf(Append(s, e))[i] = Append(s, e)[i].rec
      BY <1>2, RecordsOfType
  <1>5. /\ Append(RecordsOf(s), e.rec) \in Seq(Records)
        /\ Len(Append(RecordsOf(s), e.rec)) = Len(s) + 1
        /\ \A i \in 1..Len(s) : Append(RecordsOf(s), e.rec)[i] = s[i].rec
        /\ Append(RecordsOf(s), e.rec)[Len(s) + 1] = e.rec
      BY <1>1, <1>3
  <1>6. \A i \in 1..(Len(s) + 1) : RecordsOf(Append(s, e))[i] = Append(RecordsOf(s), e.rec)[i]
      BY <1>2, <1>4, <1>5
  <1> HIDE DEF RecordsOf
  <1> QED BY <1>4, <1>5, <1>6, SeqEqual

\* The records after a free.
LEMMA RecordsOfTail ==
    ASSUME NEW s \in Seq(Entries), s # <<>>
    PROVE  /\ RecordsOf(s) # <<>>
           /\ Head(RecordsOf(s)) = s[1].rec
           /\ RecordsOf(Tail(s)) = Tail(RecordsOf(s))
  <1>1. /\ Len(s) \in Nat \ {0}
        /\ RecordsOf(s) \in Seq(Records)
        /\ Len(RecordsOf(s)) = Len(s)
        /\ \A i \in 1..Len(s) : RecordsOf(s)[i] = s[i].rec
      BY RecordsOfType, EmptySeq
  <1>2. RecordsOf(s) # <<>>
      BY <1>1, EmptySeq
  <1>3. Head(RecordsOf(s)) = s[1].rec
      BY <1>1, <1>2
  <1>4. /\ Tail(s) \in Seq(Entries)
        /\ Len(Tail(s)) = Len(s) - 1
        /\ \A i \in 1..(Len(s) - 1) : Tail(s)[i] = s[i + 1]
      BY HeadTailProperties
  <1>5. /\ RecordsOf(Tail(s)) \in Seq(Records)
        /\ Len(RecordsOf(Tail(s))) = Len(s) - 1
        /\ \A i \in 1..(Len(s) - 1) : RecordsOf(Tail(s))[i] = Tail(s)[i].rec
      BY <1>4, RecordsOfType
  <1>6. /\ Tail(RecordsOf(s)) \in Seq(Records)
        /\ Len(Tail(RecordsOf(s))) = Len(s) - 1
        /\ \A i \in 1..(Len(s) - 1) : Tail(RecordsOf(s))[i] = RecordsOf(s)[i + 1]
      BY <1>1, <1>2, HeadTailProperties
  <1>7. \A i \in 1..(Len(s) - 1) : RecordsOf(Tail(s))[i] = Tail(RecordsOf(s))[i]
      BY <1>1, <1>4, <1>5, <1>6
  <1>8. RecordsOf(Tail(s)) = Tail(RecordsOf(s))
      BY <1>5, <1>6, <1>7, SeqEqual
  <1> QED BY <1>2, <1>3, <1>8

\* A new area has answered nothing and is erased or garbage.
LEMMA UnfailedInit == ASSUME Init PROVE Unfailed
  <1>1. PICK w \in {Erased, Garbage} : flash = [b \in 0..(AreaBlocks - 1) |-> w]
      BY DEF Init
  <1>2. flash[0] = w
      BY <1>1, StorageConstants
  <1>3. intact \/ flash[0].magic = "data"
    <2>1. CASE w = Erased
        BY <1>2, <2>1 DEF Init
    <2>2. CASE w = Garbage
        BY <1>2, <2>2 DEF Garbage, Word
    <2> QED BY <2>1, <2>2
  <1> QED BY <1>3 DEF Init, Unfailed

\* Without faults and cut erases every step keeps the answer of the operation in
\* progress settled and the area intact.
LEMMA UnfailedStep ==
    ASSUME CutPoints \cap {"erase", "init_erase"} = {},
           Inductive, Unfailed, [Next]_vars, faults' = MaxFaults
    PROVE  Unfailed'
  <1> USE DEF Unfailed, CallNames, InitAnswer
  <1>1. ~FlashFault
      BY StorageConstants DEF FlashFault, Inductive, TypeOK, Types
  <1>2. NoAnswer.op = "none" /\ InitAnswer.op = "init"
      BY DEF NoAnswer, Answer
  <1>3. ASSUME StorageInit PROVE Unfailed'
      BY <1>3 DEF StorageInit, history
  <1>4. ASSUME CheckFirstBlock PROVE Unfailed'
      BY <1>4 DEF CheckFirstBlock, history
  <1>5. ASSUME CheckFirstBlockFails PROVE Unfailed'
    <2>1. CASE then.op = "init"
        BY <1>1, <1>2, <1>5, <2>1 DEF CheckFirstBlockFails, InitAreaFails
    <2>2. CASE then.op # "init"
        BY <1>1, <1>2, <1>5, <2>2 DEF CheckFirstBlockFails, InitAreaFails, Return, history
    <2> QED BY <2>1, <2>2
  <1>6. ASSUME Walk PROVE Unfailed'
      BY <1>6 DEF Walk, WalkTo, history
  <1>7. ASSUME Settle PROVE Unfailed'
    <2>1. CASE rd_idx = INVALID_INDEX /\ wr_idx = INVALID_INDEX /\ then.op = "init"
        BY <1>2, <1>7, <2>1 DEF Settle, InitAreaFails
    <2>2. CASE ~(rd_idx = INVALID_INDEX /\ wr_idx = INVALID_INDEX /\ then.op = "init")
        BY <1>2, <1>7, <2>2 DEF Settle, InitAreaFails, Return, history
    <2> QED BY <2>1, <2>2
  <1>8. ASSUME ErasePage PROVE Unfailed'
      BY <1>8 DEF ErasePage, Return
  <1>9. ASSUME PushWrite PROVE Unfailed'
      BY <1>9 DEF PushWrite, history
  <1>10. ASSUME PushWriteFails PROVE Unfailed'
      BY <1>1, <1>10 DEF PushWriteFails, ResetArea, Answer
  <1>11. ASSUME PushHeader PROVE Unfailed'
      BY <1>11 DEF PushHeader, Return
  <1>12. ASSUME PushHeaderFails PROVE Unfailed'
      BY <1>1, <1>12 DEF PushHeaderFails, ResetArea, Answer
  <1>13. ASSUME NotInitialized PROVE Unfailed'
      BY <1>13 DEF NotInitialized, Refuse, Return, history
  <1>14. ASSUME PeekEmpty PROVE Unfailed'
      BY <1>14 DEF PeekEmpty, Refuse, Return, history
  <1>15. ASSUME NEW size \in BufferSizes, PeekTooSmall(size) PROVE Unfailed'
      BY <1>15 DEF PeekTooSmall, Refuse, Return, history
  <1>16. ASSUME NEW size \in BufferSizes, PeekRecord(size) PROVE Unfailed'
      BY <1>16 DEF PeekRecord, Return, history
  <1>17. ASSUME NEW size \in BufferSizes, PeekResets(size) PROVE Unfailed'
      BY <1>1, <1>17 DEF PeekResets, ResetArea, Answer
  <1>18. ASSUME FreeNotFound PROVE Unfailed'
      BY <1>1, <1>18 DEF FreeNotFound, Refuse, Return, history
  <1>19. ASSUME FreeRecord PROVE Unfailed'
    <2>1. CASE WorthErasing(NextHeader(rd_idx))
        BY <1>19, <2>1 DEF FreeRecord, ResetArea, Answer
    <2>2. CASE ~WorthErasing(NextHeader(rd_idx))
        BY <1>19, <2>2 DEF FreeRecord, Return
    <2> QED BY <2>1, <2>2
  <1>20. ASSUME NEW r \in Records, PushRefused(r) PROVE Unfailed'
    <2>1. /\ pc = "ready" /\ fa
          /\ pc' = "ready" /\ then' = NoAnswer
          /\ UNCHANGED <<faults, intact>>
        BY <1>20 DEF PushRefused, Refuse, Return, history
    <2> QED BY <2>1
  <1>21. ASSUME NEW r \in Records, PushBegin(r) PROVE Unfailed'
      BY <1>21 DEF PushBegin, history
  <1>22. ASSUME PowerCut PROVE Unfailed'
      BY <1>22 DEF PowerCut, Return, history
  <1>23. ASSUME UNCHANGED vars PROVE Unfailed'
      BY <1>23 DEF vars, ramVars, history
  <1>24. /\ ~StorageInitCannotOpen /\ ~WalkRecordFault /\ ~WalkHeaderFault /\ ~EraseFails
         /\ ~PushReadBackFails /\ ~FreeCannotWrite
      BY <1>1 DEF StorageInitCannotOpen, WalkRecordFault, WalkHeaderFault, EraseFails,
                  PushReadBackFails, FreeCannotWrite
  <1> HIDE DEF Unfailed
  <1> QED
      BY <1>3, <1>4, <1>5, <1>6, <1>7, <1>8, <1>9, <1>10, <1>11, <1>12, <1>13, <1>14, <1>15,
         <1>16, <1>17, <1>18, <1>19, <1>20, <1>21, <1>22, <1>23, <1>24
         DEF Next, Boot, Erase, Push, Call, StoragePeek, StorageFree, StoragePush

\* A step that changes neither the records nor the answer is invisible.
LEMMA FifoStutters ==
    ASSUME live' = live, Given' = Given
    PROVE  UNCHANGED Fifo!vars
  BY DEF Given, Fifo!vars

\* A step that keeps the records and answers with an error is a failed call.
LEMMA FifoFails ==
    ASSUME live' = live \/ live' = <<>>, Given' \in Answers, Given'.code # "SUCCESS"
    PROVE  Fifo!Next
  <1>1. Queue' = Queue \/ Queue' = <<>>
      BY RecordsOfNone DEF Queue, RecordsOf
  <1>2. Fifo!Fail
      BY <1>1 DEF Queue, RecordsOf, Given, Fifo!Fail
  <1> QED BY <1>2 DEF Fifo!Next

\* A boot that ends and a power cut keep the records.
LEMMA FifoRestarts ==
    ASSUME live' = live, Given' \in {NoAnswer, InitAnswer}
    PROVE  Fifo!Next
  <1>1. InitAnswer = [NoAnswer EXCEPT !.op = "init"]
      BY DEF InitAnswer, NoAnswer, Answer
  <1>2. Fifo!Restart
      BY <1>1 DEF Given, Fifo!Restart
  <1> QED BY <1>2 DEF Fifo!Next

\* A new area is an empty queue that has answered nothing.
LEMMA FifoInit == ASSUME Init PROVE Fifo!Init
  <1>1. Queue = <<>>
      BY RecordsOfNone DEF Queue, Init
  <1>2. Given = NoAnswer
      BY DEF Given, Init
  <1> QED BY <1>1, <1>2 DEF Fifo!Init, Queue, RecordsOf, Given

\* Every step of storage.c is a step of the FIFO, or one it does not see.
LEMMA FifoStep ==
    ASSUME BenignPayload, MaxFaults = 0, CutPoints \cap {"erase", "init_erase"} = {},
           Inductive, Unfailed, [Next]_vars
    PROVE  [Fifo!Next]_(Fifo!vars)
  <1> DEFINE Goal == Fifo!Next \/ UNCHANGED Fifo!vars
  <1> USE DEF CallNames
  <1>1. SUFFICES Goal
      OBVIOUS
  <1>2. ASSUME live' = live, Given' = Given PROVE Goal
      BY <1>2, FifoStutters
  <1>3. ASSUME live' = live \/ live' = <<>>, Given' \in Answers, Given'.code # "SUCCESS" PROVE Goal
      BY <1>3, FifoFails
  <1>4. ASSUME live' = live, Given' \in {NoAnswer, InitAnswer} PROVE Goal
      BY <1>4, FifoRestarts
  <1> HIDE DEF Goal
  <1>5. ~FlashFault
      BY DEF FlashFault, Inductive, TypeOK, Types
  <1>6. NoAnswer.op = "none" /\ InitAnswer.op = "init"
      BY DEF NoAnswer, InitAnswer, Answer
  <1>7. /\ live \in Seq(Entries)
        /\ pc = "ready" /\ fa => intact
        /\ pc \in {"walk", "settle", "write", "header"} => intact
      BY DEF Inductive, TypeOK, Types, Entries, Unfailed
  <1>8. ASSUME NEW op \in CallNames, NEW code \in Codes \ {"SUCCESS"}, then' = NoAnswer,
               ret' = Answer(op, code, NoRecord), live' = live
        PROVE  Goal
    <2>1. Given' = Answer(op, code, NoRecord)
        BY <1>6, <1>8 DEF Given
    <2> QED BY <1>3, <1>8, <2>1 DEF Answer, Answers
  <1>9. ASSUME NEW op \in CallNames, NEW code \in Codes \ {"SUCCESS"},
               then' = Answer(op, code, NoRecord), live' = <<>>
        PROVE  Goal
    <2>1. Given' = Answer(op, code, NoRecord)
        BY <1>9 DEF Given, Answer
    <2> QED BY <1>3, <1>9, <2>1 DEF Answer, Answers
  <1>10. ASSUME StorageInit PROVE Goal
    <2>1. then = NoAnswer /\ then' = InitAnswer /\ UNCHANGED <<ret, live>>
        BY <1>10 DEF StorageInit, InitAnswer, history, Unfailed
    <2> QED BY <1>2, <1>6, <2>1 DEF Given
  <1>11. ASSUME CheckFirstBlock PROVE Goal
      BY <1>2, <1>11 DEF CheckFirstBlock, Given, history
  <1>12. ASSUME CheckFirstBlockFails PROVE Goal
    <2>1. pc = "check" /\ flash[0].magic = "data" /\ InitAreaFails
        BY <1>5, <1>12 DEF CheckFirstBlockFails
    <2>2. CASE then.op = "init"
      <3>1. live = <<>>
          BY <1>7, <2>1, NothingInGarbage DEF Unfailed
      <3> QED BY <1>2, <2>1, <2>2, <3>1 DEF InitAreaFails, Given
    <2>3. CASE then.op # "init"
      <3>1. then.op \in CallNames
          BY <1>6, <2>1, <2>3 DEF Unfailed
      <3>2. ret' = then /\ then' = NoAnswer /\ live' = live
          BY <2>1, <2>3 DEF InitAreaFails, Return, history
      <3> QED BY <1>2, <1>6, <3>1, <3>2 DEF Given
    <2> QED BY <2>2, <2>3
  <1>13. ASSUME Walk PROVE Goal
      BY <1>2, <1>13 DEF Walk, Given, history
  <1>14. ASSUME Settle PROVE Goal
    <2>1. CASE rd_idx = INVALID_INDEX /\ wr_idx = INVALID_INDEX /\ then.op = "init"
      <3>1. pc = "settle" /\ live' = <<>> /\ UNCHANGED <<ret, then>>
          BY <1>14, <2>1 DEF Settle, InitAreaFails
      <3>2. live = <<>>
          BY <1>7, <2>1, <3>1, NothingFound DEF Inductive, TypeOK, Types
      <3> QED BY <1>2, <3>1, <3>2 DEF Given
    <2>2. CASE ~(rd_idx = INVALID_INDEX /\ wr_idx = INVALID_INDEX /\ then.op = "init")
      <3>1. pc = "settle" /\ ret' = then /\ then' = NoAnswer /\ live' = live
          BY <1>14, <2>2 DEF Settle, InitAreaFails, Return, history
      <3>2. Given' = then
          BY <1>6, <3>1 DEF Given
      <3>3. CASE then = InitAnswer
          BY <1>4, <3>1, <3>2, <3>3
      <3>4. CASE then.op \in CallNames
          BY <1>2, <3>1, <3>2, <3>4 DEF Given
      <3> QED BY <3>1, <3>3, <3>4 DEF Unfailed
    <2> QED BY <2>1, <2>2
  <1>15. ASSUME ErasePage PROVE Goal
    <2>1. CASE UNCHANGED <<then, ret>>
        BY <1>2, <1>15, <2>1 DEF ErasePage, Given
    <2>2. CASE ~UNCHANGED <<then, ret>>
      <3>1. pc = "init_erase" /\ ret' = then /\ then' = NoAnswer /\ live' = live
          BY <1>15, <2>2 DEF ErasePage, Return
      <3>2. Given' = InitAnswer
          BY <1>6, <3>1 DEF Given, Unfailed
      <3> QED BY <1>4, <3>1, <3>2
    <2> QED BY <2>1, <2>2
  <1>16. ASSUME PushWrite PROVE Goal
      BY <1>2, <1>16 DEF PushWrite, Given, history
  <1>17. ASSUME PushWriteFails PROVE Goal
      BY <1>9, <1>17 DEF PushWriteFails, ResetArea, Codes
  <1>18. ASSUME PushHeader PROVE Goal
    <2>1. /\ rec \in Records /\ wr_idx \in 0..(AreaBlocks - 1)
        BY <1>18, PayloadAssumption, StorageConstants DEF PushHeader, Inductive, Control, Fits
    <2>2. [pos |-> wr_idx, rec |-> rec] \in Entries
        BY <2>1 DEF Entries
    <2>3. Queue' = Append(Queue, rec)
        BY <1>7, <1>18, <2>2, RecordsOfAppend DEF PushHeader, Queue
    <2>4. Given' = [op |-> "push", code |-> "SUCCESS", rec |-> rec]
        BY <1>6, <1>18 DEF PushHeader, Return, Given, Answer
    <2>5. PICK r \in Records : r = rec
        BY <2>1
    <2>6. Fifo!Push(r)
        BY <2>3, <2>4, <2>5 DEF Fifo!Push, Queue, RecordsOf, Given
    <2> QED BY <2>6 DEF Goal, Fifo!Next
  <1>19. ASSUME PushHeaderFails PROVE Goal
      BY <1>9, <1>19 DEF PushHeaderFails, ResetArea, Codes
  <1>20. ASSUME NotInitialized PROVE Goal
      BY <1>8, <1>20 DEF NotInitialized, Refuse, Return, Codes, history
  <1>21. ASSUME PeekEmpty PROVE Goal
      BY <1>8, <1>21 DEF PeekEmpty, Refuse, Return, Codes, history
  <1>22. ASSUME NEW size \in BufferSizes, PeekTooSmall(size) PROVE Goal
      BY <1>8, <1>22 DEF PeekTooSmall, Refuse, Return, Codes, history
  <1>23. ASSUME NEW size \in BufferSizes, PeekRecord(size) PROVE Goal
    <2>1. /\ pc = "ready" /\ fa /\ rd_idx < AreaBlocks /\ flash[rd_idx].magic = "valid"
          /\ ret' = Answer("peek", "SUCCESS", flash[rd_idx].owner)
          /\ then' = NoAnswer /\ live' = live
        BY <1>23 DEF PeekRecord, HeaderReadable, RecordIsValid, Return, history
    <2>2. live # <<>> /\ flash[rd_idx] = Header(live[1].rec)
        BY <1>7, <2>1, ValidAtReadIndex DEF Inductive, TypeOK
    <2>3. Queue # <<>> /\ Head(Queue) = live[1].rec
        BY <1>7, <2>2, RecordsOfTail DEF Queue
    <2>4. Given' = [op |-> "peek", code |-> "SUCCESS", rec |-> Head(Queue)]
        BY <1>6, <2>1, <2>2, <2>3 DEF Given, Answer, Header, Word
    <2>5. Fifo!Peek
        BY <2>1, <2>3, <2>4 DEF Fifo!Peek, Queue, RecordsOf, Given
    <2> QED BY <2>5 DEF Goal, Fifo!Next
  <1>24. ASSUME NEW size \in BufferSizes, PeekResets(size) PROVE Goal
      BY <1>9, <1>24 DEF PeekResets, ResetArea, Codes
  <1>25. ASSUME FreeNotFound PROVE Goal
      BY <1>8, <1>25 DEF FreeNotFound, Refuse, Return, Codes, history
  <1>26. ASSUME FreeRecord PROVE Goal
    <2>1. /\ pc = "ready" /\ fa /\ rd_idx < AreaBlocks /\ flash[rd_idx].magic = "valid"
        BY <1>26 DEF FreeRecord, HeaderReadable
    <2>2. live # <<>> /\ flash[rd_idx] = Header(live[1].rec)
        BY <1>7, <2>1, ValidAtReadIndex DEF Inductive, TypeOK
    <2>3. live' = Tail(live) /\ Given' = Answer("free", "SUCCESS", flash[rd_idx].owner)
      <3>1. CASE WorthErasing(NextHeader(rd_idx))
        <4>1. Tail(live) = <<>>
            BY <1>7, <1>26, <2>1, <3>1, LastIsFreed
        <4> QED BY <1>26, <3>1, <4>1 DEF FreeRecord, ResetArea, Given, Answer
      <3>2. CASE ~WorthErasing(NextHeader(rd_idx))
          BY <1>6, <1>26, <2>2, <3>2 DEF FreeRecord, Return, Given
      <3> QED BY <3>1, <3>2
    <2>4. Queue # <<>> /\ Head(Queue) = live[1].rec /\ Queue' = Tail(Queue)
        BY <1>7, <2>2, <2>3, RecordsOfTail DEF Queue
    <2>5. Given' = [op |-> "free", code |-> "SUCCESS", rec |-> Head(Queue)]
        BY <2>2, <2>3, <2>4 DEF Answer, Header, Word
    <2>6. Fifo!Free
        BY <2>4, <2>5 DEF Fifo!Free, Queue, RecordsOf, Given
    <2> QED BY <2>6 DEF Goal, Fifo!Next
  <1>27. ASSUME NEW r \in Records, PushRefused(r) PROVE Goal
      BY <1>8, <1>27 DEF PushRefused, Refuse, Return, Codes, history
  <1>28. ASSUME NEW r \in Records, PushBegin(r) PROVE Goal
      BY <1>2, <1>28 DEF PushBegin, Given, history
  <1>29. ASSUME PowerCut PROVE Goal
    <2>1. ret' = NoAnswer /\ then' = NoAnswer /\ live' = live
        BY <1>29 DEF PowerCut, Return, history
    <2> QED BY <1>4, <1>6, <2>1 DEF Given
  <1>30. ASSUME UNCHANGED vars PROVE Goal
      BY <1>2, <1>30 DEF vars, ramVars, history, Given
  <1>31. /\ ~StorageInitCannotOpen /\ ~WalkRecordFault /\ ~WalkHeaderFault /\ ~EraseFails
         /\ ~PushReadBackFails /\ ~FreeCannotWrite
      BY <1>5 DEF StorageInitCannotOpen, WalkRecordFault, WalkHeaderFault, EraseFails,
                  PushReadBackFails, FreeCannotWrite
  <1> QED
      BY <1>10, <1>11, <1>12, <1>13, <1>14, <1>15, <1>16, <1>17, <1>18, <1>19, <1>20, <1>21,
         <1>22, <1>23, <1>24, <1>25, <1>26, <1>27, <1>28, <1>29, <1>30, <1>31
         DEF Next, Boot, Erase, Push, Call, StoragePeek, StorageFree, StoragePush

\* As long as no flash access fails and no erase is cut short, storage.c is the
\* FIFO that storage.h promises, for every area, every set of records and any
\* number of power cuts: push, peek and free answer as the queue does, boots and
\* power cuts keep it, and what loses records answers with an error.
THEOREM StorageImplementsFifo ==
    ASSUME BenignPayload, MaxFaults = 0, CutPoints \cap {"erase", "init_erase"} = {}
    PROVE  Spec => ImplementsFifo
  <1>1. Init => Fifo!Init /\ Unfailed
      BY FifoInit, UnfailedInit
  <1>2. Inductive /\ Inductive' /\ Unfailed /\ [Next]_vars => Unfailed'
    <2>1. ASSUME Inductive' PROVE faults' = MaxFaults
        BY <2>1 DEF Inductive, TypeOK, Types
    <2> QED BY <2>1, UnfailedStep
  <1>3. Inductive /\ Unfailed /\ [Next]_vars => [Fifo!Next]_(Fifo!vars)
      BY FifoStep
  <1> QED BY <1>1, <1>2, <1>3, StorageInductive, PTL DEF Spec, ImplementsFifo, Fifo!Spec

-----------------------------------------------------------------------------
(* The threads of PubSub on a Storage                                       *)

Area == 0..(AreaBlocks - 1)
PubStates == [at : {"idle", "wait", "wait_store", "push", "send"}, msg : Records \cup {NoRecord}]
FlushStates == [at : {"idle", "peek", "send", "free", "discard"}, msg : Records \cup {NoRecord}]

PubTypes ==
    /\ main \in {"boot", "up"}
    /\ caller \in Publishers \cup {Flusher, Main, Nobody}
    /\ pub \in [Publishers -> PubStates]
    /\ flush \in FlushStates
    /\ flushed \in [Records -> Nat]
    /\ offered \subseteq Records
    /\ \A t \in Publishers : pub[t].at = "idle" <=> pub[t].msg = NoRecord
    /\ flush.at \in {"send", "free"} => flush.msg \in Records

\* Who holds sem_storage is the thread whose call is in progress.
Holder ==
    /\ caller = Nobody <=> pc = "ready"
    /\ main = "boot" => /\ caller \in {Main, Nobody}
                        /\ flush.at = "idle"
                        /\ \A t \in Publishers : pub[t].at = "idle"
    /\ caller = Main => main = "boot"
    /\ then.op = "init" => caller = Main
    /\ caller \in Publishers => pub[caller].at = "push"
    /\ pc \in {"write", "header"} => caller \in Publishers /\ rec = pub[caller].msg
    /\ pc = "init_erase" => caller = Main
    /\ caller = Flusher => flush.at \in {"peek", "free", "discard"}
    /\ caller = Flusher /\ flush.at = "peek" => then.code = "INVALID_STATE"

HolderInductive == PubTypes /\ Holder

\* The steps of a call that has begun
InCall == \/ CheckFirstBlock \/ CheckFirstBlockFails
          \/ Walk \/ WalkRecordFault \/ WalkHeaderFault \/ Settle
          \/ Erase
          \/ Push

\* Such a step returns what was settled, goes on with the same call, or starts
\* to reset the area.
GoesOn ==
    \/ /\ pc' = "ready" /\ then'.op = "none"
       /\ ret' = then \/ pc \in {"header", "init_erase"}
    \/ pc' \in {"write", "header"} /\ pc = "write" /\ rec' = rec /\ then' = then
    \/ pc' \in {"check", "walk", "settle"} /\ pc \in {"check", "walk", "erase"} /\ then' = then
    \/ pc' = "erase" /\ pc = "erase" /\ then' = then
    \/ pc' = "erase" /\ pc \in {"write", "header"} /\ then'.op = "push"
    \/ pc' = "init_erase" /\ (then.op = "init" \/ pc = "init_erase") /\ then' = then

\* What becomes of a call in its next step.
LEMMA CallGoesOn == ASSUME InCall PROVE pc # "ready" /\ GoesOn
  <1> USE DEF GoesOn
  <1> USE DEF NoAnswer, Answer, Return, ResetArea
  <1>1. CASE CheckFirstBlock
      BY <1>1 DEF CheckFirstBlock
  <1>2. CASE CheckFirstBlockFails
      BY <1>2 DEF CheckFirstBlockFails, InitAreaFails
  <1>3. CASE Walk \/ WalkRecordFault
      BY <1>3 DEF Walk, WalkRecordFault, WalkTo
  <1>4. CASE WalkHeaderFault
      BY <1>4 DEF WalkHeaderFault
  <1>5. CASE Settle
      BY <1>5 DEF Settle, InitAreaFails
  <1>6. CASE ErasePage
      BY <1>6 DEF ErasePage
  <1>7. CASE EraseFails
      BY <1>7 DEF EraseFails
  <1>8. CASE PushWrite
      BY <1>8 DEF PushWrite
  <1>9. CASE PushWriteFails \/ PushReadBackFails \/ PushHeaderFails
      BY <1>9 DEF PushWriteFails, PushReadBackFails, PushHeaderFails
  <1>10. CASE PushHeader
      BY <1>10 DEF PushHeader
  <1> QED BY <1>1, <1>2, <1>3, <1>4, <1>5, <1>6, <1>7, <1>8, <1>9, <1>10 DEF InCall, Erase, Push

\* While sem_storage is taken only the call of its holder goes on.
LEMMA ReadyIsFree ==
    ASSUME HolderInductive, Ready
    PROVE  pc = "ready" /\ main = "up" /\ caller = Nobody /\ then.op # "init"
  BY PubSubConstants DEF HolderInductive, Holder, PubTypes, Ready

\* What a thread does with storage is a step of Storage.
LEMMA PubSubIsStorage ==
    ASSUME HolderInductive, PubSubNext
    PROVE  [Next]_vars
  <1> USE DEF Next
  <1>1. CASE PubsubStorageInit
      BY <1>1 DEF PubsubStorageInit, Boot
  <1>2. CASE StorageStep
      BY <1>2 DEF StorageStep, Boot
  <1>3. ASSUME NEW t \in Publishers, PublishPush(t) PROVE [Next]_vars
    <2>1. pub[t].msg \in Records /\ pc = "ready"
        BY <1>3, ReadyIsFree DEF PublishPush, HolderInductive, PubTypes, PubStates
    <2>2. CASE StoragePush(pub[t].msg)
        BY <2>1, <2>2 DEF Call
    <2>3. CASE AnswersNotInitialized("push")
        BY <2>1, <2>3 DEF Call, NotInitialized, AnswersNotInitialized
    <2> QED BY <1>3, <2>2, <2>3 DEF PublishPush
  <1>4. ASSUME NEW t \in Publishers, TakeBuffers(t) \/ BuffersBusy(t) \/ PublishSend(t)
        PROVE  [Next]_vars
      BY <1>4 DEF TakeBuffers, BuffersBusy, PublishSend
  <1>5. ASSUME NEW t \in Publishers, NEW m \in Records, NEW force \in BOOLEAN, Publish(t, m, force)
        PROVE  [Next]_vars
      BY <1>5 DEF Publish
  <1>6. CASE PublishFlush \/ FlushComesBackLater \/ FlushSend
      BY <1>6 DEF PublishFlush, FlushComesBackLater, FlushSend
  <1>7. CASE FlushPeek
    <2>1. pc = "ready" /\ EntrySize \in BufferSizes
        BY <1>7, ReadyIsFree, PubSubConstants DEF FlushPeek
    <2>2. CASE StoragePeek(EntrySize)
        BY <2>1, <2>2 DEF Call
    <2>3. CASE AnswersNotInitialized("peek")
        BY <2>1, <2>3 DEF Call, NotInitialized, AnswersNotInitialized
    <2> QED BY <1>7, <2>2, <2>3 DEF FlushPeek
  <1>8. CASE FlushFree
    <2>1. pc = "ready"
        BY <1>8, ReadyIsFree DEF FlushFree
    <2>2. CASE StorageFree
        BY <2>2 DEF Call
    <2>3. CASE AnswersNotInitialized("free")
        BY <2>1, <2>3 DEF Call, NotInitialized, AnswersNotInitialized
    <2> QED BY <1>8, <2>2, <2>3 DEF FlushFree
  <1>9. ASSUME NEW r \in Remotes \ {McuRemote}, SubscribeAdd(r) PROVE [Next]_vars
      BY <1>9 DEF SubscribeAdd
  <1>10. CASE Reset
      BY <1>10 DEF Reset
  <1> HIDE DEF Next
  <1> QED BY <1>1, <1>2, <1>3, <1>4, <1>5, <1>6, <1>7, <1>8, <1>9, <1>10
          DEF PubSubNext, Publishing, Flushing

\* A step of a publisher outside of storage, or of the flusher, or of the runner
LEMMA HolderOutside ==
    ASSUME HolderInductive, UNCHANGED <<vars, main, caller>>,
           \/ \E t \in Publishers, m \in Records, force \in BOOLEAN : Publish(t, m, force)
           \/ \E t \in Publishers : TakeBuffers(t) \/ BuffersBusy(t) \/ PublishSend(t)
           \/ PublishFlush \/ FlushComesBackLater \/ FlushSend
           \/ \E r \in Remotes \ {McuRemote} : SubscribeAdd(r)
    PROVE  HolderInductive'
  <1> USE PubSubConstants, StorageConstants
      DEF HolderInductive, Holder, PubTypes, PubStates, FlushStates, At, Idle, vars, ramVars
  <1>1. ASSUME NEW t \in Publishers, NEW m \in Records, NEW force \in BOOLEAN, Publish(t, m, force)
        PROVE  HolderInductive'
    <2>1. /\ main = "up" /\ pub[t].at = "idle"
          /\ UNCHANGED <<flush, flushed>>
          /\ offered' = offered \cup {m}
        BY <1>1 DEF Publish
    <2>2. \/ pub' = pub
          \/ \E p \in {"wait", "wait_store"} : pub' = [pub EXCEPT ![t] = [at |-> p, msg |-> m]]
        BY <1>1 DEF Publish
    <2>3. PubTypes'
        BY <2>1, <2>2
    <2>4. Holder'
        BY <2>1, <2>2
    <2> QED BY <2>3, <2>4
  <1>2. ASSUME NEW t \in Publishers, TakeBuffers(t) PROVE HolderInductive'
    <2>1. /\ pub[t].at \in {"wait", "wait_store"}
          /\ UNCHANGED <<flush, flushed, offered>>
        BY <1>2 DEF TakeBuffers, pubHistory
    <2>2. \E p \in {"push", "send"} : pub' = [pub EXCEPT ![t].at = p]
        BY <1>2 DEF TakeBuffers
    <2>3. PubTypes'
        BY <2>1, <2>2
    <2>4. Holder'
        BY <2>1, <2>2
    <2> QED BY <2>3, <2>4
  <1>3. ASSUME NEW t \in Publishers, BuffersBusy(t) \/ PublishSend(t) PROVE HolderInductive'
    <2>1. /\ pub[t].at \in {"wait", "wait_store", "send"}
          /\ UNCHANGED <<flush, flushed, offered>>
          /\ pub' = [pub EXCEPT ![t] = Idle]
        BY <1>3 DEF BuffersBusy, PublishSend, pubHistory
    <2>2. PubTypes'
        BY <2>1
    <2>3. Holder'
        BY <2>1
    <2> QED BY <2>2, <2>3
  <1>4. CASE PublishFlush
      BY <1>4 DEF PublishFlush, pubHistory
  <1>5. CASE FlushComesBackLater
      BY <1>5 DEF FlushComesBackLater, pubHistory
  <1>6. CASE FlushSend
    <2>1. /\ flush.at = "send" /\ flush' = [flush EXCEPT !.at = "free"]
          /\ UNCHANGED <<pub, offered>>
          /\ flushed' \in [Records -> Nat]
        BY <1>6 DEF FlushSend
    <2>2. PubTypes'
        BY <2>1
    <2>3. Holder'
        BY <2>1
    <2> QED BY <2>2, <2>3
  <1>7. ASSUME NEW r \in Remotes \ {McuRemote}, SubscribeAdd(r) PROVE HolderInductive'
      BY <1>7 DEF SubscribeAdd, pubHistory
  <1> QED BY <1>1, <1>2, <1>3, <1>4, <1>5, <1>6, <1>7

\* A call that goes on or returns, of the thread that holds sem_storage
LEMMA HolderInCall ==
    ASSUME HolderInductive, Types, Types', InCall, caller # Nobody, Calls(caller),
           UNCHANGED <<active, pubHistory>>
    PROVE  HolderInductive'
  <1> USE PubSubConstants, StorageConstants
      DEF HolderInductive, Holder, PubTypes, PubStates, FlushStates, At, Idle, pubHistory
  <1>1. pc # "ready" /\ GoesOn
      BY CallGoesOn
  <1>2. CASE pc' # "ready"
    <2>1. caller' = caller /\ UNCHANGED <<main, pub, flush>>
        BY <1>2 DEF Calls
    <2>2. PubTypes'
        BY <2>1
    <2>3. Holder'
        BY <1>1, <1>2, <2>1 DEF GoesOn
    <2> QED BY <2>2, <2>3
  <1>3. CASE pc' = "ready"
    <2>1. /\ caller' = Nobody
          /\ main' = IF caller = Main THEN "up" ELSE main
          /\ pub' = IF caller \in Publishers THEN [pub EXCEPT ![caller] = Idle] ELSE pub
          /\ flush' = IF caller = Flusher THEN AfterCall(ret') ELSE flush
        BY <1>3 DEF Calls
    <2>2. then'.op = "none" /\ (caller = Flusher => ret' = then)
        BY <1>1, <1>3 DEF GoesOn
    <2>3. caller = Flusher => flush' \in {Idle, At("peek", NoRecord)}
        BY <2>1, <2>2 DEF AfterCall
    <2>4. PubTypes'
        BY <2>1, <2>3
    <2>5. main' = "up"
        BY <2>1
    <2>6. Holder'
        BY <1>3, <2>1, <2>2, <2>3, <2>5
    <2> QED BY <2>4, <2>6
  <1> QED BY <1>2, <1>3

\* A call of storage_peek: what it can do, and what the flusher makes of it
LEMMA PeekBegins ==
    ASSUME HolderInductive, Types, Control, FlushPeek
    PROVE  /\ pc = "ready" /\ flush.at = "peek" /\ main = "up" /\ caller = Nobody
           /\ UNCHANGED <<main, pub, offered, flushed, dropped>>
           /\ \/ /\ pc' = "ready" /\ caller' = Nobody /\ then'.op = "none"
                 /\ \/ flush' \in {Idle, At("discard", NoRecord)}
                    \/ /\ PeekRecord(EntrySize)
                       /\ flash[rd_idx].owner \in Records
                       /\ flush' = At("send", flash[rd_idx].owner)
              \/ /\ PeekResets(EntrySize)
                 /\ pc' = "erase" /\ caller' = Flusher /\ flush' = flush
                 /\ then'.op = "peek" /\ then'.code = "INVALID_STATE"
  <1> USE PubSubConstants, StorageConstants
  <1>1. /\ pc = "ready" /\ flush.at = "peek" /\ main = "up" /\ caller = Nobody
        /\ Calls(Flusher) /\ UNCHANGED <<offered, flushed, dropped>>
      BY ReadyIsFree DEF FlushPeek, pubHistory
  <1>2. CASE PeekResets(EntrySize)
    <2>1. pc' = "erase" /\ then'.op = "peek" /\ then'.code = "INVALID_STATE"
        BY <1>2 DEF PeekResets, ResetArea, Answer
    <2> QED BY <1>1, <1>2, <2>1 DEF Calls
  <1>3. ASSUME pc' = "ready", then' = NoAnswer,
               \/ ret'.code \in Codes \ {"SUCCESS"}
               \/ /\ PeekRecord(EntrySize)
                  /\ flash[rd_idx].owner \in Records
                  /\ ret' = Answer("peek", "SUCCESS", flash[rd_idx].owner)
        PROVE  /\ UNCHANGED <<main, pub>>
               /\ caller' = Nobody /\ then'.op = "none"
               /\ \/ flush' \in {Idle, At("discard", NoRecord)}
                  \/ /\ PeekRecord(EntrySize)
                     /\ flash[rd_idx].owner \in Records
                     /\ flush' = At("send", flash[rd_idx].owner)
    <2>1. /\ caller' = Nobody /\ flush' = AfterCall(ret') /\ UNCHANGED <<main, pub>>
        BY <1>1, <1>3 DEF Calls
    <2>2. then'.op = "none"
        BY <1>3 DEF NoAnswer, Answer
    <2>3. CASE ret'.code \in Codes \ {"SUCCESS"}
        BY <1>1, <2>1, <2>2, <2>3 DEF AfterCall
    <2>4. CASE /\ PeekRecord(EntrySize)
               /\ flash[rd_idx].owner \in Records
               /\ ret' = Answer("peek", "SUCCESS", flash[rd_idx].owner)
      <3>1. ret'.code = "SUCCESS" /\ ret'.rec = flash[rd_idx].owner
          BY <2>4 DEF Answer
      <3> QED BY <1>1, <2>1, <2>2, <2>4, <3>1 DEF AfterCall
    <2> QED BY <1>3, <2>3, <2>4
  <1>4. CASE PeekEmpty
    <2>1. pc' = "ready" /\ then' = NoAnswer /\ ret'.code \in Codes \ {"SUCCESS"}
        BY <1>4 DEF PeekEmpty, Refuse, Return, Answer, Codes
    <2> QED BY <1>1, <1>3, <2>1
  <1>5. CASE PeekTooSmall(EntrySize)
    <2>1. pc' = "ready" /\ then' = NoAnswer /\ ret'.code \in Codes \ {"SUCCESS"}
        BY <1>5 DEF PeekTooSmall, Refuse, Return, Answer, Codes
    <2> QED BY <1>1, <1>3, <2>1
  <1>6. CASE AnswersNotInitialized("peek")
    <2>1. pc' = "ready" /\ then' = NoAnswer /\ ret'.code \in Codes \ {"SUCCESS"}
        BY <1>6 DEF AnswersNotInitialized, Refuse, Return, Answer, Codes
    <2> QED BY <1>1, <1>3, <2>1
  <1>7. CASE PeekRecord(EntrySize)
    <2>1. /\ pc' = "ready" /\ then' = NoAnswer
          /\ ret' = Answer("peek", "SUCCESS", flash[rd_idx].owner)
          /\ fa /\ rd_idx < AreaBlocks /\ flash[rd_idx].owner # NoRecord
        BY <1>7 DEF PeekRecord, Return, HeaderReadable, RecordIsValid, CrcMatches
    <2>2. rd_idx \in 0..(AreaBlocks - 1)
        BY <1>1, <2>1 DEF Types, Control
    <2>3. flash[rd_idx].owner \in Records
        BY <2>1, <2>2, ReadTypes
    <2> QED BY <1>1, <1>3, <1>7, <2>1, <2>3
  <1> QED BY <1>2, <1>4, <1>5, <1>6, <1>7 DEF FlushPeek, StoragePeek

\* A call of storage_free
LEMMA FreeBegins ==
    ASSUME HolderInductive, FlushFree
    PROVE  /\ pc = "ready" /\ flush.at \in {"free", "discard"} /\ main = "up" /\ caller = Nobody
           /\ UNCHANGED <<main, pub, offered, flushed>>
           /\ \/ /\ pc' = "ready" /\ caller' = Nobody /\ then'.op = "none"
                 /\ flush' = At("peek", NoRecord)
              \/ /\ FreeRecord /\ WorthErasing(NextHeader(rd_idx))
                 /\ pc' = "erase" /\ caller' = Flusher /\ flush' = flush /\ then'.op = "free"
  <1> USE PubSubConstants
  <1>1. /\ pc = "ready" /\ flush.at \in {"free", "discard"} /\ main = "up" /\ caller = Nobody
        /\ Calls(Flusher) /\ UNCHANGED <<offered, flushed>>
      BY ReadyIsFree DEF FlushFree
  <1>2. ASSUME pc' = "ready", then' = NoAnswer
        PROVE  /\ UNCHANGED <<main, pub>> /\ caller' = Nobody /\ then'.op = "none"
               /\ flush' = At("peek", NoRecord)
      BY <1>1, <1>2 DEF Calls, AfterCall, NoAnswer, Answer
  <1>3. CASE FreeNotFound \/ FreeCannotWrite \/ AnswersNotInitialized("free")
    <2>1. pc' = "ready" /\ then' = NoAnswer
        BY <1>3 DEF FreeNotFound, FreeCannotWrite, AnswersNotInitialized, Refuse, Return
    <2> QED BY <1>1, <1>2, <2>1
  <1>4. CASE FreeRecord /\ ~WorthErasing(NextHeader(rd_idx))
    <2>1. pc' = "ready" /\ then' = NoAnswer
        BY <1>4 DEF FreeRecord, Return
    <2> QED BY <1>1, <1>2, <2>1
  <1>5. CASE FreeRecord /\ WorthErasing(NextHeader(rd_idx))
    <2>1. pc' = "erase" /\ then'.op = "free"
        BY <1>5 DEF FreeRecord, ResetArea, Answer
    <2> QED BY <1>1, <1>5, <2>1 DEF Calls
  <1> QED BY <1>3, <1>4, <1>5 DEF FlushFree, StorageFree

\* A call of storage_push
LEMMA PushBegins ==
    ASSUME HolderInductive, NEW t \in Publishers, PublishPush(t)
    PROVE  /\ pc = "ready" /\ pub[t].at = "push" /\ pub[t].msg \in Records
           /\ main = "up" /\ caller = Nobody
           /\ UNCHANGED <<main, flush, offered, flushed, dropped>>
           /\ \/ /\ pc' = "ready" /\ caller' = Nobody /\ then'.op = "none"
                 /\ pub' = [pub EXCEPT ![t] = Idle]
                 /\ UNCHANGED <<flash, fa, rd_idx, wr_idx, cuts, faults, history>>
              \/ /\ PushBegin(pub[t].msg)
                 /\ pc' = "write" /\ rec' = pub[t].msg /\ then' = then
                 /\ caller' = t /\ pub' = pub
  <1> USE PubSubConstants
  <1>1. /\ pc = "ready" /\ pub[t].at = "push" /\ main = "up" /\ caller = Nobody
        /\ Calls(t) /\ UNCHANGED <<offered, flushed, dropped>>
        /\ t \notin {Main, Flusher, Nobody}
      BY ReadyIsFree DEF PublishPush, pubHistory
  <1>2. pub[t].msg \in Records
      BY <1>1 DEF HolderInductive, PubTypes, PubStates
  <1>3. CASE PushRefused(pub[t].msg) \/ AnswersNotInitialized("push")
    <2>1. /\ pc' = "ready" /\ then' = NoAnswer
          /\ UNCHANGED <<flash, fa, rd_idx, wr_idx, cuts, faults, history>>
        BY <1>3 DEF PushRefused, AnswersNotInitialized, Refuse, Return
    <2> QED BY <1>1, <1>2, <2>1 DEF Calls, NoAnswer, Answer
  <1>4. CASE PushBegin(pub[t].msg)
    <2>1. pc' = "write" /\ rec' = pub[t].msg /\ then' = then
        BY <1>4 DEF PushBegin
    <2> QED BY <1>1, <1>2, <1>4, <2>1 DEF Calls
  <1> QED BY <1>3, <1>4 DEF PublishPush, StoragePush

\* Every step of PubSub keeps sem_storage with the thread whose call it is.
LEMMA HolderStep ==
    ASSUME Inductive, Types', HolderInductive, [PubSubNext]_pubVars
    PROVE  HolderInductive'
  <1> USE PubSubConstants, StorageConstants
  <1> DEFINE Own == HolderInductive'
  <1>1. Types /\ Control
      BY DEF Inductive, TypeOK
  <1>2. CASE PubsubStorageInit
    <2>1. /\ main = "boot" /\ caller = Nobody
          /\ Calls(Main) /\ UNCHANGED <<offered, flushed, dropped>>
        BY <1>2 DEF PubsubStorageInit, pubHistory
    <2>2. CASE StorageInit
      <3>1. pc' = "check" /\ then'.op = "init"
          BY <2>2 DEF StorageInit, Answer
      <3>2. caller' = Main /\ UNCHANGED <<main, pub, flush>>
          BY <2>1, <3>1 DEF Calls
      <3> QED BY <2>1, <3>1, <3>2 DEF HolderInductive, PubTypes, Holder
    <2>3. CASE StorageInitCannotOpen
      <3>1. pc' = "ready" /\ then'.op = "none"
          BY <2>3 DEF StorageInitCannotOpen, Return, NoAnswer, Answer
      <3>2. caller' = Nobody /\ main' = "up" /\ UNCHANGED <<pub, flush>>
          BY <2>1, <3>1 DEF Calls
      <3> QED BY <2>1, <3>1, <3>2 DEF HolderInductive, PubTypes, Holder
    <2> QED BY <1>2, <2>2, <2>3 DEF PubsubStorageInit
  <1>3. CASE StorageStep
      BY <1>1, <1>3, HolderInCall DEF StorageStep, InCall
  <1>4. ASSUME NEW t \in Publishers, PublishPush(t) PROVE Own
    <2>1. PubTypes'
        BY <1>4, PushBegins DEF HolderInductive, PubTypes, PubStates, Idle, At
    <2>2. then.op # "init"
        BY <1>4, ReadyIsFree DEF PublishPush
    <2>3. Holder'
        BY <1>4, <2>2, PushBegins DEF HolderInductive, PubTypes, Holder, PubStates, Idle, At
    <2> QED BY <2>1, <2>3 DEF HolderInductive
  <1>5. CASE FlushPeek
    <2>1. PubTypes'
        BY <1>1, <1>5, PeekBegins DEF HolderInductive, PubTypes, FlushStates, Idle, At
    <2>2. Holder'
        BY <1>1, <1>5, PeekBegins DEF HolderInductive, PubTypes, Holder, Idle, At
    <2> QED BY <2>1, <2>2 DEF HolderInductive
  <1>6. CASE FlushFree
    <2>1. PubTypes'
        BY <1>6, FreeBegins DEF HolderInductive, PubTypes, FlushStates, At
    <2>2. Holder'
        BY <1>6, FreeBegins DEF HolderInductive, PubTypes, Holder, At
    <2> QED BY <2>1, <2>2 DEF HolderInductive
  <1>7. ASSUME NEW t \in Publishers, NEW m \in Records, NEW force \in BOOLEAN, Publish(t, m, force)
        PROVE  Own
      BY <1>7, HolderOutside DEF Publish
  <1>8. ASSUME NEW t \in Publishers, TakeBuffers(t) \/ BuffersBusy(t) \/ PublishSend(t) PROVE Own
      BY <1>8, HolderOutside DEF TakeBuffers, BuffersBusy, PublishSend
  <1>9. CASE PublishFlush \/ FlushComesBackLater \/ FlushSend
      BY <1>9, HolderOutside DEF PublishFlush, FlushComesBackLater, FlushSend
  <1>10. ASSUME NEW r \in Remotes \ {McuRemote}, SubscribeAdd(r) PROVE Own
      BY <1>10, HolderOutside DEF SubscribeAdd
  <1>11. CASE Reset
    <2>1. pc' = "ready" /\ then'.op = "none"
        BY <1>11 DEF Reset, PowerCut, Return, NoAnswer, Answer
    <2>2. /\ main' = "boot" /\ caller' = Nobody /\ flush' = Idle
          /\ pub' = [t \in Publishers |-> Idle] /\ UNCHANGED <<offered, flushed>>
        BY <1>11 DEF Reset, pubHistory
    <2> QED BY <2>1, <2>2 DEF HolderInductive, PubTypes, Holder, PubStates, FlushStates, Idle, At
  <1>12. CASE UNCHANGED pubVars
    <2>1. UNCHANGED <<pc, then, rec, main, caller, pub, flush, flushed, offered>>
        BY <1>12 DEF pubVars, vars, ramVars, pubRam, pubHistory
    <2> QED BY <2>1 DEF HolderInductive, PubTypes, Holder
  <1> HIDE DEF Own
  <1>13. Own
      BY <1>2, <1>3, <1>4, <1>5, <1>6, <1>7, <1>8, <1>9, <1>10, <1>11, <1>12
         DEF PubSubNext, Publishing, Flushing, Own
  <1> QED BY <1>13 DEF Own

\* At a boot nobody holds sem_storage.
LEMMA HolderInit == ASSUME PubSubInit PROVE HolderInductive
  BY PubSubConstants, StorageConstants
     DEF PubSubInit, Init, HolderInductive, PubTypes, Holder, PubStates, FlushStates, Idle, At,
         NoAnswer, Answer

\* The threads use storage one at a time, so that it keeps its invariant.
LEMMA PubSubKeepsStorage ==
    ASSUME BenignPayload
    PROVE  PubSubSpec => [](Inductive /\ HolderInductive)
  <1>1. PubSubInit => Inductive /\ HolderInductive
      BY InductiveInit, HolderInit DEF PubSubInit
  <1>2. ASSUME Inductive /\ HolderInductive, [PubSubNext]_pubVars
        PROVE  Inductive' /\ HolderInductive'
    <2>1. [Next]_vars
      <3>1. CASE PubSubNext
          BY <1>2, <3>1, PubSubIsStorage
      <3>2. CASE UNCHANGED pubVars
          BY <3>2 DEF pubVars
      <3> QED BY <1>2, <3>1, <3>2
    <2>2. Inductive'
        BY <1>2, <2>1, InductiveStep
    <2>3. HolderInductive'
        BY <1>2, <2>2, HolderStep DEF Inductive, TypeOK
    <2> QED BY <2>2, <2>3
  <1> QED BY <1>1, <1>2, PTL DEF PubSubSpec

-----------------------------------------------------------------------------
(* A stored message is sent once, unless a reset or a failed access comes   *)
(* between its sending and its freeing.                                     *)

Stored(m) == \E b \in Area : flash[b] = Header(m)

\* Published by nobody so far, or still in the hands of its publisher
Fresh(m) == m \notin offered \/ \E t \in Publishers : pub[t].msg = m

\* What reads as a valid header is the header of a record.
HeadersOnly == \A b \in Area : flash[b].magic = "valid" =>
                  flash[b].owner \in Records /\ flash[b] = Header(flash[b].owner)

\* A message is in flash at one place, and not before its publisher is done; no
\* two publishers have the same one.
StoredOnce ==
    /\ \A b, c \in Area : flash[b].magic = "valid" /\ flash[b] = flash[c] => b = c
    /\ \A m \in Records : Fresh(m) => ~Stored(m) /\ flushed[m] = 0
    /\ \A t, u \in Publishers : pub[t].msg = pub[u].msg /\ pub[t].msg # NoRecord => t = u
    /\ \A t \in Publishers : pub[t].msg # NoRecord => pub[t].msg \in offered
    /\ flush.at \in {"send", "free"} => ~Fresh(flush.msg)

\* The resets and the failed accesses so far, and how often a message was sent,
\* the flusher's present attempt included
Spent == cuts + (MaxFaults - faults)
Handed(m) == flushed[m] + (IF flush = At("send", m) THEN 1 ELSE 0)

\* The record the flusher has peeked is the one a free will find.
InHand(m) == /\ flush \in {At("send", m), At("free", m)}
             /\ fa /\ pc \in {"ready", "write", "header"}
             /\ rd_idx \in Area /\ flash[rd_idx] = Header(m)

\* The record will not be peeked again.
Beyond(m) == ~Stored(m) \/ pc = "erase" \/ InHand(m)

SentOnce(m) == \/ Handed(m) <= Spent
               \/ Handed(m) = Spent + 1 /\ Beyond(m)

SentInductive == HeadersOnly /\ StoredOnce /\ \A m \in Records : SentOnce(m)

\* A header says of which record it is.
LEMMA HeaderOfRecord ==
    /\ \A r : Header(r).magic = "valid" /\ Header(r).owner = r
    /\ Erased.magic # "valid" /\ Zero.magic # "valid"
  BY DEF Header, Erased, Zero, Word

\* What a step of storage.c does to a block: it becomes a header only at the
\* end of a push.
LEMMA BlockStep ==
    ASSUME BenignPayload, Types, Control, [Next]_vars, NEW b \in Area
    PROVE  \/ flash'[b] = flash[b]
           \/ flash'[b].magic # "valid"
           \/ PushHeader /\ b = wr_idx /\ flash'[b] = Header(rec) /\ rec \in Records
  <1> USE DEF Area
  <1>1. CASE UNCHANGED flash
      BY <1>1
  <1>2. CASE ErasePage
    <2>1. flash'[b] \in {Erased, flash[b]}
        BY <1>2 DEF ErasePage
    <2> QED BY <2>1, HeaderOfRecord
  <1>3. CASE FreeRecord
    <2>1. flash'[b] \in {Zero, flash[b]}
        BY <1>3 DEF FreeRecord, Types
    <2> QED BY <2>1, HeaderOfRecord
  <1>4. CASE PushWrite
    <2>1. rec \in Records /\ idx \in 1..Blocks(RecordSize[rec])
        BY <1>4 DEF PushWrite, Control
    <2>2. PayloadWord(rec, idx).magic # "valid"
        BY <2>1 DEF BenignPayload, PayloadWord, Word
    <2>3. flash'[b] \in {PayloadWord(rec, idx), flash[b]}
        BY <1>4 DEF PushWrite, Types
    <2> QED BY <2>2, <2>3
  <1>5. CASE PushHeader
    <2>1. rec \in Records
        BY <1>5 DEF PushHeader, Control
    <2>2. flash'[b] = flash[b] \/ (b = wr_idx /\ flash'[b] = Header(rec))
        BY <1>5 DEF PushHeader, Types
    <2> QED BY <1>5, <2>1, <2>2
  <1>6. CASE UNCHANGED vars
      BY <1>1, <1>6 DEF vars
  <1>7. Next => UNCHANGED flash \/ ErasePage \/ FreeRecord \/ PushWrite \/ PushHeader
      BY DEF Next, Boot, Erase, Push, Call, StoragePeek, StorageFree, StoragePush,
         StorageInit, StorageInitCannotOpen, CheckFirstBlock, CheckFirstBlockFails, Walk,
         WalkRecordFault, WalkHeaderFault, Settle, EraseFails, PushWriteFails, PushReadBackFails,
         PushHeaderFails, NotInitialized, PeekEmpty, PeekTooSmall, PeekRecord, PeekResets,
         FreeNotFound, FreeCannotWrite, PushRefused, PushBegin, PowerCut, Refuse
  <1> QED BY <1>1, <1>2, <1>3, <1>4, <1>5, <1>6, <1>7

\* The pushes of the records are their only way into the flash.
LEMMA StoredStep ==
    ASSUME BenignPayload, Types, Control, [Next]_vars, NEW m \in Records, Stored(m)'
    PROVE  Stored(m) \/ (PushHeader /\ rec = m)
  <1>1. PICK b \in Area : flash'[b] = Header(m)
      BY DEF Stored
  <1>2. flash'[b].magic = "valid" /\ (\A r : Header(r) = Header(m) => r = m)
      BY <1>1, HeaderOfRecord
  <1>3. CASE flash'[b] = flash[b]
      BY <1>1, <1>3 DEF Stored
  <1>4. CASE PushHeader /\ b = wr_idx /\ flash'[b] = Header(rec) /\ rec \in Records
      BY <1>1, <1>2, <1>4
  <1> QED BY <1>2, <1>3, <1>4, BlockStep

\* A record that is overwritten at its one place is not stored any more.
LEMMA OverwrittenIsGone ==
    ASSUME BenignPayload, Types, Control, [Next]_vars, StoredOnce, NEW m \in Records,
           NEW b \in Area, flash[b] = Header(m), flash'[b] # Header(m), ~(PushHeader /\ rec = m)
    PROVE  ~Stored(m)'
  <1>1. SUFFICES ASSUME NEW c \in Area, flash'[c] = Header(m) PROVE FALSE
      BY DEF Stored
  <1>2. flash'[c].magic = "valid" /\ (\A r : Header(r) = Header(m) => r = m)
      BY <1>1, HeaderOfRecord
  <1>3. flash'[c] = flash[c]
      BY <1>1, <1>2, BlockStep
  <1>4. b = c
      BY <1>1, <1>2, <1>3 DEF StoredOnce
  <1> QED BY <1>1, <1>4

\* What reads as a valid header stays a header of one record.
LEMMA HeadersStep ==
    ASSUME BenignPayload, Types, Control, [Next]_vars, HeadersOnly
    PROVE  HeadersOnly'
  <1> SUFFICES ASSUME NEW b \in Area, flash'[b].magic = "valid"
               PROVE  flash'[b].owner \in Records /\ flash'[b] = Header(flash'[b].owner)
      BY DEF HeadersOnly, Header, Area
  <1>1. CASE flash'[b] = flash[b]
      BY <1>1 DEF HeadersOnly
  <1>2. CASE flash'[b] = Header(rec) /\ rec \in Records
      BY <1>2, HeaderOfRecord
  <1> QED BY <1>1, <1>2, BlockStep

\* What a step does to the messages of the publishers
PubMoves ==
    \/ offered' = offered /\ \A t \in Publishers : pub'[t].msg \in {pub[t].msg, NoRecord}
    \/ \E t \in Publishers, m \in Records :
          /\ m \notin offered /\ pub[t].msg = NoRecord
          /\ offered' = offered \cup {m}
          /\ pub'[t].msg \in {m, NoRecord}
          /\ \A u \in Publishers : u # t => pub'[u] = pub[u]

\* What it does to the message of the flusher
FlushMoves ==
    \/ flush' = flush /\ flushed' = flushed
    \/ flush'.at \in {"idle", "peek", "discard"} /\ flushed' = flushed
    \/ /\ FlushPeek /\ PeekRecord(EntrySize)
       /\ flash[rd_idx].owner \in Records
       /\ flush' = At("send", flash[rd_idx].owner) /\ flushed' = flushed
    \/ FlushSend

\* The moves of the publishers
LEMMA PubStep ==
    ASSUME Types, Control, HolderInductive, [PubSubNext]_pubVars
    PROVE  PubMoves
  <1> USE PubSubConstants DEF PubMoves, HolderInductive, PubTypes, PubStates, Idle, At
  <1>1. CASE pub' = pub /\ offered' = offered
      BY <1>1
  <1>2. ASSUME NEW t \in Publishers, pub' = [pub EXCEPT ![t] = Idle], offered' = offered PROVE PubMoves
      BY <1>2
  <1>3. CASE PubsubStorageInit
      BY <1>1, <1>3 DEF PubsubStorageInit, Calls, pubHistory
  <1>4. CASE StorageStep
      BY <1>1, <1>2, <1>4 DEF StorageStep, Calls, pubHistory
  <1>5. ASSUME NEW t \in Publishers, PublishPush(t) PROVE PubMoves
      BY <1>1, <1>2, <1>5, PushBegins
  <1>6. CASE FlushPeek
      BY <1>1, <1>6, PeekBegins
  <1>7. CASE FlushFree
      BY <1>1, <1>7, FreeBegins
  <1>8. ASSUME NEW t \in Publishers, NEW m \in Records, NEW force \in BOOLEAN, Publish(t, m, force)
        PROVE  PubMoves
    <2>1. /\ m \notin offered /\ pub[t].msg = NoRecord
          /\ offered' = offered \cup {m}
        BY <1>8 DEF Publish
    <2>2. /\ pub'[t].msg \in {m, NoRecord}
          /\ \A u \in Publishers : u # t => pub'[u] = pub[u]
      <3>1. CASE pub' = pub
          BY <2>1, <3>1
      <3>2. CASE pub' = [pub EXCEPT ![t] = At(IF force THEN "wait_store" ELSE "wait", m)]
          BY <3>2
      <3> QED BY <1>8, <3>1, <3>2 DEF Publish
    <2> QED BY <2>1, <2>2
  <1>9. ASSUME NEW t \in Publishers, TakeBuffers(t) PROVE PubMoves
    <2>1. offered' = offered /\ \E p : pub' = [pub EXCEPT ![t].at = p]
        BY <1>9 DEF TakeBuffers, pubHistory
    <2> QED BY <2>1
  <1>10. ASSUME NEW t \in Publishers, BuffersBusy(t) \/ PublishSend(t) PROVE PubMoves
      BY <1>2, <1>10 DEF BuffersBusy, PublishSend, pubHistory
  <1>11. CASE PublishFlush \/ FlushComesBackLater \/ FlushSend
      BY <1>1, <1>11 DEF PublishFlush, FlushComesBackLater, FlushSend, pubHistory
  <1>12. ASSUME NEW r \in Remotes \ {McuRemote}, SubscribeAdd(r) PROVE PubMoves
      BY <1>1, <1>12 DEF SubscribeAdd, pubHistory
  <1>13. CASE Reset
      BY <1>13 DEF Reset, pubHistory
  <1>14. CASE UNCHANGED pubVars
      BY <1>1, <1>14 DEF pubVars, pubRam, pubHistory
  <1> HIDE DEF PubMoves
  <1> QED BY <1>3, <1>4, <1>5, <1>6, <1>7, <1>8, <1>9, <1>10, <1>11, <1>12, <1>13, <1>14
          DEF PubSubNext, Publishing, Flushing

\* The moves of the flusher
LEMMA FlushStep ==
    ASSUME Types, Control, HolderInductive, [PubSubNext]_pubVars
    PROVE  FlushMoves
  <1> USE PubSubConstants DEF FlushMoves, Idle, At
  <1>1. CASE flush' = flush /\ flushed' = flushed
      BY <1>1
  <1>2. CASE PubsubStorageInit
      BY <1>1, <1>2 DEF PubsubStorageInit, Calls, pubHistory
  <1>3. CASE StorageStep
    <2>1. flushed' = flushed /\ Calls(caller) /\ InCall
        BY <1>3 DEF StorageStep, InCall, pubHistory
    <2>2. CASE flush' = flush
        BY <1>1, <2>1, <2>2
    <2>3. CASE flush' # flush
      <3>1. pc' = "ready" /\ caller = Flusher /\ flush' = AfterCall(ret')
          BY <2>1, <2>3 DEF Calls
      <3>2. pc \notin {"header", "init_erase"}
          BY <3>1 DEF HolderInductive, Holder
      <3>3. ret' = then
          BY <2>1, <3>1, <3>2, CallGoesOn DEF GoesOn
      <3>4. flush.at = "peek" => ret'.code = "INVALID_STATE"
          BY <3>1, <3>3 DEF HolderInductive, Holder
      <3>5. flush'.at \in {"idle", "peek"}
          BY <3>1, <3>4 DEF AfterCall
      <3> QED BY <2>1, <3>5
    <2> QED BY <2>2, <2>3
  <1>4. ASSUME NEW t \in Publishers, PublishPush(t) PROVE FlushMoves
      BY <1>1, <1>4, PushBegins
  <1>5. CASE FlushPeek
    <2>1. flushed' = flushed
        BY <1>5, PeekBegins
    <2>2. \/ flush' \in {Idle, At("discard", NoRecord)}
          \/ /\ PeekRecord(EntrySize)
             /\ flash[rd_idx].owner \in Records
             /\ flush' = At("send", flash[rd_idx].owner)
          \/ flush' = flush
        BY <1>5, PeekBegins
    <2> QED BY <1>5, <2>1, <2>2
  <1>6. CASE FlushFree
    <2>1. flushed' = flushed /\ (flush' = At("peek", NoRecord) \/ flush' = flush)
        BY <1>6, FreeBegins
    <2> QED BY <2>1
  <1>7. ASSUME NEW t \in Publishers, NEW m \in Records, NEW force \in BOOLEAN, Publish(t, m, force)
        PROVE  FlushMoves
      BY <1>1, <1>7 DEF Publish
  <1>8. ASSUME NEW t \in Publishers, TakeBuffers(t) \/ BuffersBusy(t) \/ PublishSend(t)
        PROVE  FlushMoves
      BY <1>1, <1>8 DEF TakeBuffers, BuffersBusy, PublishSend, pubHistory
  <1>9. CASE PublishFlush \/ FlushComesBackLater
      BY <1>9 DEF PublishFlush, FlushComesBackLater, pubHistory
  <1>10. CASE FlushSend
      BY <1>10
  <1>11. ASSUME NEW r \in Remotes \ {McuRemote}, SubscribeAdd(r) PROVE FlushMoves
      BY <1>1, <1>11 DEF SubscribeAdd, pubHistory
  <1>12. CASE Reset
      BY <1>12 DEF Reset, pubHistory
  <1>13. CASE UNCHANGED pubVars
      BY <1>1, <1>13 DEF pubVars, pubRam, pubHistory
  <1> HIDE DEF FlushMoves
  <1> QED BY <1>2, <1>3, <1>4, <1>5, <1>6, <1>7, <1>8, <1>9, <1>10, <1>11, <1>12, <1>13
          DEF PubSubNext, Publishing, Flushing

\* A message that has left its publisher never comes back to one.
LEMMA FreshShrinks ==
    ASSUME PubTypes, PubMoves, NEW m \in Records, Fresh(m)'
    PROVE  Fresh(m)
  <1>1. NoRecord \notin Records
      BY StorageConstants
  <1>2. CASE offered' = offered /\ \A t \in Publishers : pub'[t].msg \in {pub[t].msg, NoRecord}
      BY <1>1, <1>2 DEF Fresh
  <1>3. ASSUME NEW t \in Publishers, NEW n \in Records,
               n \notin offered, pub[t].msg = NoRecord, offered' = offered \cup {n},
               pub'[t].msg \in {n, NoRecord}, \A u \in Publishers : u # t => pub'[u] = pub[u]
        PROVE  Fresh(m)
      BY <1>1, <1>3 DEF Fresh
  <1> QED BY <1>2, <1>3 DEF PubMoves

\* The push that stores a message is the one of its publisher, who is done.
LEMMA StoringPublisher ==
    ASSUME HolderInductive, StoredOnce, Types, Control, PubSubNext, PushHeader,
           NEW r \in Records, r = rec
    PROVE  /\ Fresh(r) /\ ~Fresh(r)'
           /\ flush' = flush /\ flushed' = flushed
  <1> USE PubSubConstants, StorageConstants
  <1>1. /\ pc = "header" /\ pc' = "ready" /\ rec \in Records
        /\ caller \in Publishers /\ rec = pub[caller].msg
      BY DEF PushHeader, Return, Control, HolderInductive, Holder
  <1>2. StorageStep
    <2>1. ~PubsubStorageInit
        BY <1>1 DEF PubsubStorageInit, StorageInit, StorageInitCannotOpen
    <2>2. ~Ready
        BY <1>1, ReadyIsFree
    <2>3. \A t \in Publishers, m \in Records, force \in BOOLEAN : ~Publish(t, m, force)
        BY <1>1 DEF Publish, vars, ramVars
    <2>4. \A t \in Publishers : ~(TakeBuffers(t) \/ BuffersBusy(t) \/ PublishSend(t) \/ PublishPush(t))
        BY <1>1, <2>2 DEF TakeBuffers, BuffersBusy, PublishSend, PublishPush, vars, ramVars
    <2>5. ~(PublishFlush \/ FlushComesBackLater \/ FlushSend \/ FlushPeek \/ FlushFree)
        BY <1>1, <2>2 DEF PublishFlush, FlushComesBackLater, FlushSend, FlushPeek, FlushFree, vars, ramVars
    <2>6. \A n \in Remotes \ {McuRemote} : ~SubscribeAdd(n)
        BY <1>1 DEF SubscribeAdd, vars, ramVars
    <2>7. ~Reset
      <3>1. live' # live
        <4>1. live \in Seq(Entries)
            BY DEF Types, Entries
        <4>2. PICK e : live' = Append(live, e)
            BY DEF PushHeader
        <4>3. Len(Append(live, e)) = Len(live) + 1 /\ Len(live) \in Nat
            BY <4>1
        <4> QED BY <4>2, <4>3
      <3> QED BY <3>1 DEF Reset, PowerCut, history
    <2> QED BY <2>1, <2>3, <2>4, <2>5, <2>6, <2>7 DEF PubSubNext, Publishing, Flushing
  <1>3. /\ pub' = [pub EXCEPT ![caller] = Idle]
        /\ flush' = flush /\ flushed' = flushed /\ offered' = offered
      BY <1>1, <1>2 DEF StorageStep, Calls, pubHistory
  <1>4. rec \in offered /\ \A u \in Publishers : u # caller => pub[u].msg # rec
      BY <1>1 DEF StoredOnce
  <1>5. Fresh(r)
      BY <1>1 DEF Fresh
  <1>7. ASSUME NEW u \in Publishers PROVE pub'[u].msg # r
    <2>1. pub'[u] = IF u = caller THEN Idle ELSE pub[u]
        BY <1>3 DEF HolderInductive, PubTypes
    <2> QED BY <1>1, <1>4, <2>1 DEF Idle, At
  <1>8. r \in offered'
      BY <1>3, <1>4
  <1> QED BY <1>1, <1>3, <1>5, <1>7, <1>8 DEF Fresh

\* A message that is being pushed or that its publisher still has is not in
\* flash, and a stored one is there at one place.
LEMMA StoredOnceStep ==
    ASSUME BenignPayload, Types, Control, HolderInductive, HolderInductive', HeadersOnly, StoredOnce,
           [Next]_vars, [PubSubNext]_pubVars
    PROVE  StoredOnce'
  <1> USE PubSubConstants, StorageConstants
  <1> DEFINE S1 == \A b, c \in Area : flash[b].magic = "valid" /\ flash[b] = flash[c] => b = c
             S2 == \A m \in Records : Fresh(m) => ~Stored(m) /\ flushed[m] = 0
             S3 == \A t, u \in Publishers : pub[t].msg = pub[u].msg /\ pub[t].msg # NoRecord => t = u
             S4 == \A t \in Publishers : pub[t].msg # NoRecord => pub[t].msg \in offered
             S5 == flush.at \in {"send", "free"} => ~Fresh(flush.msg)
  <1>1. PubMoves /\ FlushMoves /\ PubTypes
      BY PubStep, FlushStep DEF HolderInductive
  <1>2. S1'
    <2> SUFFICES ASSUME NEW b \in Area, NEW c \in Area, flash'[b].magic = "valid", flash'[b] = flash'[c]
                 PROVE  b = c
        BY DEF Area
    <2>1. CASE flash'[b] = flash[b] /\ flash'[c] = flash[c]
        BY <2>1 DEF StoredOnce
    <2>2. CASE PushHeader
      <3>1. PICK r \in Records : r = rec
          BY <2>2 DEF PushHeader, Control
      <3>2. PubSubNext
        <4>1. pc' # pc
            BY <2>2 DEF PushHeader, Return
        <4> QED BY <4>1 DEF pubVars, vars, ramVars
      <3>3. \A d \in Area : flash[d] # Header(r)
          BY <2>2, <3>1, <3>2, StoringPublisher DEF StoredOnce, Stored
      <3>4. \A d \in Area : flash'[d] = IF d = wr_idx THEN Header(r) ELSE flash[d]
          BY <2>2, <3>1 DEF PushHeader, Types, Area
      <3> QED BY <3>3, <3>4 DEF StoredOnce
    <2>3. \/ flash'[b] = flash[b] /\ flash'[c] = flash[c]
          \/ PushHeader
        BY BlockStep
    <2> QED BY <2>1, <2>2, <2>3
  <1>3. S2'
    <2> SUFFICES ASSUME NEW m \in Records, Fresh(m)' PROVE ~Stored(m)' /\ flushed'[m] = 0
        OBVIOUS
    <2>1. Fresh(m)
        BY <1>1, FreshShrinks
    <2>2. ~Stored(m) /\ flushed[m] = 0
        BY <2>1 DEF StoredOnce
    <2>3. ~(PushHeader /\ rec = m)
      <3> SUFFICES ASSUME PushHeader, rec = m PROVE FALSE
          OBVIOUS
      <3>1. pc' # pc
          BY DEF PushHeader, Return
      <3>2. PubSubNext
          BY <3>1 DEF pubVars, vars, ramVars
      <3> QED BY <3>2, StoringPublisher
    <2>4. ~Stored(m)'
        BY <2>2, <2>3, StoredStep
    <2>5. flushed'[m] = flushed[m]
      <3>1. CASE flushed' = flushed
          BY <3>1
      <3>2. CASE FlushSend
        <4>1. flush.at = "send" /\ flush.msg # m
            BY <2>1, <3>2 DEF StoredOnce, FlushSend
        <4>2. flush.msg \in Records /\ flushed \in [Records -> Nat]
            BY <1>1, <4>1 DEF PubTypes
        <4> QED BY <3>2, <4>1, <4>2 DEF FlushSend
      <3> QED BY <1>1, <3>1, <3>2 DEF FlushMoves
    <2> QED BY <2>2, <2>4, <2>5
  <1>4. S3' /\ S4'
    <2>1. CASE offered' = offered /\ \A t \in Publishers : pub'[t].msg \in {pub[t].msg, NoRecord}
        BY <2>1 DEF StoredOnce
    <2>2. ASSUME NEW t \in Publishers, NEW n \in Records,
                 n \notin offered, pub[t].msg = NoRecord, offered' = offered \cup {n},
                 pub'[t].msg \in {n, NoRecord}, \A u \in Publishers : u # t => pub'[u] = pub[u]
          PROVE  S3' /\ S4'
        BY <2>2 DEF StoredOnce
    <2> QED BY <1>1, <2>1, <2>2 DEF PubMoves
  <1>5. S5'
    <2> SUFFICES ASSUME flush'.at \in {"send", "free"} PROVE ~Fresh(flush.msg)'
        OBVIOUS
    <2>1. PICK m \in Records : m = flush'.msg
        BY DEF HolderInductive, PubTypes
    <2>2. ~Fresh(m)
      <3>1. CASE flush' = flush
          BY <2>1, <3>1 DEF StoredOnce
      <3>2. CASE FlushSend
          BY <1>1, <2>1, <3>2 DEF StoredOnce, FlushSend, PubTypes, FlushStates
      <3>3. CASE /\ FlushPeek /\ PeekRecord(EntrySize)
                 /\ flash[rd_idx].owner \in Records
                 /\ flush' = At("send", flash[rd_idx].owner)
        <4>1. m = flash[rd_idx].owner /\ flash[rd_idx].magic = "valid"
              /\ pc = "ready" /\ fa /\ rd_idx < AreaBlocks
            BY <2>1, <3>3 DEF At, PeekRecord, RecordIsValid, HeaderReadable
        <4>2. rd_idx \in Area
            BY <4>1 DEF Types, Control, Area
        <4>3. flash[rd_idx] = Header(m)
            BY <4>1, <4>2 DEF HeadersOnly
        <4> QED BY <4>2, <4>3 DEF StoredOnce, Stored
      <3> QED BY <1>1, <3>1, <3>2, <3>3 DEF FlushMoves
    <2>3. ~Fresh(m)'
        BY <1>1, <2>2, FreshShrinks
    <2> QED BY <2>1, <2>3 DEF Fresh
  <1> QED BY <1>2, <1>3, <1>4, <1>5 DEF StoredOnce

\* Every reset and every failed access counts.
LEMMA SpentStep ==
    ASSUME Types, Types', [Next]_vars
    PROVE  /\ Spent \in Nat /\ Spent' \in Nat
           /\ faults' \in {faults, faults - 1}
           /\ \/ cuts' = cuts /\ faults' = faults /\ Spent' = Spent
              \/ Spent' >= Spent + 1 /\ (cuts' # cuts \/ faults' # faults)
  <1>1. /\ cuts \in Nat /\ faults \in 0..MaxFaults /\ MaxFaults \in Nat
        /\ cuts' \in Nat /\ faults' \in 0..MaxFaults
      BY StorageConstants DEF Types
  <1>2. \/ cuts' = cuts /\ faults' = faults
        \/ cuts' = cuts + 1 /\ faults' = faults
        \/ cuts' = cuts /\ faults' = faults - 1
    <2>1. CASE UNCHANGED vars
        BY <2>1 DEF vars
    <2>2. CASE Boot
        BY <2>2 DEF Boot, StorageInit, StorageInitCannotOpen, CheckFirstBlock, CheckFirstBlockFails,
           Walk, WalkRecordFault, WalkHeaderFault, Settle, FlashFault
    <2>3. CASE Erase \/ Push
        BY <2>3 DEF Erase, ErasePage, EraseFails, Push, PushWrite, PushWriteFails, PushReadBackFails,
           PushHeader, PushHeaderFails, FlashFault
    <2>4. CASE Call
        BY <2>4 DEF Call, NotInitialized, StorageFree, StoragePeek, StoragePush, PeekEmpty,
           PeekTooSmall, PeekRecord, PeekResets, FreeNotFound, FreeCannotWrite, FreeRecord,
           PushRefused, PushBegin, Refuse, FlashFault
    <2>5. CASE PowerCut
        BY <2>5 DEF PowerCut
    <2> QED BY <2>1, <2>2, <2>3, <2>4, <2>5 DEF Next
  <1>3. Spent = cuts + (MaxFaults - faults) /\ Spent' = cuts' + (MaxFaults - faults')
      BY DEF Spent
  <1>4. Spent \in Nat /\ Spent' \in Nat
    <2>1. \A n, c \in Nat : \A f \in 0..n : c + (n - f) \in Nat
        OBVIOUS
    <2>2. cuts + (MaxFaults - faults) \in Nat /\ cuts' + (MaxFaults - faults') \in Nat
        BY <1>1, <2>1, Zenon
    <2> QED BY <1>3, <2>2, Zenon
  <1>5. CASE cuts' = cuts /\ faults' = faults
      BY <1>3, <1>4, <1>5
  <1>6. CASE cuts' = cuts + 1 /\ faults' = faults
      BY <1>1, <1>3, <1>4, <1>6
  <1>7. CASE cuts' = cuts /\ faults' = faults - 1
      BY <1>1, <1>3, <1>4, <1>7
  <1> QED BY <1>2, <1>5, <1>6, <1>7

\* The count of a message goes up only when the flusher peeks it.
LEMMA HandedStep ==
    ASSUME PubTypes, PubTypes', FlushMoves, NEW m \in Records
    PROVE  /\ Handed(m) \in Nat /\ Handed(m)' \in Nat /\ flushed[m] \in Nat
           /\ \/ Handed(m)' <= Handed(m)
              \/ /\ FlushPeek /\ PeekRecord(EntrySize)
                 /\ flash[rd_idx].owner = m
                 /\ flush' = At("send", m)
                 /\ Handed(m)' = flushed[m] + 1
  <1>1. flushed[m] \in Nat /\ flushed'[m] \in Nat
      BY DEF PubTypes
  <1>2. Handed(m) \in {flushed[m], flushed[m] + 1} /\ Handed(m)' \in {flushed'[m], flushed'[m] + 1}
      BY <1>1 DEF Handed
  <1>3. CASE flush' = flush /\ flushed' = flushed
      BY <1>1, <1>2, <1>3 DEF Handed
  <1>4. CASE flush'.at \in {"idle", "peek", "discard"} /\ flushed' = flushed
    <2>1. flush' # At("send", m)
        BY <1>4 DEF At
    <2> QED BY <1>1, <1>2, <1>4, <2>1 DEF Handed
  <1>5. CASE /\ FlushPeek /\ PeekRecord(EntrySize)
             /\ flush' = At("send", flash[rd_idx].owner) /\ flushed' = flushed
    <2>1. CASE flash[rd_idx].owner = m
        BY <1>1, <1>2, <1>5, <2>1 DEF Handed
    <2>2. CASE flash[rd_idx].owner # m
      <3>1. flush' # At("send", m)
          BY <1>5, <2>2 DEF At
      <3> QED BY <1>1, <1>2, <1>5, <3>1 DEF Handed
    <2> QED BY <2>1, <2>2
  <1>6. CASE FlushSend
    <2>1. flush' # At("send", m)
      <3>1. flush'.at = "free"
          BY <1>6 DEF FlushSend, PubTypes, FlushStates
      <3> QED BY <3>1 DEF At
    <2>2. Handed(m)' = flushed'[m]
        BY <1>1, <2>1 DEF Handed
    <2>3. CASE flush.msg = m
      <3>1. flush = At("send", m)
          BY <1>6, <2>3 DEF FlushSend, PubTypes, FlushStates, At
      <3>2. Handed(m) = flushed[m] + 1
          BY <3>1 DEF Handed
      <3>3. flushed'[m] \in {flushed[m], flushed[m] + 1}
          BY <1>6, <2>3 DEF FlushSend, PubTypes
      <3> QED BY <1>1, <1>2, <2>2, <3>2, <3>3
    <2>4. CASE flush.msg # m
      <3>1. flushed'[m] = flushed[m]
          BY <1>6, <2>4 DEF FlushSend, PubTypes
      <3> QED BY <1>1, <1>2, <2>2, <3>1
    <2> QED BY <2>3, <2>4
  <1> QED BY <1>1, <1>2, <1>3, <1>4, <1>5, <1>6 DEF FlushMoves

\* An erase that no fault and no reset disturbs goes on, or leaves nothing.
LEMMA ErasedIsGone ==
    ASSUME Types, Control, [Next]_vars, pc = "erase", faults' = faults, cuts' = cuts, NEW m \in Records
    PROVE  pc' = "erase" \/ ~Stored(m)'
  <1>1. CASE UNCHANGED vars
      BY <1>1 DEF vars, ramVars
  <1>2. Next => Erase \/ PowerCut
      BY DEF Next, Boot, Push, Call, StoragePeek, StorageFree, StoragePush, StorageInit,
         StorageInitCannotOpen, CheckFirstBlock, CheckFirstBlockFails, Walk, WalkRecordFault,
         WalkHeaderFault, Settle, PushWrite, PushWriteFails, PushReadBackFails, PushHeader,
         PushHeaderFails, NotInitialized, PeekEmpty, PeekTooSmall, PeekRecord, PeekResets,
         FreeNotFound, FreeCannotWrite, FreeRecord, PushRefused, PushBegin
  <1>3. ~EraseFails /\ ~PowerCut
      BY DEF EraseFails, PowerCut, FlashFault, Types
  <1>4. CASE ErasePage /\ idx + PageBlocks < AreaBlocks
      BY <1>4 DEF ErasePage
  <1>5. CASE ErasePage /\ ~(idx + PageBlocks < AreaBlocks)
    <2>1. ASSUME NEW b \in Area PROVE flash'[b] = Erased
      <3>1. flash'[b] = IF b \in idx..(idx + PageBlocks - 1) THEN Erased ELSE flash[b]
          BY <1>5 DEF ErasePage, Area
      <3>2. b < idx => flash[b] = Erased
          BY DEF Control, Area
      <3>3. ~(b < idx) => b \in idx..(idx + PageBlocks - 1)
          BY <1>5, StorageConstants DEF Types, Area
      <3> QED BY <3>1, <3>2, <3>3
    <2> QED BY <2>1, HeaderOfRecord DEF Stored
  <1> QED BY <1>1, <1>2, <1>3, <1>4, <1>5 DEF Erase

\* The record the flusher holds stays the one it will free, or it is gone.
LEMMA InHandStep ==
    ASSUME BenignPayload, Types, Control, HolderInductive, StoredOnce, [Next]_vars, [PubSubNext]_pubVars,
           faults' = faults, cuts' = cuts, NEW m \in Records, InHand(m)
    PROVE  \/ Beyond(m)'
           \/ flush = At("send", m) /\ flush' = Idle
  <1> USE PubSubConstants, StorageConstants
  <1> DEFINE Goal == Beyond(m)' \/ (flush = At("send", m) /\ flush' = Idle)
  <1>1. /\ flush \in {At("send", m), At("free", m)} /\ flush.at \in {"send", "free"} /\ flush.msg = m
        /\ fa /\ pc \in {"ready", "write", "header"}
        /\ rd_idx \in Area /\ flash[rd_idx] = Header(m) /\ flash[rd_idx].magic = "valid"
        /\ main = "up"
      BY HeaderOfRecord DEF InHand, At, HolderInductive, Holder, PubTypes
  <1>2. ASSUME flush' \in {At("send", m), At("free", m)}, fa' = fa, rd_idx' = rd_idx,
               flash'[rd_idx] = flash[rd_idx], pc' \in {"ready", "write", "header"}
        PROVE  Goal
      BY <1>1, <1>2 DEF Beyond, InHand
  <1>3. ASSUME UNCHANGED vars, flush' = flush PROVE Goal
      BY <1>1, <1>2, <1>3 DEF vars, ramVars
  <1>4. ASSUME pc' = "erase" PROVE Goal
      BY <1>4 DEF Beyond
  <1>5. ASSUME flash'[rd_idx] # flash[rd_idx], ~(PushHeader /\ rec = m) PROVE Goal
      BY <1>1, <1>5, OverwrittenIsGone DEF Beyond
  <1>6. CASE PubsubStorageInit
      BY <1>1, <1>6 DEF PubsubStorageInit
  <1>7. CASE StorageStep
    <2>1. pc # "ready" /\ InCall /\ Calls(caller) /\ pubHistory' = pubHistory
        BY <1>7, CallGoesOn DEF StorageStep, InCall
    <2>2. caller \in Publishers /\ flush' = flush
        BY <1>1, <2>1 DEF HolderInductive, Holder, Calls
    <2>3. Push
        BY <1>1, <2>1 DEF InCall, CheckFirstBlock, CheckFirstBlockFails, Walk, WalkRecordFault,
           WalkHeaderFault, Settle, Erase, ErasePage, EraseFails
    <2>4. CASE PushWriteFails \/ PushReadBackFails \/ PushHeaderFails
      <3>1. pc' = "erase"
          BY <2>4 DEF PushWriteFails, PushReadBackFails, PushHeaderFails, ResetArea
      <3> QED BY <1>4, <3>1
    <2>5. CASE PushWrite
      <3>1. fa' = fa /\ rd_idx' = rd_idx /\ pc' \in {"write", "header"} /\ ~PushHeader
          BY <2>5 DEF PushWrite, PushHeader
      <3> QED BY <1>1, <1>2, <1>5, <2>2, <3>1
    <2>6. CASE PushHeader
      <3>1. fa' = fa /\ rd_idx' = rd_idx /\ pc' = "ready"
          BY <2>6 DEF PushHeader, Return
      <3>2. rec # m
        <4>1. caller \in Publishers /\ rec = pub[caller].msg
            BY <2>2, <2>6 DEF PushHeader, HolderInductive, Holder
        <4> QED BY <1>1, <4>1 DEF StoredOnce, Fresh
      <3> QED BY <1>1, <1>2, <1>5, <2>2, <3>1, <3>2
    <2> QED BY <2>3, <2>4, <2>5, <2>6 DEF Push
  <1>8. ASSUME NEW t \in Publishers, PublishPush(t) PROVE Goal
    <2>1. flush' = flush
        BY <1>8, PushBegins
    <2>2. flash' = flash /\ fa' = fa /\ rd_idx' = rd_idx /\ pc' \in {"ready", "write"}
      <3>1. CASE PushBegin(pub[t].msg)
          BY <3>1 DEF PushBegin
      <3>2. CASE pc' = "ready" /\ UNCHANGED <<flash, fa, rd_idx>>
          BY <3>2
      <3> QED BY <1>8, <3>1, <3>2, PushBegins
    <2> QED BY <1>1, <1>2, <2>1, <2>2
  <1>9. ASSUME NEW t \in Publishers, NEW n \in Records, NEW force \in BOOLEAN, Publish(t, n, force)
        PROVE  Goal
      BY <1>3, <1>9 DEF Publish
  <1>10. ASSUME NEW t \in Publishers, TakeBuffers(t) \/ BuffersBusy(t) \/ PublishSend(t)
         PROVE  Goal
      BY <1>3, <1>10 DEF TakeBuffers, BuffersBusy, PublishSend
  <1>11. CASE PublishFlush
      BY <1>1, <1>11 DEF PublishFlush, Idle, At
  <1>12. CASE FlushPeek
      BY <1>1, <1>12 DEF FlushPeek
  <1>13. CASE FlushComesBackLater
      BY <1>1, <1>13 DEF FlushComesBackLater, At
  <1>14. CASE FlushSend
    <2>1. flush' = At("free", m)
      <3>1. flush = At("send", m)
          BY <1>1, <1>14 DEF FlushSend, At
      <3> QED BY <1>14, <3>1 DEF FlushSend, At
    <2>2. UNCHANGED vars
        BY <1>14 DEF FlushSend
    <2> QED BY <1>1, <1>2, <2>1, <2>2 DEF vars, ramVars
  <1>15. CASE FlushFree
    <2>1. ~AnswersNotInitialized("free")
        BY <1>1 DEF AnswersNotInitialized
    <2>2. ~FreeCannotWrite /\ ~FreeNotFound
        BY <1>1 DEF FreeCannotWrite, FreeNotFound, HeaderReadable, FlashFault, Types, Area
    <2>3. FreeRecord
        BY <1>15, <2>1, <2>2 DEF FlushFree, StorageFree
    <2>4. flash'[rd_idx] = Zero /\ pc = "ready"
        BY <1>1, <2>3 DEF FreeRecord, Types, Area
    <2> QED BY <1>1, <1>5, <2>4, HeaderOfRecord DEF PushHeader
  <1>16. ASSUME NEW r \in Remotes \ {McuRemote}, SubscribeAdd(r) PROVE Goal
      BY <1>3, <1>16 DEF SubscribeAdd
  <1>17. CASE Reset
      BY <1>17 DEF Reset, PowerCut, Types
  <1>18. CASE UNCHANGED pubVars
      BY <1>3, <1>18 DEF pubVars, pubRam
  <1> QED BY <1>6, <1>7, <1>8, <1>9, <1>10, <1>11, <1>12, <1>13, <1>14, <1>15, <1>16, <1>17, <1>18
          DEF PubSubNext, Publishing, Flushing

\* Between two operations the header storage_free reads is one of the area's.
LEMMA ReadIndexInArea ==
    ASSUME Types, Control, pc = "ready", fa, rd_idx < AreaBlocks
    PROVE  rd_idx \in Area
  <1>1. rd_idx >= 0
      BY DEF Control
  <1>2. rd_idx \in Int
      BY DEF Types
  <1> QED BY <1>1, <1>2, StorageConstants DEF Area

\* Each message is sent at most once more than there were resets and failed
\* accesses; when it was, its record is gone, going, or in the flusher's hand.
LEMMA SentOnceStep ==
    ASSUME BenignPayload, Types, Types', Control, HolderInductive, HolderInductive', HeadersOnly,
           StoredOnce, [Next]_vars, [PubSubNext]_pubVars, NEW m \in Records, SentOnce(m)
    PROVE  SentOnce(m)'
  <1>1. PubTypes /\ PubTypes' /\ FlushMoves
      BY FlushStep DEF HolderInductive
  <1>2. /\ Handed(m) \in Nat /\ Handed(m)' \in Nat /\ flushed[m] \in Nat
        /\ Spent \in Nat /\ Spent' \in Nat
      BY <1>1, HandedStep, SpentStep
  <1>3. Handed(m) <= Spent \/ (Handed(m) = Spent + 1 /\ Beyond(m))
      BY DEF SentOnce
  <1>4. CASE /\ FlushPeek /\ PeekRecord(EntrySize)
             /\ flash[rd_idx].owner = m
             /\ flush' = At("send", m)
             /\ Handed(m)' = flushed[m] + 1
    <2>1. /\ pc = "ready" /\ fa /\ rd_idx < AreaBlocks /\ flash[rd_idx].magic = "valid"
          /\ flush.at = "peek"
        BY <1>4 DEF FlushPeek, PeekRecord, RecordIsValid, HeaderReadable
    <2>2. rd_idx \in Area
        BY <2>1, ReadIndexInArea
    <2>3. pc' = "ready" /\ UNCHANGED <<flash, fa, rd_idx, cuts, faults>>
        BY <1>4 DEF PeekRecord, Return
    <2>4. flash[rd_idx] = Header(m)
        BY <1>4, <2>1, <2>2 DEF HeadersOnly
    <2>5. flush # At("send", m) /\ flush # At("free", m)
        BY <2>1 DEF At
    <2>6. ~Beyond(m)
        BY <2>1, <2>2, <2>4, <2>5 DEF Beyond, Stored, InHand
    <2>7. Handed(m) = flushed[m]
        BY <1>2, <2>5 DEF Handed
    <2>8. Spent' = Spent
        BY <2>3 DEF Spent
    <2>9. Beyond(m)'
        BY <1>4, <2>1, <2>2, <2>4, <2>3 DEF Beyond, InHand
    <2>10. Handed(m)' <= Spent' \/ Handed(m)' = Spent' + 1
        BY <1>2, <1>3, <1>4, <2>6, <2>7, <2>8
    <2> QED BY <2>9, <2>10 DEF SentOnce
  <1>5. CASE Handed(m)' <= Handed(m) /\ Spent' >= Spent + 1
      BY <1>2, <1>3, <1>5 DEF SentOnce
  <1>6. CASE Handed(m)' <= Handed(m) /\ Spent' = Spent /\ cuts' = cuts /\ faults' = faults
    <2>1. CASE Handed(m)' <= Spent
        BY <1>6, <2>1 DEF SentOnce
    <2>2. CASE ~(Handed(m)' <= Spent)
      <3>1. Handed(m)' = Spent + 1 /\ Handed(m) = Spent + 1 /\ Handed(m) > 0 /\ Beyond(m)
          BY <1>2, <1>3, <1>6, <2>2
      <3>2. ~Fresh(m)
        <4>1. flushed[m] > 0 \/ flush = At("send", m)
            BY <1>2, <3>1 DEF Handed
        <4>2. flush = At("send", m) => flush.at = "send" /\ flush.msg = m
            BY DEF At
        <4> QED BY <1>2, <4>1, <4>2 DEF StoredOnce
      <3>3. CASE ~Stored(m)
        <4>1. ~(PushHeader /\ rec = m)
          <5> SUFFICES ASSUME PushHeader, rec = m PROVE FALSE
              OBVIOUS
          <5>1. pc' # pc
              BY DEF PushHeader, Return
          <5>2. PubSubNext
              BY <5>1 DEF pubVars, vars, ramVars
          <5> QED BY <3>2, <5>2, StoringPublisher
        <4> QED BY <3>1, <1>6, <3>3, <4>1, StoredStep DEF Beyond, SentOnce
      <3>4. CASE pc = "erase"
          BY <1>6, <3>1, <3>4, ErasedIsGone DEF Beyond, SentOnce
      <3>5. CASE InHand(m)
        <4>1. ~(flush = At("send", m) /\ flush' = Idle)
          <5> SUFFICES ASSUME flush = At("send", m), flush' = Idle PROVE FALSE
              OBVIOUS
          <5>1. flush' # At("send", m) /\ flush'.at = "idle" /\ ~FlushSend /\ flush' # flush
              BY DEF Idle, At, FlushSend
          <5>2. flushed' = flushed
              BY <1>1, <5>1 DEF FlushMoves, At
          <5> QED BY <1>2, <3>1, <5>1, <5>2 DEF Handed
        <4> QED BY <3>1, <1>6, <3>5, <4>1, InHandStep DEF SentOnce
      <3> QED BY <3>1, <3>3, <3>4, <3>5 DEF Beyond
    <2> QED BY <2>1, <2>2
  <1> QED BY <1>1, <1>4, <1>5, <1>6, HandedStep, SpentStep

\* A boot has sent nothing.
LEMMA SentInit == ASSUME PubSubInit PROVE SentInductive
  <1>1. /\ \A b \in Area : flash[b] \in {Erased, Garbage}
        /\ cuts = 0 /\ faults = MaxFaults
        /\ offered = {} /\ flush = Idle
        /\ \A m \in Records : flushed[m] = 0
        /\ \A t \in Publishers : pub[t].msg = NoRecord
      BY DEF PubSubInit, Init, Area, Idle, At
  <1>2. Garbage.magic # "valid" /\ flush.at = "idle" /\ \A m : flush # At("send", m)
      BY <1>1 DEF Garbage, Word, Idle, At
  <1>3. \A b \in Area : flash[b].magic # "valid"
      BY <1>1, <1>2, HeaderOfRecord
  <1>4. \A m \in Records : ~Stored(m)
      BY <1>3, HeaderOfRecord DEF Stored
  <1>5. HeadersOnly
      BY <1>3 DEF HeadersOnly
  <1>6. StoredOnce
      BY <1>1, <1>2, <1>3, <1>4 DEF StoredOnce
  <1>7. Spent = 0
      BY <1>1, StorageConstants DEF Spent
  <1>8. ASSUME NEW m \in Records PROVE SentOnce(m)
    <2>1. Handed(m) = 0
        BY <1>1, <1>2 DEF Handed
    <2> QED BY <1>7, <2>1 DEF SentOnce
  <1> QED BY <1>5, <1>6, <1>8 DEF SentInductive

\* SentOncePerReset follows from what each message has used up of its budget.
LEMMA SentOnceIsEnough ==
    ASSUME Types, PubTypes, \A m \in Records : SentOnce(m)
    PROVE  SentOncePerReset
  <1> SUFFICES ASSUME NEW m \in Records PROVE flushed[m] <= 1 + cuts + (MaxFaults - faults)
      BY DEF SentOncePerReset
  <1>1. flushed[m] \in Nat /\ cuts \in Nat /\ faults \in Nat /\ MaxFaults \in Nat
      BY StorageConstants DEF Types, PubTypes
  <1>2. Handed(m) \in {flushed[m], flushed[m] + 1}
      BY <1>1 DEF Handed
  <1>3. Handed(m) <= Spent + 1
      BY <1>1, <1>2 DEF SentOnce, Spent
  <1> QED BY <1>1, <1>2, <1>3 DEF Spent

\* However the threads, the resets and the failed accesses interleave, the
\* flusher hands a stored message to CAN once, and once more only after a reset
\* or a failed access kept it from freeing the record.
THEOREM PubSubSendsOnce == ASSUME BenignPayload PROVE PubSubSpec => []SentOncePerReset
  <1>1. PubSubInit => SentInductive
      BY SentInit
  <1>2. ASSUME Inductive /\ HolderInductive, (Inductive /\ HolderInductive)', SentInductive,
               [PubSubNext]_pubVars
        PROVE  SentInductive'
    <2>1. [Next]_vars
      <3>1. CASE PubSubNext
          BY <1>2, <3>1, PubSubIsStorage
      <3>2. CASE UNCHANGED pubVars
          BY <3>2 DEF pubVars
      <3> QED BY <1>2, <3>1, <3>2
    <2>2. Types /\ Types' /\ Control /\ HolderInductive /\ HolderInductive'
        BY <1>2 DEF Inductive, TypeOK
    <2>3. HeadersOnly /\ StoredOnce /\ \A m \in Records : SentOnce(m)
        BY <1>2 DEF SentInductive
    <2>4. HeadersOnly'
        BY <2>1, <2>2, <2>3, HeadersStep
    <2>5. StoredOnce'
        BY <1>2, <2>1, <2>2, <2>3, StoredOnceStep
    <2>6. \A m \in Records : SentOnce(m)'
        BY <1>2, <2>1, <2>2, <2>3, SentOnceStep
    <2> QED BY <2>4, <2>5, <2>6 DEF SentInductive
  <1>3. Inductive /\ HolderInductive /\ SentInductive => SentOncePerReset
      BY SentOnceIsEnough DEF Inductive, TypeOK, HolderInductive, SentInductive
  <1> QED BY <1>1, <1>2, <1>3, PubSubKeepsStorage, PTL DEF PubSubSpec

-----------------------------------------------------------------------------
(* A stored message is freed only after it was sent.                        *)

\* Nothing is left behind a push: all that lies above the newest record is
\* erased, but for the blocks of the push in progress.
ErasedAbove == \A b \in Area :
                  b >= top + (IF pc \in {"write", "header"} THEN idx ELSE 1) => flash[b] = Erased

\* The record the flusher has peeked is still the oldest one.
HandIsOldest == flush.at \in {"send", "free"} /\ caller # Flusher =>
                   intact /\ fa /\ live # <<>> /\ live[1].rec = flush.msg

\* It was sent when it is about to be freed.
SentBeforeFree == flush.at = "free" => flushed[flush.msg] > 0 \/ ~Sendable(flush.msg)

\* What does not fit into the buffer is the erased last block of a full area.
DiscardsNothing == flush.at = "discard" /\ caller # Flusher =>
                      intact /\ fa /\ live = <<>> /\ wr_idx = AreaBlocks

\* A push does not reset the area.
PushGoesOn == caller \in Publishers => pc \in {"write", "header"}

FreedAfterSent == HandIsOldest /\ SentBeforeFree /\ DiscardsNothing /\ PushGoesOn

\* None of it holds any more once an access to the flash has failed.
FreeInductive == faults = MaxFaults => /\ Unfailed
                                       /\ intact => ErasedAbove
                                       /\ FreedAfterSent
                                       /\ dropped \subseteq Records
                                       /\ \A m \in dropped : flushed[m] > 0 \/ ~Sendable(m)

\* A push into an intact area writes right behind the newest record.
LEMMA PushAtTop ==
    ASSUME Inductive, intact, pc \in {"write", "header"}
    PROVE  /\ rec \in Records /\ wr_idx = top /\ top \in Nat
           /\ idx \in Nat /\ idx >= 1
           /\ Blocks(RecordSize[rec]) \in Nat
           /\ top + Blocks(RecordSize[rec]) < AreaBlocks
           /\ pc = "write" => idx <= Blocks(RecordSize[rec])
           /\ pc = "header" => idx = Blocks(RecordSize[rec]) + 1
  <1>1. /\ fa /\ rec \in Records /\ Fits(rec)
        /\ pc = "write" => idx \in 1..Blocks(RecordSize[rec])
        /\ pc = "header" => idx = Blocks(RecordSize[rec]) + 1
      BY DEF Inductive, Control
  <1>2. Blocks(RecordSize[rec]) \in Nat
      BY <1>1, PayloadAssumption
  <1>3. wr_idx = top \/ wr_idx = AreaBlocks
      BY <1>1 DEF Inductive, IndexesMatchLive
  <1>4. top \in Nat /\ idx \in Nat /\ AreaBlocks \in Nat
      BY StorageConstants DEF Inductive, TypeOK, Types
  <1>5. wr_idx + 1 + Blocks(RecordSize[rec]) <= AreaBlocks
      BY <1>1 DEF Fits
  <1>6. wr_idx = top
      BY <1>2, <1>3, <1>4, <1>5
  <1> QED BY <1>1, <1>2, <1>4, <1>5, <1>6

\* With nothing left behind by earlier pushes, a push fails only with an access.
LEMMA PushSucceeds ==
    ASSUME Inductive, intact, ErasedAbove, ~FlashFault, Push
    PROVE  PushWrite \/ PushHeader
  <1>1. pc \in {"write", "header"}
      BY DEF Push, PushWrite, PushWriteFails, PushReadBackFails, PushHeader, PushHeaderFails
  <1>2. CASE pc = "write"
    <2>1. wr_idx + idx \in Area /\ wr_idx + idx >= top + idx
        BY <1>1, <1>2, PushAtTop, StorageConstants DEF Area
    <2>2. flash[wr_idx + idx] = Erased
        BY <1>2, <2>1 DEF ErasedAbove
    <2>3. Programmable(wr_idx + idx, PayloadWord(rec, idx))
        BY <2>2 DEF Programmable
    <2> QED BY <1>2, <2>3 DEF Push, PushWriteFails, PushReadBackFails, PushHeaderFails
  <1>3. CASE pc = "header"
    <2>1. wr_idx = top /\ top < AreaBlocks
        BY <1>1, PushAtTop, StorageConstants
    <2>2. flash[wr_idx] = Erased
        BY <2>1 DEF Inductive, Log, AroundLive
    <2>3. Programmable(wr_idx, Header(rec))
        BY <2>2 DEF Programmable
    <2> QED BY <1>3, <2>3 DEF Push, PushWriteFails, PushReadBackFails, PushHeaderFails
  <1> QED BY <1>1, <1>2, <1>3

\* As long as no push is cut short or fails, nothing is left above the records.
LEMMA ErasedAboveStep ==
    ASSUME CutPoints \cap {"write", "header"} = {},
           Inductive, Types', intact => ErasedAbove, [Next]_vars, ~FlashFault, intact'
    PROVE  ErasedAbove'
  <1> USE StorageConstants
  <1>1. Types /\ Control
      BY DEF Inductive, TypeOK
  <1>2. top \in Nat /\ idx \in Nat /\ AreaBlocks \in Nat /\ top' \in Nat /\ idx' \in Nat
      BY <1>1 DEF Types
  <1>3. ASSUME intact, flash' = flash, top' = top,
               pc \notin {"write", "header"}, pc' \notin {"write", "header"}
        PROVE  ErasedAbove'
      BY <1>3 DEF ErasedAbove
  <1>4. CASE StorageInit
      BY <1>3, <1>4 DEF StorageInit, history
  <1>5. CASE CheckFirstBlock
      BY <1>3, <1>5 DEF CheckFirstBlock, history
  <1>6. CASE CheckFirstBlockFails
      BY <1>3, <1>6 DEF CheckFirstBlockFails, InitAreaFails, Return, history
  <1>7. CASE Walk
      BY <1>3, <1>7 DEF Walk, WalkTo, history
  <1>8. CASE Settle
      BY <1>3, <1>8 DEF Settle, InitAreaFails, Return, history
  <1>9. CASE ErasePage
    <2>1. pc \in {"erase", "init_erase"} /\ ~intact
        BY <1>1, <1>9 DEF ErasePage, Control
    <2>2. ~(idx + PageBlocks < AreaBlocks)
        BY <1>9, <2>1 DEF ErasePage
    <2>3. ASSUME NEW b \in Area PROVE flash'[b] = Erased
      <3>1. flash'[b] = IF b \in idx..(idx + PageBlocks - 1) THEN Erased ELSE flash[b]
          BY <1>9 DEF ErasePage, Area
      <3>2. b < idx => flash[b] = Erased
          BY <1>1, <2>1 DEF Control, Area
      <3>3. ~(b < idx) => b \in idx..(idx + PageBlocks - 1)
          BY <1>2, <2>2 DEF Area
      <3> QED BY <3>1, <3>2, <3>3
    <2> QED BY <2>3 DEF ErasedAbove
  <1>10. CASE PushWrite
    <2>1. intact /\ pc = "write" /\ pc' \in {"write", "header"} /\ top' = top /\ idx' = idx + 1
        BY <1>10 DEF PushWrite, history
    <2>2. wr_idx = top
        BY <2>1, PushAtTop
    <2>3. \A b \in Area : b # top + idx => flash'[b] = flash[b]
        BY <1>1, <1>10, <2>2 DEF PushWrite, Types, Area
    <2>4. ASSUME NEW b \in Area, b >= top + (idx + 1) PROVE flash'[b] = Erased
      <3>1. b # top + idx /\ b >= top + idx
          BY <1>2, <2>4 DEF Area
      <3> QED BY <2>1, <2>3, <3>1 DEF ErasedAbove
    <2> QED BY <2>1, <2>4 DEF ErasedAbove
  <1>11. CASE PushHeader
    <2>1. intact /\ pc = "header" /\ pc' = "ready" /\ top' = wr_idx + 1 + Blocks(RecordSize[rec])
        BY <1>11 DEF PushHeader, Return
    <2>2. wr_idx = top /\ idx = Blocks(RecordSize[rec]) + 1 /\ Blocks(RecordSize[rec]) \in Nat
        BY <2>1, PushAtTop
    <2>3. \A b \in Area : b # top => flash'[b] = flash[b]
        BY <1>1, <1>11, <2>2 DEF PushHeader, Types, Area
    <2>4. top' = top + idx
        BY <1>2, <2>1, <2>2
    <2>5. ASSUME NEW b \in Area, b >= top' + 1 PROVE flash'[b] = Erased
      <3>1. b # top /\ b >= top + idx
          BY <1>2, <2>2, <2>4, <2>5 DEF Area
      <3> QED BY <2>1, <2>3, <3>1 DEF ErasedAbove
    <2> QED BY <2>1, <2>5 DEF ErasedAbove
  <1>12. CASE FreeRecord
    <2>1. /\ intact /\ top' = top /\ pc = "ready" /\ pc' = "ready"
          /\ flash[rd_idx].magic = "valid"
          /\ flash' = [flash EXCEPT ![rd_idx] = Zero]
        BY <1>12 DEF FreeRecord, ResetArea, Return
    <2>2. ASSUME NEW b \in Area, b >= top + 1 PROVE flash'[b] = Erased
      <3>1. flash[b] = Erased
          BY <2>1, <2>2 DEF ErasedAbove
      <3>2. b # rd_idx
          BY <2>1, <3>1, HeaderOfRecord
      <3> QED BY <1>1, <2>1, <3>1, <3>2 DEF Types, Area
    <2> QED BY <2>1, <2>2 DEF ErasedAbove
  <1>13. CASE NotInitialized \/ PeekEmpty \/ FreeNotFound
      BY <1>3, <1>13 DEF NotInitialized, PeekEmpty, FreeNotFound, Refuse, Return, history
  <1>14. ASSUME NEW size \in BufferSizes, PeekTooSmall(size) \/ PeekRecord(size) PROVE ErasedAbove'
      BY <1>3, <1>14 DEF PeekTooSmall, PeekRecord, Refuse, Return, history
  <1>15. ASSUME NEW r \in Records, PushRefused(r) PROVE ErasedAbove'
      BY <1>3, <1>15 DEF PushRefused, Refuse, Return, history
  <1>16. ASSUME NEW r \in Records, PushBegin(r) PROVE ErasedAbove'
      BY <1>16 DEF PushBegin, ErasedAbove, history
  <1>17. CASE PowerCut
      BY <1>3, <1>17 DEF PowerCut, Return, history
  <1>18. CASE UNCHANGED vars
      BY <1>18 DEF ErasedAbove, vars, ramVars, history
  <1>19. /\ ~StorageInitCannotOpen /\ ~WalkRecordFault /\ ~WalkHeaderFault /\ ~EraseFails
         /\ ~PushReadBackFails /\ ~FreeCannotWrite /\ ~PushWriteFails /\ ~PushHeaderFails
         /\ \A size \in BufferSizes : ~PeekResets(size)
      BY DEF StorageInitCannotOpen, WalkRecordFault, WalkHeaderFault, EraseFails, PushReadBackFails,
             FreeCannotWrite, PushWriteFails, PushHeaderFails, PeekResets, ResetArea
  <1> QED
      BY <1>4, <1>5, <1>6, <1>7, <1>8, <1>9, <1>10, <1>11, <1>12, <1>13, <1>14, <1>15, <1>16,
         <1>17, <1>18, <1>19
         DEF Next, Boot, Erase, Push, Call, StoragePeek, StorageFree, StoragePush

\* While the flusher is between two calls, no boot and no erase is in progress.
LEMMA NoEraseBetweenCalls ==
    ASSUME HolderInductive, PushGoesOn, flush.at # "idle", caller # Flusher
    PROVE  main = "up" /\ pc \in {"ready", "write", "header"}
  BY PubSubConstants DEF HolderInductive, Holder, PubTypes, PushGoesOn

\* A call of the flusher that resets the area leaves it with nothing in hand.
LEMMA FlusherCallReturns ==
    ASSUME HolderInductive, StorageStep, caller = Flusher
    PROVE  \/ caller' = Flusher /\ flush' = flush
           \/ caller' = Nobody /\ flush'.at \in {"idle", "peek"}
  <1>1. Calls(Flusher) /\ InCall
      BY DEF StorageStep, InCall
  <1>2. CASE pc' # "ready"
      BY <1>1, <1>2 DEF Calls
  <1>3. CASE pc' = "ready"
    <2>1. caller' = Nobody /\ flush' = AfterCall(ret')
        BY <1>1, <1>3 DEF Calls
    <2>2. pc \notin {"header", "init_erase"}
        BY PubSubConstants DEF HolderInductive, Holder
    <2>3. ret' = then
        BY <1>1, <1>3, <2>2, CallGoesOn DEF GoesOn
    <2>4. flush.at = "peek" => ret'.code = "INVALID_STATE"
        BY <2>3 DEF HolderInductive, Holder
    <2>5. flush'.at \in {"idle", "peek"}
        BY <2>1, <2>4 DEF AfterCall, Idle, At
    <2> QED BY <2>1, <2>5
  <1> QED BY <1>2, <1>3

\* Only a record that does not fit into the buffer makes the flusher discard one.
LEMMA DiscardIsTooSmall ==
    ASSUME HolderInductive, FlushPeek, flush'.at = "discard"
    PROVE  PeekTooSmall(EntrySize)
  <1>1. flush.at = "peek" /\ Calls(Flusher)
      BY DEF FlushPeek
  <1>2. pc' = "ready" /\ flush' = AfterCall(ret')
      BY <1>1 DEF Calls
  <1>3. ret'.code = "NO_MEM"
    <2>1. CASE ret'.code = "SUCCESS"
      <3>1. flush' = At("send", ret'.rec)
          BY <1>1, <1>2, <2>1 DEF AfterCall
      <3> QED BY <3>1 DEF At
    <2>2. CASE ret'.code \notin {"SUCCESS", "NO_MEM"}
        BY <1>1, <1>2, <2>2 DEF AfterCall, Idle, At
    <2> QED BY <2>1, <2>2
  <1>4. ~PeekEmpty
      BY <1>3 DEF PeekEmpty, Refuse, Return, Answer
  <1>5. ~PeekRecord(EntrySize)
      BY <1>3 DEF PeekRecord, Return, Answer
  <1>6. ~AnswersNotInitialized("peek")
      BY <1>3 DEF AnswersNotInitialized, Refuse, Return, Answer
  <1>7. ~PeekResets(EntrySize)
      BY <1>2 DEF PeekResets, ResetArea
  <1> QED BY <1>4, <1>5, <1>6, <1>7 DEF FlushPeek, StoragePeek

\* Between two operations an opened area is intact, and its read index is that
\* of the oldest record.
LEMMA OpenIsIntact ==
    ASSUME Inductive, Unfailed, pc \in {"ready", "write", "header"}, fa
    PROVE  /\ intact /\ LiveChain /\ AroundLive
           /\ rd_idx = First
           /\ wr_idx = top \/ (wr_idx = AreaBlocks /\ top = AreaBlocks - 1)
  <1>1. intact
      BY DEF Unfailed
  <1> QED BY <1>1 DEF Inductive, Log, IndexesMatchLive

\* What storage_free frees is the record the flusher has sent, if any.
LEMMA FreedIsInHand ==
    ASSUME Inductive, Unfailed, HolderInductive, FreedAfterSent, FlushFree, FreeRecord
    PROVE  flash[rd_idx].owner = flush.msg /\ flush.at = "free"
  <1> USE PubSubConstants, StorageConstants
  <1>1. /\ pc = "ready" /\ fa /\ flash[rd_idx].magic = "valid" /\ caller = Nobody /\ caller # Flusher
        /\ flush.at \in {"free", "discard"}
      BY FreeBegins DEF FreeRecord
  <1>2. /\ LiveChain /\ AroundLive /\ rd_idx = First
        /\ wr_idx = top \/ (wr_idx = AreaBlocks /\ top = AreaBlocks - 1)
      BY <1>1, OpenIsIntact
  <1>3. CASE flush.at = "free"
    <2>1. live # <<>> /\ live[1].rec = flush.msg
        BY <1>1, <1>3 DEF FreedAfterSent, HandIsOldest
    <2>2. 1 \in 1..Len(live) /\ rd_idx = live[1].pos
        BY <1>2, <2>1 DEF First, Inductive, TypeOK, Types
    <2>3. flash[rd_idx] = Header(live[1].rec)
        BY <1>2, <2>2 DEF LiveChain
    <2> QED BY <1>3, <2>1, <2>3, HeaderOfRecord
  <1>4. CASE flush.at = "discard"
    <2>1. live = <<>> /\ wr_idx = AreaBlocks
        BY <1>1, <1>4 DEF FreedAfterSent, DiscardsNothing
    <2>2. rd_idx = top
        BY <1>2, <2>1 DEF First
    <2>3. top < AreaBlocks
        BY <1>1, <2>2 DEF FreeRecord, HeaderReadable
    <2> QED BY <1>1, <1>2, <2>2, <2>3, HeaderOfRecord DEF AroundLive
  <1> QED BY <1>1, <1>3, <1>4

\* The flusher's peek has the oldest record in hand, or none.
LEMMA PeekTakesOldest ==
    ASSUME Inductive, Inductive', Unfailed, HolderInductive, FlushPeek
    PROVE  FreedAfterSent'
  <1> USE PubSubConstants, StorageConstants
  <1>1. /\ pc = "ready" /\ flush.at = "peek" /\ caller = Nobody
        /\ UNCHANGED <<flushed, dropped>>
        /\ caller' \in {Nobody, Flusher}
      BY PeekBegins DEF Inductive, TypeOK
  <1>2. PushGoesOn'
      BY <1>1 DEF PushGoesOn
  <1>3. flush'.at # "free"
      BY <1>1, PeekBegins DEF Inductive, TypeOK, Idle, At
  <1>4. SentBeforeFree'
      BY <1>3 DEF SentBeforeFree
  <1>5. HandIsOldest'
    <2> SUFFICES ASSUME flush'.at = "send", caller' # Flusher
                 PROVE  intact' /\ fa' /\ live' # <<>> /\ live'[1].rec = flush'.msg
        BY <1>3 DEF HandIsOldest
    <2>1. PeekRecord(EntrySize) /\ flush' = At("send", flash[rd_idx].owner)
      <3>1. flush'.at \notin {"idle", "discard"}
          OBVIOUS
      <3> QED BY <1>1, <3>1, PeekBegins DEF Inductive, TypeOK, Idle, At
    <2>2. /\ fa /\ fa' = fa /\ intact' = intact /\ pc' = "ready"
          /\ ret' = Answer("peek", "SUCCESS", flash[rd_idx].owner)
        BY <2>1 DEF PeekRecord, Return, history
    <2>3. intact
        BY <1>1, <2>2, OpenIsIntact
    <2>4. ret'.op = "peek" /\ ret'.code = "SUCCESS" /\ ret'.rec = flash[rd_idx].owner
        BY <2>2 DEF Answer
    <2>5. live' # <<>> /\ ret'.rec = live'[1].rec
        BY <2>2, <2>3, <2>4 DEF Inductive, PeekIsOldest
    <2> QED BY <2>1, <2>2, <2>3, <2>4, <2>5 DEF At
  <1>6. DiscardsNothing'
    <2> SUFFICES ASSUME flush'.at = "discard", caller' # Flusher
                 PROVE  intact' /\ fa' /\ live' = <<>> /\ wr_idx' = AreaBlocks
        BY DEF DiscardsNothing
    <2>1. PeekTooSmall(EntrySize)
        BY DiscardIsTooSmall
    <2>2. /\ fa /\ rd_idx # wr_idx /\ rd_idx < AreaBlocks /\ EntrySize < flash[rd_idx].size
          /\ UNCHANGED <<fa, wr_idx, live, intact>>
        BY <2>1 DEF PeekTooSmall, HeaderReadable, Refuse, history
    <2>3. /\ intact /\ LiveChain /\ rd_idx = First
          /\ wr_idx = top \/ (wr_idx = AreaBlocks /\ top = AreaBlocks - 1)
        BY <1>1, <2>2, OpenIsIntact
    <2>4. live = <<>>
      <3> SUFFICES ASSUME live # <<>> PROVE FALSE
          OBVIOUS
      <3>1. 1 \in 1..Len(live) /\ rd_idx = live[1].pos /\ live[1].rec \in Records
        <4>1. live \in Seq(Entries)
            BY DEF Inductive, TypeOK, Types, Entries
        <4>2. 1 \in 1..Len(live) /\ live[1] \in Entries
            BY <4>1
        <4> QED BY <2>3, <4>2 DEF First, Entries
      <3>2. flash[rd_idx] = Header(live[1].rec)
          BY <2>3, <3>1 DEF LiveChain
      <3>3. flash[rd_idx].size = RecordSize[live[1].rec]
          BY <3>2 DEF Header, Word
      <3>4. RecordSize[live[1].rec] \in Nat /\ EntrySize \in Nat /\ RecordSize[live[1].rec] <= EntrySize
          BY <3>1
      <3> QED BY <2>2, <3>3, <3>4
    <2>5. rd_idx = top
        BY <2>3, <2>4 DEF First
    <2> QED BY <2>2, <2>3, <2>4, <2>5
  <1> QED BY <1>2, <1>4, <1>5, <1>6 DEF FreedAfterSent

\* A push of another thread leaves the record in the flusher's hand the oldest.
LEMMA PushKeepsOldest ==
    ASSUME Inductive, Unfailed, intact => ErasedAbove, HolderInductive, FreedAfterSent,
           ~FlashFault, StorageStep, caller \in Publishers
    PROVE  FreedAfterSent'
  <1> USE PubSubConstants, StorageConstants
  <1>1. /\ pc \in {"write", "header"} /\ caller # Flusher
        /\ Calls(caller) /\ InCall /\ flushed' = flushed
      BY DEF FreedAfterSent, PushGoesOn, StorageStep, InCall, pubHistory
  <1>2. flush' = flush
      BY <1>1 DEF Calls
  <1>3. fa
      BY <1>1 DEF Inductive, Control
  <1>4. intact /\ rec \in Records /\ wr_idx = top /\ top < AreaBlocks
      BY <1>1, <1>3, OpenIsIntact, PushAtTop
  <1>5. Push
      BY <1>1 DEF InCall, CheckFirstBlock, CheckFirstBlockFails, Walk, WalkRecordFault,
         WalkHeaderFault, Settle, Erase, ErasePage, EraseFails
  <1>6. PushWrite \/ PushHeader
      BY <1>4, <1>5, PushSucceeds
  <1>7. fa' = fa /\ intact' = intact
      BY <1>6 DEF PushWrite, PushHeader, history
  <1>8. flush.at # "discard"
      BY <1>1, <1>4 DEF FreedAfterSent, DiscardsNothing, Inductive, TypeOK, Types
  <1>9. live # <<>> => live' # <<>> /\ live'[1] = live[1]
    <2>1. CASE PushWrite
        BY <2>1 DEF PushWrite, history
    <2>2. CASE PushHeader
      <3>1. PICK e : live' = Append(live, e)
          BY <2>2 DEF PushHeader
      <3>2. live \in Seq(Entries)
          BY DEF Inductive, TypeOK, Types, Entries
      <3>3. live # <<>> => Len(live) \in Nat /\ 1 \in 1..Len(live)
          BY <3>2
      <3> QED BY <3>1, <3>2, <3>3
    <2> QED BY <1>6, <2>1, <2>2
  <1>10. caller' \in Publishers => pc' \in {"write", "header"}
    <2>1. CASE PushWrite
        BY <2>1 DEF PushWrite
    <2>2. CASE PushHeader
      <3>1. pc' = "ready"
          BY <2>2 DEF PushHeader, Return
      <3> QED BY <1>1, <3>1 DEF Calls
    <2> QED BY <1>6, <2>1, <2>2
  <1>11. HandIsOldest'
      BY <1>1, <1>2, <1>7, <1>9 DEF FreedAfterSent, HandIsOldest
  <1>12. SentBeforeFree'
      BY <1>1, <1>2 DEF FreedAfterSent, SentBeforeFree
  <1>13. DiscardsNothing' /\ PushGoesOn'
      BY <1>2, <1>8, <1>10 DEF DiscardsNothing, PushGoesOn
  <1> QED BY <1>11, <1>12, <1>13 DEF FreedAfterSent

\* Every step of the threads keeps the record in the flusher's hand the oldest,
\* and frees it only once it was sent.
LEMMA FreedAfterSentStep ==
    ASSUME Inductive, Inductive', Unfailed, intact => ErasedAbove, HolderInductive, FreedAfterSent,
           ~FlashFault, [PubSubNext]_pubVars
    PROVE  FreedAfterSent'
  <1> USE PubSubConstants, StorageConstants
  <1>1. ASSUME UNCHANGED <<vars, caller, flush, flushed>> PROVE FreedAfterSent'
      BY <1>1 DEF FreedAfterSent, HandIsOldest, SentBeforeFree, DiscardsNothing, PushGoesOn,
         vars, ramVars, history
  <1>2. ASSUME flush'.at \in {"idle", "peek"}, caller' \notin Publishers PROVE FreedAfterSent'
      BY <1>2 DEF FreedAfterSent, HandIsOldest, SentBeforeFree, DiscardsNothing, PushGoesOn
  <1>3. ASSUME flush' = flush, flushed' = flushed, caller' = Flusher PROVE FreedAfterSent'
      BY <1>3 DEF FreedAfterSent, HandIsOldest, SentBeforeFree, DiscardsNothing, PushGoesOn
  <1>4. CASE PubsubStorageInit
    <2>1. flush' = flush /\ caller' \in {Main, Nobody} /\ flush.at = "idle"
        BY <1>4 DEF PubsubStorageInit, Calls, HolderInductive, Holder
    <2> QED BY <1>2, <2>1
  <1>5. CASE StorageStep
    <2>1. CASE caller \in Publishers
        BY <1>5, <2>1, PushKeepsOldest
    <2>2. CASE caller = Flusher
      <3>1. flushed' = flushed
          BY <1>5 DEF StorageStep, pubHistory
      <3> QED BY <1>2, <1>3, <1>5, <2>2, <3>1, FlusherCallReturns
    <2>3. CASE caller = Main
      <3>1. flush' = flush /\ caller' \in {Main, Nobody} /\ flush.at = "idle"
          BY <1>5, <2>3 DEF StorageStep, Calls, HolderInductive, Holder
      <3> QED BY <1>2, <3>1
    <2> QED BY <1>5, <2>1, <2>2, <2>3 DEF StorageStep, HolderInductive, PubTypes
  <1>6. ASSUME NEW t \in Publishers, PublishPush(t) PROVE FreedAfterSent'
    <2>1. /\ flush' = flush /\ flushed' = flushed /\ caller = Nobody
          /\ \/ caller' = Nobody /\ UNCHANGED <<fa, wr_idx, live, intact>>
             \/ caller' = t /\ pc' = "write" /\ PushBegin(pub[t].msg)
        BY <1>6, PushBegins DEF history
    <2>2. UNCHANGED <<fa, wr_idx, live, intact>> /\ caller' # Flusher
        BY <2>1 DEF PushBegin, history
    <2>3. PushGoesOn'
        BY <2>1 DEF PushGoesOn
    <2>4. HandIsOldest' /\ SentBeforeFree' /\ DiscardsNothing'
        BY <2>1, <2>2 DEF FreedAfterSent, HandIsOldest, SentBeforeFree, DiscardsNothing
    <2> QED BY <2>3, <2>4 DEF FreedAfterSent
  <1>7. ASSUME NEW t \in Publishers, NEW m \in Records, NEW force \in BOOLEAN, Publish(t, m, force)
        PROVE  FreedAfterSent'
      BY <1>1, <1>7 DEF Publish
  <1>8. ASSUME NEW t \in Publishers, TakeBuffers(t) \/ BuffersBusy(t) \/ PublishSend(t)
        PROVE  FreedAfterSent'
      BY <1>1, <1>8 DEF TakeBuffers, BuffersBusy, PublishSend, pubHistory
  <1>9. CASE PublishFlush \/ FlushComesBackLater
    <2>1. flush'.at \in {"idle", "peek"} /\ UNCHANGED <<vars, caller, flushed>>
        BY <1>9 DEF PublishFlush, FlushComesBackLater, Idle, At, pubHistory
    <2> QED BY <2>1 DEF FreedAfterSent, HandIsOldest, SentBeforeFree, DiscardsNothing, PushGoesOn,
               vars, ramVars
  <1>10. CASE FlushPeek
      BY <1>10, PeekTakesOldest
  <1>11. CASE FlushSend
    <2>1. PICK m \in Records : m = flush.msg
        BY <1>11 DEF FlushSend, HolderInductive, PubTypes
    <2>2. flush.at = "send" /\ flush'.at = "free" /\ flush'.msg = m
        BY <1>11, <2>1 DEF FlushSend, HolderInductive, PubTypes, FlushStates
    <2>3. UNCHANGED <<vars, caller>>
        BY <1>11 DEF FlushSend
    <2>4. flushed'[m] > 0 \/ ~Sendable(m)
      <3>1. Sendable(m) => flushed' = [flushed EXCEPT ![m] = @ + 1]
          BY <1>11, <2>1 DEF FlushSend
      <3>2. flushed \in [Records -> Nat]
          BY DEF HolderInductive, PubTypes
      <3> QED BY <3>1, <3>2
    <2>5. HandIsOldest' /\ DiscardsNothing' /\ PushGoesOn'
        BY <2>1, <2>2, <2>3 DEF FreedAfterSent, HandIsOldest, DiscardsNothing, PushGoesOn,
           vars, ramVars, history
    <2>6. SentBeforeFree'
        BY <2>2, <2>4 DEF SentBeforeFree, Sendable
    <2> QED BY <2>5, <2>6 DEF FreedAfterSent
  <1>12. CASE FlushFree
    <2>1. flushed' = flushed
        BY <1>12, FreeBegins
    <2>2. \/ caller' = Nobody /\ flush' = At("peek", NoRecord)
          \/ caller' = Flusher /\ flush' = flush
        BY <1>12, FreeBegins
    <2> QED BY <1>2, <1>3, <2>1, <2>2 DEF At
  <1>13. ASSUME NEW r \in Remotes \ {McuRemote}, SubscribeAdd(r) PROVE FreedAfterSent'
      BY <1>1, <1>13 DEF SubscribeAdd, pubHistory
  <1>14. CASE Reset
      BY <1>2, <1>14 DEF Reset, Idle, At
  <1>15. CASE UNCHANGED pubVars
      BY <1>1, <1>15 DEF pubVars, pubRam, pubHistory
  <1> QED BY <1>4, <1>5, <1>6, <1>7, <1>8, <1>9, <1>10, <1>11, <1>12, <1>13, <1>14, <1>15
          DEF PubSubNext, Publishing, Flushing

\* What was freed had been sent.
LEMMA DroppedStep ==
    ASSUME Inductive, Unfailed, HolderInductive, FreedAfterSent, [PubSubNext]_pubVars,
           \A m \in dropped : flushed[m] > 0 \/ ~Sendable(m), dropped \subseteq Records
    PROVE  (\A m \in dropped : flushed[m] > 0 \/ ~Sendable(m))' /\ dropped' \subseteq Records
  <1> USE PubSubConstants, StorageConstants
  <1>1. ASSUME dropped' = dropped, flushed' = flushed
        PROVE  (\A m \in dropped : flushed[m] > 0 \/ ~Sendable(m))' /\ dropped' \subseteq Records
      BY <1>1 DEF Sendable
  <1>2. CASE FlushFree
    <2>1. flushed' = flushed /\ dropped' \in {dropped, dropped \cup {flash[rd_idx].owner}}
        BY <1>2, FreeBegins DEF FlushFree
    <2>2. CASE flash' = flash
      <3>1. dropped' = dropped
          BY <1>2, <2>2 DEF FlushFree
      <3> QED BY <1>1, <2>1, <3>1
    <2>3. CASE flash' # flash
      <3>1. FreeRecord
          BY <1>2, <2>3 DEF FlushFree, StorageFree, FreeNotFound, FreeCannotWrite,
             AnswersNotInitialized, Refuse
      <3>2. flash[rd_idx].owner = flush.msg /\ flush.at = "free"
          BY <1>2, <3>1, FreedIsInHand
      <3>3. flush.msg \in Records /\ (flushed[flush.msg] > 0 \/ ~Sendable(flush.msg))
          BY <3>2 DEF FreedAfterSent, SentBeforeFree, HolderInductive, PubTypes
      <3> QED BY <2>1, <3>2, <3>3 DEF Sendable
    <2> QED BY <2>2, <2>3
  <1>3. CASE FlushSend
    <2>1. dropped' = dropped /\ flushed \in [Records -> Nat] /\ flush.msg \in Records
        BY <1>3 DEF FlushSend, HolderInductive, PubTypes
    <2>2. ASSUME NEW m \in Records, flushed[m] > 0 PROVE flushed'[m] > 0
        BY <1>3, <2>1, <2>2 DEF FlushSend
    <2> QED BY <2>1, <2>2 DEF Sendable
  <1>4. CASE ~FlushFree /\ ~FlushSend
    <2>1. dropped' = dropped /\ flushed' = flushed
        BY <1>4 DEF PubSubNext, PubsubStorageInit, StorageStep, Publishing, Publish, TakeBuffers,
           BuffersBusy, PublishPush, PublishSend, PublishFlush, Flushing, FlushPeek,
           FlushComesBackLater, SubscribeAdd, Reset, pubVars, pubHistory
    <2> QED BY <1>1, <2>1
  <1> QED BY <1>2, <1>3, <1>4

\* A new board has stored nothing and freed nothing.
LEMMA FreeInit == ASSUME PubSubInit PROVE FreeInductive
  <1>1. Init /\ pc = "ready" /\ flush.at = "idle" /\ caller = Nobody /\ dropped = {}
      BY DEF PubSubInit, Init, Idle, At
  <1>2. Unfailed
      BY <1>1, UnfailedInit
  <1>3. ASSUME intact PROVE ErasedAbove
    <2>1. PICK w \in {Erased, Garbage} : flash = [b \in 0..(AreaBlocks - 1) |-> w]
        BY <1>1 DEF Init
    <2>2. flash[0] = w
        BY <2>1, StorageConstants
    <2>3. flash[0] = Erased
        BY <1>1, <1>3, Zenon DEF Init
    <2> QED BY <2>1, <2>2, <2>3 DEF ErasedAbove, Area
  <1>4. FreedAfterSent
      BY <1>1, PubSubConstants
         DEF FreedAfterSent, HandIsOldest, SentBeforeFree, DiscardsNothing, PushGoesOn
  <1> QED BY <1>1, <1>2, <1>3, <1>4 DEF FreeInductive

\* As long as no access to the flash fails, and unless power is cut in the middle
\* of a push or of an erase, a stored message is freed only after it was handed
\* to CAN or because it is too large for a frame, for any number of publishers,
\* messages and resets.
THEOREM PubSubFreesWhatItSent ==
    ASSUME BenignPayload, CutPoints \cap {"write", "header", "erase", "init_erase"} = {}
    PROVE  PubSubSpec => []FreedWereSent
  <1>1. PubSubInit => FreeInductive
      BY FreeInit
  <1>2. ASSUME Inductive /\ HolderInductive, (Inductive /\ HolderInductive)', FreeInductive,
               [PubSubNext]_pubVars
        PROVE  FreeInductive'
    <2> SUFFICES ASSUME faults' = MaxFaults
                 PROVE  /\ Unfailed'
                        /\ intact' => ErasedAbove'
                        /\ FreedAfterSent'
                        /\ dropped' \subseteq Records
                        /\ (\A m \in dropped : flushed[m] > 0 \/ ~Sendable(m))'
        BY DEF FreeInductive
    <2>1. [Next]_vars
      <3>1. CASE PubSubNext
          BY <1>2, <3>1, PubSubIsStorage
      <3>2. CASE UNCHANGED pubVars
          BY <3>2 DEF pubVars
      <3> QED BY <1>2, <3>1, <3>2
    <2>2. Inductive /\ Inductive' /\ Types /\ Types' /\ HolderInductive
        BY <1>2 DEF Inductive, TypeOK
    <2>3. faults = MaxFaults /\ ~FlashFault
      <3>1. faults \in Nat /\ MaxFaults \in Nat /\ faults <= MaxFaults
          BY <2>2, StorageConstants DEF Types
      <3>2. faults' \in {faults, faults - 1}
          BY <2>1, <2>2, SpentStep
      <3> QED BY <3>1, <3>2 DEF FlashFault
    <2>4. /\ Unfailed /\ (intact => ErasedAbove) /\ FreedAfterSent /\ dropped \subseteq Records
          /\ \A m \in dropped : flushed[m] > 0 \/ ~Sendable(m)
        BY <1>2, <2>3 DEF FreeInductive
    <2>5. Unfailed'
        BY <2>1, <2>2, <2>4, UnfailedStep
    <2>6. intact' => ErasedAbove'
        BY <2>1, <2>2, <2>3, <2>4, ErasedAboveStep
    <2>7. FreedAfterSent'
        BY <1>2, <2>2, <2>3, <2>4, FreedAfterSentStep
    <2>8. dropped' \subseteq Records /\ (\A m \in dropped : flushed[m] > 0 \/ ~Sendable(m))'
        BY <1>2, <2>2, <2>4, DroppedStep
    <2> QED BY <2>5, <2>6, <2>7, <2>8
  <1>3. FreeInductive => FreedWereSent
      BY DEF FreeInductive, FreedWereSent
  <1> QED BY <1>1, <1>2, <1>3, PubSubKeepsStorage, PTL DEF PubSubSpec
=============================================================================
