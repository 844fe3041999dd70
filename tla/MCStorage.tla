----------------------------- MODULE MCStorage -----------------------------
(* Small areas for TLC: blocks of two bytes, records of one and two blocks. *)
EXTENDS Storage

Data == [magic |-> "data", size |-> 0]
Nought == [magic |-> "invalid", size |-> 0]

\* "a" fills one block; "b" takes two, the second one padded
MCRecords == {"a", "b"}
MCRecordSize == [r \in MCRecords |-> IF r = "a" THEN 2 ELSE 3]
MCPayload == [r \in MCRecords |-> IF r = "a" THEN <<Data>> ELSE <<Data, Nought>>]

MCBufferSizes == {2, 4}
AnyPoint == Points
NotErasing == Points \ {"erase", "init_erase"}
=============================================================================
