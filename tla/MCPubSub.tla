------------------------------ MODULE MCPubSub ------------------------------
(* Two publishers and two messages for TLC: one of one block that is stored   *)
(* until the Jetson is there, and one of two blocks that is discarded unless  *)
(* publish_store is asked to keep it.                                         *)
EXTENDS PubSub, TLC

Data == [magic |-> "data", size |-> 0]

MCRecords == {"a", "b"}
MCRecordSize == "a" :> 2 @@ "b" :> 3
MCPayload == [r \in MCRecords |-> [j \in 1..Blocks(MCRecordSize[r]) |-> Data]]
MCDestination == [r \in MCRecords |-> "jetson"]
MCPriority == "a" :> "STORE" @@ "b" :> "DISCARD"

MCBufferSizes == {4}

NotPushing == Points \ {"write", "header", "erase", "init_erase"}
=============================================================================
