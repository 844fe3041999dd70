----------------------------- MODULE RecordFifo -----------------------------
(***************************************************************************)
(* What lib/storage promises its callers (storage.h: "First In First Out   *)
(* storage"): the records stored and not freed, oldest first, and the      *)
(* answer to the last call.  Flash, indexes and boots are not visible.     *)
(***************************************************************************)
EXTENDS Sequences

CONSTANTS Records, NoRecord, NoAnswer, Answers

VARIABLES queue,    \* the stored records
          answer    \* what the last call returned

vars == <<queue, answer>>

Init == queue = <<>> /\ answer = NoAnswer

\* A push that succeeds appends its record
Push(r) == /\ queue' = Append(queue, r)
           /\ answer' = [op |-> "push", code |-> "SUCCESS", rec |-> r]

\* A peek that succeeds returns the oldest record
Peek == /\ queue # <<>>
        /\ answer' = [op |-> "peek", code |-> "SUCCESS", rec |-> Head(queue)]
        /\ UNCHANGED queue

\* A free that succeeds drops the oldest record
Free == /\ queue # <<>>
        /\ queue' = Tail(queue)
        /\ answer' = [op |-> "free", code |-> "SUCCESS", rec |-> Head(queue)]

\* A call that fails, and loses either nothing or everything
Fail == /\ answer' \in {a \in Answers : a.code # "SUCCESS"}
        /\ queue' \in {queue, <<>>}

\* A power cut or a boot keeps the records
Restart == /\ answer' \in {NoAnswer, [NoAnswer EXCEPT !.op = "init"]}
           /\ UNCHANGED queue

Next == (\E r \in Records : Push(r)) \/ Peek \/ Free \/ Fail \/ Restart

Spec == Init /\ [][Next]_vars
=============================================================================
