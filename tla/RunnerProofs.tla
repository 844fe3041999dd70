---------------------------- MODULE RunnerProofs ----------------------------
(***************************************************************************)
(* The order of the jobs and the addressees of the acknowledgements of     *)
(* Runner, for every length of the queue, table of remotes and number of   *)
(* messages, and for every payload.                                        *)
(*                                                                         *)
(* Only a producer that holds new_job_sem touches new, so that what it     *)
(* puts in the queue is its own message; a producer handles one message    *)
(* after the other, so that the jobs of a source enter the queue in order; *)
(* and an acknowledgement comes from the one execution of its job, or from *)
(* the DFU thread with the context that a firmware request left.           *)
(***************************************************************************)
EXTENDS Runner, FiniteSetTheorems, TLAPS

-----------------------------------------------------------------------------
(* The inductive invariant *)

IsSeq(s) == \E S : s \in Seq(S)

Steps == {"idle", "take", "decode", "put"}

JobTypes == /\ at \in [Producers -> [step : Steps, msg : Nat]]
            /\ new_job_sem \in {0, 1}
            /\ IsSeq(sent) /\ IsSeq(process_queue) /\ IsSeq(ran)
            /\ broken \in BOOLEAN

\* The producer prepares a job
Prepares(p) == at[p].step \in {"decode", "put"}

\* Of two messages of one source the first one is older; nothing is known of
\* those that clashed
Before(m, n) == \/ m \in clashed \/ n \in clashed
                \/ sent[m].from = sent[n].from => m < n

\* A producer prepares a job only with the semaphore, and so alone, unless the
\* shell broke the semaphore
OneProducer == /\ broken = FALSE =>
                     /\ clashed = {}
                     /\ new_job_sem = 1 => \A p \in Producers : ~Prepares(p)
               /\ \A p, q \in Producers :
                     Prepares(p) /\ Prepares(q) /\ p # q => at[p].msg \in clashed

\* What is put in the queue is the message of the producer that puts it, unless
\* another one prepared a job at the same time
OwnMessage ==
    /\ \A p \in Producers :
          /\ at[p].step = "put" =>
                new.msg = at[p].msg \/ (new.msg \in clashed /\ at[p].msg \in clashed)
          /\ at[p].step # "idle" => at[p].msg \in 1..Len(sent) /\ sent[at[p].msg].from = p
    /\ clashed \subseteq 1..Len(sent)

\* The jobs are messages that were sent
JobsWereSent == /\ \A i \in 1..Len(process_queue) : process_queue[i].msg \in 1..Len(sent)
                /\ \A i \in 1..Len(ran) : ran[i].msg \in 1..Len(sent)

\* Per source: what was executed is older than what is queued, and that is
\* older than what is being prepared
InOrder ==
    /\ \A i, j \in 1..Len(ran) : i < j => Before(ran[i].msg, ran[j].msg)
    /\ \A i, j \in 1..Len(process_queue) :
          i < j => Before(process_queue[i].msg, process_queue[j].msg)
    /\ \A i \in 1..Len(ran), j \in 1..Len(process_queue) :
          Before(ran[i].msg, process_queue[j].msg)
    /\ \A p \in Producers : at[p].step # "idle" =>
          /\ \A i \in 1..Len(ran) : Before(ran[i].msg, at[p].msg)
          /\ \A i \in 1..Len(process_queue) : Before(process_queue[i].msg, at[p].msg)

\* What the producers were told
Told == /\ \A m \in queued : m \in accepted \/ m \in clashed
        /\ accepted \subseteq 1..Len(sent)
        /\ \A m \in accepted : \/ m \in queued \/ m \in clashed
                               \/ broken # FALSE /\ sent[m].from = "cli"

Ordered == /\ Told
           /\ OneProducer
           /\ OwnMessage
           /\ JobsWereSent
           /\ InOrder

JobsInductive == JobTypes /\ Ordered

\* ISO-TP messages carry the address of their application, all others none
SentTypes == \A m \in 1..Len(sent) :
                IF sent[m].from = "isotp"
                THEN sent[m].dest \in {StdIdDestination(a, LocalId) : a \in Apps}
                ELSE sent[m].dest = 0

\* Only a request of the Jetson over CAN is answered, at its own address
AnswersOwn(job) == IF job.remote = "jetson"
                   THEN /\ job.num = job.msg
                        /\ sent[job.msg].kind = "jetson"
                        /\ job.addr = ReplyAddress(sent[job.msg].dest)
                   ELSE job.num = 0

JobsAnswerOwn ==
    /\ \A p \in Producers : at[p].step = "put" => AnswersOwn(new)
    /\ \A i \in 1..Len(process_queue) : AnswersOwn(process_queue[i])

Contexts == {"block", "check"}

RanWith(m, way) == \E i \in 1..Len(ran) : ran[i].msg = m /\ ran[i].way = way

\* The contexts are those of firmware requests that were executed
ContextsOfExecuted ==
    \A c \in Contexts :
       /\ AnswersOwn(context[c])
       /\ context[c].remote = "jetson" =>
             context[c].msg \in 1..Len(sent) /\ RanWith(context[c].msg, "deferred")

\* Nobody's number, or that of a firmware request
FirmwareNumber(num) == num = 0 \/ RanWith(num, "deferred")

\* What the callback has read is still in its context, or it is noted that the
\* context was written over
AnswerOfExecuted ==
    /\ answer.step \in {"number", "address"} /\ ~answer.torn =>
          context[answer.ctx].remote = "jetson"
    /\ answer.step = "address" =>
          /\ FirmwareNumber(answer.num)
          /\ ~answer.torn => answer.num = context[answer.ctx].num

\* An executed request, and where its answer goes
OfExecuted(num, addr) ==
    /\ num \in 1..Len(sent) /\ sent[num].kind = "jetson"
    /\ addr = ReplyAddress(sent[num].dest)
    /\ \E i \in 1..Len(ran) : ran[i].msg = num

\* An acknowledgement answers a request that was executed; one that was torn has
\* the number of a firmware request, if any
AcksOfExecuted ==
    \A a \in acks : IF a.torn THEN FirmwareNumber(a.num) ELSE OfExecuted(a.num, a.addr)

\* One whose handler answers once has one
AnsweredOnce ==
    \A a, b \in acks : a.num = b.num /\ RanWith(a.num, "once") => a = b

RanWays == \A i \in 1..Len(ran) : ran[i].way \in {"deferred", "twice", "once"}

AnswerSteps == {"none", "call", "remote", "number", "address"}

DfuTypes == /\ dfu_ctx \in Contexts \cup {"none"}
            /\ \E S : answer \in [step : AnswerSteps, ctx : Contexts \cup {"none"}, num : S,
                                  torn : BOOLEAN]
            /\ answer.step \in {"remote", "number", "address"} => answer.ctx \in Contexts

AckTypes == /\ DfuTypes
            /\ \E S : context \in [Contexts -> S]
            /\ \A a \in acks : a.torn \in BOOLEAN

Answered == /\ JobsAnswerOwn
            /\ ContextsOfExecuted
            /\ AnswerOfExecuted
            /\ AcksOfExecuted
            /\ AnsweredOnce

AcksInductive == /\ JobsInductive
                 /\ AckTypes
                 /\ SentTypes
                 /\ RanWays
                 /\ broken = FALSE => Answered
-----------------------------------------------------------------------------
(* Sequences and producers *)

\* A sequence that grows keeps what it had
LEMMA Appended ==
    ASSUME NEW s, IsSeq(s), NEW e
    PROVE  /\ IsSeq(Append(s, e))
           /\ Len(s) \in Nat
           /\ Len(Append(s, e)) = Len(s) + 1
           /\ \A i \in 1..Len(s) : Append(s, e)[i] = s[i]
           /\ Append(s, e)[Len(s) + 1] = e
PROOF
  <1>1. PICK S : s \in Seq(S)
    BY DEF IsSeq
  <1>2. s \in Seq(S \cup {e}) /\ e \in S \cup {e}
    BY <1>1
  <1>3. Append(s, e) \in Seq(S \cup {e})
    BY <1>2
  <1>4. IsSeq(Append(s, e))
    BY <1>3 DEF IsSeq
  <1> QED
    BY <1>2, <1>4

\* A sequence that loses its head moves up
LEMMA Tailed ==
    ASSUME NEW s, IsSeq(s), s # <<>>
    PROVE  /\ IsSeq(Tail(s))
           /\ Len(s) \in Nat \ {0}
           /\ Len(Tail(s)) = Len(s) - 1
           /\ \A i \in 1..(Len(s) - 1) : Tail(s)[i] = s[i + 1]
           /\ Head(s) = s[1]
PROOF
  <1>1. PICK S : s \in Seq(S)
    BY DEF IsSeq
  <1>2. Tail(s) \in Seq(S)
    BY <1>1
  <1>3. IsSeq(Tail(s))
    BY <1>2 DEF IsSeq
  <1> QED
    BY <1>1, <1>3

\* The empty sequence is one
LEMMA EmptyIsSeq == IsSeq(<<>>) /\ Len(<<>>) = 0
PROOF
  <1>1. <<>> \in Seq({})
    OBVIOUS
  <1> QED
    BY <1>1 DEF IsSeq

\* GoesTo moves one producer and keeps its message
LEMMA Moves ==
    ASSUME JobTypes, NEW p \in Producers, NEW s \in Steps, GoesTo(p, s)
    PROVE  /\ at' \in [Producers -> [step : Steps, msg : Nat]]
           /\ at'[p].step = s /\ at'[p].msg = at[p].msg
           /\ \A q \in Producers : q # p => at'[q] = at[q]
PROOF
  BY DEF JobTypes, GoesTo

\* Nobody is what a producer is before and after a message
LEMMA GoesHome ==
    ASSUME JobTypes, NEW p \in Producers, at' = [at EXCEPT ![p] = Nobody]
    PROVE  /\ at' \in [Producers -> [step : Steps, msg : Nat]]
           /\ at'[p].step = "idle"
           /\ \A q \in Producers : q # p => at'[q] = at[q]
PROOF
  BY DEF JobTypes, Nobody, Steps

jobVars == <<at, new_job_sem, new, process_queue, sent, queued, accepted, ran, broken,
             clashed>>

\* A step that leaves all that alone
LEMMA JobsUnchanged ==
    ASSUME JobsInductive, UNCHANGED jobVars
    PROVE  JobsInductive'
PROOF
  BY DEF JobsInductive, jobVars, JobTypes, Ordered, OneProducer, OwnMessage, JobsWereSent,
         InOrder, Prepares, Before, Told

\* A message is received, with a number above all others
LEMMA JobsReceived ==
    ASSUME JobsInductive, NEW p \in Producers, at[p] = Nobody,
           NEW e, e.from = p, sent' = Append(sent, e),
           NEW go \in BOOLEAN,
           at' = [at EXCEPT ![p] = IF go THEN [step |-> "take", msg |-> Len(sent) + 1]
                                         ELSE Nobody],
           UNCHANGED <<new_job_sem, new, process_queue, queued, accepted, ran, broken, clashed>>
    PROVE  JobsInductive'
PROOF
  <1>1. /\ IsSeq(sent') /\ Len(sent) \in Nat /\ Len(sent') = Len(sent) + 1
        /\ \A i \in 1..Len(sent) : sent'[i] = sent[i]
        /\ sent'[Len(sent) + 1] = e
    BY Appended DEF JobsInductive, JobTypes
  <1>2. /\ at' \in [Producers -> [step : Steps, msg : Nat]]
        /\ \A q \in Producers : q # p => at'[q] = at[q]
        /\ ~Prepares(p)'
        /\ at'[p].step # "idle" => at'[p].msg = Len(sent) + 1
        /\ ~Prepares(p) /\ at'[p].step # "put"
    BY <1>1 DEF JobsInductive, JobTypes, Nobody, Steps, Prepares
  <1>3. JobTypes'
    BY <1>1, <1>2 DEF JobsInductive, JobTypes
  <1>4. Ordered'
    <2>1. Ordered
      BY DEF JobsInductive
    <2>2. \A m, n \in 1..Len(sent) : Before(m, n) => Before(m, n)'
      BY <1>1 DEF Before
    <2>3. \A m \in 1..Len(sent) : Before(m, Len(sent) + 1)'
      BY <1>1 DEF Before
    <2>4. OneProducer' /\ Told'
      <3>1. OneProducer'
        BY <1>2, <2>1 DEF Ordered, OneProducer, Prepares
      <3>2. Told'
        <4>1. 1..Len(sent) \subseteq 1..Len(sent')
          BY <1>1
        <4>2. \A m \in accepted : m \in 1..Len(sent) /\ sent'[m] = sent[m]
          BY <1>1, <2>1 DEF Ordered, Told
        <4>3. queued' = queued /\ accepted' = accepted /\ clashed' = clashed /\ broken' = broken
          OBVIOUS
        <4>4. accepted' \subseteq 1..Len(sent')
          BY <2>1, <4>1, <4>3 DEF Ordered, Told
        <4>5. \A m \in queued' : m \in accepted' \/ m \in clashed'
          BY <2>1, <4>3 DEF Ordered, Told
        <4>6. \A m \in accepted' :
                 \/ m \in queued' \/ m \in clashed'
                 \/ broken' # FALSE /\ sent'[m].from = "cli"
          BY <2>1, <4>2, <4>3 DEF Ordered, Told
        <4> QED
          BY <4>4, <4>5, <4>6 DEF Told
      <3> QED
        BY <3>1, <3>2
    <2>5. OwnMessage'
      BY <1>1, <1>2, <2>1 DEF Ordered, OwnMessage
    <2>6. JobsWereSent'
      BY <1>1, <2>1 DEF Ordered, JobsWereSent
    <2>7. InOrder'
      <3>1. /\ \A i, j \in 1..Len(ran) : i < j => Before(ran[i].msg, ran[j].msg)'
            /\ \A i, j \in 1..Len(process_queue) :
                  i < j => Before(process_queue[i].msg, process_queue[j].msg)'
            /\ \A i \in 1..Len(ran), j \in 1..Len(process_queue) :
                  Before(ran[i].msg, process_queue[j].msg)'
        BY <1>1, <2>1, <2>2 DEF Ordered, JobsWereSent, InOrder, Before
      <3>2. \A q \in Producers : at'[q].step # "idle" =>
               /\ \A i \in 1..Len(ran) : Before(ran[i].msg, at[q].msg)'
               /\ \A i \in 1..Len(process_queue) : Before(process_queue[i].msg, at[q].msg)'
        BY <1>1, <1>2, <2>1, <2>2, <2>3
           DEF Ordered, JobsWereSent, OwnMessage, InOrder, Before
      <3> QED
        BY <3>1, <3>2 DEF InOrder
    <2> QED
      BY <2>4, <2>5, <2>6, <2>7 DEF Ordered
  <1> QED
    BY <1>3, <1>4 DEF JobsInductive

\* A producer that only moves, without a change of the queue: what it holds and
\* what it has to hold decide
LEMMA JobsMoved ==
    ASSUME JobsInductive, NEW p \in Producers,
           at' \in [Producers -> [step : Steps, msg : Nat]],
           at[p].step # "idle",
           at'[p].step = "idle" \/ at'[p].msg = at[p].msg,
           \A q \in Producers : q # p => at'[q] = at[q],
           new_job_sem' \in {0, 1}, broken' \in BOOLEAN,
           clashed \subseteq clashed', clashed' \subseteq 1..Len(sent),
           OneProducer', Told',
           \A q \in Producers : at'[q].step = "put" =>
              new'.msg = at'[q].msg \/ (new'.msg \in clashed' /\ at'[q].msg \in clashed'),
           UNCHANGED <<process_queue, sent, ran>>
    PROVE  JobsInductive'
PROOF
  <1>1. JobTypes'
    BY DEF JobsInductive, JobTypes
  <1>2. Ordered
    BY DEF JobsInductive
  <1>3. OwnMessage'
    BY <1>2 DEF Ordered, OwnMessage
  <1>4. JobsWereSent'
    BY <1>2 DEF Ordered, JobsWereSent
  <1>5. InOrder'
    <2>1. \A m, n : Before(m, n) => Before(m, n)'
      BY DEF Before
    <2>2. \A q \in Producers : at'[q].step # "idle" =>
             at[q].step # "idle" /\ at'[q].msg = at[q].msg
      OBVIOUS
    <2>3. \A q \in Producers : at'[q].step # "idle" =>
             /\ \A i \in 1..Len(ran) : Before(ran[i].msg, at'[q].msg)
             /\ \A i \in 1..Len(process_queue) : Before(process_queue[i].msg, at'[q].msg)
      BY <1>2, <2>2 DEF Ordered, InOrder
    <2> QED
      BY <1>2, <2>1, <2>3 DEF Ordered, InOrder
  <1> QED
    BY <1>1, <1>3, <1>4, <1>5 DEF JobsInductive, Ordered

\* k_sem_take succeeds for one producer at a time, unless the shell broke the
\* semaphore; then it is noted who prepares a job meanwhile
LEMMA JobsTakesSem ==
    ASSUME JobsInductive, NEW p \in Producers, TakesSem(p)
    PROVE  JobsInductive'
PROOF
  <1>1. /\ at' \in [Producers -> [step : Steps, msg : Nat]]
        /\ at'[p].step = "decode" /\ at'[p].msg = at[p].msg
        /\ \A q \in Producers : q # p => at'[q] = at[q]
    BY Moves DEF TakesSem, PreparesWith, JobsInductive, Steps
  <1>2. /\ at[p].step = "take" /\ new_job_sem = 1 /\ new_job_sem' = 0
        /\ UNCHANGED <<new, process_queue, sent, queued, accepted, ran, broken>>
        /\ clashed' = IF Preparing = {} THEN clashed
                      ELSE clashed \cup {at[q].msg : q \in Preparing \cup {p}}
    BY DEF TakesSem, PreparesWith
  <1>3. Preparing = {q \in Producers : Prepares(q)}
    BY DEF Preparing, Prepares
  <1>4. clashed \subseteq clashed' /\ clashed' \subseteq 1..Len(sent)
    <2>1. \A q \in Preparing \cup {p} : q \in Producers /\ at[q].step # "idle"
      BY <1>2, <1>3 DEF Prepares
    <2>2. {at[q].msg : q \in Preparing \cup {p}} \subseteq 1..Len(sent)
      BY <2>1 DEF JobsInductive, Ordered, OwnMessage
    <2>3. clashed \subseteq 1..Len(sent)
      BY DEF JobsInductive, Ordered, OwnMessage
    <2>4. clashed' = clashed \/ clashed' = clashed \cup {at[q].msg : q \in Preparing \cup {p}}
      BY <1>2
    <2> QED
      BY <2>2, <2>3, <2>4, Zenon
  <1>5. OneProducer'
    <2>1. ASSUME broken' = FALSE
          PROVE  clashed' = {}
      BY <2>1, <1>2, <1>3 DEF JobsInductive, Ordered, OneProducer
    <2>2. ASSUME NEW q \in Producers, NEW r \in Producers, Prepares(q)', Prepares(r)', q # r
          PROVE  at'[q].msg \in clashed'
      <3>1. CASE q # p /\ r # p
        BY <2>2, <3>1, <1>1, <1>4 DEF JobsInductive, Ordered, OneProducer, Prepares
      <3>2. CASE q = p \/ r = p
        <4>1. Preparing # {} /\ q \in Preparing \cup {p}
          BY <2>2, <3>2, <1>1, <1>3 DEF Prepares
        <4>2. at'[q].msg = at[q].msg
          BY <1>1
        <4> QED
          BY <4>1, <4>2, <1>2
      <3> QED
        BY <3>1, <3>2
    <2>3. ~(new_job_sem' = 1)
      BY <1>2
    <2>4. \A q, r \in Producers :
             Prepares(q)' /\ Prepares(r)' /\ q # r => at'[q].msg \in clashed'
      BY <2>2
    <2> QED
      BY <2>1, <2>3, <2>4, Zenon DEF OneProducer
  <1>6. Told'
    BY <1>2, <1>4 DEF JobsInductive, Ordered, Told
  <1>7. \A q \in Producers : at'[q].step = "put" =>
           new'.msg = at'[q].msg \/ (new'.msg \in clashed' /\ at'[q].msg \in clashed')
    BY <1>1, <1>2, <1>4 DEF JobsInductive, Ordered, OwnMessage
  <1>8. new_job_sem' \in {0, 1} /\ at[p].step # "idle" /\ broken' \in BOOLEAN
    BY <1>2 DEF JobsInductive, JobTypes
  <1> QED
    BY <1>1, <1>2, <1>4, <1>5, <1>6, <1>7, <1>8, JobsMoved

\* Without the semaphore the producer gives up; the shell breaks the semaphore
\* and takes its job for accepted
LEMMA JobsSemTimesOut ==
    ASSUME JobsInductive, NEW p \in Producers, SemTimesOut(p)
    PROVE  JobsInductive'
PROOF
  <1>1. /\ at' \in [Producers -> [step : Steps, msg : Nat]]
        /\ at'[p].step = "idle"
        /\ \A q \in Producers : q # p => at'[q] = at[q]
    BY GoesHome DEF SemTimesOut, Returns, JobsInductive
  <1>2. /\ new_job_sem' \in {0, 1} /\ new' = new /\ at[p].step = "take"
        /\ broken' \in BOOLEAN
        /\ UNCHANGED <<process_queue, sent, queued, ran, clashed>>
    BY DEF SemTimesOut, Returns, JobsInductive, JobTypes
  <1>3. broken' = FALSE => broken = FALSE /\ new_job_sem' = new_job_sem
    BY DEF SemTimesOut
  <1>4. Ordered
    BY DEF JobsInductive
  <1>5. OneProducer'
    BY <1>1, <1>2, <1>3, <1>4 DEF Ordered, OneProducer, Prepares
  <1>6. Told'
    <2>1. CASE p = "cli"
      <3>1. accepted' = accepted \cup {at[p].msg} /\ broken' = TRUE
        BY <2>1 DEF SemTimesOut
      <3>2. at[p].msg \in 1..Len(sent) /\ sent[at[p].msg].from = "cli"
        BY <1>2, <1>4, <2>1 DEF Ordered, OwnMessage
      <3> QED
        BY <1>2, <1>4, <3>1, <3>2 DEF Ordered, Told
    <2>2. CASE p # "cli"
      BY <1>2, <1>4, <2>2 DEF SemTimesOut, Ordered, Told
    <2> QED
      BY <2>1, <2>2
  <1>7. \A q \in Producers : at'[q].step = "put" =>
           new'.msg = at'[q].msg \/ (new'.msg \in clashed' /\ at'[q].msg \in clashed')
    BY <1>1, <1>2, <1>4 DEF Ordered, OwnMessage
  <1>8. clashed' \subseteq 1..Len(sent) /\ clashed \subseteq clashed' /\ at[p].step # "idle"
    BY <1>2, <1>4 DEF Ordered, OwnMessage
  <1> QED
    BY <1>1, <1>2, <1>5, <1>6, <1>7, <1>8, JobsMoved

\* The producer that holds the semaphore returns and gives it back
LEMMA JobsReturns ==
    ASSUME JobsInductive, NEW p \in Producers, Prepares(p), Returns(p),
           broken' = broken, clashed' = clashed
    PROVE  /\ at' \in [Producers -> [step : Steps, msg : Nat]]
           /\ at'[p].step = "idle"
           /\ \A q \in Producers : q # p => at'[q] = at[q]
           /\ new_job_sem' = 1
           /\ OneProducer'
PROOF
  <1>1. /\ at' \in [Producers -> [step : Steps, msg : Nat]]
        /\ at'[p].step = "idle"
        /\ \A q \in Producers : q # p => at'[q] = at[q]
        /\ new_job_sem' = 1
    BY GoesHome DEF Returns, JobsInductive
  <1>2. OneProducer
    BY DEF JobsInductive, Ordered
  <1>3. broken' = FALSE => \A q \in Producers : ~Prepares(q)'
    <2> SUFFICES ASSUME broken = FALSE, NEW q \in Producers, Prepares(q)'
                 PROVE  FALSE
      OBVIOUS
    <2>1. q # p /\ Prepares(q)
      BY <1>1 DEF Prepares
    <2> QED
      BY <1>2, <2>1 DEF OneProducer
  <1>4. \A q, r \in Producers : Prepares(q)' /\ Prepares(r)' /\ q # r =>
           at'[q].msg \in clashed'
    BY <1>1, <1>2 DEF OneProducer, Prepares
  <1> QED
    BY <1>1, <1>2, <1>3, <1>4 DEF OneProducer

\* A message is decoded into new, or dropped
LEMMA JobsDecodes ==
    ASSUME JobsInductive, NEW p \in Producers, Decodes(p)
    PROVE  JobsInductive'
PROOF
  <1>1. /\ at[p].step = "decode" /\ Prepares(p) /\ at[p].step # "idle"
        /\ UNCHANGED <<process_queue, sent, queued, accepted, ran, broken, clashed>>
    BY DEF Decodes, history, Prepares
  <1>2. Ordered /\ broken' \in BOOLEAN
    BY <1>1 DEF JobsInductive, JobTypes
  <1>3. Told' /\ clashed' \subseteq 1..Len(sent) /\ clashed \subseteq clashed'
    BY <1>1, <1>2 DEF Ordered, Told, OwnMessage
  <1>4. CASE Returns(p) /\ new' = new
    <2>1. /\ at' \in [Producers -> [step : Steps, msg : Nat]]
          /\ at'[p].step = "idle"
          /\ \A q \in Producers : q # p => at'[q] = at[q]
          /\ new_job_sem' = 1
          /\ OneProducer'
      BY <1>1, <1>4, JobsReturns
    <2>2. \A q \in Producers : at'[q].step = "put" =>
             new'.msg = at'[q].msg \/ (new'.msg \in clashed' /\ at'[q].msg \in clashed')
      BY <1>1, <1>2, <1>4, <2>1 DEF Ordered, OwnMessage
    <2>3. new_job_sem' \in {0, 1}
      BY <2>1
    <2> QED
      BY <1>1, <1>2, <1>3, <2>1, <2>2, <2>3, JobsMoved
  <1>5. CASE ~(Returns(p) /\ new' = new)
    <2>1. GoesTo(p, "put") /\ new' \in Written(p) /\ new_job_sem' = new_job_sem
      BY <1>5 DEF Decodes
    <2>2. /\ at' \in [Producers -> [step : Steps, msg : Nat]]
          /\ at'[p].step = "put" /\ at'[p].msg = at[p].msg
          /\ \A q \in Producers : q # p => at'[q] = at[q]
      BY <2>1, Moves DEF JobsInductive, Steps
    <2>3. OneProducer'
      BY <1>1, <1>2, <2>1, <2>2 DEF Ordered, OneProducer, Prepares
    <2>4. \A q \in Producers : at[q].step = "put" => at[q].msg \in clashed /\ at[p].msg \in clashed
      BY <1>1, <1>2 DEF Ordered, OneProducer, Prepares
    <2>5. JobOf(p, at[p].msg).msg = at[p].msg
      BY DEF JobOf, CanJob, OtherJob
    <2>6. CASE \E q \in Producers \ {p} : at[q].step = "put"
      <3>1. new.msg \in clashed /\ at[p].msg \in clashed
        BY <1>2, <2>4, <2>6 DEF Ordered, OwnMessage
      <3>2. new'.msg \in {at[p].msg, new.msg}
        BY <2>1, <2>5, <2>6 DEF Written, Mixed
      <3>3. \A q \in Producers : at'[q].step = "put" => at'[q].msg \in clashed
        BY <2>2, <2>4, <3>1
      <3>4. \A q \in Producers : at'[q].step = "put" =>
               new'.msg = at'[q].msg \/ (new'.msg \in clashed' /\ at'[q].msg \in clashed')
        BY <1>1, <3>1, <3>2, <3>3
      <3>5. new_job_sem' \in {0, 1}
        BY <2>1 DEF JobsInductive, JobTypes
      <3> QED
        BY <1>1, <1>2, <1>3, <2>2, <2>3, <3>4, <3>5, JobsMoved
    <2>7. CASE ~\E q \in Producers \ {p} : at[q].step = "put"
      <3>1. new'.msg = at'[p].msg
        BY <2>1, <2>2, <2>5, <2>7 DEF Written
      <3>2. \A q \in Producers : at'[q].step = "put" => q = p
        BY <2>2, <2>7
      <3>3. \A q \in Producers : at'[q].step = "put" =>
               new'.msg = at'[q].msg \/ (new'.msg \in clashed' /\ at'[q].msg \in clashed')
        BY <3>1, <3>2
      <3>4. new_job_sem' \in {0, 1}
        BY <2>1 DEF JobsInductive, JobTypes
      <3> QED
        BY <1>1, <1>2, <1>3, <2>2, <2>3, <3>3, <3>4, JobsMoved
    <2> QED
      BY <2>6, <2>7
  <1> QED
    BY <1>4, <1>5

\* The queue stays full: the producer returns
LEMMA JobsPutTimesOut ==
    ASSUME JobsInductive, NEW p \in Producers, PutTimesOut(p)
    PROVE  JobsInductive'
PROOF
  <1>1. /\ at[p].step = "put" /\ Prepares(p) /\ Returns(p) /\ at[p].step # "idle"
        /\ UNCHANGED <<new, process_queue, sent, queued, accepted, ran, broken, clashed>>
    BY DEF PutTimesOut, history, Prepares
  <1>2. /\ at' \in [Producers -> [step : Steps, msg : Nat]]
        /\ at'[p].step = "idle"
        /\ \A q \in Producers : q # p => at'[q] = at[q]
        /\ new_job_sem' = 1
        /\ OneProducer'
    BY <1>1, JobsReturns
  <1>3. Told' /\ clashed' \subseteq 1..Len(sent) /\ clashed \subseteq clashed'
    BY <1>1 DEF JobsInductive, Ordered, Told, OwnMessage
  <1>4. \A q \in Producers : at'[q].step = "put" =>
           new'.msg = at'[q].msg \/ (new'.msg \in clashed' /\ at'[q].msg \in clashed')
    BY <1>1, <1>2 DEF JobsInductive, Ordered, OwnMessage
  <1>5. new_job_sem' \in {0, 1} /\ broken' \in BOOLEAN
    BY <1>1, <1>2 DEF JobsInductive, JobTypes
  <1> QED
    BY <1>1, <1>2, <1>3, <1>4, <1>5, JobsMoved

\* k_msgq_put: the message of the producer is queued behind the older ones, or
\* one that clashed
LEMMA JobsPuts ==
    ASSUME JobsInductive, NEW p \in Producers, Puts(p)
    PROVE  JobsInductive'
PROOF
  <1>1. /\ at[p].step = "put" /\ Prepares(p) /\ Returns(p)
        /\ UNCHANGED <<new, sent, ran, broken, clashed>>
        /\ process_queue' = Append(process_queue, new)
        /\ queued' = queued \cup {new.msg} /\ accepted' = accepted \cup {at[p].msg}
    BY DEF Puts, history, Prepares
  <1>2. /\ at' \in [Producers -> [step : Steps, msg : Nat]]
        /\ at'[p].step = "idle"
        /\ \A q \in Producers : q # p => at'[q] = at[q]
        /\ new_job_sem' = 1
        /\ OneProducer'
    BY <1>1, JobsReturns
  <1>3. /\ IsSeq(process_queue') /\ Len(process_queue) \in Nat
        /\ Len(process_queue') = Len(process_queue) + 1
        /\ \A i \in 1..Len(process_queue) : process_queue'[i] = process_queue[i]
        /\ process_queue'[Len(process_queue) + 1] = new
    BY <1>1, Appended DEF JobsInductive, JobTypes
  <1>4. JobTypes'
    BY <1>1, <1>2, <1>3 DEF JobsInductive, JobTypes
  <1>5. Ordered'
    <2>1. Ordered
      BY DEF JobsInductive
    <2>2. /\ at[p].msg \in 1..Len(sent) /\ sent[at[p].msg].from = p
          /\ new.msg = at[p].msg \/ (new.msg \in clashed /\ at[p].msg \in clashed)
          /\ new.msg \in 1..Len(sent)
      BY <1>1, <2>1 DEF Ordered, OwnMessage
    <2>3. Told'
      BY <1>1, <2>1, <2>2 DEF Ordered, Told
    <2>4. OwnMessage'
      BY <1>1, <1>2, <2>1 DEF Ordered, OwnMessage
    <2>5. JobsWereSent'
      BY <1>1, <1>3, <2>1, <2>2 DEF Ordered, JobsWereSent
    <2>6. InOrder'
      <3>1. \A m, n : Before(m, n)' <=> Before(m, n)
        BY <1>1 DEF Before
      <3>2. /\ \A i \in 1..Len(ran) : Before(ran[i].msg, new.msg)
            /\ \A i \in 1..Len(process_queue) : Before(process_queue[i].msg, new.msg)
        <4>1. CASE new.msg = at[p].msg
          BY <1>1, <2>1, <4>1 DEF Ordered, InOrder
        <4>2. CASE new.msg \in clashed
          BY <4>2 DEF Before
        <4> QED
          BY <2>2, <4>1, <4>2
      <3>3. \A i, j \in 1..Len(process_queue') :
               i < j => Before(process_queue'[i].msg, process_queue'[j].msg)
        BY <1>3, <2>1, <3>2 DEF Ordered, InOrder
      <3>4. \A i \in 1..Len(ran), j \in 1..Len(process_queue') :
               Before(ran[i].msg, process_queue'[j].msg)
        BY <1>3, <2>1, <3>2 DEF Ordered, InOrder
      <3>5. \A q \in Producers : at'[q].step # "idle" =>
               q # p /\ at'[q] = at[q] /\ sent[at[q].msg].from = q
        BY <1>2, <2>1 DEF Ordered, OwnMessage
      <3>6. \A q \in Producers : at'[q].step # "idle" =>
               \A i \in 1..Len(process_queue') : Before(process_queue'[i].msg, at'[q].msg)
        <4> SUFFICES ASSUME NEW q \in Producers, at'[q].step # "idle",
                            NEW i \in 1..Len(process_queue')
                     PROVE  Before(process_queue'[i].msg, at'[q].msg)
          OBVIOUS
        <4>1. CASE i = Len(process_queue) + 1
          BY <4>1, <1>3, <2>2, <3>5 DEF Before
        <4>2. CASE i # Len(process_queue) + 1
          BY <4>2, <1>3, <2>1, <3>5 DEF Ordered, InOrder
        <4> QED
          BY <4>1, <4>2
      <3>7. \A q \in Producers : at'[q].step # "idle" =>
               \A i \in 1..Len(ran) : Before(ran[i].msg, at'[q].msg)
        BY <2>1, <3>5 DEF Ordered, InOrder
      <3> QED
        BY <1>1, <2>1, <3>1, <3>3, <3>4, <3>6, <3>7 DEF Ordered, InOrder
    <2> QED
      BY <1>2, <2>3, <2>4, <2>5, <2>6 DEF Ordered
  <1> QED
    BY <1>4, <1>5 DEF JobsInductive

\* The oldest job of the queue becomes the last one that was executed
LEMMA TakenInOrder ==
    ASSUME Ordered, NEW e,
           Len(ran) \in Nat, Len(process_queue) \in Nat \ {0},
           e.msg = process_queue[1].msg,
           Len(ran') = Len(ran) + 1,
           \A i \in 1..Len(ran) : ran'[i] = ran[i],
           ran'[Len(ran) + 1] = e,
           \A i \in 1..Len(process_queue') :
              i + 1 \in 1..Len(process_queue) /\ process_queue'[i] = process_queue[i + 1],
           \A p \in Producers : at'[p].step # "idle" => at'[p] = at[p],
           Len(process_queue') \in Nat, sent' = sent, clashed' = clashed
    PROVE  JobsWereSent' /\ InOrder'
PROOF
  <1>1. 1 \in 1..Len(process_queue)
    OBVIOUS
  <1>2. \A i \in 1..Len(ran') : \/ i \in 1..Len(ran) /\ ran'[i] = ran[i]
                                \/ i = Len(ran) + 1 /\ ran'[i] = e
    OBVIOUS
  <1>3. JobsWereSent'
    <2>1. e.msg \in 1..Len(sent)
      BY <1>1 DEF Ordered, JobsWereSent
    <2>2. \A i \in 1..Len(ran') : ran'[i].msg \in 1..Len(sent)
      BY <1>2, <2>1 DEF Ordered, JobsWereSent
    <2>3. \A i \in 1..Len(process_queue') : process_queue'[i].msg \in 1..Len(sent)
      BY DEF Ordered, JobsWereSent
    <2> QED
      BY <2>2, <2>3 DEF JobsWereSent
  <1>4. \A m, n : Before(m, n)' <=> Before(m, n)
    BY DEF Before
  <1>5. \A i \in 1..Len(ran) : Before(ran[i].msg, e.msg)
    BY <1>1 DEF Ordered, InOrder
  <1>6. \A i \in 1..Len(process_queue') : Before(e.msg, process_queue'[i].msg)
    <2> SUFFICES ASSUME NEW i \in 1..Len(process_queue')
                 PROVE  Before(e.msg, process_queue'[i].msg)
      OBVIOUS
    <2>1. i + 1 \in 1..Len(process_queue) /\ 1 < i + 1
      OBVIOUS
    <2> QED
      BY <1>1, <2>1 DEF Ordered, InOrder
  <1>7. \A i, j \in 1..Len(ran') : i < j => Before(ran'[i].msg, ran'[j].msg)
    BY <1>2, <1>5 DEF Ordered, InOrder
  <1>8. \A i, j \in 1..Len(process_queue') :
           i < j => Before(process_queue'[i].msg, process_queue'[j].msg)
    <2> SUFFICES ASSUME NEW i \in 1..Len(process_queue'), NEW j \in 1..Len(process_queue'),
                        i < j
                 PROVE  Before(process_queue'[i].msg, process_queue'[j].msg)
      OBVIOUS
    <2>1. i + 1 < j + 1
      OBVIOUS
    <2> QED
      BY <2>1 DEF Ordered, InOrder
  <1>9. \A i \in 1..Len(ran'), j \in 1..Len(process_queue') :
           Before(ran'[i].msg, process_queue'[j].msg)
    BY <1>2, <1>6 DEF Ordered, InOrder
  <1>10. \A p \in Producers : at'[p].step # "idle" =>
           /\ \A i \in 1..Len(ran') : Before(ran'[i].msg, at'[p].msg)
           /\ \A i \in 1..Len(process_queue') : Before(process_queue'[i].msg, at'[p].msg)
    <2> SUFFICES ASSUME NEW p \in Producers, at'[p].step # "idle"
                 PROVE  /\ \A i \in 1..Len(ran') : Before(ran'[i].msg, at'[p].msg)
                        /\ \A i \in 1..Len(process_queue') :
                              Before(process_queue'[i].msg, at'[p].msg)
      OBVIOUS
    <2>1. at'[p] = at[p]
      OBVIOUS
    <2>2. /\ \A i \in 1..Len(ran) : Before(ran[i].msg, at'[p].msg)
          /\ \A i \in 1..Len(process_queue) : Before(process_queue[i].msg, at'[p].msg)
      BY <2>1 DEF Ordered, InOrder
    <2>3. Before(e.msg, at'[p].msg)
      BY <1>1, <2>2
    <2>4. \A i \in 1..Len(ran') : Before(ran'[i].msg, at'[p].msg)
      BY <1>2, <2>2, <2>3
    <2>5. \A i \in 1..Len(process_queue') : Before(process_queue'[i].msg, at'[p].msg)
      BY <2>2
    <2> QED
      BY <2>4, <2>5
  <1> QED
    BY <1>3, <1>4, <1>7, <1>8, <1>9, <1>10 DEF InOrder

\* The runner takes the oldest job of the queue; the step leaves no producer
\* that it found idle busy
LEMMA JobsExecuted ==
    ASSUME JobsInductive, process_queue # <<>>,
           NEW e, e.msg = Head(process_queue).msg, ran' = Append(ran, e),
           \/ process_queue' = Tail(process_queue) /\ UNCHANGED <<at, new, new_job_sem>>
           \/ process_queue' = <<>> /\ new_job_sem' = 1 /\ at' = [p \in Producers |-> Nobody],
           UNCHANGED <<sent, queued, accepted, broken, clashed>>
    PROVE  JobsInductive'
PROOF
  <1>1. /\ IsSeq(ran') /\ Len(ran) \in Nat /\ Len(ran') = Len(ran) + 1
        /\ \A i \in 1..Len(ran) : ran'[i] = ran[i]
        /\ ran'[Len(ran) + 1] = e
    BY Appended DEF JobsInductive, JobTypes
  <1>2. /\ Len(process_queue) \in Nat \ {0}
        /\ Head(process_queue) = process_queue[1]
        /\ IsSeq(process_queue')
    BY Tailed, EmptyIsSeq DEF JobsInductive, JobTypes
  <1>3. /\ Len(process_queue') \in 0..(Len(process_queue) - 1)
        /\ \A i \in 1..Len(process_queue') :
              i + 1 \in 1..Len(process_queue) /\ process_queue'[i] = process_queue[i + 1]
    BY Tailed, EmptyIsSeq, <1>2, SMTT(30) DEF JobsInductive, JobTypes
  <1>4. /\ at' \in [Producers -> [step : Steps, msg : Nat]]
        /\ new_job_sem' \in {0, 1}
        /\ \/ UNCHANGED <<at, new, new_job_sem>>
           \/ \A p \in Producers : at'[p].step = "idle"
    BY DEF JobsInductive, JobTypes, Nobody, Steps
  <1>5. JobTypes'
    BY <1>1, <1>2, <1>4 DEF JobsInductive, JobTypes
  <1>6. Ordered'
    <2>1. Ordered
      BY DEF JobsInductive
    <2>2. OneProducer' /\ Told'
      BY <1>4, <2>1 DEF Ordered, OneProducer, Prepares, Told
    <2>3. OwnMessage'
      BY <1>4, <2>1 DEF Ordered, OwnMessage
    <2>4. e.msg = process_queue[1].msg
      BY <1>2
    <2>5. Len(process_queue') \in Nat
      BY <1>2, <1>3
    <2>6. \A p \in Producers : at'[p].step # "idle" => at'[p] = at[p]
      BY <1>4
    <2>7. JobsWereSent' /\ InOrder'
      BY <1>1, <1>2, <1>3, <2>1, <2>4, <2>5, <2>6, TakenInOrder
    <2> QED
      BY <2>2, <2>3, <2>7 DEF Ordered
  <1> QED
    BY <1>5, <1>6 DEF JobsInductive

\* Every step keeps the order
LEMMA JobsStep ==
    ASSUME JobsInductive, [Next]_vars
    PROVE  JobsInductive'
PROOF
  <1>1. CASE runner_init \/ DfuAnswers \/ Done \/ UNCHANGED vars
    <2>1. CASE DfuAnswers
      <3>1. UNCHANGED otherVars
        BY <2>1 DEF DfuAnswers, DfuGives, DfuCalls, DfuReadsRemote, DfuReadsNumber,
                    DfuPublishes
      <3>2. UNCHANGED jobVars
        BY <3>1 DEF otherVars, jobVars, statics, history
      <3> QED
        BY <3>2, JobsUnchanged
    <2>2. CASE ~DfuAnswers
      <3>1. UNCHANGED jobVars
        BY <1>1, <2>2 DEF runner_init, Done, vars, jobVars, statics, history
      <3> QED
        BY <3>1, JobsUnchanged
    <2> QED
      BY <2>1, <2>2
  <1>2. ASSUME NEW p \in Producers, Receives(p)
        PROVE  JobsInductive'
    <2>1. PICK k \in Kinds[p] : \E d \in Destinations(p) :
             sent' = Append(sent, [from |-> p, kind |-> k, dest |-> d, payload |-> "any"])
      BY <1>2 DEF Receives
    <2>2. PICK d \in Destinations(p) :
             sent' = Append(sent, [from |-> p, kind |-> k, dest |-> d, payload |-> "any"])
      BY <2>1
    <2>3. /\ at[p] = Nobody
          /\ UNCHANGED <<new_job_sem, new, process_queue, queued, accepted, ran, broken,
                         clashed>>
      BY <1>2 DEF Receives, statics
    <2>4. [from |-> p, kind |-> k, dest |-> d, payload |-> "any"].from = p
      OBVIOUS
    <2>5. \E go \in BOOLEAN :
             at' = [at EXCEPT ![p] = IF go THEN [step |-> "take", msg |-> Len(sent) + 1]
                                           ELSE Nobody]
      BY <1>2 DEF Receives
    <2> QED
      BY <2>2, <2>3, <2>4, <2>5, JobsReceived
  <1>3. CASE CanReceives \/ IsoTpReceives \/ UartReceives
    BY <1>2, <1>3 DEF CanReceives, IsoTpReceives, UartReceives, Producers
  <1>4. ASSUME NEW jobs, CliCalls(jobs)
        PROVE  JobsInductive'
    <2> DEFINE e == [from |-> "cli", kind |-> "jetson", dest |-> 0, payload |-> Head(jobs)]
    <2>1. /\ at["cli"] = Nobody /\ sent' = Append(sent, e) /\ e.from = "cli"
          /\ at' = [at EXCEPT !["cli"] = IF TRUE THEN [step |-> "take", msg |-> Len(sent) + 1]
                                                 ELSE Nobody]
          /\ UNCHANGED <<new_job_sem, new, process_queue, queued, accepted, ran, broken,
                         clashed>>
      BY <1>4 DEF CliCalls, statics
    <2> HIDE DEF e
    <2> QED
      BY <2>1, JobsReceived DEF Producers
  <1>5. ASSUME NEW p \in Producers, Produce(p)
        PROVE  JobsInductive'
    BY <1>5, JobsTakesSem, JobsSemTimesOut, JobsDecodes, JobsPuts, JobsPutTimesOut DEF Produce
  <1>6. CASE RunnerExecutes
    <2>1. PICK payload : ran' = Append(ran, [msg |-> Head(process_queue).msg, way |-> Way(payload)])
      BY <1>6 DEF RunnerExecutes
    <2>2. /\ process_queue # <<>> /\ process_queue' = Tail(process_queue)
          /\ UNCHANGED <<at, new, new_job_sem, sent, queued, accepted, broken, clashed>>
      BY <1>6 DEF RunnerExecutes, Takes, statics, history
    <2>3. [msg |-> Head(process_queue).msg, way |-> Way(payload)].msg = Head(process_queue).msg
      OBVIOUS
    <2> QED
      BY <2>1, <2>2, <2>3, JobsExecuted
  <1>7. CASE FatalTest
    <2>1. ran' = Append(ran, [msg |-> Head(process_queue).msg, way |-> Way("diag_test")])
      BY <1>7 DEF FatalTest
    <2>2. /\ process_queue # <<>> /\ process_queue' = <<>>
          /\ new_job_sem' = 1 /\ at' = [p \in Producers |-> Nobody]
          /\ UNCHANGED <<sent, queued, accepted, broken, clashed>>
      BY <1>7 DEF FatalTest
    <2>3. [msg |-> Head(process_queue).msg, way |-> Way("diag_test")].msg
             = Head(process_queue).msg
      OBVIOUS
    <2> QED
      BY <2>1, <2>2, <2>3, JobsExecuted
  <1> QED
    BY <1>1, <1>3, <1>4, <1>5, <1>6, <1>7 DEF Next, CliEnters, CliGoesOn

\* At reset nothing is queued and nobody prepares a job
LEMMA JobsAtReset == Init => JobsInductive
PROOF
  <1> SUFFICES ASSUME Init
               PROVE  JobsInductive
    OBVIOUS
  <1>1. \A p \in Producers : at[p] = Nobody /\ at[p].step = "idle" /\ ~Prepares(p)
    BY DEF Init, Nobody, Prepares
  <1>2. Len(sent) = 0 /\ Len(ran) = 0 /\ Len(process_queue) = 0 /\ 1..0 = {}
    BY EmptyIsSeq DEF Init
  <1>3. /\ clashed = {} /\ queued = {} /\ accepted = {} /\ broken = FALSE
        /\ new_job_sem = 1
    BY DEF Init
  <1>4. JobTypes
    <2>1. IsSeq(sent) /\ IsSeq(process_queue) /\ IsSeq(ran)
      BY EmptyIsSeq DEF Init
    <2>2. at \in [Producers -> [step : Steps, msg : Nat]]
      BY DEF Init, Nobody, Steps
    <2> QED
      BY <1>3, <2>1, <2>2 DEF JobTypes
  <1>5. Told
    BY <1>2, <1>3 DEF Told
  <1>6. OneProducer /\ OwnMessage
    BY <1>1, <1>2, <1>3 DEF OneProducer, OwnMessage
  <1>7. JobsWereSent /\ InOrder
    BY <1>1, <1>2 DEF JobsWereSent, InOrder
  <1> QED
    BY <1>4, <1>5, <1>6, <1>7 DEF JobsInductive, Ordered

\* Jobs are prepared one at a time unless the shell broke the semaphore. Of the
\* others, a message was queued if its producer returned RET_SUCCESS, but for a
\* job of the shell that timed out, and the jobs of one source are executed in
\* the order they arrived and none of them twice.
THEOREM InArrivalOrder == Spec => []JobsRunInOrder
PROOF
  <1>1. JobsInductive => JobsRunInOrder
    <2> SUFFICES ASSUME JobsInductive
                 PROVE  JobsRunInOrder
      OBVIOUS
    <2>1. Ordered /\ broken \in BOOLEAN
      BY DEF JobsInductive, JobTypes
    <2>2. clashed # {} => broken
      BY <2>1 DEF Ordered, OneProducer
    <2>3. \A m \in (queued \ accepted) \cup (accepted \ queued) :
             \/ m \in clashed
             \/ m \notin queued /\ broken /\ sent[m].from = "cli"
      BY <2>1 DEF Ordered, Told
    <2>4. \A i, j \in 1..Len(ran) :
             i < j /\ sent[ran[i].msg].from = sent[ran[j].msg].from
                => ran[i].msg < ran[j].msg \/ {ran[i].msg, ran[j].msg} \cap clashed # {}
      BY <2>1 DEF Ordered, InOrder, Before
    <2> QED
      BY <2>2, <2>3, <2>4 DEF JobsRunInOrder
  <1> QED
    BY <1>1, JobsAtReset, JobsStep, PTL DEF Spec
-----------------------------------------------------------------------------
(* Acknowledgements *)

\* The reply to an ISO-TP address goes to the application it names
LEMMA ReplySwaps ==
    ASSUME NEW a \in 8..15
    PROVE  /\ ReplyAddress(StdIdDestination(a, LocalId)) = StdIdDestination(LocalId, a)
           /\ StdIdDestination(LocalId, a) % 16 = a
           /\ StdIdDestination(LocalId, a) \in Nat
PROOF
  <1> DEFINE dest == 769 + 16 * a
  <1>1. StdIdDestination(a, LocalId) = dest /\ StdIdDestination(LocalId, a) = 784 + a
    BY DEF StdIdDestination, LocalId
  <1>2. dest \div 256 = 3
    OBVIOUS
  <1>3. dest % 16 = 1
    OBVIOUS
  <1>4. (dest \div 16) % 16 = a
    <2>1. dest \div 16 = 48 + a
      OBVIOUS
    <2> QED
      BY <2>1
  <1>5. (784 + a) % 16 = a
    OBVIOUS
  <1>6. 3 % 2 = 1
    OBVIOUS
  <1>7. IsIsoTp(dest)
    BY <1>2, <1>6 DEF IsIsoTp
  <1> HIDE DEF dest
  <1>8. ReplyAddress(dest) = 3 * 256 + 1 * 16 + a
    BY <1>2, <1>3, <1>4, <1>7 DEF ReplyAddress
  <1> QED
    BY <1>1, <1>5, <1>8

\* A reply goes where the sender listens
LEMMA ReplyIsOwn ==
    ASSUME SentTypes, NEW m \in 1..Len(sent)
    PROVE  ReplyAddress(sent[m].dest) = Listens(m)
PROOF
  <1>1. CASE sent[m].from = "isotp"
    <2>1. PICK a \in Apps : sent[m].dest = StdIdDestination(a, LocalId)
      BY <1>1 DEF SentTypes
    <2> DEFINE Mine(x) == sent[m].dest = StdIdDestination(x % 16, LocalId)
               All == {StdIdDestination(LocalId, b) : b \in Apps}
    <2>2. a \in 8..15 /\ Apps \subseteq 8..15
      BY RunnerAssumption
    <2>3. Mine(StdIdDestination(LocalId, a)) /\ StdIdDestination(LocalId, a) \in All
      BY <2>1, <2>2, ReplySwaps
    <2>4. \A x \in All : Mine(x) => x = StdIdDestination(LocalId, a)
      <3> SUFFICES ASSUME NEW b \in Apps, Mine(StdIdDestination(LocalId, b))
                   PROVE  b = a
        OBVIOUS
      <3>1. StdIdDestination(b, LocalId) = StdIdDestination(a, LocalId)
        BY <2>1, <2>2, ReplySwaps
      <3> QED
        BY <2>2, <3>1 DEF StdIdDestination, LocalId
    <2>5. Listens(m) = CHOOSE x \in All : Mine(x)
      BY <1>1 DEF Listens
    <2> HIDE DEF Mine, All
    <2>6. Listens(m) = StdIdDestination(LocalId, a)
      BY <2>3, <2>4, <2>5
    <2> QED
      BY <2>1, <2>2, <2>6, ReplySwaps
  <1>2. CASE sent[m].from # "isotp"
    <2>1. sent[m].dest = 0
      BY <1>2 DEF SentTypes
    <2> QED
      BY <1>2, <2>1 DEF Listens, ReplyAddress, IsIsoTp
  <1> QED
    BY <1>1, <1>2

\* A handler that gives one answer
OneAnswer(handler) == \A codes \in handler : Len(codes) = 1

\* A switch over the result gives one answer
LEMMA SwitchAnswersOnce ==
    ASSUME NEW rets, NEW table
    PROVE  OneAnswer(Switch(rets, table))
PROOF
  BY DEF OneAnswer, Switch

\* The plain answers are one answer
LEMMA PlainAnswersOnce ==
    /\ OneAnswer(Success) /\ OneAnswer(Failure) /\ OneAnswer(SuccessOrFail)
    /\ OneAnswer(Unsupported) /\ OneAnswer(OutOfRange)
    /\ \A A, B : OneAnswer(A) /\ OneAnswer(B) => OneAnswer(A \cup B)
    /\ \A c : OneAnswer({<<c>>})
    /\ \A c, d : OneAnswer({<<c>>, <<d>>})
PROOF
  BY DEF OneAnswer, Success, Failure, SuccessOrFail, Unsupported, OutOfRange
\* Every handler but that of reboot_orb gives one answer
LEMMA HandlersAnswerOnce ==
    ASSUME NEW payload, payload # "reboot_orb"
    PROVE  OneAnswer(Answers(payload))
PROOF
  <1>1. /\ OneAnswer(handle_dfu_block_message) /\ OneAnswer(handle_focus_sweep_polynomial)
        /\ OneAnswer(handle_focus_sweep_values) /\ OneAnswer(handle_fps)
        /\ OneAnswer(handle_infrared_leds_message) /\ OneAnswer(handle_led_on_time_message)
        /\ OneAnswer(handle_mirror_sweep_polynomial) /\ OneAnswer(handle_power_cycle)
        /\ OneAnswer(handle_set_time) /\ OneAnswer(handle_triggering_ir_eye_camera)
    BY SwitchAnswersOnce, Zenon
       DEF handle_dfu_block_message, handle_focus_sweep_polynomial,
           handle_focus_sweep_values, handle_fps, handle_infrared_leds_message,
           handle_led_on_time_message, handle_mirror_sweep_polynomial, handle_power_cycle,
           handle_set_time, handle_triggering_ir_eye_camera
  <1>2. OneAnswer(PerformSweep)
    BY SwitchAnswersOnce, Zenon DEF PerformSweep
  <1>3. OneAnswer(handle_perform_focus_sweep) /\ OneAnswer(handle_perform_mirror_sweep)
    BY <1>2 DEF handle_perform_focus_sweep, handle_perform_mirror_sweep
  <1>4. /\ OneAnswer(handle_boot_complete) /\ OneAnswer(handle_distributor_leds_brightness)
        /\ OneAnswer(handle_distributor_leds_pattern) /\ OneAnswer(handle_distributor_leds_sequence)
        /\ OneAnswer(handle_fw_img_sec_activate) /\ OneAnswer(handle_heartbeat)
        /\ OneAnswer(handle_liquid_lens) /\ OneAnswer(handle_reboot_message)
        /\ OneAnswer(handle_set_config) /\ OneAnswer(handle_shutdown)
        /\ OneAnswer(handle_sync_diag_data) /\ OneAnswer(handle_temperature_sample_period_message)
        /\ OneAnswer(handle_triggering_other_camera) /\ OneAnswer(handle_user_center_leds_sequence)
        /\ OneAnswer(handle_user_leds_brightness) /\ OneAnswer(handle_user_leds_pattern)
        /\ OneAnswer(handle_user_ring_leds_sequence) /\ OneAnswer(handle_value_get_message)
        /\ OneAnswer(handle_voltage_request)
    BY PlainAnswersOnce, Zenon
       DEF handle_boot_complete, handle_distributor_leds_brightness,
           handle_distributor_leds_pattern, handle_distributor_leds_sequence,
           handle_fw_img_sec_activate, handle_heartbeat, handle_liquid_lens,
           handle_reboot_message, handle_set_config, handle_shutdown, handle_sync_diag_data,
           handle_temperature_sample_period_message, handle_triggering_other_camera,
           handle_user_center_leds_sequence, handle_user_leds_brightness,
           handle_user_leds_pattern, handle_user_ring_leds_sequence,
           handle_value_get_message, handle_voltage_request
  <1>5. OneAnswer(handle_cone_leds_pattern)
    BY PlainAnswersOnce, SwitchAnswersOnce, RunnerAssumption, Zenon DEF handle_cone_leds_pattern
  <1>6. OneAnswer(handle_cone_leds_sequence)
    BY PlainAnswersOnce, SwitchAnswersOnce, RunnerAssumption, Zenon DEF handle_cone_leds_sequence
  <1>7. OneAnswer(handle_diag_test_data)
    BY PlainAnswersOnce, SwitchAnswersOnce, RunnerAssumption, Zenon DEF handle_diag_test_data
  <1>8. OneAnswer(handle_do_mirror_homing)
    BY PlainAnswersOnce, SwitchAnswersOnce, RunnerAssumption, Zenon DEF handle_do_mirror_homing
  <1>9. OneAnswer(handle_fan_speed)
    BY PlainAnswersOnce, SwitchAnswersOnce, RunnerAssumption, Zenon DEF handle_fan_speed
  <1>10. OneAnswer(handle_fw_img_crc)
    BY PlainAnswersOnce, SwitchAnswersOnce, RunnerAssumption, Zenon DEF handle_fw_img_crc
  <1>11. OneAnswer(handle_fw_img_primary_confirm)
    BY PlainAnswersOnce, SwitchAnswersOnce, RunnerAssumption, Zenon DEF handle_fw_img_primary_confirm
  <1>12. OneAnswer(handle_mirror_angle_message)
    BY PlainAnswersOnce, SwitchAnswersOnce, RunnerAssumption, Zenon DEF handle_mirror_angle_message
  <1>13. OneAnswer(handle_mirror_angle_relative_message)
    BY PlainAnswersOnce, SwitchAnswersOnce, RunnerAssumption, Zenon DEF handle_mirror_angle_relative_message
  <1>14. OneAnswer(handle_polarizer)
    BY PlainAnswersOnce, SwitchAnswersOnce, RunnerAssumption, Zenon DEF handle_polarizer
  <1>15. OneAnswer(handle_polarizer_wheel_settings)
    BY PlainAnswersOnce, SwitchAnswersOnce, RunnerAssumption, Zenon DEF handle_polarizer_wheel_settings
  <1>16. OneAnswer(handle_white_leds_brightness)
    BY PlainAnswersOnce, SwitchAnswersOnce, RunnerAssumption, Zenon DEF handle_white_leds_brightness
  <1>17. CASE payload \in DOMAIN Handlers
    <2> HIDE DEF OneAnswer
    <2>1. Answers(payload) = Handlers[payload]
      BY <1>17 DEF Answers
    <2>2. OneAnswer(Handlers[payload])
      BY <1>1, <1>2, <1>3, <1>4, <1>5, <1>6, <1>7, <1>8, <1>9, <1>10, <1>11, <1>12, <1>13, <1>14, <1>15, <1>16, <1>17
         DEF Handlers
    <2> QED
      BY <2>1, <2>2
  <1>18. CASE payload \notin DOMAIN Handlers
    BY <1>18, PlainAnswersOnce DEF Answers
  <1> QED
    BY <1>17, <1>18
\* The acknowledgements that are published carry their number and their address;
\* one answer makes one at most
LEMMA PublishedAcks ==
    ASSUME NEW addr, NEW num, NEW n, NEW torn, Publishes(addr, num, n, torn)
    PROVE  \E N : /\ acks' = acks \cup N
                  /\ \A a \in N : a.num = num /\ a.addr = addr /\ a.torn = torn
                  /\ n = 1 => \A a, b \in N : a = b
PROOF
  <1> DEFINE Nth(i) == Cardinality({a \in acks : a.num = num}) + i
             All(h) == {[addr |-> addr, num |-> num, nth |-> Nth(i), torn |-> torn] : i \in 1..h}
  <1>1. PICK heard \in 0..n : acks' = acks \cup All(heard)
    BY DEF Publishes
  <1> HIDE DEF Nth
  <1>2. \A a \in All(heard) : a.num = num /\ a.addr = addr /\ a.torn = torn
    OBVIOUS
  <1>3. n = 1 => heard \in {0, 1}
    OBVIOUS
  <1>4. n = 1 => \A a, b \in All(heard) : a = b
    BY <1>3
  <1> HIDE DEF All
  <1> QED
    BY <1>1, <1>2, <1>4

\* What handlers and the callback publish, if anything
LEMMA JobAcks ==
    ASSUME NEW job, NEW n,
           IF job.remote = "jetson" THEN Publishes(job.addr, job.num, n, FALSE)
                                    ELSE UNCHANGED <<acks, unheard>>
    PROVE  \E N : /\ acks' = acks \cup N
                  /\ \A a \in N : /\ job.remote = "jetson"
                                  /\ a.num = job.num /\ a.addr = job.addr /\ a.torn = FALSE
                  /\ n = 1 => \A a, b \in N : a = b
PROOF
  <1>1. CASE job.remote = "jetson"
    <2> DEFINE addr == job.addr
               num == job.num
               torn == FALSE
    <2>1. Publishes(addr, num, n, torn)
      BY <1>1
    <2> HIDE DEF addr, num, torn
    <2>2. PICK N : /\ acks' = acks \cup N
                   /\ \A a \in N : a.num = num /\ a.addr = addr /\ a.torn = torn
                   /\ n = 1 => \A a, b \in N : a = b
      BY <2>1, PublishedAcks
    <2>3. \A a \in N : /\ job.remote = "jetson"
                     /\ a.num = job.num /\ a.addr = job.addr /\ a.torn = FALSE
      BY <1>1, <2>2 DEF addr, num, torn
    <2> QED
      BY <2>2, <2>3
  <1>2. CASE job.remote # "jetson"
    <2> DEFINE none == {}
    <2>1. acks' = acks \cup none
      BY <1>2
    <2>2. \A a \in none : FALSE
      OBVIOUS
    <2> HIDE DEF none
    <2> QED
      BY <2>1, <2>2
  <1> QED
    BY <1>1, <1>2

\* A step that leaves executions and acknowledgements alone
LEMMA AcksKept ==
    ASSUME AcksInductive, JobsInductive',
           UNCHANGED <<sent, ran, acks, context, dfu>>,
           broken' = FALSE => broken = FALSE,
           broken' = FALSE => JobsAnswerOwn'
    PROVE  AcksInductive'
PROOF
  <1>1. AckTypes' /\ SentTypes' /\ RanWays'
    BY DEF AcksInductive, AckTypes, DfuTypes, SentTypes, RanWays, dfu
  <1>2. ASSUME broken' = FALSE
        PROVE  Answered'
    <2>1. Answered
      BY <1>2 DEF AcksInductive
    <2>2. ContextsOfExecuted'
      BY <2>1 DEF Answered, ContextsOfExecuted, AnswersOwn, RanWith
    <2>3. AnswerOfExecuted'
      BY <2>1 DEF Answered, AnswerOfExecuted, FirmwareNumber, RanWith, dfu
    <2>4. AcksOfExecuted' /\ AnsweredOnce'
      BY <2>1 DEF Answered, AcksOfExecuted, AnsweredOnce, OfExecuted, FirmwareNumber, RanWith
    <2> QED
      BY <1>2, <2>2, <2>3, <2>4 DEF Answered
  <1> QED
    BY <1>1, <1>2 DEF AcksInductive

\* A new message changes nothing about the older ones
LEMMA AcksReceived ==
    ASSUME AcksInductive, JobsInductive', NEW p \in Producers, at[p] = Nobody,
           NEW e, sent' = Append(sent, e),
           IF e.from = "isotp" THEN e.dest \in {StdIdDestination(a, LocalId) : a \in Apps}
                               ELSE e.dest = 0,
           \A q \in Producers : at'[q].step = "put" => at[q].step = "put",
           UNCHANGED <<new, process_queue, ran, acks, context, dfu, broken, clashed>>
    PROVE  AcksInductive'
PROOF
  <1>1. /\ Len(sent) \in Nat /\ Len(sent') = Len(sent) + 1
        /\ \A i \in 1..Len(sent) : sent'[i] = sent[i]
        /\ sent'[Len(sent) + 1] = e
    BY Appended DEF AcksInductive, JobsInductive, JobTypes
  <1>2. AckTypes' /\ RanWays'
    BY DEF AcksInductive, AckTypes, DfuTypes, RanWays, dfu
  <1>3. SentTypes'
    BY <1>1 DEF AcksInductive, SentTypes
  <1>4. ASSUME broken' = FALSE
        PROVE  Answered'
    <2>1. Answered /\ Ordered /\ clashed = {}
      BY <1>4 DEF AcksInductive, JobsInductive, Ordered, OneProducer
    <2>2. \A job : job.msg \in 1..Len(sent) /\ AnswersOwn(job) => AnswersOwn(job)'
      BY <1>1 DEF AnswersOwn
    <2>3. JobsAnswerOwn'
      <3>1. \A q \in Producers : at'[q].step = "put" => AnswersOwn(new)'
        BY <2>1, <2>2 DEF Answered, Ordered, OwnMessage, JobsAnswerOwn
      <3>2. \A i \in 1..Len(process_queue) : AnswersOwn(process_queue[i])'
        BY <2>1, <2>2 DEF Answered, Ordered, JobsWereSent, JobsAnswerOwn
      <3> QED
        BY <3>1, <3>2 DEF JobsAnswerOwn
    <2>4. ContextsOfExecuted'
      BY <1>1, <2>1 DEF Answered, ContextsOfExecuted, RanWith, AnswersOwn
    <2>5. AnswerOfExecuted'
      BY <2>1 DEF Answered, AnswerOfExecuted, FirmwareNumber, RanWith, dfu
    <2>6. AcksOfExecuted'
      BY <1>1, <2>1 DEF Answered, AcksOfExecuted, OfExecuted, FirmwareNumber, RanWith
    <2>7. AnsweredOnce'
      BY <2>1 DEF Answered, AnsweredOnce, RanWith
    <2> QED
      BY <2>3, <2>4, <2>5, <2>6, <2>7 DEF Answered
  <1> QED
    BY <1>2, <1>3, <1>4 DEF AcksInductive

\* A producer puts the job in the queue that it prepared
LEMMA AcksProduced ==
    ASSUME AcksInductive, JobsInductive', NEW p \in Producers, Produce(p)
    PROVE  AcksInductive'
PROOF
  <1>1. UNCHANGED <<sent, ran, acks, context, dfu>>
    BY DEF Produce, TakesSem, PreparesWith, SemTimesOut, Decodes, Puts, PutTimesOut,
           history, answers
  <1>2. broken' = FALSE => broken = FALSE
    BY DEF Produce, TakesSem, PreparesWith, SemTimesOut, Decodes, Puts, PutTimesOut, history
  <1>3. ASSUME broken' = FALSE
        PROVE  JobsAnswerOwn'
    <2>1. Ordered /\ JobsAnswerOwn /\ OneProducer /\ clashed = {}
      BY <1>2, <1>3 DEF AcksInductive, JobsInductive, Answered, Ordered, OneProducer
    <2>2. \A job : AnswersOwn(job) => AnswersOwn(job)'
      BY <1>1 DEF AnswersOwn
    <2>3. CASE TakesSem(p) \/ SemTimesOut(p) \/ PutTimesOut(p)
      <3>1. new' = new /\ process_queue' = process_queue
        BY <2>3 DEF TakesSem, PreparesWith, SemTimesOut, PutTimesOut, Returns
      <3>2. \A q \in Producers : at'[q].step = "put" => at[q].step = "put"
        <4>1. JobTypes
          BY DEF AcksInductive, JobsInductive
        <4>2. CASE TakesSem(p)
          BY <4>1, <4>2, Moves DEF TakesSem, PreparesWith, Steps
        <4>3. CASE SemTimesOut(p) \/ PutTimesOut(p)
          BY <4>1, <4>3, GoesHome DEF SemTimesOut, PutTimesOut, Returns
        <4> QED
          BY <2>3, <4>2, <4>3
      <3> QED
        BY <2>1, <2>2, <3>1, <3>2 DEF JobsAnswerOwn
    <2>4. CASE Decodes(p)
      <3>1. process_queue' = process_queue
        BY <2>4 DEF Decodes
      <3>2. at[p].msg \in 1..Len(sent) /\ at[p].step = "decode"
        BY <2>1, <2>4 DEF Decodes, Ordered, OwnMessage
      <3>3. CASE Returns(p) /\ new' = new
        <4>1. \A q \in Producers : at'[q].step = "put" => at[q].step = "put"
          BY <3>3 DEF Returns, Nobody, AcksInductive, JobsInductive, JobTypes
        <4> QED
          BY <2>1, <2>2, <3>1, <3>3, <4>1 DEF JobsAnswerOwn
      <3>4. CASE ~(Returns(p) /\ new' = new)
        <4>0. ~\E q \in Producers \ {p} : at[q].step = "put"
          BY <2>1, <3>2 DEF OneProducer, Prepares
        <4>1. /\ sent[at[p].msg].kind \in {"jetson", "sec"}
              /\ new' \in {CanJob(at[p].msg), OtherJob(p, at[p].msg)}
              /\ new' = OtherJob(p, at[p].msg) => p \notin {"can", "isotp"}
          BY <2>4, <3>4, <4>0 DEF Decodes, Written, JobOf, CanJob, OtherJob
        <4>2. AnswersOwn(CanJob(at[p].msg))
          BY <4>1 DEF AnswersOwn, CanJob
        <4>3. p \in {"uart", "cli"} => AnswersOwn(OtherJob(p, at[p].msg))
          BY DEF AnswersOwn, OtherJob
        <4>4. p \notin {"can", "isotp"} => p \in {"uart", "cli"}
          BY DEF Producers
        <4>5. \E job : new' = job /\ AnswersOwn(job)
          BY <4>1, <4>2, <4>3, <4>4
        <4>6. AnswersOwn(new)'
          BY <4>5, <1>1 DEF AnswersOwn
        <4> QED
          BY <2>1, <2>2, <3>1, <4>6 DEF JobsAnswerOwn
      <3> QED
        BY <3>3, <3>4
    <2>5. CASE Puts(p)
      <3>1. /\ Len(process_queue) \in Nat
            /\ Len(process_queue') = Len(process_queue) + 1
            /\ \A i \in 1..Len(process_queue) : process_queue'[i] = process_queue[i]
            /\ process_queue'[Len(process_queue) + 1] = new
        BY <2>5, Appended DEF Puts, AcksInductive, JobsInductive, JobTypes
      <3>2. new' = new /\ AnswersOwn(new)
        BY <2>1, <2>5 DEF Puts, JobsAnswerOwn
      <3>3. \A i \in 1..Len(process_queue') : AnswersOwn(process_queue'[i])
        BY <2>1, <3>1, <3>2 DEF JobsAnswerOwn
      <3> QED
        BY <2>2, <3>2, <3>3 DEF JobsAnswerOwn
    <2> QED
      BY <2>3, <2>4, <2>5 DEF Produce
  <1> QED
    BY <1>1, <1>2, <1>3, AcksKept
\* What an execution may leave: context c is as it was, or that of the job, or
\* without anybody to answer
ContextFrom(c, job, way) ==
    \/ context'[c] = context[c]
    \/ context'[c] = NoJob
    \/ /\ way = "deferred"
       /\ context'[c].remote = job.remote /\ context'[c].addr = job.addr
       /\ context'[c].num = job.num /\ context'[c].msg = job.msg

\* And the callback goes on, with a note if its context is another one, or is
\* gone
AnswerFrom ==
    \/ answer' = Quiet
    \/ /\ answer'.step = answer.step /\ answer'.ctx = answer.ctx /\ answer'.num = answer.num
       /\ answer.torn => answer'.torn
       /\ answer.step \in {"number", "address"} /\ ~answer'.torn =>
             context'[answer.ctx] = context[answer.ctx]

\* A job that is still in the queue was not executed
LEMMA QueuedHasNotRun ==
    ASSUME Ordered, clashed = {}, Len(process_queue) \in Nat \ {0}, NEW i \in 1..Len(ran)
    PROVE  ran[i].msg # process_queue[1].msg
PROOF
  <1>1. 1 \in 1..Len(process_queue)
    OBVIOUS
  <1>2. Before(ran[i].msg, process_queue[1].msg)
    BY <1>1 DEF Ordered, InOrder
  <1>3. ran[i].msg \in 1..Len(sent)
    BY DEF Ordered, JobsWereSent
  <1> QED
    BY <1>2, <1>3 DEF Before

\* A job is executed: what is new is about that job only
LEMMA AcksExecuted ==
    ASSUME AcksInductive, JobsInductive', process_queue # <<>>,
           NEW job, job = Head(process_queue),
           NEW way \in {"deferred", "twice", "once"},
           ran' = Append(ran, [msg |-> job.msg, way |-> way]),
           NEW N, acks' = acks \cup N,
           \A a \in N : /\ job.remote = "jetson"
                         /\ a.num = job.num /\ a.addr = job.addr /\ a.torn = FALSE,
           way = "once" => \A a, b \in N : a = b,
           AckTypes', \A c \in Contexts : ContextFrom(c, job, way), AnswerFrom,
           process_queue' = Tail(process_queue) \/ process_queue' = <<>>,
           \A q \in Producers : at'[q].step = "put" => at[q].step = "put" /\ new' = new,
           UNCHANGED <<sent, broken>>
    PROVE  AcksInductive'
PROOF
  <1>1. /\ Len(ran) \in Nat /\ Len(ran') = Len(ran) + 1
        /\ \A i \in 1..Len(ran) : ran'[i] = ran[i]
        /\ ran'[Len(ran) + 1] = [msg |-> job.msg, way |-> way]
    BY Appended DEF AcksInductive, JobsInductive, JobTypes
  <1>2. Len(process_queue) \in Nat \ {0} /\ job = process_queue[1]
    BY Tailed DEF AcksInductive, JobsInductive, JobTypes
  <1>3. \A i \in 1..Len(process_queue') :
           i + 1 \in 1..Len(process_queue) /\ process_queue'[i] = process_queue[i + 1]
    <2>1. CASE process_queue' = Tail(process_queue)
      <3>1. /\ Len(process_queue') = Len(process_queue) - 1
            /\ \A i \in 1..(Len(process_queue) - 1) : process_queue'[i] = process_queue[i + 1]
        BY <2>1, Tailed DEF AcksInductive, JobsInductive, JobTypes
      <3> QED
        BY <1>2, <3>1
    <2>2. CASE process_queue' = <<>>
      BY <2>2, EmptyIsSeq
    <2> QED
      BY <2>1, <2>2
  <1>4. \A i \in 1..Len(ran') : \/ i \in 1..Len(ran) /\ ran'[i] = ran[i]
                                \/ ran'[i].msg = job.msg /\ ran'[i].way = way
    BY <1>1
  <1>5. SentTypes' /\ RanWays'
    BY <1>4 DEF AcksInductive, SentTypes, RanWays
  <1>6. ASSUME broken' = FALSE
        PROVE  Answered'
    <2>1. Answered /\ Ordered /\ clashed = {}
      BY <1>6 DEF AcksInductive, JobsInductive, Ordered, OneProducer
    <2>2. \A j : AnswersOwn(j) => AnswersOwn(j)'
      BY DEF AnswersOwn
    <2>3. AnswersOwn(job) /\ job.msg \in 1..Len(sent)
      BY <1>2, <2>1 DEF Answered, JobsAnswerOwn, Ordered, JobsWereSent
    <2>4. /\ \A m, w : RanWith(m, w) => RanWith(m, w)'
          /\ RanWith(job.msg, way)'
          /\ \A m, w : RanWith(m, w)' => RanWith(m, w) \/ (m = job.msg /\ w = way)
      BY <1>1, <1>4 DEF RanWith
    <2>5. JobsAnswerOwn'
      BY <1>3, <2>1, <2>2 DEF Answered, JobsAnswerOwn
    <2>6. ContextsOfExecuted'
      <3> SUFFICES ASSUME NEW c \in Contexts
                   PROVE  /\ AnswersOwn(context[c])'
                          /\ context'[c].remote = "jetson" =>
                                /\ context'[c].msg \in 1..Len(sent)
                                /\ RanWith(context[c].msg, "deferred")'
        BY DEF ContextsOfExecuted
      <3>1. CASE context'[c] = context[c]
        BY <3>1, <2>1, <2>4 DEF Answered, ContextsOfExecuted, AnswersOwn
      <3>2. CASE context'[c] = NoJob
        BY <3>2 DEF AnswersOwn, NoJob
      <3>3. CASE context'[c] # context[c] /\ context'[c] # NoJob
        <4>1. /\ way = "deferred"
              /\ context'[c].remote = job.remote /\ context'[c].addr = job.addr
              /\ context'[c].num = job.num /\ context'[c].msg = job.msg
          BY <3>3 DEF ContextFrom
        <4> QED
          BY <4>1, <2>3, <2>4 DEF AnswersOwn
      <3> QED
        BY <3>1, <3>2, <3>3
    <2>7. AnswerOfExecuted'
      <3>1. CASE answer' = Quiet
        BY <3>1 DEF Quiet, AnswerOfExecuted
      <3>2. CASE answer' # Quiet
        <4>1. /\ answer'.step = answer.step /\ answer'.ctx = answer.ctx
              /\ answer'.num = answer.num
              /\ answer.torn => answer'.torn
              /\ answer.step \in {"number", "address"} /\ ~answer'.torn =>
                    context'[answer.ctx] = context[answer.ctx]
          BY <3>2 DEF AnswerFrom
        <4>2. AnswerOfExecuted
          BY <2>1 DEF Answered
        <4> QED
          BY <2>4, <4>1, <4>2 DEF AnswerOfExecuted, FirmwareNumber
      <3> QED
        BY <3>1, <3>2
    <2>9. AcksOfExecuted'
      <3>1. ASSUME NEW a \in acks
            PROVE  IF a.torn THEN FirmwareNumber(a.num)' ELSE OfExecuted(a.num, a.addr)'
        BY <1>1, <2>1, <2>4 DEF Answered, AcksOfExecuted, FirmwareNumber, OfExecuted
      <3>2. ASSUME NEW a \in N
            PROVE  a.torn = FALSE /\ OfExecuted(a.num, a.addr)'
        <4>1. a.num = job.msg /\ sent[job.msg].kind = "jetson"
              /\ a.addr = ReplyAddress(sent[job.msg].dest) /\ a.torn = FALSE
          BY <2>3 DEF AnswersOwn
        <4>2. Len(ran) + 1 \in 1..Len(ran') /\ ran'[Len(ran) + 1].msg = job.msg
          BY <1>1
        <4> QED
          BY <2>3, <4>1, <4>2 DEF OfExecuted
      <3>3. ASSUME NEW a \in acks'
            PROVE  IF a.torn THEN FirmwareNumber(a.num)' ELSE OfExecuted(a.num, a.addr)'
        <4>1. a \in acks \/ a \in N
          OBVIOUS
        <4> QED
          BY <3>1, <3>2, <4>1
      <3> QED
        BY <3>3 DEF AcksOfExecuted
    <2>8. AnsweredOnce'
      <3> SUFFICES ASSUME NEW a \in acks', NEW b \in acks', a.num = b.num,
                          RanWith(a.num, "once")'
                   PROVE  a = b
        BY DEF AnsweredOnce
      <3>1. \A x \in acks : x.num # job.msg
        <4>1. \A i \in 1..Len(ran) : ran[i].msg # job.msg
          BY <1>2, <2>1, QueuedHasNotRun
        <4>2. job.msg # 0
          BY <2>3
        <4> QED
          BY <2>1, <4>1, <4>2
             DEF Answered, AcksOfExecuted, OfExecuted, FirmwareNumber, RanWith
      <3>2. \A x \in N : x.num = job.msg
        BY <2>3 DEF AnswersOwn
      <3>3. CASE a.num = job.msg
        <4>1. a \in N /\ b \in N
          BY <3>1, <3>3
        <4>2. ~RanWith(job.msg, "once")
          BY <1>2, <2>1, QueuedHasNotRun DEF RanWith
        <4>3. way = "once"
          BY <2>4, <3>3, <4>2
        <4> QED
          BY <4>1, <4>3
      <3>4. CASE a.num # job.msg
        <4>1. a \in acks /\ b \in acks
          BY <3>2, <3>4
        <4>2. RanWith(a.num, "once")
          BY <2>4, <3>4
        <4> QED
          BY <2>1, <4>1, <4>2 DEF Answered, AnsweredOnce
      <3> QED
        BY <3>3, <3>4
    <2> QED
      BY <2>5, <2>6, <2>7, <2>8, <2>9 DEF Answered
  <1> QED
    BY <1>5, <1>6 DEF AcksInductive
\* The runner executes a job, of the Jetson, the security MCU, the UART or the
\* shell
LEMMA AcksRunnerExecutes ==
    ASSUME AcksInductive, JobsInductive', RunnerExecutes
    PROVE  AcksInductive'
PROOF
  <1> DEFINE job == Head(process_queue)
  <1>1. /\ process_queue # <<>> /\ process_queue' = Tail(process_queue)
        /\ \A q \in Producers : at'[q].step = "put" => at[q].step = "put" /\ new' = new
        /\ UNCHANGED <<sent, broken>>
    BY DEF RunnerExecutes, Takes, statics, history
  <1>2. PICK payload :
           /\ ran' = Append(ran, [msg |-> job.msg, way |-> Way(payload)])
           /\ IF job.remote = "sec" THEN SecHandler(job)
              ELSE AnswersNow(job, payload) \/ DfuHandler(job, payload)
    BY DEF RunnerExecutes
  <1>3. /\ Way(payload) \in {"deferred", "twice", "once"}
        /\ payload \in DOMAIN Deferred <=> Way(payload) = "deferred"
        /\ Way(payload) = "once" => payload # "reboot_orb"
    BY DEF Way, Deferred
  <1>0. job = Head(process_queue)
    OBVIOUS
  <1> HIDE DEF job
  <1>4. ASSUME acks' = acks, AckTypes', \A c \in Contexts : ContextFrom(c, job, Way(payload)),
               AnswerFrom
        PROVE  AcksInductive'
    <2> DEFINE none == {}
    <2>1. /\ acks' = acks \cup none
          /\ \A a \in none : /\ job.remote = "jetson"
                             /\ a.num = job.num /\ a.addr = job.addr /\ a.torn = FALSE
          /\ \A a, b \in none : a = b
      BY <1>4
    <2> HIDE DEF none
    <2> QED
      BY <1>0, <1>1, <1>2, <1>3, <1>4, <2>1, AcksExecuted
  <1>5. ASSUME NEW codes, JobAck(codes, job), Way(payload) = "once" => Len(codes) = 1,
               /\ \E S : context' \in [Contexts -> S]
               /\ DfuTypes',
               \A c \in Contexts : ContextFrom(c, job, Way(payload)),
               AnswerFrom
        PROVE  AcksInductive'
    <2>1. PICK N : /\ acks' = acks \cup N
                   /\ \A a \in N : /\ job.remote = "jetson"
                                   /\ a.num = job.num /\ a.addr = job.addr /\ a.torn = FALSE
                   /\ Len(codes) = 1 => \A a, b \in N : a = b
      BY <1>5, JobAcks DEF JobAck, answers
    <2>2. AckTypes'
      BY <1>5, <2>1 DEF AckTypes, AcksInductive
    <2> QED
      BY <1>0, <1>1, <1>2, <1>3, <1>5, <2>1, <2>2, AcksExecuted
  <1>6. CASE SecHandler(job)
    <2>1. UNCHANGED <<acks, context, dfu_ctx, answer>>
      BY <1>6 DEF SecHandler, answers, dfu
    <2>2. AckTypes' /\ \A c \in Contexts : ContextFrom(c, job, Way(payload))
      BY <2>1 DEF AcksInductive, AckTypes, DfuTypes, ContextFrom
    <2>3. AnswerFrom
      BY <2>1 DEF AnswerFrom
    <2> QED
      BY <2>1, <2>2, <2>3, <1>4
  <1>7. CASE AnswersNow(job, payload)
    <2>1. PICK codes \in Answers(payload) : JobAck(codes, job)
      BY <1>7 DEF AnswersNow
    <2>2. /\ context' = context /\ answer' = answer
          /\ dfu_ctx' \in {dfu_ctx, "none"}
      BY <1>7 DEF AnswersNow
    <2>3. /\ \E S : context' \in [Contexts -> S]
          /\ DfuTypes'
      BY <2>2 DEF AcksInductive, AckTypes, DfuTypes
    <2>4. (\A c \in Contexts : ContextFrom(c, job, Way(payload))) /\ AnswerFrom
      BY <2>2 DEF ContextFrom, AnswerFrom
    <2>5. Way(payload) = "once" => Len(codes) = 1
      BY <1>3, <2>1, HandlersAnswerOnce DEF OneAnswer
    <2> QED
      BY <2>1, <2>3, <2>4, <2>5, <1>5
  <1>8. CASE DfuHandler(job, payload)
    <2> DEFINE noted == [remote |-> job.remote, addr |-> job.addr, num |-> job.num,
                         msg |-> job.msg]
               chosen == Deferred[payload]
    <2>1. /\ Way(payload) = "deferred" /\ chosen \in Contexts
          /\ context' = [context EXCEPT ![chosen] = noted]
          /\ answer' = IF answer.ctx = chosen /\ answer.step \in {"number", "address"}
                       THEN [answer EXCEPT !.torn = TRUE] ELSE answer
          /\ DfuQueues(chosen) \/ DfuBuffers(job, chosen) \/ DfuRefuses(job, payload)
      BY <1>3, <1>8 DEF DfuHandler, Notes, Deferred, Contexts
    <2>2. PICK S : context \in [Contexts -> S]
      BY DEF AcksInductive, AckTypes
    <2>3. noted.remote = job.remote /\ noted.addr = job.addr /\ noted.num = job.num
          /\ noted.msg = job.msg
      OBVIOUS
    <2> HIDE DEF noted, chosen
    <2>4. context' \in [Contexts -> S \cup {noted}]
      BY <2>1, <2>2
    <2>5. /\ \A c \in Contexts : c # chosen => context'[c] = context[c]
          /\ context'[chosen] = noted
      BY <2>1, <2>2
    <2>6. \A c \in Contexts : ContextFrom(c, job, Way(payload))
      BY <2>1, <2>3, <2>5 DEF ContextFrom
    <2>7. PICK T : answer \in [step : AnswerSteps, ctx : Contexts \cup {"none"}, num : T,
                               torn : BOOLEAN]
      BY DEF AcksInductive, AckTypes, DfuTypes
    <2>8. AnswerFrom
      <3>1. CASE answer.ctx = chosen /\ answer.step \in {"number", "address"}
        <4>1. answer' = [answer EXCEPT !.torn = TRUE]
          BY <2>1, <3>1
        <4> QED
          BY <2>7, <4>1 DEF AnswerFrom
      <3>2. CASE ~(answer.ctx = chosen /\ answer.step \in {"number", "address"})
        <4>1. answer' = answer
          BY <2>1, <3>2
        <4>2. answer.step \in {"number", "address"} =>
                 answer.ctx \in Contexts /\ answer.ctx # chosen
          BY <3>2 DEF AcksInductive, AckTypes, DfuTypes
        <4> QED
          BY <2>5, <4>1, <4>2 DEF AnswerFrom
      <3> QED
        BY <3>1, <3>2
    <2>9. dfu_ctx' \in Contexts \cup {"none"}
      BY <2>1 DEF DfuQueues, DfuBuffers, DfuRefuses, AcksInductive, AckTypes, DfuTypes
    <2>10. DfuTypes'
      <3>1. answer' \in [step : AnswerSteps, ctx : Contexts \cup {"none"}, num : T,
                         torn : BOOLEAN]
        BY <2>1, <2>7
      <3>2. answer'.step = answer.step /\ answer'.ctx = answer.ctx
        BY <2>1, <2>7
      <3> QED
        BY <2>9, <3>1, <3>2 DEF AcksInductive, AckTypes, DfuTypes
    <2>11. CASE DfuQueues(chosen)
      <3>1. acks' = acks
        BY <2>11 DEF DfuQueues, answers
      <3>2. AckTypes'
        BY <2>4, <2>10, <3>1 DEF AcksInductive, AckTypes
      <3> QED
        BY <2>6, <2>8, <3>1, <3>2, <1>4
    <2>12. CASE DfuBuffers(job, chosen) \/ DfuRefuses(job, payload)
      <3>1. PICK codes : JobAck(codes, job)
        BY <2>12 DEF DfuBuffers, DfuRefuses
      <3>2. Way(payload) = "once" => Len(codes) = 1
        BY <2>1
      <3> QED
        BY <2>4, <2>6, <2>8, <2>10, <3>1, <3>2, <1>5
    <2> QED
      BY <2>1, <2>11, <2>12
  <1> QED
    BY <1>2, <1>6, <1>7, <1>8

\* The answer to the test of a fatal error is the last one before the reset
LEMMA AcksFatalTest ==
    ASSUME AcksInductive, JobsInductive', FatalTest
    PROVE  AcksInductive'
PROOF
  <1> DEFINE job == Head(process_queue)
  <1>1. /\ process_queue # <<>> /\ process_queue' = <<>>
        /\ ran' = Append(ran, [msg |-> job.msg, way |-> Way("diag_test")])
        /\ IF job.remote = "jetson" THEN Publishes(job.addr, job.num, 1, FALSE)
                                    ELSE UNCHANGED <<acks, unheard>>
        /\ UNCHANGED <<sent, broken>>
        /\ dfu_ctx' = "none" /\ answer' = Quiet
        /\ context' = [block |-> NoJob, check |-> NoJob]
        /\ at' = [p \in Producers |-> Nobody]
    BY DEF FatalTest, answers
  <1>2. Way("diag_test") = "once"
    BY DEF Way, Deferred
  <1>3. PICK N : /\ acks' = acks \cup N
                 /\ \A a \in N : /\ job.remote = "jetson"
                                 /\ a.num = job.num /\ a.addr = job.addr /\ a.torn = FALSE
                 /\ 1 = 1 => \A a, b \in N : a = b
    <2> HIDE DEF job
    <2> QED
      BY <1>1, JobAcks
  <1>4. AckTypes'
    <2>1. context' \in [Contexts -> {NoJob}]
      BY <1>1 DEF Contexts
    <2>2. answer' \in [step : AnswerSteps, ctx : Contexts \cup {"none"}, num : {0},
                       torn : BOOLEAN]
      BY <1>1 DEF Quiet, AnswerSteps
    <2>3. DfuTypes'
      BY <1>1, <2>2 DEF DfuTypes, Quiet
    <2>4. \A a \in acks' : a.torn \in BOOLEAN
      BY <1>3 DEF AcksInductive, AckTypes
    <2> QED
      BY <2>1, <2>3, <2>4 DEF AckTypes
  <1>5. (\A c \in Contexts : ContextFrom(c, job, "once")) /\ AnswerFrom
    BY <1>1 DEF Contexts, ContextFrom, AnswerFrom
  <1>6. \A q \in Producers : at'[q].step # "put"
    BY <1>1 DEF Nobody
  <1>0. job = Head(process_queue)
    OBVIOUS
  <1> HIDE DEF job
  <1> QED
    BY <1>1, <1>2, <1>3, <1>4, <1>5, <1>6, <1>0, AcksExecuted

\* A step of the DFU thread: what is published has the number and the address
\* that the callback has read
LEMMA AcksOfDfu ==
    ASSUME AcksInductive, JobsInductive', UNCHANGED otherVars,
           NEW N, acks' = acks \cup N, AckTypes',
           broken = FALSE => AnswerOfExecuted',
           \A a \in N : /\ answer.step = "address" /\ a.num = answer.num
                        /\ a.addr = context[answer.ctx].addr /\ a.torn = answer.torn
    PROVE  AcksInductive'
PROOF
  <1>1. UNCHANGED <<at, new, process_queue, context, sent, ran, broken, clashed>>
    BY DEF otherVars, statics, history
  <1>2. SentTypes' /\ RanWays'
    BY <1>1 DEF AcksInductive, SentTypes, RanWays
  <1>3. ASSUME broken' = FALSE
        PROVE  Answered'
    <2>1. Answered /\ Ordered /\ clashed = {} /\ AnswerOfExecuted'
      BY <1>1, <1>3 DEF AcksInductive, JobsInductive, Ordered, OneProducer
    <2>2. JobsAnswerOwn' /\ ContextsOfExecuted'
      BY <1>1, <2>1 DEF Answered, JobsAnswerOwn, ContextsOfExecuted, AnswersOwn, RanWith
    <2>3. ASSUME NEW a \in N
          PROVE  /\ FirmwareNumber(a.num)
                 /\ IF a.torn THEN FirmwareNumber(a.num) ELSE OfExecuted(a.num, a.addr)
      <3>1. /\ answer.step = "address" /\ answer.ctx \in Contexts
            /\ FirmwareNumber(a.num) /\ a.torn = answer.torn
        BY <2>1 DEF Answered, AnswerOfExecuted, AcksInductive, AckTypes, DfuTypes
      <3>2. ASSUME ~a.torn
            PROVE  OfExecuted(a.num, a.addr)
        <4>1. /\ context[answer.ctx].remote = "jetson"
              /\ a.num = context[answer.ctx].num /\ a.addr = context[answer.ctx].addr
          BY <2>1, <3>1, <3>2 DEF Answered, AnswerOfExecuted
        <4>2. /\ AnswersOwn(context[answer.ctx])
              /\ context[answer.ctx].msg \in 1..Len(sent)
              /\ RanWith(context[answer.ctx].msg, "deferred")
          BY <2>1, <3>1, <4>1 DEF Answered, ContextsOfExecuted
        <4> QED
          BY <4>1, <4>2 DEF AnswersOwn, OfExecuted, RanWith
      <3> QED
        BY <3>1, <3>2
    <2>4. AcksOfExecuted'
      <3>1. ASSUME NEW a \in acks'
            PROVE  IF a.torn THEN FirmwareNumber(a.num) ELSE OfExecuted(a.num, a.addr)
        BY <2>1, <2>3 DEF Answered, AcksOfExecuted
      <3> QED
        BY <1>1, <3>1 DEF AcksOfExecuted, FirmwareNumber, OfExecuted, RanWith
    <2>5. \A i, j \in 1..Len(ran) : ran[i].msg = ran[j].msg => i = j
      <3>1. Len(ran) \in Nat
        BY Appended DEF AcksInductive, JobsInductive, JobTypes
      <3>2. \A i, j \in 1..Len(ran) : i < j => ran[i].msg # ran[j].msg
        BY <2>1, <3>1 DEF Ordered, InOrder, JobsWereSent, Before
      <3> QED
        BY <3>1, <3>2
    <2>6. AnsweredOnce'
      <3> SUFFICES ASSUME NEW a \in acks', NEW b \in acks', a.num = b.num,
                          RanWith(a.num, "once")
                   PROVE  a = b
        BY <1>1 DEF AnsweredOnce, RanWith
      <3>1. ~RanWith(a.num, "deferred")
        BY <2>5 DEF RanWith
      <3>2. a.num # 0
        BY <2>1 DEF RanWith, Ordered, JobsWereSent
      <3>3. a \in acks /\ b \in acks
        BY <2>3, <3>1, <3>2 DEF FirmwareNumber
      <3> QED
        BY <2>1, <3>3 DEF Answered, AnsweredOnce
    <2> QED
      BY <2>1, <2>2, <2>4, <2>6 DEF Answered
  <1> QED
    BY <1>2, <1>3 DEF AcksInductive

\* The steps that publish nothing
LEMMA AcksReads ==
    ASSUME AcksInductive, JobsInductive', UNCHANGED <<acks, otherVars>>,
           DfuTypes', broken = FALSE => AnswerOfExecuted'
    PROVE  AcksInductive'
PROOF
  <1> DEFINE none == {}
  <1>1. acks' = acks \cup none /\ UNCHANGED otherVars
    OBVIOUS
  <1>2. \A a \in none : FALSE
    OBVIOUS
  <1>3. AckTypes'
    BY DEF AcksInductive, AckTypes, otherVars
  <1> HIDE DEF none
  <1> QED
    BY <1>1, <1>2, <1>3, AcksOfDfu

\* The DFU thread answers with the context of a firmware request
LEMMA AcksDfuAnswers ==
    ASSUME AcksInductive, JobsInductive', DfuAnswers
    PROVE  AcksInductive'
PROOF
  <1>1. PICK S : answer \in [step : AnswerSteps, ctx : Contexts \cup {"none"}, num : S,
                             torn : BOOLEAN]
    BY DEF AcksInductive, AckTypes, DfuTypes
  <1>2. /\ dfu_ctx \in Contexts \cup {"none"}
        /\ answer.step \in {"remote", "number", "address"} => answer.ctx \in Contexts
        /\ broken = FALSE => Answered
    BY DEF AcksInductive, AckTypes, DfuTypes
  <1>3. \A s \in AnswerSteps, c \in Contexts \cup {"none"} :
           [Quiet EXCEPT !.step = s, !.ctx = c] \in
              [step : AnswerSteps, ctx : Contexts \cup {"none"}, num : {0}, torn : BOOLEAN]
    BY DEF Quiet
  <1>4. CASE DfuGives
    <2>1. /\ dfu_ctx' \in Contexts \cup {"none"}
          /\ answer' = [Quiet EXCEPT !.step = "call"]
          /\ UNCHANGED <<acks, otherVars>>
      BY <1>2, <1>4 DEF DfuGives, answers, Contexts
    <2>2. DfuTypes'
      BY <2>1 DEF DfuTypes, Quiet, AnswerSteps
    <2>3. AnswerOfExecuted'
      BY <2>1 DEF AnswerOfExecuted, Quiet
    <2> QED
      BY <2>1, <2>2, <2>3, AcksReads
  <1>5. CASE DfuCalls
    <2>1. /\ dfu_ctx' = dfu_ctx /\ UNCHANGED <<acks, otherVars>>
          /\ answer' = IF dfu_ctx = "none" THEN Quiet
                       ELSE [Quiet EXCEPT !.step = "remote", !.ctx = dfu_ctx]
      BY <1>5 DEF DfuCalls, answers
    <2>2. DfuTypes'
      BY <1>2, <2>1 DEF DfuTypes, Quiet, AnswerSteps
    <2>3. AnswerOfExecuted'
      BY <2>1 DEF AnswerOfExecuted, Quiet
    <2> QED
      BY <2>1, <2>2, <2>3, AcksReads
  <1>6. CASE DfuReadsRemote
    <2>1. /\ answer.step = "remote" /\ dfu_ctx' = dfu_ctx /\ UNCHANGED <<acks, otherVars>>
          /\ \/ answer' = Quiet
             \/ /\ answer' = [answer EXCEPT !.step = "number"]
                /\ context[answer.ctx].remote = "jetson"
      BY <1>6 DEF DfuReadsRemote, answers
    <2>2. DfuTypes'
      <3>1. CASE answer' = Quiet
        <4>1. answer' \in [step : AnswerSteps, ctx : Contexts \cup {"none"}, num : {0},
                           torn : BOOLEAN]
          BY <3>1 DEF Quiet, AnswerSteps
        <4> QED
          BY <1>2, <2>1, <3>1, <4>1 DEF DfuTypes, Quiet
      <3>2. CASE answer' = [answer EXCEPT !.step = "number"]
        <4>1. answer' \in [step : AnswerSteps, ctx : Contexts \cup {"none"}, num : S,
                           torn : BOOLEAN]
          BY <1>1, <3>2 DEF AnswerSteps
        <4>2. answer'.ctx = answer.ctx
          BY <1>1, <3>2
        <4> QED
          BY <1>2, <2>1, <4>1, <4>2 DEF DfuTypes
      <3> QED
        BY <2>1, <3>1, <3>2
    <2>3. context' = context
      BY <2>1 DEF otherVars
    <2>4. AnswerOfExecuted'
      BY <1>1, <2>1, <2>3 DEF AnswerOfExecuted, Quiet
    <2> QED
      BY <2>1, <2>2, <2>4, AcksReads
  <1>7. CASE DfuReadsNumber
    <2>1. /\ answer.step = "number" /\ dfu_ctx' = dfu_ctx /\ UNCHANGED <<acks, otherVars>>
          /\ answer' = [answer EXCEPT !.step = "address", !.num = context[answer.ctx].num]
      BY <1>7 DEF DfuReadsNumber, answers
    <2> DEFINE read == context[answer.ctx].num
    <2>2. answer' = [answer EXCEPT !.step = "address", !.num = read]
      BY <2>1
    <2>3. context' = context /\ ran' = ran
      BY <2>1 DEF otherVars
    <2>4. ASSUME broken = FALSE
          PROVE  FirmwareNumber(read) /\ (~answer.torn => context[answer.ctx].remote = "jetson")
      <3>1. answer.ctx \in Contexts /\ Answered
        BY <1>2, <2>1, <2>4
      <3> QED
        BY <2>1, <3>1 DEF Answered, AnswerOfExecuted, ContextsOfExecuted, AnswersOwn,
                          FirmwareNumber
    <2>5. /\ answer'.step = "address" /\ answer'.ctx = answer.ctx
          /\ answer'.num = read /\ answer'.torn = answer.torn
      <3> HIDE DEF read
      <3> QED
        BY <1>1, <2>2
    <2>6. broken = FALSE => AnswerOfExecuted'
      BY <2>3, <2>4, <2>5 DEF AnswerOfExecuted, FirmwareNumber, RanWith
    <2>7. DfuTypes'
      <3> HIDE DEF read
      <3>1. answer' \in [step : AnswerSteps, ctx : Contexts \cup {"none"}, num : S \cup {read},
                         torn : BOOLEAN]
        BY <1>1, <2>2 DEF AnswerSteps
      <3> QED
        BY <1>2, <2>1, <2>5, <3>1 DEF DfuTypes
    <2> QED
      BY <2>1, <2>6, <2>7, AcksReads
  <1>8. CASE DfuPublishes
    <2>1. /\ answer.step = "address" /\ answer' = Quiet
          /\ dfu_ctx' = dfu_ctx /\ UNCHANGED otherVars
      BY <1>8 DEF DfuPublishes
    <2>2. PICK codes \in handle_err_code :
             Publishes(context[answer.ctx].addr, answer.num, Len(codes), answer.torn)
      BY <1>8 DEF DfuPublishes
    <2>3. PICK N : /\ acks' = acks \cup N
                   /\ \A a \in N : /\ a.num = answer.num
                                   /\ a.addr = context[answer.ctx].addr
                                   /\ a.torn = answer.torn
      <3> DEFINE addr == context[answer.ctx].addr
                 num == answer.num
                 torn == answer.torn
                 n == Len(codes)
      <3>1. Publishes(addr, num, n, torn)
        BY <2>2
      <3> HIDE DEF addr, num, torn, n
      <3>2. PICK M : /\ acks' = acks \cup M
                     /\ \A a \in M : a.num = num /\ a.addr = addr /\ a.torn = torn
        BY <3>1, PublishedAcks
      <3> QED
        BY <3>2 DEF addr, num, torn
    <2>4. AckTypes'
      <3>1. DfuTypes'
        BY <1>2, <2>1 DEF DfuTypes, Quiet, AnswerSteps
      <3>2. \A a \in acks' : a.torn \in BOOLEAN
        BY <1>1, <2>3 DEF AcksInductive, AckTypes
      <3>3. \E T : context' \in [Contexts -> T]
        BY <2>1 DEF AcksInductive, AckTypes, otherVars
      <3> QED
        BY <3>1, <3>2, <3>3 DEF AckTypes
    <2>5. AnswerOfExecuted'
      BY <2>1 DEF AnswerOfExecuted, Quiet
    <2> QED
      BY <2>1, <2>3, <2>4, <2>5, AcksOfDfu
  <1> QED
    BY <1>4, <1>5, <1>6, <1>7, <1>8 DEF DfuAnswers

\* Every step keeps the invariant
LEMMA AcksStep ==
    ASSUME AcksInductive, [Next]_vars
    PROVE  AcksInductive'
PROOF
  <1>1. JobsInductive'
    BY JobsStep DEF AcksInductive
  <1>2. CASE runner_init \/ Done \/ UNCHANGED vars
    <2>1. UNCHANGED <<at, new, process_queue, sent, ran, acks, context, dfu, broken>>
      BY <1>2 DEF runner_init, Done, vars, statics, history, answers
    <2>2. broken' = FALSE => JobsAnswerOwn'
      BY <2>1 DEF AcksInductive, Answered, JobsAnswerOwn, AnswersOwn
    <2> QED
      BY <1>1, <2>1, <2>2, AcksKept
  <1>3. ASSUME NEW p \in {"can", "isotp", "uart"}, Receives(p)
        PROVE  AcksInductive'
    <2>1. PICK k \in Kinds[p] : \E d \in Destinations(p) :
             sent' = Append(sent, [from |-> p, kind |-> k, dest |-> d, payload |-> "any"])
      BY <1>3 DEF Receives
    <2>2. PICK d \in Destinations(p) :
             sent' = Append(sent, [from |-> p, kind |-> k, dest |-> d, payload |-> "any"])
      BY <2>1
    <2> DEFINE e == [from |-> p, kind |-> k, dest |-> d, payload |-> "any"]
    <2>3. IF e.from = "isotp" THEN e.dest \in {StdIdDestination(a, LocalId) : a \in Apps}
                              ELSE e.dest = 0
      BY DEF Destinations
    <2>4. sent' = Append(sent, e) /\ p \in Producers /\ at[p] = Nobody
          /\ UNCHANGED <<new, process_queue, ran, acks, context, dfu, broken, clashed>>
      BY <1>3, <2>2 DEF Receives, statics, Producers, answers
    <2>5. \A q \in Producers : at'[q].step = "put" => at[q].step = "put"
      BY <1>3, <2>4 DEF Receives, Nobody, AcksInductive, JobsInductive, JobTypes
    <2> HIDE DEF e
    <2> QED
      BY <1>1, <2>3, <2>4, <2>5, AcksReceived
  <1>4. CASE CanReceives \/ IsoTpReceives \/ UartReceives
    BY <1>3, <1>4 DEF CanReceives, IsoTpReceives, UartReceives
  <1>5. ASSUME NEW jobs, CliCalls(jobs)
        PROVE  AcksInductive'
    <2> DEFINE e == [from |-> "cli", kind |-> "jetson", dest |-> 0, payload |-> Head(jobs)]
    <2>1. /\ sent' = Append(sent, e) /\ "cli" \in Producers /\ at["cli"] = Nobody
          /\ UNCHANGED <<new, process_queue, ran, acks, context, dfu, broken, clashed>>
      BY <1>5 DEF CliCalls, statics, Producers, answers
    <2>2. IF e.from = "isotp" THEN e.dest \in {StdIdDestination(a, LocalId) : a \in Apps}
                              ELSE e.dest = 0
      OBVIOUS
    <2>3. \A q \in Producers : at'[q].step = "put" => at[q].step = "put"
      BY <1>5, <2>1 DEF CliCalls, Nobody, AcksInductive, JobsInductive, JobTypes
    <2> HIDE DEF e
    <2> QED
      BY <1>1, <2>1, <2>2, <2>3, AcksReceived
  <1> QED
    BY <1>1, <1>2, <1>4, <1>5, AcksProduced, AcksRunnerExecutes, AcksDfuAnswers, AcksFatalTest
       DEF Next, CliEnters, CliGoesOn

\* At reset nothing was acknowledged
LEMMA AcksAtReset == Init => AcksInductive
PROOF
  <1> SUFFICES ASSUME Init
               PROVE  AcksInductive
    OBVIOUS
  <1>1. JobsInductive
    BY JobsAtReset
  <1>2. AckTypes
    <2>1. context \in [Contexts -> {NoJob}]
      BY DEF Init, Contexts
    <2>2. answer \in [step : AnswerSteps, ctx : Contexts \cup {"none"}, num : {0},
                      torn : BOOLEAN]
      BY DEF Init, Quiet, AnswerSteps
    <2>3. DfuTypes
      BY <2>2 DEF Init, DfuTypes, Quiet
    <2> QED
      BY <2>1, <2>3 DEF Init, AckTypes
  <1>3. Len(sent) = 0 /\ Len(ran) = 0 /\ Len(process_queue) = 0
    BY EmptyIsSeq DEF Init
  <1>4. SentTypes /\ RanWays
    BY <1>3 DEF SentTypes, RanWays
  <1>5. JobsAnswerOwn /\ AcksOfExecuted /\ AnsweredOnce
    BY <1>3 DEF Init, Nobody, JobsAnswerOwn, AcksOfExecuted, AnsweredOnce
  <1>6. ContextsOfExecuted /\ AnswerOfExecuted
    BY DEF Init, ContextsOfExecuted, AnswersOwn, Contexts, NoJob, AnswerOfExecuted, Quiet
  <1> QED
    BY <1>1, <1>2, <1>4, <1>5, <1>6 DEF AcksInductive, Answered

\* Unless the shell broke the semaphore, every acknowledgement answers a
\* request that was executed, at the address its sender listens to, if its
\* context was not written over while the DFU thread read it; and a request is
\* answered once, but for the firmware requests and reboot_orb.
THEOREM OwnAnswers == Spec => []AcksAnswerTheirJobs
PROOF
  <1>1. AcksInductive => AcksAnswerTheirJobs
    <2> SUFFICES ASSUME AcksInductive, ~broken
                 PROVE  /\ \A a \in acks : ~a.torn =>
                              /\ a.num \in 1..Len(sent) /\ sent[a.num].kind = "jetson"
                              /\ a.addr = Listens(a.num)
                              /\ RanAs(a.num) # {}
                        /\ \A m \in 1..Len(sent) :
                              Cardinality(AnswersTo(m)) > 1 =>
                                 RanAs(m) \subseteq {"deferred", "twice"}
      BY DEF AcksAnswerTheirJobs
    <2>1. broken = FALSE => Answered
      BY DEF AcksInductive
    <2>2. Answered
      BY <2>1
    <2>3. ASSUME NEW a \in acks, ~a.torn
          PROVE  /\ a.num \in 1..Len(sent) /\ sent[a.num].kind = "jetson"
                 /\ a.addr = Listens(a.num)
                 /\ RanAs(a.num) # {}
      <3>1. /\ a.num \in 1..Len(sent) /\ sent[a.num].kind = "jetson"
            /\ a.addr = ReplyAddress(sent[a.num].dest)
            /\ \E i \in 1..Len(ran) : ran[i].msg = a.num
        BY <2>2, <2>3 DEF Answered, AcksOfExecuted, OfExecuted
      <3>2. a.addr = Listens(a.num)
        BY <3>1, ReplyIsOwn DEF AcksInductive
      <3>3. RanAs(a.num) # {}
        BY <3>1 DEF RanAs
      <3> QED
        BY <3>1, <3>2, <3>3
    <2>4. ASSUME NEW m \in 1..Len(sent), ~(RanAs(m) \subseteq {"deferred", "twice"})
          PROVE  ~(Cardinality(AnswersTo(m)) > 1)
      <3>1. RanWith(m, "once")
        BY <2>4 DEF RanAs, RanWith, AcksInductive, RanWays
      <3>2. \A a, b \in AnswersTo(m) : a = b
        BY <2>2, <3>1 DEF AnswersTo, Answered, AnsweredOnce
      <3>3. CASE AnswersTo(m) = {}
        BY <3>3, FS_EmptySet
      <3>4. CASE AnswersTo(m) # {}
        <4>1. PICK a : a \in AnswersTo(m)
          BY <3>4
        <4>2. AnswersTo(m) = {a}
          BY <3>2, <4>1
        <4>3. Cardinality({a}) = 1
          BY FS_Singleton, Zenon
        <4> QED
          BY <4>2, <4>3
      <3> QED
        BY <3>3, <3>4
    <2> QED
      BY <2>3, <2>4
  <1> QED
    BY <1>1, AcksAtReset, AcksStep, PTL DEF Spec
=============================================================================
