---------------------------- MODULE CommandRelay ----------------------------
(***************************************************************************)
(* The commands of the server (ControlTask::doProcess): GetCommand reads   *)
(* one from the control port, TransferCmd passes it to the monitoring post *)
(* and the answer back, HistoryDataTransfer asks the post for a range of   *)
(* records and SendQueueData passes the first batch of them on.            *)
(*                                                                         *)
(* A CmdPacket outlives its contents: doProcess keeps one object, and      *)
(* ReceiveFrameFrom clears its string, which keeps the bytes.  CommandType *)
(* reads the command word without looking at the length, so after a        *)
(* silent wait it finds the command before (variable left).                *)
(***************************************************************************)
EXTENDS Integers, Sequences, SequencesExt, FiniteSetsExt

CONSTANTS
  Byte,          \* the values of a byte (256)
  Batch,         \* SendQueueData is called at this count (10)
  Tries,         \* tries of TransferCmd (3)
  Stray,         \* numbers of frames that answer another request
  MaxWire        \* packets and answers in transit

ASSUME RelayAssumption ==
  /\ Byte \in Nat \ {0} /\ Batch \in Nat \ {0} /\ Tries \in Nat \ {0}
  /\ Stray \subseteq 0..Byte * Byte - 1
  /\ MaxWire \in Nat /\ Batch <= MaxWire

Num == 0..Byte * Byte - 1
Nothing == -1
NAK == -2
Handled == {"relay", "history"}
Command == Handled \cup {"ignored"}

VARIABLES
  pc,            \* "command", TransferCmd: "ask", "answer", "forward",
                 \* HistoryDataTransfer: "record", "done", SendQueueData:
                 \* "pass", "ack"
  left,          \* the command word in the buffer of cmd
  empty,         \* cmd has no contents
  retry, nStart, nEnd, count, queue,
  bIn, bExt,     \* bInCommunicationError, bExtCommunicationError
  conn,          \* control port: "up", "down", or "failing": connected, but
                 \* its connection is broken
  wire, acks,    \* in transit: records to the server, its answers
  owed,          \* the server waits for the answer to a command
  stored, refused, \* records of this transfer that the server has taken, or
                 \* has not
  answered,      \* numbers of the frames that the transfer received
  blurred        \* numbers do not ascend in the queue, or packets or answers
                 \* of an earlier transfer were in transit

relayVars == <<retry, bIn, bExt, owed>>
rangeVars == <<nStart, nEnd, count, queue, answered, blurred>>
serverVars == <<stored, refused>>
netVars == <<conn, wire, acks, serverVars>>
vars == <<pc, left, empty, relayVars, rangeVars, netVars>>

\* The numbers of a history command are in network order; GetStartNum,
\* GetEndNum and SetStartNum use them as they are, on a little-endian CPU.
Swap(n) == (n % Byte) * Byte + n \div Byte

Ascending(q) == \A i, j \in DOMAIN q : i < j => q[i] < q[j]

Init ==
  /\ pc = "command" /\ left = "ignored" /\ empty = TRUE
  /\ retry = 0 /\ bIn = FALSE /\ bExt = FALSE /\ owed = FALSE
  /\ nStart = 0 /\ nEnd = 0 /\ count = 0 /\ queue = <<>>
  /\ answered = {} /\ blurred = FALSE
  /\ conn = "down" /\ wire = <<>> /\ acks = <<>> /\ stored = {} /\ refused = {}

-----------------------------------------------------------------------------
(* GetCommand, and what doProcess does with its result                     *)

\* TransferCmd begins without an answer.
TransferStarts ==
  /\ pc' = "ask" /\ retry' = 0
  /\ UNCHANGED <<rangeVars, serverVars>>

\* HistoryDataTransfer begins with the range s..e, as the code reads it.
HistoryStarts(s, e) ==
  /\ Len(wire) + Len(acks') + Batch <= MaxWire
  /\ nStart' = s /\ nEnd' = e
  /\ pc' = IF s <= e THEN "record" ELSE "done"
  /\ count' = 0 /\ queue' = <<>> /\ answered' = {}
  /\ stored' = {} /\ refused' = {}
  /\ blurred' = (wire # <<>> \/ acks' # <<>>)
  /\ UNCHANGED retry

\* Most commands are ignored: their cases only break.
Ignored == pc' = "command" /\ UNCHANGED <<retry, rangeVars, serverVars>>

\* A command arrives.  ReceiveFrameFrom skips the answers before it.
GetCommand(c) ==
  /\ pc = "command" /\ conn = "up"
  /\ left' = c /\ empty' = FALSE /\ owed' = (c = "relay")
  /\ \E k \in 0..Len(acks) : acks' = SubSeq(acks, k + 1, Len(acks))
  /\ CASE c = "relay" -> TransferStarts
       [] c = "history" -> \E f, t \in Num : HistoryStarts(Swap(f), Swap(t))
       [] OTHER -> Ignored
  /\ UNCHANGED <<bIn, bExt, conn, wire>>

\* The wait was in vain, or the server closed the connection (Read then
\* closes the port).  CommandType finds the command before; it is carried out
\* with an empty packet.  The numbers of an empty history command are what
\* lies behind the empty string.
GetsNothing ==
  /\ pc = "command" /\ conn # "down"
  /\ empty' = TRUE
  /\ conn' \in (IF conn = "up" THEN {"up"} ELSE {"down"})
  /\ UNCHANGED <<left, bIn, bExt, owed, wire, acks>>
  /\ CASE left = "relay" -> TransferStarts
       [] left = "history" -> \E s, e \in Num : HistoryStarts(s, e)
       [] OTHER -> Ignored

\* Read throws: the port is not connected, and NegoiateControlChannel
\* connects it again.
Reconnects ==
  /\ pc = "command" /\ conn = "down"
  /\ empty' = TRUE /\ conn' = "up"
  /\ wire' = <<>> /\ acks' = <<>>
  /\ bExt' = FALSE /\ owed' = FALSE
  /\ UNCHANGED <<pc, left, retry, bIn, rangeVars, serverVars>>

-----------------------------------------------------------------------------
(* TransferCmd                                                             *)

\* cmd.SendTo(dev): an empty packet writes nothing.
Asks ==
  /\ pc = "ask" /\ pc' = "answer"
  /\ UNCHANGED <<left, empty, relayVars, rangeVars, netVars>>

\* A frame was read, the answer or another one.
GetsAnswer ==
  /\ pc = "answer" /\ pc' = "forward"
  /\ UNCHANGED <<left, empty, relayVars, rangeVars, netVars>>

\* Fault: one try too many.
NoAnswerLate ==
  /\ pc = "answer"
  /\ retry' = retry + 1
  /\ pc' = IF retry' <= Tries THEN "ask" ELSE "command"
  /\ bIn' = (bIn \/ retry' > Tries)
  /\ UNCHANGED <<left, empty, bExt, owed, rangeVars, netVars>>

\* ReceiveFrameFrom brought nothing.
NoAnswer ==
  /\ pc = "answer"
  /\ retry' = retry + 1
  /\ pc' = IF retry' < Tries THEN "ask" ELSE "command"
  /\ bIn' = (bIn \/ retry' = Tries)
  /\ UNCHANGED <<left, empty, bExt, owed, rangeVars, netVars>>

\* answer.SendTo(port): what a broken connection accepts is lost.
Forwards ==
  /\ pc = "forward" /\ conn # "down"
  /\ pc' = "command" /\ retry' = 0
  /\ bIn' = FALSE /\ bExt' = FALSE
  /\ owed' = FALSE
  /\ UNCHANGED <<left, empty, rangeVars, netVars>>

\* Fault: a failed write is not counted.
ForwardUncounted ==
  /\ pc = "forward" /\ conn # "up"
  /\ UNCHANGED vars

\* The answer is kept for the next try; the post is not asked again.
ForwardFails ==
  /\ pc = "forward" /\ conn # "up"
  /\ retry' = retry + 1
  /\ pc' = IF retry' < Tries THEN "forward" ELSE "command"
  /\ bExt' = (bExt \/ retry' = Tries)
  /\ UNCHANGED <<left, empty, bIn, owed, rangeVars, netVars>>

-----------------------------------------------------------------------------
(* HistoryDataTransfer and SendQueueData                                   *)

\* nStart++, SetStartNum, and the test of the loop.
Advance ==
  /\ nStart' = nStart + 1
  /\ pc' = IF nStart' <= nEnd THEN "record" ELSE "done"

\* Fault: the count is tested before it is increased.
RecordBeforeCount(n) ==
  /\ pc = "record"
  /\ n \in {Nothing} \cup Stray \cup (IF empty THEN {} ELSE {Swap(nStart)})
  /\ count' = count + 1
  /\ queue' = IF n = Nothing \/ n \in ToSet(queue) THEN queue ELSE Append(queue, n)
  /\ answered' = answered \cup ({n} \ {Nothing})
  /\ blurred' = (blurred \/ ~Ascending(queue'))
  /\ IF count = Batch THEN pc' = "pass" /\ UNCHANGED nStart ELSE Advance
  /\ UNCHANGED <<left, empty, relayVars, nEnd, netVars>>

\* One request and its answer.  SetStartNum leaves the CRC as it was, so that
\* the post may leave every request but the first unanswered.  Push drops a
\* number that is queued.
Record(n) ==
  /\ pc = "record"
  /\ n \in {Nothing} \cup Stray \cup (IF empty THEN {} ELSE {Swap(nStart)})
  /\ count' = count + 1
  /\ queue' = IF n = Nothing \/ n \in ToSet(queue) THEN queue ELSE Append(queue, n)
  /\ answered' = answered \cup ({n} \ {Nothing})
  /\ blurred' = (blurred \/ ~Ascending(queue'))
  /\ IF count' = Batch THEN pc' = "pass" /\ UNCHANGED nStart ELSE Advance
  /\ UNCHANGED <<left, empty, relayVars, nEnd, netVars>>

\* HistoryDataTransfer returns, or an exception leaves it: what is still
\* queued is dropped with the queue.
Dropped ==
  /\ pc' = "command"
  /\ nStart' = 0 /\ nEnd' = 0 /\ count' = 0 /\ queue' = <<>>
  /\ answered' = {} /\ blurred' = FALSE
  /\ UNCHANGED <<left, empty, relayVars, netVars>>

HistoryReturns == pc = "done" /\ Dropped

TransferThrows == pc \in {"pass", "ack"} /\ conn # "up" /\ Dropped

\* A pass of SendQueueData sends the whole queue.
SendsQueue ==
  /\ pc = "pass" /\ (conn # "down" \/ queue = <<>>)
  /\ wire' = IF conn = "up" THEN wire \o queue ELSE wire
  /\ pc' = "ack"
  /\ UNCHANGED <<left, empty, relayVars, rangeVars, conn, acks, serverVars>>

\* while (queue.GetSize() && ackNo >= queue.Front().GetDataNo()) queue.Pop();
Popped(q, ack) ==
  LET k == Max({i \in 0..Len(q) : \A j \in 1..i : q[j] <= ack})
  IN  SubSeq(q, k + 1, Len(q))

\* The loop of SendQueueData goes on until the queue is empty.
AfterPass(q) ==
  /\ queue' = q
  /\ IF q = <<>>
       THEN Advance
       ELSE /\ pc' = "pass" /\ UNCHANGED nStart
            /\ Len(wire) + Len(acks') + Len(q) <= MaxWire

\* Fault: a negative answer counts as well.
AnyAnswer(ack) == IF ack = NAK THEN Byte * Byte - 1 ELSE ack

\* ack.IsValidAck() && ack.IsAck(): a NAK pops nothing.
AckNo(ack) == IF ack = NAK THEN Nothing ELSE ack

\* ReceiveAckFrom reads all answers that are there; the first one counts.
GetsAck(k) ==
  /\ pc = "ack" /\ conn = "up"
  /\ acks' = SubSeq(acks, k + 1, Len(acks))
  /\ AfterPass(Popped(queue, AckNo(acks[1])))
  /\ UNCHANGED <<left, empty, relayVars, nEnd, count, answered, blurred, conn, wire, serverVars>>

\* It times out, or finds the connection closed.
GetsNoAck ==
  /\ pc = "ack" /\ conn # "down"
  /\ conn' = IF conn = "up" THEN "up" ELSE "down"
  /\ UNCHANGED <<left, empty, relayVars, nEnd, count, answered, blurred, wire, acks, serverVars>>
  /\ AfterPass(queue)

-----------------------------------------------------------------------------
(* The server and the network                                              *)

ServerStores ==
  /\ wire # <<>>
  /\ wire' = Tail(wire)
  /\ stored' = stored \cup {Head(wire)}
  /\ acks' \in {acks, Append(acks, Head(wire))}
  /\ UNCHANGED <<pc, left, empty, relayVars, rangeVars, conn, refused>>

ServerRefuses ==
  /\ wire # <<>>
  /\ wire' = Tail(wire)
  /\ acks' = Append(acks, NAK)
  /\ refused' = refused \cup {Head(wire)}
  /\ UNCHANGED <<pc, left, empty, relayVars, rangeVars, conn, stored>>

\* The connection breaks; what is in transit is lost.
LinkFails ==
  /\ conn = "up"
  /\ conn' = "failing" /\ wire' = <<>> /\ acks' = <<>>
  /\ UNCHANGED <<pc, left, empty, relayVars, rangeVars, serverVars>>

Commands == (\E c \in Command : GetCommand(c)) \/ GetsNothing \/ Reconnects
Transfer == Asks \/ GetsAnswer \/ NoAnswer \/ Forwards \/ ForwardFails
Acks == \E k \in DOMAIN acks : GetsAck(k)
History ==
  \/ \E n \in Num \cup {Nothing} : Record(n)
  \/ SendsQueue \/ Acks \/ GetsNoAck \/ TransferThrows \/ HistoryReturns
Server == ServerStores \/ ServerRefuses

Next == Commands \/ Transfer \/ History \/ Server \/ LinkFails

Spec == Init /\ [][Next]_vars

\* Every call of the control thread returns, and answers do not always come
\* too late.
FairSpec ==
  /\ Spec
  /\ WF_vars(Transfer) /\ WF_vars(History) /\ WF_vars(Server)
  /\ SF_vars(Acks)

-----------------------------------------------------------------------------
(* Properties                                                              *)

TypeOK ==
  /\ pc \in {"command", "ask", "answer", "forward", "record", "pass", "ack", "done"}
  /\ left \in Command /\ empty \in BOOLEAN /\ owed \in BOOLEAN
  /\ retry \in 0..Tries
  /\ pc \in {"ask", "answer", "forward"} => retry < Tries
  /\ bIn \in BOOLEAN /\ bExt \in BOOLEAN
  /\ nStart \in 0..Byte * Byte /\ nEnd \in Num /\ count \in 0..Byte * Byte
  /\ queue \in Seq(Num) /\ answered \subseteq Num /\ blurred \in BOOLEAN
  /\ conn \in {"up", "failing", "down"}
  /\ wire \in Seq(Num) 
  /\ acks \in Seq(Num \cup {NAK})
  /\ Len(wire) + Len(acks) <= MaxWire
  /\ stored \subseteq Num /\ refused \subseteq Num
  /\ pc \in {"record", "pass", "ack"} => nStart <= nEnd

\* SendQueueData pops every record up to the number of the first answer it
\* reads.  A popped record is with the server, or was refused by it before it
\* accepted a later one: answers that come late and batches sent several times
\* pop no other, as long as the numbers ascend and nothing of an earlier
\* transfer is in transit.
PoppedStored ==
  [][Acks => blurred \/ ToSet(queue) \ ToSet(queue') \subseteq stored \cup refused]_vars

\* HistoryDataTransfer sends the queue once, when its count is Batch.  A
\* transfer of just Batch records that returns normally has delivered all that
\* the post answered, but for refused records.  (A shorter one delivers nothing, a longer one its
\* first Batch records: the count is compared with = and never reset.)
ServedInFull ==
  pc = "done" /\ count = Batch => blurred \/ answered \subseteq stored \cup refused

\* SendQueueData has no limit on its repetitions, and takes only the first of
\* the answers it reads.  Still, if the server accepts all records from some
\* time on, the control thread gets back to its next command: answers to
\* earlier passes do not keep it in the loop.  (They do when the
\* numbers do not ascend.)
TransferEnds ==
  <>[][Server => ServerStores /\ acks' # acks]_vars
  => (pc # "command" ~> pc = "command" \/ blurred)

\* A wait that yields no frame is no command: the trace of case CMD_END says
\* "Got no command".  So what TransferCmd passes to the server answers a
\* command that the server sent, once.
AnswersOwed == [][Forwards => owed]_vars
=============================================================================
