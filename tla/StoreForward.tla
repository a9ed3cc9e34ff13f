---------------------------- MODULE StoreForward ----------------------------
(***************************************************************************)
(* The data path of the device agent: the reader thread                    *)
(* (DataTask::doReadData) takes readings from the monitoring post, queues  *)
(* them (DataPacketQueue) and saves the queue to ./Current.data; the       *)
(* sender thread (DataTask::doProcess) loads that file at start-up and     *)
(* sends the queue to the server, popping a packet when its ACK arrives;   *)
(* the main thread saves the queue once more before a reboot.  The process *)
(* can die at any step and is restarted by a reboot.                       *)
(*                                                                         *)
(* The post, the server and the TCP connection are environment.  A frame   *)
(* is abstracted to its data number and to whether it is a reading (cmd    *)
(* "ra") or a stray answer to some other command.                          *)
(*                                                                         *)
(* A definition under a comment "Fault:" is a plausible mistake in the     *)
(* definition after it; none is part of Next.  They are there to see that  *)
(* the properties notice such a mistake.                                   *)
(***************************************************************************)
EXTENDS Integers, Sequences

CONSTANTS
  MaxNo,        \* readings are numbered 1..MaxNo
  RetryLimit,   \* SendCurrentData gives up when retry > RetryLimit (3 in the code)
  MaxWire,      \* packets that can be in transit to the server
  MaxCrashes    \* bound on process deaths and reboots

ASSUME ConstantsAssumption ==
  /\ MaxNo \in Nat \ {0}
  /\ RetryLimit \in Nat
  /\ MaxWire \in Nat \ {0}
  /\ MaxCrashes \in Nat

DataNo == 1..MaxNo
Packet == [no : DataNo, ra : BOOLEAN]
NAK == 0                               \* a negative answer, among ACK numbers

VARIABLES
  \* the shared queue, the file, and the packets Load has yet to read
  queue, file, toLoad,
  \* program counters: sender, reader, main thread
  spc, rpc, mpc,
  currentData,  \* the reader's packet, <<>> when it is empty (GetSize() = 0)
  retry,        \* SendCurrentData's local counter
  conn,         \* srvData.bConnected, the agent's view of the connection
  link,         \* whether the connection really works
  wire, acks,   \* packets and answers in transit on it
  mpNo,         \* number of the post's current reading
  \* history: what was queued, what the server has, what was forgotten
  accepted, server, lost,
  fault,        \* the last save failed, or emptied the file under a running Load
  crashes

queueVars == <<queue, file, toLoad, fault>>
netVars   == <<conn, link, wire, acks>>
histVars  == <<accepted, server, lost>>
vars == <<queue, file, toLoad, spc, rpc, mpc, currentData, retry, conn, link,
          wire, acks, mpNo, accepted, server, lost, fault, crashes>>

-----------------------------------------------------------------------------
\* The numbers of the readings among the packets of a sequence.
Held(q) == {q[i].no : i \in {j \in DOMAIN q : q[j].ra}}

\* Fault: the newest packet goes to the front.
PushFront(q, p) == IF \E i \in DOMAIN q : q[i].no = p.no THEN q ELSE <<p>> \o q

\* DataPacketQueue::Push: a number already queued is not queued again.
Push(q, p) == IF \E i \in DOMAIN q : q[i].no = p.no THEN q ELSE Append(q, p)

\* The records Load finds after q was written from offset 0 over f, which
\* another saver wrote since this one truncated the file: frames differ in
\* size, so any number of f's records are overwritten or no longer found.
Overlay(q, f) ==
  IF q = <<>> THEN {f} ELSE {q \o SubSeq(f, k, Len(f)) : k \in 2..Len(f) + 2}

Prefixes(q) == {SubSeq(q, 1, k) : k \in 0..Len(q)}

-----------------------------------------------------------------------------
Init ==
  /\ queue = <<>> /\ file = <<>> /\ toLoad = <<>>
  /\ spc = "load" /\ rpc = "none" /\ mpc = "wait"
  /\ currentData = <<>>
  /\ retry = 0
  /\ conn = FALSE /\ link = FALSE /\ wire = <<>> /\ acks = <<>>
  /\ mpNo = 0
  /\ accepted = {} /\ server = {} /\ lost = {}
  /\ fault = FALSE
  /\ crashes = 0

-----------------------------------------------------------------------------
(* DataPacketQueue::Save, in the two steps between which it can be         *)
(* interrupted: open(O_TRUNC), outside the mutex, and the writes, under it.*)

\* A running Load is left with the records it has buffered.
SaveOpen ==
  /\ file' = <<>>
  /\ toLoad' \in Prefixes(toLoad)
  /\ lost' = lost \cup (Held(toLoad) \ (Held(toLoad') \cup Held(queue) \cup server))
  /\ fault' = (fault \/ spc = "load")
  /\ UNCHANGED queue

SaveOpenFails ==
  /\ fault' = TRUE
  /\ UNCHANGED <<queue, file, toLoad, lost>>

\* Fault: the iterator starts at the second packet.
SaveWriteSkipsFront ==
  /\ file' = IF queue = <<>> THEN <<>> ELSE Tail(queue)
  /\ fault' = (fault /\ spc = "load")
  /\ UNCHANGED <<queue, toLoad, lost>>

\* A write error ends the save after some prefix of the queue.
SaveWrite ==
  /\ \E q \in Prefixes(queue) :
       /\ file' \in Overlay(q, file)
       /\ fault' = (q # queue \/ (fault /\ spc = "load"))
  /\ UNCHANGED <<queue, toLoad, lost>>

-----------------------------------------------------------------------------
(* Reader thread: DataTask::doReadData                                     *)

\* Protocol::RequestCurrentData: the post answers with its current reading,
\* not at all, or the frame read is the answer to another command.
RequestCurrentData ==
  /\ rpc = "request"
  /\ \/ /\ mpNo' \in mpNo..MaxNo
        /\ mpNo' > 0
        /\ currentData' = <<[no |-> mpNo', ra |-> TRUE]>>
     \/ /\ \E n \in DataNo : currentData' = <<[no |-> n, ra |-> FALSE]>>
        /\ UNCHANGED mpNo
  /\ rpc' = "push"
  /\ UNCHANGED <<queue, file, toLoad, fault, spc, mpc, retry, netVars, histVars,
                 crashes>>

\* Fault: the packet is queued and not saved.
PushWithoutSave ==
  /\ rpc = "push"
  /\ queue' = Push(queue, currentData[1])
  /\ accepted' = accepted \cup Held(queue')
  /\ lost' = lost \ Held(queue')
  /\ rpc' = "request"
  /\ UNCHANGED <<file, toLoad, fault, spc, mpc, currentData, retry, netVars,
                 mpNo, server, crashes>>

PushData ==
  /\ rpc = "push"
  /\ queue' = Push(queue, currentData[1])
  /\ accepted' = accepted \cup Held(queue')
  /\ lost' = lost \ Held(queue')
  /\ rpc' = "save"
  /\ UNCHANGED <<file, toLoad, fault, spc, mpc, currentData, retry, netVars,
                 mpNo, server, crashes>>

\* DataTask::SaveData: nothing is saved when the queue is empty.
ReaderSaveData ==
  /\ rpc = "save"
  /\ \/ queue = <<>> /\ rpc' = "request" /\ UNCHANGED <<queueVars, lost>>
     \/ queue # <<>> /\ rpc' = "request" /\ SaveOpenFails
     \/ queue # <<>> /\ rpc' = "write" /\ SaveOpen
  /\ currentData' = <<>>
  /\ UNCHANGED <<spc, mpc, retry, netVars, mpNo, accepted, server, crashes>>

ReaderSaveWrite ==
  /\ rpc = "write"
  /\ SaveWrite
  /\ rpc' = "request"
  /\ UNCHANGED <<spc, mpc, currentData, retry, netVars, mpNo, accepted, server,
                 crashes>>

-----------------------------------------------------------------------------
(* Sender thread: DataTask::doProcess                                      *)

\* DataPacketQueue::Load, one record: it is pushed like any other packet.
LoadRecord ==
  /\ spc = "load" /\ toLoad # <<>>
  /\ queue' = Push(queue, Head(toLoad))
  /\ toLoad' = Tail(toLoad)
  /\ UNCHANGED <<file, fault, spc, rpc, mpc, currentData, retry, netVars,
                 histVars, mpNo, crashes>>

\* End of the file: doProcess starts the reader thread.
LoadDone ==
  /\ spc = "load" /\ toLoad = <<>>
  /\ spc' = "idle"
  /\ rpc' = "request"
  /\ UNCHANGED <<queueVars, mpc, currentData, retry, netVars, histVars, mpNo,
                 crashes>>

Connected ==
  /\ conn' = TRUE /\ link' = TRUE
  /\ wire' = <<>> /\ acks' = <<>>

\* SendCurrentData returns; doProcess closes the data port.
Return ==
  /\ spc' = "idle"
  /\ conn' = FALSE /\ link' = FALSE
  /\ wire' = <<>> /\ acks' = <<>>

\* doProcess: NegoiateDataChannel returned a port, SendCurrentData starts.
NegoiateDataChannel ==
  /\ spc = "idle"
  /\ Connected
  /\ retry' = 0
  /\ spc' = "send"
  /\ UNCHANGED <<queueVars, rpc, mpc, currentData, histVars, mpNo, crashes>>

\* while (queue.GetSize()) ends.
SendDone ==
  /\ spc = "send" /\ queue = <<>>
  /\ Return
  /\ UNCHANGED <<queueVars, rpc, mpc, currentData, retry, histVars, mpNo, crashes>>

\* Fault: the stray packet is skipped but stays at the front.
SkipStray ==
  /\ spc = "send" /\ queue # <<>> /\ ~Head(queue).ra
  /\ UNCHANGED vars

\* "not a [ra] data,droped"
DropStray ==
  /\ spc = "send" /\ queue # <<>> /\ ~Head(queue).ra
  /\ queue' = Tail(queue)
  /\ UNCHANGED <<file, toLoad, fault, spc, rpc, mpc, currentData, retry, netVars,
                 histVars, mpNo, crashes>>

\* port.Write succeeds, whether or not the server is still there.
WritePacket ==
  /\ spc = "send" /\ queue # <<>> /\ Head(queue).ra
  /\ conn /\ Len(wire) < MaxWire
  /\ wire' = IF link THEN Append(wire, Head(queue).no) ELSE wire
  /\ spc' = "ack"
  /\ UNCHANGED <<queueVars, rpc, mpc, currentData, retry, conn, link, acks,
                 histVars, mpNo, crashes>>

\* Fault: any ACK will do (IsAckNo dropped).
AnyAck(got) == got # <<>> /\ Head(got) # NAK

\* The packet at the front is acknowledged by the first answer received.
AckMatches(got) == got # <<>> /\ Head(got) # NAK /\ Head(got) = Head(queue).no

\* Fault: one retry more than the code allows.
GivesUpLate == retry > RetryLimit + 1

GivesUp == retry > RetryLimit

\* What SendCurrentData does with the answers got, once port.Write and
\* ReceiveAckFrom are over: closed tells that the peer's close was seen.
CheckAck(got, closed) ==
  \/ \* modem.IsPowerOff(): return, whatever was received
     /\ Return
     /\ UNCHANGED <<queue, retry>>
  \/ /\ AckMatches(got)
     /\ queue' = Tail(queue)
     /\ retry' = 0
     /\ spc' = "send"
     /\ conn' = ~closed
     /\ acks' = <<>>
     /\ UNCHANGED <<link, wire>>
  \/ /\ ~AckMatches(got) /\ GivesUp
     /\ Return
     /\ UNCHANGED <<queue, retry>>
  \/ /\ ~AckMatches(got) /\ ~GivesUp
     /\ retry' = retry + 1
     /\ spc' = "send"
     /\ conn' = ~closed
     /\ acks' = <<>>
     /\ UNCHANGED <<queue, link, wire>>

\* port.Write fails with an errno, the connection being broken or its
\* buffers full: no answer is awaited.
WriteFails ==
  /\ spc = "send" /\ queue # <<>> /\ Head(queue).ra
  /\ conn /\ (~link \/ Len(wire) >= MaxWire)
  /\ CheckAck(<<>>, FALSE)
  /\ UNCHANGED <<file, toLoad, fault, rpc, mpc, currentData, histVars, mpNo, crashes>>

\* Packet::ReceiveAckFrom takes every answer there is until the port times
\* out, fails, or the peer closes.
ReceiveAck ==
  /\ spc = "ack"
  /\ \E closed \in IF link THEN {FALSE} ELSE BOOLEAN : CheckAck(acks, closed)
  /\ UNCHANGED <<file, toLoad, fault, rpc, mpc, currentData, histVars, mpNo, crashes>>

\* ChannelException with bUnConnected: negotiate again, then continue or return.
Reconnect ==
  /\ spc = "send" /\ queue # <<>> /\ Head(queue).ra
  /\ ~conn
  /\ \/ Connected /\ UNCHANGED spc
     \/ Return
  /\ UNCHANGED <<queueVars, rpc, mpc, currentData, retry, histVars, mpNo, crashes>>

-----------------------------------------------------------------------------
(* Main thread: the power-off event saves the queue and reboots.           *)

MainSaveData ==
  /\ mpc = "wait"
  /\ \/ queue = <<>> /\ mpc' = "reboot" /\ UNCHANGED <<queueVars, lost>>
     \/ queue # <<>> /\ mpc' = "reboot" /\ SaveOpenFails
     \/ queue # <<>> /\ mpc' = "write" /\ SaveOpen
  /\ UNCHANGED <<spc, rpc, currentData, retry, netVars, mpNo, accepted, server,
                 crashes>>

MainSaveWrite ==
  /\ mpc = "write"
  /\ SaveWrite
  /\ mpc' = "reboot"
  /\ UNCHANGED <<spc, rpc, currentData, retry, netVars, mpNo, accepted, server,
                 crashes>>

\* The worker process ends, through the reboot above or not, and is started
\* anew: a save in progress has written some prefix of the queue.
Crash ==
  /\ crashes < MaxCrashes
  /\ crashes' = crashes + 1
  /\ IF "write" \in {rpc, mpc}
       THEN \E q \in Prefixes(queue) : file' \in Overlay(q, file)
       ELSE file' = file
  /\ lost' = accepted \ (server \cup Held(file'))
  /\ queue' = <<>> /\ toLoad' = file'
  /\ spc' = "load" /\ rpc' = "none" /\ mpc' = "wait"
  /\ currentData' = <<>> /\ retry' = 0 /\ fault' = FALSE
  /\ conn' = FALSE /\ link' = FALSE /\ wire' = <<>> /\ acks' = <<>>
  /\ UNCHANGED <<mpNo, accepted, server>>

-----------------------------------------------------------------------------
(* The server and the network                                              *)

ServerStores ==
  /\ link /\ wire # <<>>
  /\ server' = server \cup {Head(wire)}
  /\ acks' = Append(acks, Head(wire))
  /\ wire' = Tail(wire)
  /\ UNCHANGED <<queueVars, spc, rpc, mpc, currentData, retry, conn, link, mpNo,
                 accepted, lost, crashes>>

ServerRefuses ==
  /\ link /\ wire # <<>>
  /\ acks' = Append(acks, NAK)
  /\ wire' = Tail(wire)
  /\ UNCHANGED <<queueVars, spc, rpc, mpc, currentData, retry, conn, link, mpNo,
                 histVars, crashes>>

\* Answers already received can still be read, or are gone with the link.
LinkDown ==
  /\ link
  /\ link' = FALSE
  /\ wire' = <<>>
  /\ acks' \in {acks, <<>>}
  /\ UNCHANGED <<queueVars, spc, rpc, mpc, currentData, retry, conn, mpNo,
                 histVars, crashes>>

-----------------------------------------------------------------------------
Reader == RequestCurrentData \/ PushData \/ ReaderSaveData \/ ReaderSaveWrite

Sender ==
  \/ LoadRecord \/ LoadDone
  \/ NegoiateDataChannel \/ SendDone \/ DropStray
  \/ WritePacket \/ WriteFails \/ ReceiveAck \/ Reconnect

Main == MainSaveData \/ MainSaveWrite

Environment == ServerStores \/ ServerRefuses \/ LinkDown \/ Crash

Next == Reader \/ Sender \/ Main \/ Environment

Spec == Init /\ [][Next]_vars

\* A packet written before the new connection fails.
TimelyWrite == WritePacket /\ link

\* An answer that reaches a sender which waits for it and has seen no other.
PromptAnswer == ServerStores /\ spc = "ack" /\ acks = <<>>

AckedPop == ReceiveAck /\ AckMatches(acks) /\ spc' = "send"

\* The threads run on; the network and the server do not fail for ever.
Fairness ==
  /\ WF_vars(Sender)
  /\ WF_vars(PushData \/ ReaderSaveData \/ ReaderSaveWrite)
  /\ SF_vars(TimelyWrite)
  /\ SF_vars(PromptAnswer)
  /\ SF_vars(AckedPop)

FairSpec == Spec /\ Fairness

-----------------------------------------------------------------------------
(* Properties                                                              *)

TypeOK ==
  /\ queue \in Seq(Packet) /\ file \in Seq(Packet) /\ toLoad \in Seq(Packet)
  /\ spc \in {"load", "idle", "send", "ack"}
  /\ rpc \in {"none", "request", "push", "save", "write"}
  /\ mpc \in {"wait", "write", "reboot"}
  /\ currentData \in Seq(Packet)
  /\ rpc = "push" => Len(currentData) = 1
  /\ spc = "ack" => queue # <<>>
  /\ retry \in 0..RetryLimit + 1
  /\ conn \in BOOLEAN /\ link \in BOOLEAN
  /\ wire \in Seq(DataNo) /\ acks \in Seq(DataNo \cup {NAK})
  /\ mpNo \in 0..MaxNo
  /\ accepted \subseteq DataNo /\ server \subseteq DataNo /\ lost \subseteq DataNo
  /\ fault \in BOOLEAN
  /\ crashes \in 0..MaxCrashes

\* A reading leaves the agent only after the server stored it: what was
\* queued and neither stored nor forgotten by a restart is still in the
\* queue, or in the part of the file that Load has yet to queue.  Repeated,
\* late and negative answers, restarts and re-read files do not change that
\* (the Pop in SendCurrentData, the Push in Load).
AcceptedKept == accepted \ (server \cup lost) \subseteq Held(queue) \cup Held(toLoad)

\* The intervals in which the file may lack a queued reading: a save is due
\* or under way, or the last one failed.
AtRisk == rpc \in {"save", "write"} \/ mpc = "write" \/ fault

\* Outside those intervals a restart finds every queued reading in the file,
\* although Pop never updates it and two threads may save at once
\* (DataPacketQueue::Save has no lock around its O_TRUNC).
FileCoversQueue == ~AtRisk => Held(queue) \cup Held(toLoad) \subseteq Held(file)

\* A step forgets an undelivered reading only if it ends the process while
\* the file is at risk, or is the main thread's save truncating the file
\* that Load still reads.
LossOnlyAtRisk ==
  [][lost' \subseteq lost \/ AtRisk \/ (spc = "load" /\ mpc' = "write")]_vars

\* The queue, the file and the retries implement Delivery: readings reach
\* the server for the first time in the order of their numbers, and none is
\* stored that the agent did not take from the post.
D == INSTANCE Delivery WITH Readings <- DataNo, delivered <- server

ImplementsDelivery == D!Spec

\* Every reading that was queued reaches the server or is forgotten by a
\* restart: no stray packet, stale answer or lost connection blocks the
\* queue for ever.
EventuallyDelivered == \A n \in DataNo : n \in accepted ~> n \in server \cup lost

\* What the comment in RequestCurrentData promises ("if not the right answer
\* ,read again"): only answers to the current-data request are queued.
OnlyReadingsQueued == \A i \in DOMAIN queue : queue[i].ra
=============================================================================
