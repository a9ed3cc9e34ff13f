---------------------------- MODULE StatusReport ----------------------------
(***************************************************************************)
(* The status of the monitoring post on its way to the server.  The reader *)
(* thread polls it (Protocol::HealthCheck) and queues it when it changed;  *)
(* the sender thread reports the queue at the end of a data session        *)
(* (Protocol::HealthCheckReport), on the connection that carried data      *)
(* packets before.                                                         *)
(*                                                                         *)
(* Statuses are told apart only by the number the post gave them: Push     *)
(* drops one whose number is queued, and IsAckNo takes every answer with   *)
(* the number for the right one, those to data packets included.  What     *)
(* the server knows can be trusted as long as numbers are not repeated:    *)
(* blurred records that they were.                                         *)
(***************************************************************************)
EXTENDS Integers, Sequences, SequencesExt

CONSTANTS
  Status,        \* the statuses of the post; 0 is nLastStatus at start-up
  MaxNo,         \* numbers of status answers and data packets: 1..MaxNo
  RetryLimit,    \* HealthCheckReport gives up when retry > RetryLimit (2)
  MaxWire,       \* status packets in transit
  MaxCrashes

ASSUME StatusAssumption ==
  /\ 0 \in Status
  /\ MaxNo \in Nat \ {0} /\ RetryLimit \in Nat
  /\ MaxWire \in Nat \ {0} /\ MaxCrashes \in Nat

No == 1..MaxNo
NAK == 0
Answer == [no : No, status : Status]

VARIABLES
  nLastStatus, statusQueue,
  pc,            \* sender: "idle", "report", "ack"
  retry,
  conn, link,    \* srvData.bConnected; whether the connection works
  wire, acks,    \* in transit: packets, and numbers of answers, 0 for a NAK
  known,         \* the status the server stored last
  mpNo,          \* the number the post gave last
  changed,       \* a status was taken since start-up
  used,          \* numbers of statuses taken and of data packets sent
  blurred,       \* one of them came up again
  crashes

netVars == <<conn, link, wire, acks>>
histVars == <<changed, used, blurred>>
vars == <<nLastStatus, statusQueue, pc, retry, netVars, known, mpNo, histVars, crashes>>

\* DataPacketQueue::Push
Push(q, p) == IF \E i \in DOMAIN q : q[i].no = p.no THEN q ELSE Append(q, p)

\* LoadStatus finds no file: SaveStatus is never called.
Init ==
  /\ nLastStatus = 0 /\ statusQueue = <<>>
  /\ pc = "idle" /\ retry = 0
  /\ conn = FALSE /\ link = FALSE /\ wire = <<>> /\ acks = <<>>
  /\ known \in Status /\ mpNo = 0
  /\ changed = FALSE /\ used = {} /\ blurred = FALSE
  /\ crashes = 0

-----------------------------------------------------------------------------
(* Reader thread                                                           *)

\* The answer is a valid status that differs from the last one.  The post
\* counts its answers, or gives the number of the current reading again.
HealthCheck ==
  /\ \E a \in Answer :
       /\ a.no \in mpNo..mpNo + 1 /\ a.status # nLastStatus
       /\ mpNo' = a.no
       /\ nLastStatus' = a.status
       /\ statusQueue' = Push(statusQueue, a)
       /\ used' = used \cup {a.no}
       /\ blurred' = (blurred \/ a.no \in used)
  /\ changed' = TRUE
  /\ UNCHANGED <<pc, retry, netVars, known, crashes>>

-----------------------------------------------------------------------------
(* Sender thread: HealthCheckReport                                        *)

\* SendCurrentData is over, the port open and bExtCommunicationError false.
\* An answer to one of its packets can still be on the way.
ReportStarts ==
  /\ pc = "idle"
  /\ conn' = TRUE /\ link' = TRUE /\ wire' = <<>>
  /\ \/ acks' = <<>> /\ UNCHANGED <<used, blurred>>
     \/ \E n \in No : /\ acks' = <<n>>
                      /\ used' = used \cup {n}
                      /\ blurred' = (blurred \/ n \in used)
  /\ pc' = "report" /\ retry' = 0
  /\ UNCHANGED <<nLastStatus, statusQueue, known, mpNo, changed, crashes>>

\* HealthCheckReport returns; doProcess closes the port.
Return ==
  /\ pc' = "idle"
  /\ conn' = FALSE /\ link' = FALSE /\ wire' = <<>> /\ acks' = <<>>

ReportDone ==
  /\ pc = "report" /\ statusQueue = <<>>
  /\ Return
  /\ UNCHANGED <<nLastStatus, statusQueue, retry, known, mpNo, histVars, crashes>>

SendStatus ==
  /\ pc = "report" /\ statusQueue # <<>>
  /\ conn /\ Len(wire) < MaxWire
  /\ wire' = IF link THEN Append(wire, Head(statusQueue)) ELSE wire
  /\ pc' = "ack"
  /\ UNCHANGED <<nLastStatus, statusQueue, retry, conn, link, acks, known, mpNo, histVars,
                 crashes>>

\* Fault: any ACK will do.
AnyAck(got) == got # <<>> /\ Head(got) # NAK

\* ack.IsAck() && ack.IsAckNo(statusAnswer.GetDataNo())
Accepted(got) == got # <<>> /\ Head(got) # NAK /\ Head(got) = Head(statusQueue).no

\* Fault: the retries are not limited.
EndlessCheck(got, failures, closed) ==
  /\ ~Accepted(got)
  /\ retry' = retry + failures + 1
  /\ pc' = "report" /\ conn' = ~closed /\ acks' = <<>>
  /\ UNCHANGED <<statusQueue, link, wire>>

\* Fault: a status that was accepted stays queued.
KeepsAccepted(got, failures, closed) ==
  \/ /\ ~Accepted(got) /\ retry + failures > RetryLimit
     /\ Return
     /\ UNCHANGED <<statusQueue, retry>>
  \/ /\ retry' = IF Accepted(got) THEN 0 ELSE retry + failures + 1
     /\ Accepted(got) \/ retry + failures <= RetryLimit
     /\ pc' = "report" /\ conn' = ~closed /\ acks' = <<>>
     /\ UNCHANGED <<statusQueue, link, wire>>

\* The rest of the loop with the answers got; an exception, with what was
\* received before it, has added one to retry.
CheckAck(got, failures, closed) ==
  \/ /\ Accepted(got)
     /\ statusQueue' = Tail(statusQueue)
     /\ retry' = 0
     /\ pc' = "report" /\ conn' = ~closed /\ acks' = <<>>
     /\ UNCHANGED <<link, wire>>
  \/ /\ ~Accepted(got) /\ retry + failures > RetryLimit
     /\ Return
     /\ UNCHANGED <<statusQueue, retry>>
  \/ /\ ~Accepted(got) /\ retry + failures <= RetryLimit
     /\ retry' = retry + failures + 1
     /\ pc' = "report" /\ conn' = ~closed /\ acks' = <<>>
     /\ UNCHANGED <<statusQueue, link, wire>>

\* SendTo throws: the port is closed, broken, or its buffers are full.
SendFails ==
  /\ pc = "report" /\ statusQueue # <<>>
  /\ ~conn \/ ~link \/ Len(wire) >= MaxWire
  /\ CheckAck(<<>>, 1, ~conn)
  /\ UNCHANGED <<nLastStatus, known, mpNo, histVars, crashes>>

\* ReceiveAckFrom takes what arrives until the port times out, throws, or
\* the peer closes.
ReceiveAck ==
  /\ pc = "ack"
  /\ \E failures \in IF link THEN {0} ELSE {0, 1} :
       \E closed \in IF failures = 1 THEN {FALSE} ELSE {FALSE, ~link} :
         CheckAck(acks, failures, closed)
  /\ UNCHANGED <<nLastStatus, known, mpNo, histVars, crashes>>

-----------------------------------------------------------------------------
(* The server, the network, restarts                                       *)

ServerStores ==
  /\ link /\ wire # <<>>
  /\ known' = Head(wire).status
  /\ \/ acks' = Append(acks, Head(wire).no)
     \/ UNCHANGED acks                          \* the answer is lost
  /\ wire' = Tail(wire)
  /\ UNCHANGED <<nLastStatus, statusQueue, pc, retry, conn, link, mpNo, histVars, crashes>>

ServerRefuses ==
  /\ link /\ wire # <<>>
  /\ acks' = Append(acks, NAK)
  /\ wire' = Tail(wire)
  /\ UNCHANGED <<nLastStatus, statusQueue, pc, retry, conn, link, known, mpNo, histVars,
                 crashes>>

LinkDown ==
  /\ link
  /\ link' = FALSE /\ wire' = <<>> /\ acks' \in {acks, <<>>}
  /\ UNCHANGED <<nLastStatus, statusQueue, pc, retry, conn, known, mpNo, histVars, crashes>>

\* The queue is gone, and nLastStatus starts from 0 again.
Crash ==
  /\ crashes < MaxCrashes
  /\ crashes' = crashes + 1
  /\ nLastStatus' = 0 /\ statusQueue' = <<>>
  /\ Return
  /\ retry' = 0
  /\ changed' = FALSE
  /\ UNCHANGED <<known, mpNo, used, blurred>>

-----------------------------------------------------------------------------
Sender == ReportStarts \/ ReportDone \/ SendStatus \/ SendFails \/ ReceiveAck

Next == HealthCheck \/ Sender \/ ServerStores \/ ServerRefuses \/ LinkDown \/ Crash

Spec == Init /\ [][Next]_vars

\* A session that no late answer follows into the report, and its first report.
CleanStart == ReportStarts /\ acks' = <<>>
TimelySend == SendStatus /\ link /\ acks = <<>>
PromptAnswer == ServerStores /\ pc = "ack" /\ acks = <<>> /\ acks' # <<>>
AcceptedPop == ReceiveAck /\ Accepted(acks)

\* The sender runs on; the network and the server do not fail for ever.
FairSpec ==
  /\ Spec
  /\ WF_vars(Sender)
  /\ SF_vars(CleanStart) /\ SF_vars(TimelySend)
  /\ SF_vars(PromptAnswer) /\ SF_vars(AcceptedPop)

-----------------------------------------------------------------------------
(* Properties                                                              *)

TypeOK ==
  /\ nLastStatus \in Status /\ statusQueue \in Seq(Answer)
  /\ pc \in {"idle", "report", "ack"}
  /\ pc = "ack" => statusQueue # <<>>
  /\ retry \in 0..RetryLimit + 1
  /\ conn \in BOOLEAN /\ link \in BOOLEAN
  /\ wire \in Seq(Answer) /\ acks \in Seq({NAK} \cup No)
  /\ known \in Status /\ mpNo \in 0..MaxNo
  /\ changed \in BOOLEAN /\ used \subseteq No /\ blurred \in BOOLEAN
  /\ crashes \in 0..MaxCrashes

\* The status taken last is the last one queued or, when the queue is empty,
\* the one the server stored last: repeated reports, late answers and lost
\* ones do not make HealthCheckReport drop it, as long as numbers are not
\* repeated.  nLastStatus is not queued again, so a status dropped here
\* would never be reported.
CurrentStatusKept ==
  changed /\ ~blurred =>
    IF statusQueue = <<>> THEN known = nLastStatus
                          ELSE Last(statusQueue).status = nLastStatus

\* The queue is emptied again and again: a report that is refused or fails
\* is repeated in later sessions, and nothing in it blocks the rest.
StatusArrives == []<>(statusQueue = <<>>)
=============================================================================
