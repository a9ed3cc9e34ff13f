------------------------- MODULE StatusReportProofs -------------------------
(***************************************************************************)
(* Proofs about StatusReport, for any statuses, numbers, retry limit and   *)
(* number of packets in transit: the status taken last is not lost by      *)
(* HealthCheckReport.  The argument is about the order of the packets in   *)
(* transit: behind a report of the first queued status there are only      *)
(* reports of the same status, so the server cannot fall back to an older  *)
(* one after it answered the newest.                                       *)
(***************************************************************************)
EXTENDS StatusReport, TLAPS

\* The Boolean part of TypeOK.
Flags == conn \in BOOLEAN /\ link \in BOOLEAN /\ changed \in BOOLEAN /\ blurred \in BOOLEAN

\* Every number in the queue and in transit is among those used, and the
\* numbers in the queue are distinct.
Numbered ==
  /\ \A i \in DOMAIN statusQueue : statusQueue[i].no \in used
  /\ \A i \in DOMAIN wire : wire[i].no \in used
  /\ \A i \in DOMAIN acks : acks[i] \in used \cup {NAK}
  /\ \A i, j \in DOMAIN statusQueue : statusQueue[i].no = statusQueue[j].no => i = j

\* Of the queued statuses only the first is in transit.
OnlyHeadSent ==
  \A i \in DOMAIN wire, j \in DOMAIN statusQueue :
    wire[i].no = statusQueue[j].no => j = 1 /\ wire[i] = statusQueue[1]

\* Behind a report of it there are only reports of it.
HeadSentLast ==
  statusQueue # <<>> =>
    \A i, j \in DOMAIN wire :
      i < j /\ wire[i].no = statusQueue[1].no => wire[j].no = statusQueue[1].no

\* Once it is answered the server knows it and nothing older is in transit.
AnsweredKnown ==
  statusQueue # <<>> =>
    \A i \in DOMAIN acks :
      acks[i] = statusQueue[1].no =>
        /\ known = statusQueue[1].status
        /\ \A j \in DOMAIN wire : wire[j].no = statusQueue[1].no

\* The status taken last is the last in the queue.
TakenLast == statusQueue # <<>> => statusQueue[Len(statusQueue)].status = nLastStatus

\* When the queue is empty the server knows it, and reports still in transit
\* only repeat it.
Arrived ==
  changed /\ statusQueue = <<>> =>
    known = nLastStatus /\ \A i \in DOMAIN wire : wire[i].status = nLastStatus

Tracked ==
  ~blurred => OnlyHeadSent /\ HeadSentLast /\ AnsweredKnown /\ TakenLast /\ Arrived

IInv == TypeOK /\ Numbered /\ Tracked

-----------------------------------------------------------------------------
(* Lemmas about the sequences                                              *)

\* The empty sequence has no positions.
LEMMA EmptyFacts == DOMAIN <<>> = {} /\ Len(<<>>) = 0
OBVIOUS

\* Positions of a sequence.
LEMMA SeqFacts ==
  ASSUME NEW S, NEW q \in Seq(S)
  PROVE  /\ Len(q) \in Nat /\ DOMAIN q = 1..Len(q)
         /\ \A i \in DOMAIN q : q[i] \in S
         /\ q # <<>> => 1 \in DOMAIN q /\ Len(q) \in DOMAIN q /\ Len(q) >= 1
OBVIOUS

\* Append keeps what was there and adds one element at the end.
LEMMA AppendFacts ==
  ASSUME NEW S, NEW q \in Seq(S), NEW e \in S
  PROVE  /\ Append(q, e) \in Seq(S) /\ Append(q, e) # <<>>
         /\ Len(Append(q, e)) = Len(q) + 1
         /\ DOMAIN Append(q, e) = 1..Len(q) + 1
         /\ \A i \in DOMAIN q : Append(q, e)[i] = q[i]
         /\ Append(q, e)[Len(q) + 1] = e
OBVIOUS

\* Pop removes the first element only.
LEMMA TailFacts ==
  ASSUME NEW S, NEW q \in Seq(S), q # <<>>
  PROVE  /\ Tail(q) \in Seq(S)
         /\ Head(q) = q[1] /\ Head(q) \in S
         /\ Len(Tail(q)) = Len(q) - 1
         /\ DOMAIN Tail(q) = 1..Len(q) - 1
         /\ \A i \in DOMAIN Tail(q) : i + 1 \in DOMAIN q /\ Tail(q)[i] = q[i + 1]
         /\ Tail(q) = <<>> => Len(q) = 1
<1>1. /\ Tail(q) \in Seq(S) /\ Len(q) \in Nat /\ Len(q) >= 1
      /\ Head(q) = q[1] /\ Head(q) \in S
      /\ Len(Tail(q)) = Len(q) - 1
      /\ \A i \in 1..Len(q) - 1 : Tail(q)[i] = q[i + 1]
  OBVIOUS
<1>2. DOMAIN Tail(q) = 1..Len(q) - 1 /\ DOMAIN q = 1..Len(q) BY <1>1, SeqFacts
<1>3. Tail(q) = <<>> => Len(q) = 1
  <2>1. Tail(q) = <<>> => Len(Tail(q)) = 0 BY EmptyFacts, Zenon
  <2> DEFINE t == Tail(q)
  <2>2. Len(t) = Len(q) - 1 /\ Len(q) \in Nat BY <1>1
  <2> HIDE DEF t
  <2>3. Len(t) = 0 => Len(q) = 1 BY <2>2
  <2> USE DEF t
  <2> QED BY <2>1, <2>3, Zenon
<1>4. \A i \in DOMAIN Tail(q) : i + 1 \in DOMAIN q BY <1>1, <1>2
<1>5. \A i \in DOMAIN Tail(q) : Tail(q)[i] = q[i + 1] BY <1>1, <1>2
<1> QED BY <1>1, <1>2, <1>3, <1>4, <1>5

\* The initial state satisfies the inductive invariant.
LEMMA InitInv == Init => IInv
<1> SUFFICES ASSUME Init PROVE IInv
  OBVIOUS
<1> USE DEF Init
<1>1. TypeOK
  <2>1. Flags BY Zenon DEF Flags
  <2>2. crashes \in 0..MaxCrashes /\ retry \in 0..RetryLimit + 1 /\ mpNo \in 0..MaxNo
    BY StatusAssumption
  <2> QED BY <2>1, <2>2, StatusAssumption DEF TypeOK, Flags
<1>2. Numbered BY DEF Numbered
<1>3. Tracked
  BY DEF Tracked, OnlyHeadSent, HeadSentLast, AnsweredKnown, TakenLast, Arrived
<1> QED BY <1>1, <1>2, <1>3 DEF IInv

\* HealthCheck: a number that was not used before is neither queued nor in
\* transit.
LEMMA HealthCheckInv == IInv /\ HealthCheck => IInv'
<1> SUFFICES ASSUME IInv, HealthCheck PROVE IInv'
  OBVIOUS
<1> USE DEF IInv
<1>1. PICK a \in Answer :
        /\ a.no \in mpNo..mpNo + 1 /\ a.status # nLastStatus
        /\ mpNo' = a.no
        /\ nLastStatus' = a.status
        /\ statusQueue' = Push(statusQueue, a)
        /\ used' = used \cup {a.no}
        /\ blurred' = (blurred \/ a.no \in used)
  BY DEF HealthCheck
<1>2. /\ changed' = TRUE /\ pc' = pc /\ retry' = retry /\ conn' = conn /\ link' = link
      /\ wire' = wire /\ acks' = acks /\ known' = known /\ crashes' = crashes
  BY DEF HealthCheck, netVars
<1>3. a.no \in No /\ a.status \in Status BY DEF Answer
<1>4. blurred' \in BOOLEAN BY <1>1, Zenon
<1> DEFINE q == statusQueue r == Append(statusQueue, a)
<1>5. q \in Seq(Answer) /\ wire \in Seq(Answer) BY DEF TypeOK
<1>6. /\ r \in Seq(Answer) /\ r # <<>> /\ Len(r) = Len(q) + 1 /\ DOMAIN r = 1..Len(q) + 1
      /\ \A i \in DOMAIN q : r[i] = q[i]
      /\ r[Len(q) + 1] = a
  BY <1>5, AppendFacts
<1>7. Len(q) \in Nat /\ DOMAIN q = 1..Len(q) BY <1>5, SeqFacts
<1>8. statusQueue' = q \/ (statusQueue' = r /\ \A i \in DOMAIN q : q[i].no # a.no)
  BY <1>1 DEF Push
<1> HIDE DEF q, r
<1>9. TypeOK'
  <2>1. statusQueue' \in Seq(Answer) /\ (q # <<>> => statusQueue' # <<>>)
    BY <1>5, <1>6, <1>8 DEF q
  <2>2. used' \subseteq No BY <1>1, <1>3 DEF TypeOK
  <2>3. mpNo' \in 0..MaxNo BY <1>1, <1>3, StatusAssumption DEF No
  <2> QED BY <1>1, <1>2, <1>3, <1>4, <2>1, <2>2, <2>3 DEF TypeOK, q
<1>10. Numbered'
  <2>1. \A i \in DOMAIN statusQueue' : statusQueue'[i].no \in used'
    <3>1. CASE statusQueue' = q BY <1>1, <3>1 DEF Numbered, q
    <3>2. CASE statusQueue' = r
      <4> TAKE i \in DOMAIN statusQueue'
      <4>1. CASE i = Len(q) + 1 BY <1>1, <1>6, <3>2, <4>1
      <4>2. CASE i # Len(q) + 1
        <5>1. i \in DOMAIN q /\ r[i] = q[i] BY <1>6, <1>7, <3>2, <4>2
        <5> QED BY <1>1, <3>2, <5>1 DEF Numbered, q
      <4> QED BY <4>1, <4>2
    <3> QED BY <1>8, <3>1, <3>2
  <2>2. \A i, j \in DOMAIN statusQueue' :
          statusQueue'[i].no = statusQueue'[j].no => i = j
    <3>1. CASE statusQueue' = q BY <3>1 DEF Numbered, q
    <3>2. CASE statusQueue' = r /\ \A i \in DOMAIN q : q[i].no # a.no
      <4>1. \A i \in DOMAIN r : i = Len(q) + 1 \/ (i \in DOMAIN q /\ r[i] = q[i])
        BY <1>6, <1>7
      <4>2. \A i, j \in DOMAIN q : q[i].no = q[j].no => i = j BY DEF Numbered, q
      <4> QED BY <1>6, <3>2, <4>1, <4>2
    <3> QED BY <1>8, <3>1, <3>2
  <2>3. /\ \A i \in DOMAIN wire' : wire'[i].no \in used'
        /\ \A i \in DOMAIN acks' : acks'[i] \in used' \cup {NAK}
    BY <1>1, <1>2 DEF Numbered
  <2> QED BY <2>1, <2>2, <2>3 DEF Numbered
<1>11. ASSUME ~blurred'
       PROVE  OnlyHeadSent' /\ HeadSentLast' /\ AnsweredKnown' /\ TakenLast' /\ Arrived'
  <2>1. ~blurred /\ a.no \notin used BY <1>1, <1>11
  <2>2. statusQueue' = r
    BY <1>1, <2>1 DEF Push, Numbered, q, r
  <2>3. \A i \in DOMAIN r : i = Len(q) + 1 \/ (i \in DOMAIN q /\ r[i] = q[i])
    BY <1>6, <1>7
  <2>4. OnlyHeadSent /\ HeadSentLast /\ AnsweredKnown BY <2>1 DEF Tracked
  <2>5. \A i \in DOMAIN wire : wire[i].no # a.no BY <2>1 DEF Numbered
  <2>6. \A i \in DOMAIN acks : acks[i] # a.no
    <3>1. a.no # NAK BY <1>3, StatusAssumption DEF No, NAK
    <3> QED BY <2>1, <3>1 DEF Numbered
  <2>7. TakenLast' /\ Arrived'
    BY <1>1, <1>6, <2>2 DEF TakenLast, Arrived
  <2>8. CASE q = <<>>
    <3>1. Len(q) = 0 BY <2>8, EmptyFacts
    <3>2. r[1] = a /\ DOMAIN r = 1..1 BY <1>6, <3>1
    <3> QED BY <1>2, <2>2, <2>5, <2>6, <2>7, <3>2
            DEF OnlyHeadSent, HeadSentLast, AnsweredKnown
  <2>9. CASE q # <<>>
    <3>1. 1 \in DOMAIN q /\ r[1] = q[1] BY <1>5, <1>6, <2>9, SeqFacts
    <3>2. OnlyHeadSent' BY <1>2, <1>6, <2>2, <2>3, <2>4, <2>5, <3>1 DEF OnlyHeadSent, q
    <3>3. HeadSentLast' BY <1>2, <2>2, <2>4, <2>9, <3>1 DEF HeadSentLast, q
    <3>4. AnsweredKnown' BY <1>2, <2>2, <2>4, <2>9, <3>1 DEF AnsweredKnown, q
    <3> QED BY <2>7, <3>2, <3>3, <3>4
  <2> QED BY <2>8, <2>9
<1> QED BY <1>9, <1>10, <1>11 DEF Tracked

\* A step that empties both directions of the connection, or only the
\* answers, and leaves queue and server alone keeps Numbered and Tracked.
LEMMA Drained ==
  ASSUME IInv,
         UNCHANGED <<nLastStatus, statusQueue, known, histVars>>,
         wire' = <<>> \/ wire' = wire,
         acks' = <<>> \/ acks' = acks
  PROVE  Numbered' /\ Tracked'
<1> USE EmptyFacts DEF IInv, histVars
<1>1. Numbered' BY DEF Numbered
<1>2. ASSUME ~blurred'
      PROVE  OnlyHeadSent' /\ HeadSentLast' /\ AnsweredKnown' /\ TakenLast' /\ Arrived'
  <2>1. OnlyHeadSent /\ HeadSentLast /\ AnsweredKnown /\ TakenLast /\ Arrived
    BY <1>2 DEF Tracked
  <2>2. OnlyHeadSent' BY <2>1 DEF OnlyHeadSent
  <2>3. HeadSentLast' BY <2>1 DEF HeadSentLast
  <2>4. AnsweredKnown' BY <2>1 DEF AnsweredKnown
  <2>5. TakenLast' /\ Arrived' BY <2>1 DEF TakenLast, Arrived
  <2> QED BY <2>2, <2>3, <2>4, <2>5
<1> QED BY <1>1, <1>2 DEF Tracked

\* The pop of an accepted status: when it was the only one, the server knows
\* it; otherwise nothing of the next is in transit.
LEMMA Popped ==
  ASSUME IInv, statusQueue # <<>>, Accepted(acks),
         statusQueue' = Tail(statusQueue), acks' = <<>>,
         UNCHANGED <<nLastStatus, wire, known, histVars>>
  PROVE  Numbered' /\ Tracked'
<1> USE EmptyFacts DEF IInv, histVars
<1> DEFINE q == statusQueue t == Tail(statusQueue)
<1>1. q \in Seq(Answer) /\ q # <<>> BY DEF TypeOK
<1>2. /\ t \in Seq(Answer) /\ Head(q) = q[1]
      /\ Len(t) = Len(q) - 1 /\ DOMAIN t = 1..Len(q) - 1
      /\ \A i \in DOMAIN t : i + 1 \in DOMAIN q /\ t[i] = q[i + 1]
      /\ t = <<>> => Len(q) = 1
  BY <1>1, TailFacts
<1>3. /\ Len(q) \in Nat /\ DOMAIN q = 1..Len(q) /\ 1 \in DOMAIN q
      /\ (t # <<>> => Len(t) \in DOMAIN t /\ 1 \in DOMAIN t)
  BY <1>1, <1>2, SeqFacts
<1>4. statusQueue' = t OBVIOUS
<1>5. 1 \in DOMAIN acks /\ acks[1] = q[1].no
  <2>1. acks \in Seq({NAK} \cup No) /\ acks # <<>> BY DEF TypeOK, Accepted
  <2>2. Head(acks) = acks[1] /\ 1 \in DOMAIN acks BY <2>1, SeqFacts, TailFacts
  <2> QED BY <1>2, <2>2 DEF Accepted
<1> HIDE DEF t
<1>6. Numbered'
  <2>1. \A i \in DOMAIN t : t[i].no \in used BY <1>2 DEF Numbered
  <2>2. \A i, j \in DOMAIN t : t[i].no = t[j].no => i = j
    <3> TAKE i, j \in DOMAIN t
    <3> HAVE t[i].no = t[j].no
    <3>1. i + 1 = j + 1 BY <1>2 DEF Numbered
    <3>2. i \in Int /\ j \in Int BY <1>2, <1>3
    <3> QED BY <3>1, <3>2
  <2> QED BY <1>4, <2>1, <2>2 DEF Numbered
<1>7. ASSUME ~blurred'
      PROVE  OnlyHeadSent' /\ HeadSentLast' /\ AnsweredKnown' /\ TakenLast' /\ Arrived'
  <2>1. OnlyHeadSent /\ HeadSentLast /\ AnsweredKnown /\ TakenLast
    BY <1>7 DEF Tracked
  <2>2. known = q[1].status /\ \A j \in DOMAIN wire : wire[j].no = q[1].no
    BY <1>1, <1>5, <2>1 DEF AnsweredKnown
  <2>3. \A j \in DOMAIN wire : wire[j] = q[1] BY <1>3, <2>1, <2>2 DEF OnlyHeadSent
  <2>4. \A i \in DOMAIN wire, j \in DOMAIN t : wire[i].no # t[j].no
    <3> TAKE i \in DOMAIN wire, j \in DOMAIN t
    <3>1. j + 1 \in DOMAIN q /\ t[j] = q[j + 1] /\ j + 1 # 1 BY <1>2, <1>3
    <3> QED BY <2>1, <3>1 DEF OnlyHeadSent
  <2>5. OnlyHeadSent' BY <1>4, <2>4 DEF OnlyHeadSent
  <2>6. HeadSentLast' BY <1>3, <1>4, <2>4 DEF HeadSentLast
  <2>7. AnsweredKnown' BY DEF AnsweredKnown
  <2>8. q[Len(q)].status = nLastStatus BY <1>1, <2>1 DEF TakenLast
  <2>9. TakenLast'
    <3>1. ASSUME t # <<>> PROVE t[Len(t)] = q[Len(q)]
      <4>1. Len(t) \in DOMAIN t /\ Len(t) + 1 = Len(q) BY <1>2, <1>3, <3>1
      <4> QED BY <1>2, <4>1
    <3> QED BY <1>4, <2>8, <3>1 DEF TakenLast
  <2>10. Arrived'
    <3>1. t = <<>> => q[1].status = nLastStatus BY <1>2, <2>8
    <3> QED BY <1>4, <2>2, <2>3, <3>1 DEF Arrived
  <2> QED BY <2>5, <2>6, <2>7, <2>9, <2>10
<1> QED BY <1>6, <1>7 DEF Tracked

\* The rest of the loop, from SendTo or ReceiveAckFrom.
LEMMA CheckAckInv ==
  ASSUME IInv, statusQueue # <<>>, NEW got, got = acks \/ got = <<>>,
         NEW failures \in {0, 1}, NEW closed \in BOOLEAN,
         CheckAck(got, failures, closed),
         UNCHANGED <<nLastStatus, known, mpNo, histVars, crashes>>
  PROVE  IInv'
<1> USE DEF IInv, histVars
<1>1. CASE /\ Accepted(got)
           /\ statusQueue' = Tail(statusQueue)
           /\ retry' = 0
           /\ pc' = "report" /\ conn' = ~closed /\ acks' = <<>>
           /\ UNCHANGED <<link, wire>>
  <2>1. Accepted(acks) BY <1>1 DEF Accepted
  <2>2. Numbered' /\ Tracked' BY <1>1, <2>1, Popped
  <2>3. statusQueue' \in Seq(Answer) BY <1>1, TailFacts DEF TypeOK
  <2>4. retry' \in 0..RetryLimit + 1 BY <1>1, StatusAssumption
  <2>5. conn' \in BOOLEAN /\ link' \in BOOLEAN BY <1>1, Zenon DEF TypeOK
  <2>6. TypeOK' BY <1>1, <2>3, <2>4, <2>5 DEF TypeOK
  <2> QED BY <2>2, <2>6
<1>2. CASE /\ ~Accepted(got) /\ retry + failures > RetryLimit
           /\ Return
           /\ UNCHANGED <<statusQueue, retry>>
  <2>1. Numbered' /\ Tracked' BY <1>2, Drained DEF Return
  <2>2. conn' \in BOOLEAN /\ link' \in BOOLEAN BY <1>2, Zenon DEF Return
  <2>3. TypeOK' BY <1>2, <2>2 DEF TypeOK, Return
  <2> QED BY <2>1, <2>3
<1>3. CASE /\ ~Accepted(got) /\ retry + failures <= RetryLimit
           /\ retry' = retry + failures + 1
           /\ pc' = "report" /\ conn' = ~closed /\ acks' = <<>>
           /\ UNCHANGED <<statusQueue, link, wire>>
  <2>1. Numbered' /\ Tracked' BY <1>3, Drained
  <2>2. conn' \in BOOLEAN /\ link' \in BOOLEAN BY <1>3, Zenon DEF TypeOK
  <2>3. retry' \in 0..RetryLimit + 1 BY <1>3, StatusAssumption DEF TypeOK
  <2>4. TypeOK' BY <1>3, <2>2, <2>3 DEF TypeOK
  <2> QED BY <2>1, <2>4
<1> QED BY <1>1, <1>2, <1>3, Zenon DEF CheckAck

\* A session starts: a late answer with a number not used before is not
\* taken for the answer to a status.
LEMMA ReportStartsInv == IInv /\ ReportStarts => IInv'
<1> SUFFICES ASSUME IInv, ReportStarts PROVE IInv'
  OBVIOUS
<1> USE EmptyFacts DEF IInv
<1>1. /\ conn' = TRUE /\ link' = TRUE /\ wire' = <<>> /\ pc' = "report" /\ retry' = 0
      /\ nLastStatus' = nLastStatus /\ statusQueue' = statusQueue /\ known' = known
      /\ mpNo' = mpNo /\ changed' = changed /\ crashes' = crashes
  BY DEF ReportStarts
<1>2. conn' \in BOOLEAN /\ link' \in BOOLEAN BY <1>1, Zenon
<1>3. retry' \in 0..RetryLimit + 1 BY <1>1, StatusAssumption
<1>4. CASE acks' = <<>> /\ UNCHANGED <<used, blurred>>
  <2>1. TypeOK' BY <1>1, <1>2, <1>3, <1>4 DEF TypeOK
  <2>2. Numbered' /\ Tracked' BY <1>1, <1>4, Drained DEF histVars
  <2> QED BY <2>1, <2>2
<1>5. CASE \E n \in No : /\ acks' = <<n>>
                         /\ used' = used \cup {n}
                         /\ blurred' = (blurred \/ n \in used)
  <2>1. PICK n \in No : /\ acks' = <<n>>
                        /\ used' = used \cup {n}
                        /\ blurred' = (blurred \/ n \in used)
    BY <1>5
  <2>2. /\ acks' \in Seq({NAK} \cup No) /\ DOMAIN acks' = {1} /\ acks'[1] = n
    BY <2>1
  <2>3. blurred' \in BOOLEAN BY <2>1, Zenon
  <2>4. used' \subseteq No BY <2>1 DEF TypeOK
  <2>5. TypeOK' BY <1>1, <1>2, <1>3, <2>2, <2>3, <2>4 DEF TypeOK
  <2>6. Numbered' BY <1>1, <2>1, <2>2 DEF Numbered
  <2>7. ASSUME ~blurred'
        PROVE  OnlyHeadSent' /\ HeadSentLast' /\ AnsweredKnown' /\ TakenLast' /\ Arrived'
    <3>1. TakenLast /\ Arrived BY <2>1, <2>7 DEF Tracked
    <3>2. n \notin used BY <2>1, <2>7
    <3>3. statusQueue # <<>> => statusQueue[1].no \in used
      BY SeqFacts DEF Numbered, TypeOK
    <3>4. AnsweredKnown' BY <1>1, <2>2, <3>2, <3>3 DEF AnsweredKnown
    <3>5. OnlyHeadSent' /\ HeadSentLast' BY <1>1 DEF OnlyHeadSent, HeadSentLast
    <3>6. TakenLast' /\ Arrived' BY <1>1, <3>1 DEF TakenLast, Arrived
    <3> QED BY <3>4, <3>5, <3>6
  <2> QED BY <2>5, <2>6, <2>7 DEF Tracked
<1> QED BY <1>4, <1>5 DEF ReportStarts

\* The report of the first queued status joins the end of the line.
LEMMA SendStatusInv == IInv /\ SendStatus => IInv'
<1> SUFFICES ASSUME IInv, SendStatus PROVE IInv'
  OBVIOUS
<1> USE DEF IInv, histVars
<1>1. /\ statusQueue # <<>> /\ pc' = "ack" /\ nLastStatus' = nLastStatus
      /\ statusQueue' = statusQueue /\ retry' = retry /\ conn' = conn /\ link' = link
      /\ acks' = acks /\ known' = known /\ mpNo' = mpNo /\ changed' = changed
      /\ used' = used /\ blurred' = blurred /\ crashes' = crashes
  BY DEF SendStatus
<1> DEFINE h == Head(statusQueue) w == Append(wire, h)
<1>2. wire' = w \/ wire' = wire BY DEF SendStatus
<1>3. h = statusQueue[1] /\ h \in Answer /\ 1 \in DOMAIN statusQueue
  BY <1>1, TailFacts, SeqFacts DEF TypeOK
<1>4. /\ wire \in Seq(Answer) /\ w \in Seq(Answer) /\ DOMAIN w = 1..Len(wire) + 1
      /\ \A i \in DOMAIN wire : w[i] = wire[i]
      /\ w[Len(wire) + 1] = h
  BY <1>3, AppendFacts DEF TypeOK
<1>5. Len(wire) \in Nat /\ DOMAIN wire = 1..Len(wire) BY <1>4, SeqFacts
<1> HIDE DEF w, h
<1>6. \A i \in DOMAIN w : w[i] = h \/ (i \in DOMAIN wire /\ w[i] = wire[i])
  BY <1>4, <1>5
<1>7. TypeOK' BY <1>1, <1>2, <1>4 DEF TypeOK
<1>8. CASE wire' = wire
  BY <1>1, <1>7, <1>8, Drained
<1>9. CASE wire' = w
  <2>1. \A i \in DOMAIN w : w[i].no \in used BY <1>3, <1>6 DEF Numbered
  <2>2. Numbered' BY <1>1, <1>9, <2>1 DEF Numbered
  <2>3. ASSUME ~blurred'
        PROVE  OnlyHeadSent' /\ HeadSentLast' /\ AnsweredKnown' /\ TakenLast' /\ Arrived'
    <3>1. OnlyHeadSent /\ HeadSentLast /\ AnsweredKnown /\ TakenLast
      BY <1>1, <2>3 DEF Tracked
    <3>2. OnlyHeadSent'
      <4>1. \A j \in DOMAIN statusQueue : h.no = statusQueue[j].no => j = 1
        BY <1>3 DEF Numbered
      <4> QED BY <1>1, <1>3, <1>6, <1>9, <3>1, <4>1 DEF OnlyHeadSent
    <3>3. HeadSentLast'
      <4> SUFFICES ASSUME NEW i \in DOMAIN w, NEW j \in DOMAIN w,
                          i < j, w[i].no = h.no
                   PROVE  w[j].no = h.no
        BY <1>1, <1>3, <1>9 DEF HeadSentLast
      <4>1. i \in DOMAIN wire /\ w[i] = wire[i] BY <1>4, <1>5
      <4>2. CASE w[j] = h BY <4>2
      <4>3. CASE j \in DOMAIN wire /\ w[j] = wire[j]
        BY <1>1, <1>3, <3>1, <4>1, <4>3 DEF HeadSentLast
      <4> QED BY <1>6, <4>2, <4>3
    <3>4. AnsweredKnown' BY <1>1, <1>3, <1>6, <1>9, <3>1 DEF AnsweredKnown
    <3>5. TakenLast' /\ Arrived' BY <1>1, <3>1 DEF TakenLast, Arrived
    <3> QED BY <3>2, <3>3, <3>4, <3>5
  <2> QED BY <1>7, <2>2, <2>3 DEF Tracked
<1> QED BY <1>2, <1>8, <1>9

\* The other steps of the sender.
LEMMA SenderInv == IInv /\ Sender => IInv'
<1> SUFFICES ASSUME IInv, Sender PROVE IInv'
  OBVIOUS
<1>1. CASE ReportDone
  <2>1. Numbered' /\ Tracked' BY <1>1, Drained DEF ReportDone, Return
  <2>2. conn' \in BOOLEAN /\ link' \in BOOLEAN BY <1>1, Zenon DEF ReportDone, Return
  <2>3. TypeOK' BY <1>1, <2>2 DEF IInv, TypeOK, ReportDone, Return, histVars
  <2> QED BY <2>1, <2>3 DEF IInv
<1>2. CASE SendFails
  <2>1. (~conn) \in BOOLEAN BY Zenon
  <2> QED BY <1>2, <2>1, CheckAckInv DEF SendFails
<1>3. CASE ReceiveAck
  <2>1. statusQueue # <<>> BY <1>3 DEF ReceiveAck, IInv, TypeOK
  <2>2. PICK failures \in IF link THEN {0} ELSE {0, 1} :
          \E closed \in IF failures = 1 THEN {FALSE} ELSE {FALSE, ~link} :
            CheckAck(acks, failures, closed)
    BY <1>3 DEF ReceiveAck
  <2>3. PICK closed \in IF failures = 1 THEN {FALSE} ELSE {FALSE, ~link} :
          CheckAck(acks, failures, closed)
    BY <2>2
  <2>4. failures \in {0, 1} BY <2>2
  <2>5. closed \in BOOLEAN BY <2>3, Zenon
  <2>6. UNCHANGED <<nLastStatus, known, mpNo, histVars, crashes>> BY <1>3 DEF ReceiveAck
  <2> QED BY <2>1, <2>3, <2>4, <2>5, <2>6, CheckAckInv
<1> QED BY <1>1, <1>2, <1>3, ReportStartsInv, SendStatusInv DEF Sender

\* The server takes the first packet: when it is the first queued status,
\* so are the rest.
LEMMA ServerStoresInv == IInv /\ ServerStores => IInv'
<1> SUFFICES ASSUME IInv, ServerStores PROVE IInv'
  OBVIOUS
<1> USE DEF IInv, histVars
<1>1. /\ wire # <<>> /\ nLastStatus' = nLastStatus /\ statusQueue' = statusQueue
      /\ pc' = pc /\ retry' = retry /\ conn' = conn /\ link' = link /\ mpNo' = mpNo
      /\ changed' = changed /\ used' = used /\ blurred' = blurred /\ crashes' = crashes
  BY DEF ServerStores
<1> DEFINE w == Tail(wire) a == Append(acks, Head(wire).no)
<1>2. /\ wire' = w /\ known' = Head(wire).status
      /\ acks' = a \/ acks' = acks
  BY DEF ServerStores
<1>3. /\ w \in Seq(Answer) /\ Head(wire) = wire[1] /\ Head(wire) \in Answer
      /\ \A i \in DOMAIN w : i + 1 \in DOMAIN wire /\ w[i] = wire[i + 1]
      /\ DOMAIN w = 1..Len(wire) - 1 /\ Len(wire) \in Nat
  BY <1>1, TailFacts, SeqFacts DEF TypeOK
<1>4. wire[1].no \in No /\ wire[1].status \in Status /\ 1 \in DOMAIN wire
  BY <1>1, <1>3, SeqFacts DEF Answer, TypeOK
<1>5. /\ acks \in Seq({NAK} \cup No) /\ a \in Seq({NAK} \cup No)
      /\ DOMAIN a = 1..Len(acks) + 1
      /\ \A i \in DOMAIN acks : a[i] = acks[i]
      /\ a[Len(acks) + 1] = wire[1].no
  BY <1>3, <1>4, AppendFacts DEF TypeOK
<1>6. \A i \in DOMAIN a : a[i] = wire[1].no \/ (i \in DOMAIN acks /\ a[i] = acks[i])
  <2>1. Len(acks) \in Nat /\ DOMAIN acks = 1..Len(acks) BY <1>5, SeqFacts
  <2> QED BY <1>5, <2>1
<1>7. \A i \in DOMAIN w : 1 < i + 1 BY <1>3
<1> HIDE DEF w, a
<1>8. TypeOK' BY <1>1, <1>2, <1>3, <1>4, <1>5 DEF TypeOK
<1>9. Numbered'
  <2>1. \A i \in DOMAIN w : w[i].no \in used BY <1>3 DEF Numbered
  <2>2. \A i \in DOMAIN a : a[i] \in used \cup {NAK} BY <1>4, <1>6 DEF Numbered
  <2> QED BY <1>1, <1>2, <2>1, <2>2 DEF Numbered
<1>10. ASSUME ~blurred'
       PROVE  OnlyHeadSent' /\ HeadSentLast' /\ AnsweredKnown' /\ TakenLast' /\ Arrived'
  <2>1. OnlyHeadSent /\ HeadSentLast /\ AnsweredKnown /\ TakenLast /\ Arrived
    BY <1>1, <1>10 DEF Tracked
  <2>2. OnlyHeadSent' BY <1>1, <1>2, <1>3, <2>1 DEF OnlyHeadSent
  <2>3. HeadSentLast'
    <3> SUFFICES ASSUME statusQueue # <<>>, NEW i \in DOMAIN w, NEW j \in DOMAIN w,
                        i < j, w[i].no = statusQueue[1].no
                 PROVE  w[j].no = statusQueue[1].no
      BY <1>1, <1>2 DEF HeadSentLast
    <3>1. i + 1 < j + 1 BY <1>3
    <3> QED BY <1>3, <2>1, <3>1 DEF HeadSentLast
  <2>4. AnsweredKnown'
    <3> SUFFICES ASSUME statusQueue # <<>>, NEW i \in DOMAIN acks',
                        acks'[i] = statusQueue[1].no
                 PROVE  /\ wire[1].status = statusQueue[1].status
                        /\ \A j \in DOMAIN w : w[j].no = statusQueue[1].no
      BY <1>1, <1>2, <1>3 DEF AnsweredKnown
    <3>1. wire[1].no = statusQueue[1].no
      <4>1. CASE i \in DOMAIN acks /\ acks[i] = statusQueue[1].no
        BY <1>4, <2>1, <4>1 DEF AnsweredKnown
      <4>2. CASE wire[1].no = statusQueue[1].no BY <4>2
      <4> QED BY <1>2, <1>6, <4>1, <4>2
    <3>2. 1 \in DOMAIN statusQueue BY SeqFacts DEF TypeOK
    <3>3. wire[1] = statusQueue[1] BY <1>4, <2>1, <3>1, <3>2 DEF OnlyHeadSent
    <3>4. \A j \in DOMAIN w : w[j].no = statusQueue[1].no
      BY <1>3, <1>4, <1>7, <2>1, <3>1 DEF HeadSentLast
    <3> QED BY <3>3, <3>4
  <2>5. TakenLast' BY <1>1, <2>1 DEF TakenLast
  <2>6. Arrived' BY <1>1, <1>2, <1>3, <1>4, <2>1 DEF Arrived
  <2> QED BY <2>2, <2>3, <2>4, <2>5, <2>6
<1> QED BY <1>8, <1>9, <1>10 DEF Tracked

\* A refused packet goes without a trace but the NAK.
LEMMA ServerRefusesInv == IInv /\ ServerRefuses => IInv'
<1> SUFFICES ASSUME IInv, ServerRefuses PROVE IInv'
  OBVIOUS
<1> USE DEF IInv, histVars
<1>1. /\ wire # <<>> /\ nLastStatus' = nLastStatus /\ statusQueue' = statusQueue
      /\ pc' = pc /\ retry' = retry /\ conn' = conn /\ link' = link /\ mpNo' = mpNo
      /\ changed' = changed /\ used' = used /\ blurred' = blurred /\ crashes' = crashes
      /\ known' = known
  BY DEF ServerRefuses
<1> DEFINE w == Tail(wire) a == Append(acks, NAK)
<1>2. wire' = w /\ acks' = a BY DEF ServerRefuses
<1>3. /\ w \in Seq(Answer)
      /\ \A i \in DOMAIN w : i + 1 \in DOMAIN wire /\ w[i] = wire[i + 1]
      /\ DOMAIN w = 1..Len(wire) - 1 /\ Len(wire) \in Nat
  BY <1>1, TailFacts, SeqFacts DEF TypeOK
<1>4. /\ acks \in Seq({NAK} \cup No) /\ a \in Seq({NAK} \cup No)
      /\ DOMAIN a = 1..Len(acks) + 1
      /\ \A i \in DOMAIN acks : a[i] = acks[i]
      /\ a[Len(acks) + 1] = NAK
  BY AppendFacts DEF TypeOK
<1>5. \A i \in DOMAIN a : a[i] = NAK \/ (i \in DOMAIN acks /\ a[i] = acks[i])
  <2>1. Len(acks) \in Nat /\ DOMAIN acks = 1..Len(acks) BY <1>4, SeqFacts
  <2> QED BY <1>4, <2>1
<1> HIDE DEF w, a
<1>6. TypeOK' BY <1>1, <1>2, <1>3, <1>4 DEF TypeOK
<1>7. Numbered'
  <2>1. \A i \in DOMAIN w : w[i].no \in used BY <1>3 DEF Numbered
  <2>2. \A i \in DOMAIN a : a[i] \in used \cup {NAK} BY <1>5 DEF Numbered
  <2> QED BY <1>1, <1>2, <2>1, <2>2 DEF Numbered
<1>8. ASSUME ~blurred'
      PROVE  OnlyHeadSent' /\ HeadSentLast' /\ AnsweredKnown' /\ TakenLast' /\ Arrived'
  <2>1. OnlyHeadSent /\ HeadSentLast /\ AnsweredKnown /\ TakenLast /\ Arrived
    BY <1>1, <1>8 DEF Tracked
  <2>2. OnlyHeadSent' BY <1>1, <1>2, <1>3, <2>1 DEF OnlyHeadSent
  <2>3. HeadSentLast'
    <3> SUFFICES ASSUME statusQueue # <<>>, NEW i \in DOMAIN w, NEW j \in DOMAIN w,
                        i < j, w[i].no = statusQueue[1].no
                 PROVE  w[j].no = statusQueue[1].no
      BY <1>1, <1>2 DEF HeadSentLast
    <3>1. i + 1 < j + 1 BY <1>3
    <3> QED BY <1>3, <2>1, <3>1 DEF HeadSentLast
  <2>4. AnsweredKnown'
    <3>1. statusQueue # <<>> => statusQueue[1].no # NAK
      <4> SUFFICES ASSUME statusQueue # <<>> PROVE statusQueue[1].no # NAK
        OBVIOUS
      <4>1. statusQueue[1] \in Answer BY SeqFacts DEF TypeOK
      <4> QED BY <4>1, StatusAssumption DEF Answer, No, NAK
    <3> QED BY <1>1, <1>2, <1>3, <1>5, <2>1, <3>1 DEF AnsweredKnown
  <2>5. TakenLast' /\ Arrived' BY <1>1, <1>2, <1>3, <2>1 DEF TakenLast, Arrived
  <2> QED BY <2>2, <2>3, <2>4, <2>5
<1> QED BY <1>6, <1>7, <1>8 DEF Tracked

\* The line breaks, or the process is restarted, or nothing happens.
LEMMA OtherInv == IInv /\ (LinkDown \/ Crash \/ UNCHANGED vars) => IInv'
<1> SUFFICES ASSUME IInv, LinkDown \/ Crash \/ UNCHANGED vars PROVE IInv'
  OBVIOUS
<1> USE DEF IInv, histVars, netVars
<1>1. CASE LinkDown
  <2>1. Numbered' /\ Tracked' BY <1>1, Drained DEF LinkDown
  <2>2. link' \in BOOLEAN BY <1>1, Zenon DEF LinkDown
  <2>3. acks' \in Seq({NAK} \cup No)
    <3>1. acks' = acks \/ acks' = <<>> BY <1>1 DEF LinkDown
    <3>2. acks \in Seq({NAK} \cup No) /\ <<>> \in Seq({NAK} \cup No) BY DEF TypeOK
    <3> QED BY <3>1, <3>2, Zenon
  <2> QED BY <1>1, <2>1, <2>2, <2>3 DEF LinkDown, TypeOK
<1>2. CASE Crash
  <2>1. conn' \in BOOLEAN /\ link' \in BOOLEAN /\ changed' \in BOOLEAN
    BY <1>2, Zenon DEF Crash, Return
  <2>2. crashes' \in 0..MaxCrashes /\ retry' \in 0..RetryLimit + 1
    BY <1>2, StatusAssumption DEF Crash, TypeOK
  <2>3. TypeOK' BY <1>2, <2>1, <2>2, StatusAssumption DEF Crash, Return, TypeOK
  <2>4. Numbered' BY <1>2, EmptyFacts DEF Crash, Return, Numbered
  <2>5. Tracked'
    BY <1>2, EmptyFacts DEF Crash, Return, Tracked, OnlyHeadSent, HeadSentLast,
       AnsweredKnown, TakenLast, Arrived
  <2> QED BY <2>3, <2>4, <2>5
<1>3. CASE UNCHANGED vars
  <2>1. TypeOK' BY <1>3 DEF vars, TypeOK
  <2> QED BY <1>3, <2>1, Drained DEF vars
<1> QED BY <1>1, <1>2, <1>3

-----------------------------------------------------------------------------
\* The inductive invariant holds in every reachable state.
THEOREM Invariance == Spec => []IInv
<1>1. IInv /\ [Next]_vars => IInv'
  BY HealthCheckInv, SenderInv, ServerStoresInv, ServerRefusesInv, OtherInv DEF Next
<1> QED BY <1>1, InitInv, PTL DEF Spec

\* Every variable stays in its set: in particular the sender waits for an
\* answer only while a status is queued, and retry stays within its limit.
THEOREM TypeCorrect == Spec => []TypeOK
<1>1. IInv => TypeOK BY DEF IInv
<1> QED BY <1>1, Invariance, PTL

\* HealthCheckReport does not lose the status that HealthCheck took last, as
\* long as no number is used twice.
THEOREM StatusKept == Spec => []CurrentStatusKept
<1>1. IInv => CurrentStatusKept
  BY DEF IInv, Tracked, TakenLast, Arrived, CurrentStatusKept, Last
<1> QED BY <1>1, Invariance, PTL
=============================================================================
