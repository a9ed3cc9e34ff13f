---------------------------- MODULE LineProofs ------------------------------
(***************************************************************************)
(* Proofs about the line to the monitoring post.  SerialBus, for any set   *)
(* of relayed commands and any number of tries and of requests left        *)
(* behind: what is in transit is bounded by the reads that wait for it,    *)
(* and while the threads take turns and no read gives up early, every      *)
(* request is answered by its own answer.                                  *)
(*                                                                         *)
(* Framing, for any checksum, any frames that pass it, any answers and     *)
(* fragments, and bursts of any length: which frames of a burst are        *)
(* received.  The burst is cut in two at the first start token that        *)
(* belongs to no frame: up to there frames are read from their beginning   *)
(* to their end, and behind it nothing is returned but the frame that ends *)
(* the burst.                                                              *)
(***************************************************************************)
EXTENDS SerialBus, Framing, SequenceTheorems, WellFoundedInduction, TLAPS

\* 1 while t waits for an answer.
Waits(t) == IF Reading(t) THEN 1 ELSE 0

\* A read that is given up leaves MaxPending requests behind at most; all
\* other frames in transit are waited for.
Awaited ==
  Len(reqs) + Len(rx) <= MaxPending + Waits("reader") + Waits("control")

\* The frame is the request, or the answer to it, that a thread now waits for.
Own(f) == cmd[f.by] = f.kind /\ phase[f.by] = "receive"

\* As long as nothing was mixed, one thread is on the line at most, and one
\* frame, which is its own.
InTurn ==
  ~mixed =>
    /\ \E t \in Thread : cmd[t] = "none"
    /\ Len(reqs) + Len(rx) <= 1
    /\ \A i \in DOMAIN reqs : Own(reqs[i])
    /\ \A i \in DOMAIN rx : Own(rx[i])

\* The inductive invariant.
IInv == TypeOK /\ Awaited /\ InTurn

-----------------------------------------------------------------------------
(* Lemmas about sequences                                                  *)

\* The empty sequence has no positions.
LEMMA EmptyFacts == DOMAIN <<>> = {} /\ Len(<<>>) = 0
OBVIOUS

\* Positions of a sequence.
LEMMA SeqFacts ==
  ASSUME NEW S, NEW q \in Seq(S)
  PROVE  /\ Len(q) \in Nat /\ DOMAIN q = 1..Len(q)
         /\ \A i \in DOMAIN q : q[i] \in S
         /\ Len(q) = 0 => q = <<>>
OBVIOUS

\* Append keeps what was there and adds one element at the end.
LEMMA AppendFacts ==
  ASSUME NEW S, NEW q \in Seq(S), NEW e \in S
  PROVE  /\ Append(q, e) \in Seq(S)
         /\ Len(Append(q, e)) = Len(q) + 1
         /\ \A i \in DOMAIN Append(q, e) :
              Append(q, e)[i] = e \/ (i \in DOMAIN q /\ Append(q, e)[i] = q[i])
<1>1. /\ Append(q, e) \in Seq(S) /\ Len(q) \in Nat
      /\ Len(Append(q, e)) = Len(q) + 1
      /\ DOMAIN Append(q, e) = 1..Len(q) + 1 /\ DOMAIN q = 1..Len(q)
      /\ \A i \in 1..Len(q) : Append(q, e)[i] = q[i]
      /\ Append(q, e)[Len(q) + 1] = e
  OBVIOUS
<1> QED BY <1>1

\* Tail drops the first element only.
LEMMA TailFacts ==
  ASSUME NEW S, NEW q \in Seq(S), q # <<>>
  PROVE  /\ Tail(q) \in Seq(S)
         /\ Head(q) = q[1] /\ Head(q) \in S /\ 1 \in DOMAIN q
         /\ Len(Tail(q)) = Len(q) - 1
         /\ \A i \in DOMAIN Tail(q) : i + 1 \in DOMAIN q /\ Tail(q)[i] = q[i + 1]
OBVIOUS

\* What a read leaves is what came after the frame it took.
LEMMA RestFacts ==
  ASSUME NEW S, NEW q \in Seq(S), NEW k \in DOMAIN q
  PROVE  /\ SubSeq(q, k + 1, Len(q)) \in Seq(S)
         /\ Len(SubSeq(q, k + 1, Len(q))) = Len(q) - k /\ k \in 1..Len(q)
         /\ \A i \in DOMAIN SubSeq(q, k + 1, Len(q)) :
              k + i \in DOMAIN q /\ SubSeq(q, k + 1, Len(q))[i] = q[k + i]
OBVIOUS

-----------------------------------------------------------------------------
(* Lemmas about what a thread does next                                    *)

\* The part of TypeOK about the requests of the threads.
Calls ==
  /\ cmd \in [Thread -> Kind \cup {"none"}]
  /\ phase \in [Thread -> {"send", "receive", "again"}]
  /\ tries \in [Thread -> 0..Tries]
  /\ \A t \in Thread : cmd[t] # "none" => tries[t] > 0

\* Ask turns one thread to a request and leaves the other alone.
LEMMA AskFacts ==
  ASSUME Calls, NEW t \in Thread, NEW k \in Kind \cup {"none"}, NEW n \in 0..Tries,
         k # "none" => n > 0, Ask(t, k, n)
  PROVE  /\ Calls'
         /\ cmd'[t] = k /\ phase'[t] = "send"
         /\ \A u \in Thread \ {t} : cmd'[u] = cmd[u] /\ phase'[u] = phase[u]
BY DEF Calls, Ask

\* Every stage of the reader's round is followed by a request or by none.
LEMMA AfterRoundFacts ==
  ASSUME NEW k
  PROVE  AfterRound(k) \subseteq Round \cup {"none"}
BY DEF AfterRound, Round

\* So does the end of a request, answered or not.
LEMMA LeaveFacts ==
  ASSUME Calls, NEW t \in Thread, Leave(t)
  PROVE  /\ Calls'
         /\ phase'[t] = "send"
         /\ \A u \in Thread \ {t} : cmd'[u] = cmd[u] /\ phase'[u] = phase[u]
<1>1. CASE t = "reader"
  <2>1. PICK k \in AfterRound(cmd[t]) : Ask(t, k, TriesOf(k))
    BY <1>1 DEF Leave
  <2>2. k \in Kind \cup {"none"}
    BY <2>1, AfterRoundFacts DEF Kind
  <2>3. TriesOf(k) \in 0..Tries /\ TriesOf(k) > 0
    BY BusAssumption DEF TriesOf
  <2> QED BY <2>1, <2>2, <2>3, AskFacts
<1>2. CASE t # "reader"
  <2>1. Ask(t, "none", 0) BY <1>2 DEF Leave
  <2>2. 0 \in 0..Tries BY BusAssumption
  <2> QED BY <2>1, <2>2, AskFacts
<1> QED BY <1>1, <1>2

\* A thread that got a frame, or none, asks something new or the same again,
\* unless it is the reader, which reads once more when it got no reading.
LEMMA GotFacts ==
  ASSUME Calls, NEW t \in Thread, Reading(t), NEW k, Got(t, k)
  PROVE  /\ Calls'
         /\ \A u \in Thread \ {t} : cmd'[u] = cmd[u] /\ phase'[u] = phase[u]
         /\ \/ phase'[t] = "send"
            \/ /\ phase'[t] = "again" /\ cmd'[t] = cmd[t]
               /\ phase[t] = "receive" /\ cmd[t] = "data" /\ k # "data"
<1>1. CASE cmd[t] = "data" /\ t = "reader" /\ phase[t] = "receive" /\ k # "data"
  BY <1>1 DEF Calls, Got
<1>2. CASE ~(cmd[t] = "data" /\ t = "reader" /\ phase[t] = "receive" /\ k # "data")
  <2>1. Leave(t) \/ (Ask(t, cmd[t], tries[t] - 1) /\ tries[t] > 1)
    BY <1>2 DEF Got, NextTry
  <2>2. tries[t] > 1 => tries[t] - 1 \in 0..Tries /\ tries[t] - 1 > 0
    BY BusAssumption DEF Calls
  <2>3. cmd[t] \in Kind \cup {"none"} BY DEF Calls
  <2> QED BY <2>1, <2>2, <2>3, LeaveFacts, AskFacts
<1> QED BY <1>1, <1>2

\* mixed only becomes FALSE when the line is quiet.
LEMMA NoteFacts ==
  ASSUME NEW e \in BOOLEAN, mixed \in BOOLEAN, Note(e)
  PROVE  /\ mixed' \in BOOLEAN
         /\ ~mixed' => (~mixed /\ ~e) \/ Quiet'
BY Zenon DEF Note

\* On a quiet line nothing is out of turn.
LEMMA QuietInTurn == ASSUME Quiet' PROVE InTurn'
<1>1. cmd'["reader"] = "none" /\ "reader" \in Thread
  BY DEF Quiet, Thread
<1>2. reqs' = <<>> /\ rx' = <<>> BY DEF Quiet
<1> QED BY <1>1, <1>2, EmptyFacts DEF InTurn

\* The invariant in the form in which a step establishes it.
LEMMA Assemble ==
  ASSUME Calls', reqs' \in Seq(Frame), rx' \in Seq(Frame), torn' \in SUBSET Thread,
         mixed' \in BOOLEAN, Awaited', InTurn'
  PROVE  IInv'
<1>1. Len(reqs') + Len(rx') <= MaxPending + 2
  BY SeqFacts, BusAssumption DEF Awaited, Waits
<1> QED BY <1>1 DEF IInv, TypeOK, Calls

-----------------------------------------------------------------------------
(* The invariant                                                           *)

LEMMA InitInv == ASSUME Init PROVE IInv
<1>1. PICK n \in 0..2 :
        /\ n <= MaxPending
        /\ reqs = [i \in 1..n |-> [by |-> "reader", kind |-> "time"]]
        /\ mixed = (n > 0)
  BY DEF Init
<1>2. [by |-> "reader", kind |-> "time"] \in Frame
  BY DEF Frame, Thread, Kind, Round
<1>3. reqs \in Seq(Frame) /\ Len(reqs) = n /\ DOMAIN reqs = 1..n
  BY <1>1, <1>2
<1>4. rx = <<>> /\ rx \in Seq(Frame) /\ Len(rx) = 0 /\ DOMAIN rx = {}
  BY EmptyFacts DEF Init
<1>5. Calls
  BY BusAssumption DEF Init, Calls
<1>6. ~Reading("reader") /\ ~Reading("control") /\ cmd["reader"] = "none"
  BY DEF Init, Reading, Thread
<1>7. Awaited
  BY <1>1, <1>3, <1>4, <1>6, BusAssumption DEF Awaited, Waits
<1>8. TypeOK
  BY <1>1, <1>3, <1>4, <1>5, BusAssumption DEF TypeOK, Calls, Init
<1>9. InTurn
  <2>0. ~mixed => ~(n > 0) BY <1>1, Zenon
  <2>1. ~mixed => n = 0 BY <2>0
  <2>2. ~mixed => DOMAIN reqs = {} /\ Len(reqs) = 0 BY <1>3, <2>1
  <2> QED BY <1>4, <1>6, <2>2 DEF InTurn, Thread
<1> QED BY <1>7, <1>8, <1>9 DEF IInv

\* A thread that comes to the line finds it empty unless it was mixed.
LEMMA StartInv ==
  ASSUME IInv, NEW t \in Thread, NEW u \in Thread, t # u, cmd[t] = "none",
         NEW k \in Kind, NEW n \in 0..Tries, n > 0, Ask(t, k, n),
         UNCHANGED <<reqs, rx, torn>>, Note(cmd[u] # "none")
  PROVE  IInv'
<1>1. Calls /\ mixed \in BOOLEAN /\ reqs \in Seq(Frame) /\ rx \in Seq(Frame)
      /\ torn \in SUBSET Thread
  BY DEF IInv, TypeOK, Calls
<1>2. /\ Calls'
      /\ cmd'[t] = k /\ phase'[t] = "send"
      /\ \A v \in Thread \ {t} : cmd'[v] = cmd[v] /\ phase'[v] = phase[v]
  BY <1>1, AskFacts
<1>3. k # "none" BY BusAssumption DEF Kind, Round
<1>4. ~Quiet' BY <1>2, <1>3 DEF Quiet
<1>5. mixed' \in BOOLEAN /\ (~mixed' => ~mixed /\ cmd[u] = "none")
  BY <1>1, <1>4, NoteFacts
<1>6. Awaited'
  BY <1>1, <1>2, SeqFacts, BusAssumption DEF IInv, Awaited, Waits, Reading, Thread
<1>7. InTurn'
  <2> SUFFICES ASSUME ~mixed' PROVE InTurn'
    BY DEF InTurn
  <2>1. \A i \in DOMAIN reqs : reqs[i] \in Frame /\ Own(reqs[i])
    BY <1>1, <1>5, SeqFacts DEF IInv, InTurn
  <2>2. \A i \in DOMAIN rx : rx[i] \in Frame /\ Own(rx[i])
    BY <1>1, <1>5, SeqFacts DEF IInv, InTurn
  <2>3. \A f \in Frame : ~Own(f)
    BY <1>5, BusAssumption DEF Own, Frame, Thread, Kind, Round
  <2>4. cmd'[u] = "none" BY <1>2, <1>5
  <2> QED BY <1>5, <2>1, <2>2, <2>3, <2>4 DEF IInv, InTurn
<1> QED BY <1>1, <1>2, <1>5, <1>6, <1>7, Assemble

\* The control thread is the same for the reader as the reader for it.
LEMMA StartsInv ==
  ASSUME IInv, ReaderStarts \/ ControlStarts
  PROVE  IInv'
<1>1. CASE ReaderStarts
  <2>1. PICK k \in {"time", "status"} : Ask("reader", k, 1)
    BY <1>1 DEF ReaderStarts
  <2>2. k \in Kind /\ 1 \in 0..Tries /\ 1 > 0
    BY BusAssumption DEF Kind, Round
  <2> QED BY <1>1, <2>1, <2>2, StartInv DEF ReaderStarts, Thread
<1>2. CASE ControlStarts
  <2>1. PICK k \in Relayed \cup {"empty"}, n \in {1, Tries} : Ask("control", k, n)
    BY <1>2 DEF ControlStarts
  <2>2. k \in Kind /\ n \in 0..Tries /\ n > 0
    BY BusAssumption DEF Kind, Round
  <2> QED BY <1>2, <2>1, <2>2, StartInv DEF ControlStarts, Thread
<1> QED BY <1>1, <1>2

\* While nothing is mixed, a thread that is about to write finds the line
\* empty.
LEMMA SendsAlone ==
  ASSUME IInv, ~mixed, NEW t \in Thread, cmd[t] # "none", phase[t] = "send"
  PROVE  /\ Len(reqs) = 0 /\ Len(rx) = 0 /\ DOMAIN reqs = {} /\ DOMAIN rx = {}
         /\ \A u \in Thread \ {t} : cmd[u] = "none"
<1>1. \A u \in Thread \ {t} : cmd[u] = "none"
  BY DEF IInv, InTurn, Thread
<1>2. \A f \in Frame : ~Own(f)
  BY <1>1, BusAssumption DEF Own, Frame, Thread, Kind, Round
<1>3. reqs \in Seq(Frame) /\ rx \in Seq(Frame)
  BY DEF IInv, TypeOK
<1>4. DOMAIN reqs = {} /\ DOMAIN rx = {}
  BY <1>2, <1>3, SeqFacts DEF IInv, InTurn
<1>5. Len(reqs) = 0 /\ Len(rx) = 0
  BY <1>3, <1>4, SeqFacts
<1> QED BY <1>1, <1>4, <1>5

LEMMA SendInv ==
  ASSUME IInv, NEW t \in Thread, Send(t)
  PROVE  IInv'
<1> DEFINE f == [by |-> t, kind |-> cmd[t]]
<1>1. Calls /\ mixed \in BOOLEAN /\ reqs \in Seq(Frame) /\ rx \in Seq(Frame)
      /\ torn \in SUBSET Thread
  BY DEF IInv, TypeOK, Calls
<1>2. f \in Frame /\ f.by = t /\ f.kind = cmd[t] BY <1>1 DEF Send, Calls, Frame
<1>3. /\ cmd' = cmd /\ phase' = [phase EXCEPT ![t] = "receive"] /\ tries' = tries
      /\ rx' = rx /\ torn' = torn
      /\ reqs' = reqs \/ reqs' = Append(reqs, f)
  BY DEF Send
<1> HIDE DEF f
<1>4. Calls' BY <1>1, <1>3 DEF Calls
<1>5. /\ reqs' \in Seq(Frame) /\ Len(reqs') \in Nat /\ Len(reqs') <= Len(reqs) + 1
      /\ \A i \in DOMAIN reqs' : reqs'[i] = f \/ (i \in DOMAIN reqs /\ reqs'[i] = reqs[i])
  <2>1. CASE reqs' = reqs BY <1>1, <2>1, SeqFacts
  <2>2. CASE reqs' = Append(reqs, f)
    <3>1. /\ Append(reqs, f) \in Seq(Frame) /\ Len(Append(reqs, f)) = Len(reqs) + 1
          /\ \A i \in DOMAIN Append(reqs, f) :
               \/ Append(reqs, f)[i] = f
               \/ (i \in DOMAIN reqs /\ Append(reqs, f)[i] = reqs[i])
      BY <1>1, <1>2, AppendFacts
    <3>2. Len(reqs) \in Nat BY <1>1, SeqFacts
    <3> QED BY <2>2, <3>1, <3>2
  <2> QED BY <1>3, <2>1, <2>2
<1>6. cmd[t] # "none" /\ phase[t] = "send" /\ phase'[t] = "receive"
      /\ \A u \in Thread \ {t} : phase'[u] = phase[u]
  BY <1>1, <1>3 DEF Send, Calls
<1>7. Awaited'
  <2>1. Len(reqs') + Len(rx') <= Len(reqs) + Len(rx) + 1
    BY <1>1, <1>3, <1>5, SeqFacts
  <2>2. Waits(t)' = Waits(t) + 1 /\ \A u \in Thread \ {t} : Waits(u)' = Waits(u)
    BY <1>3, <1>6 DEF Waits, Reading
  <2>3. \A u \in Thread : Waits(u) \in 0..1
    BY DEF Waits
  <2>4. Len(reqs) \in Nat /\ Len(rx) \in Nat /\ Len(reqs') \in Nat /\ Len(rx') \in Nat
    BY <1>1, <1>3, <1>5, SeqFacts
  <2>5. Len(reqs) + Len(rx) <= MaxPending + Waits("reader") + Waits("control")
    BY DEF IInv, Awaited
  <2>6. Waits("reader")' + Waits("control")' = Waits("reader") + Waits("control") + 1
    BY <2>2, <2>3 DEF Thread
  <2>7. /\ Waits("reader") \in 0..1 /\ Waits("control") \in 0..1
        /\ Waits("reader")' \in 0..1 /\ Waits("control")' \in 0..1
    BY DEF Waits
  <2>8. Len(reqs') + Len(rx') <= MaxPending + Waits("reader")' + Waits("control")'
    BY <2>1, <2>4, <2>5, <2>6, <2>7, BusAssumption
  <2> QED BY <2>8 DEF Awaited
<1>8. mixed' \in BOOLEAN /\ (~mixed' => ~mixed)
  <2>1. ~Quiet' BY <1>3, <1>6 DEF Quiet
  <2>2. Note(FALSE) BY DEF Send
  <2> QED BY <1>1, <2>1, <2>2, NoteFacts
<1>9. InTurn'
  <2> SUFFICES ASSUME ~mixed' PROVE InTurn'
    BY DEF InTurn
  <2>1. /\ Len(reqs) = 0 /\ Len(rx) = 0 /\ DOMAIN reqs = {} /\ DOMAIN rx = {}
        /\ \A u \in Thread \ {t} : cmd[u] = "none"
    BY <1>6, <1>8, SendsAlone
  <2>2. \E u \in Thread : cmd'[u] = "none" BY <1>3, <2>1 DEF Thread
  <2>3. Len(reqs') + Len(rx') <= 1 BY <1>3, <1>5, <2>1
  <2>4. cmd'[f.by] = f.kind /\ phase'[f.by] = "receive" BY <1>2, <1>3, <1>6
  <2>5. \A i \in DOMAIN reqs' : reqs'[i] = f BY <1>5, <2>1
  <2> QED BY <1>3, <2>1, <2>2, <2>3, <2>4, <2>5 DEF InTurn, Own
<1> QED BY <1>1, <1>3, <1>4, <1>5, <1>7, <1>8, <1>9, Assemble

LEMMA WriteFailsInv ==
  ASSUME IInv, NEW t \in Thread, WriteFails(t)
  PROVE  IInv'
<1>1. Calls /\ mixed \in BOOLEAN /\ reqs \in Seq(Frame) /\ rx \in Seq(Frame)
      /\ torn \in SUBSET Thread
  BY DEF IInv, TypeOK, Calls
<1>2. /\ cmd' = cmd /\ phase' = [phase EXCEPT ![t] = "receive"] /\ tries' = tries
      /\ reqs' = reqs /\ torn' = torn
  BY DEF WriteFails
<1>3. Calls' BY <1>1, <1>2 DEF Calls
<1>4. rx' = <<>> /\ rx' \in Seq(Frame) /\ Len(rx') = 0 /\ DOMAIN rx' = {}
  BY EmptyFacts DEF WriteFails
<1>5. cmd[t] # "none" /\ phase[t] = "send" /\ phase'[t] = "receive"
      /\ \A u \in Thread \ {t} : phase'[u] = phase[u]
  BY <1>1, <1>2 DEF WriteFails, Calls
<1>6. Awaited'
  <2>1. Waits("reader")' >= Waits("reader") /\ Waits("control")' >= Waits("control")
    BY <1>2, <1>5 DEF Waits, Reading, Thread
  <2>2. /\ Waits("reader") \in 0..1 /\ Waits("control") \in 0..1
        /\ Waits("reader")' \in 0..1 /\ Waits("control")' \in 0..1
    BY DEF Waits
  <2>3. Len(reqs) \in Nat /\ Len(rx) \in Nat /\ Len(reqs') = Len(reqs)
    BY <1>1, <1>2, SeqFacts
  <2>4. Len(reqs) + Len(rx) <= MaxPending + Waits("reader") + Waits("control")
    BY DEF IInv, Awaited
  <2>5. Len(reqs') + Len(rx') <= MaxPending + Waits("reader")' + Waits("control")'
    BY <1>4, <2>1, <2>2, <2>3, <2>4, BusAssumption
  <2> QED BY <2>5 DEF Awaited
<1>7. mixed' \in BOOLEAN /\ (~mixed' => ~mixed)
  <2>1. ~Quiet' BY <1>2, <1>5 DEF Quiet
  <2>2. Note(FALSE) BY DEF WriteFails
  <2> QED BY <1>1, <2>1, <2>2, NoteFacts
<1>8. InTurn'
  <2> SUFFICES ASSUME ~mixed' PROVE InTurn'
    BY DEF InTurn
  <2>1. /\ Len(reqs) = 0 /\ DOMAIN reqs = {}
        /\ \A u \in Thread \ {t} : cmd[u] = "none"
    BY <1>5, <1>7, SendsAlone
  <2>2. \E u \in Thread : cmd'[u] = "none" BY <1>2, <2>1 DEF Thread
  <2>3. Len(reqs') + Len(rx') <= 1 /\ DOMAIN reqs' = {} BY <1>2, <1>4, <2>1
  <2> QED BY <1>4, <2>2, <2>3 DEF InTurn
<1> QED BY <1>1, <1>2, <1>3, <1>4, <1>6, <1>7, <1>8, Assemble

\* A read that returns, with a frame or without, leaves less in transit than
\* before, or MaxPending frames at most; and nothing unless mixed.
LEMMA GotInv ==
  ASSUME IInv, NEW t \in Thread, Reading(t), NEW k, Got(t, k),
         reqs' \in Seq(Frame), rx' \in Seq(Frame), torn' = torn \ {t},
         \/ Len(reqs') + Len(rx') <= MaxPending
         \/ Len(reqs') + Len(rx') < Len(reqs) + Len(rx),
         mixed' \in BOOLEAN,
         ~mixed' => Quiet' \/ (~mixed /\ reqs' = <<>> /\ rx' = <<>>)
  PROVE  IInv'
<1>1. Calls /\ reqs \in Seq(Frame) /\ rx \in Seq(Frame) /\ torn \in SUBSET Thread
  BY DEF IInv, TypeOK, Calls
<1>2. /\ Calls'
      /\ \A u \in Thread \ {t} : cmd'[u] = cmd[u] /\ phase'[u] = phase[u]
      /\ phase'[t] = "send" \/ (phase'[t] = "again" /\ cmd'[t] = cmd[t])
  BY <1>1, GotFacts
<1>3. Awaited'
  <2>1. \A u \in Thread \ {t} : Waits(u)' = Waits(u)
    BY <1>2 DEF Waits, Reading
  <2>2. Waits(t)' \in 0..1 /\ Waits(t) = 1
    BY DEF Waits
  <2>3. /\ Waits("reader") \in 0..1 /\ Waits("control") \in 0..1
        /\ Waits("reader")' \in 0..1 /\ Waits("control")' \in 0..1
    BY DEF Waits
  <2>4. Waits("reader")' + Waits("control")' >= Waits("reader") + Waits("control") - 1
    BY <2>1, <2>2, <2>3 DEF Thread
  <2>5. /\ Len(reqs) \in Nat /\ Len(rx) \in Nat
        /\ Len(reqs') \in Nat /\ Len(rx') \in Nat
    BY <1>1, SeqFacts
  <2>6. Len(reqs) + Len(rx) <= MaxPending + Waits("reader") + Waits("control")
    BY DEF IInv, Awaited
  <2>7. Len(reqs') + Len(rx') <= MaxPending + Waits("reader")' + Waits("control")'
    BY <2>3, <2>4, <2>5, <2>6, BusAssumption
  <2> QED BY <2>7 DEF Awaited
<1>4. InTurn'
  <2> SUFFICES ASSUME ~mixed', ~mixed, reqs' = <<>>, rx' = <<>> PROVE InTurn'
    BY QuietInTurn DEF InTurn
  <2>1. PICK u \in Thread : cmd[u] = "none"
    BY DEF IInv, InTurn
  <2>2. u # t /\ cmd'[u] = "none" BY <1>2, <2>1 DEF Reading
  <2> QED BY <2>2, EmptyFacts DEF InTurn
<1>5. torn' \in SUBSET Thread BY <1>1
<1> QED BY <1>2, <1>3, <1>4, <1>5, Assemble

LEMMA TakeInv ==
  ASSUME IInv, NEW t \in Thread, NEW i, Take(t, i)
  PROVE  IInv'
<1>1. mixed \in BOOLEAN /\ reqs \in Seq(Frame) /\ rx \in Seq(Frame) /\ i \in DOMAIN rx
  BY DEF IInv, TypeOK, Take
<1>2. rx' = SubSeq(rx, i + 1, Len(rx)) /\ reqs' = reqs BY DEF Take
<1>3. /\ rx' \in Seq(Frame) /\ Len(rx') = Len(rx) - i /\ i \in 1..Len(rx)
  BY <1>1, <1>2, RestFacts
<1>4. Len(reqs) \in Nat /\ Len(rx) \in Nat /\ Len(rx') \in Nat BY <1>1, <1>3, SeqFacts
<1>5. Len(reqs') + Len(rx') < Len(reqs) + Len(rx)
  BY <1>2, <1>3, <1>4
<1>6. ~mixed => reqs' = <<>> /\ rx' = <<>>
  <2> SUFFICES ASSUME ~mixed PROVE reqs' = <<>> /\ rx' = <<>>
    OBVIOUS
  <2>1. Len(reqs) + Len(rx) <= 1 BY DEF IInv, InTurn
  <2>2. Len(reqs) = 0 /\ Len(rx') = 0 BY <1>3, <1>4, <2>1
  <2> QED BY <1>1, <1>2, <1>3, <2>2, SeqFacts
<1>7. mixed' \in BOOLEAN /\ (~mixed' => ~mixed \/ Quiet')
  BY <1>1, NoteFacts DEF Take
<1>8. Reading(t) /\ Got(t, rx[i].kind) /\ torn' = torn \ {t} BY DEF Take
<1> QED BY <1>1, <1>2, <1>3, <1>5, <1>6, <1>7, <1>8, GotInv

LEMMA TimeoutInv ==
  ASSUME IInv, NEW t \in Thread, Timeout(t) \/ LateTimeout(t) \/ ReadFails(t)
  PROVE  IInv'
<1>1. mixed \in BOOLEAN /\ reqs \in Seq(Frame) /\ rx \in Seq(Frame)
  BY DEF IInv, TypeOK
<1>2. Reading(t) /\ Got(t, "none") /\ torn' = torn \ {t} /\ reqs' = reqs
  BY DEF Timeout, LateTimeout, ReadFails
<1>3. rx' = <<>> /\ rx' \in Seq(Frame) /\ Len(rx') = 0
  <2>1. rx' = <<>> BY DEF Timeout, LateTimeout, ReadFails
  <2> QED BY <2>1, EmptyFacts
<1>4. Len(reqs) <= MaxPending
  <2>1. reqs = <<>> => Len(reqs) = 0 BY EmptyFacts, Zenon
  <2>2. reqs = <<>> \/ Len(reqs) <= MaxPending BY DEF Timeout, LateTimeout, ReadFails
  <2> QED BY <2>1, <2>2, BusAssumption
<1>5. Len(reqs) \in Nat BY <1>1, SeqFacts
<1>6. Len(reqs') + Len(rx') <= MaxPending BY <1>2, <1>3, <1>4, <1>5
<1>7. mixed' \in BOOLEAN /\ (~mixed' => Quiet' \/ (~mixed /\ reqs' = <<>>))
  <2>1. CASE Timeout(t)
    <3>1. Note(FALSE) /\ reqs = <<>> BY <2>1 DEF Timeout
    <3> QED BY <1>1, <1>2, <3>1, NoteFacts
  <2>2. CASE LateTimeout(t)
    <3>1. Note(TRUE) BY <2>2 DEF LateTimeout
    <3> QED BY <1>1, <3>1, NoteFacts
  <2>3. CASE ReadFails(t)
    <3>1. Note(reqs # <<>>) BY <2>3 DEF ReadFails
    <3> QED BY <1>1, <1>2, <3>1, NoteFacts
  <2> QED BY <2>1, <2>2, <2>3
<1> QED BY <1>1, <1>2, <1>3, <1>6, <1>7, GotInv

LEMMA TearInv ==
  ASSUME IInv, Tear
  PROVE  IInv'
<1>1. Calls /\ mixed \in BOOLEAN /\ reqs \in Seq(Frame) /\ rx \in Seq(Frame)
      /\ torn \in SUBSET Thread
  BY DEF IInv, TypeOK, Calls
<1>2. cmd' = cmd /\ phase' = phase /\ tries' = tries /\ reqs' = reqs
  BY DEF Tear
<1>3. rx' \in Seq(Frame) /\ Len(rx') = Len(rx) - 1
  <2>1. rx' = Tail(rx) /\ rx # <<>> BY DEF Tear
  <2> QED BY <1>1, <2>1, TailFacts
<1>4. Calls' BY <1>1, <1>2 DEF Calls
<1>5. Awaited'
  <2>1. Len(reqs) \in Nat /\ Len(rx) \in Nat BY <1>1, SeqFacts
  <2> QED BY <1>2, <1>3, <2>1, BusAssumption DEF IInv, Awaited, Waits, Reading
<1>6. mixed' \in BOOLEAN /\ (~mixed' => Quiet')
  BY <1>1, NoteFacts DEF Tear
<1>7. InTurn' BY <1>6, QuietInTurn DEF InTurn
<1>8. torn' \in SUBSET Thread BY <1>1 DEF Tear
<1> QED BY <1>1, <1>2, <1>3, <1>4, <1>5, <1>6, <1>7, <1>8, Assemble

LEMMA PostInv ==
  ASSUME IInv, Post
  PROVE  IInv'
<1>1. Calls /\ mixed \in BOOLEAN /\ reqs \in Seq(Frame) /\ rx \in Seq(Frame)
      /\ torn \in SUBSET Thread
  BY DEF IInv, TypeOK, Calls
<1>2. cmd' = cmd /\ phase' = phase /\ tries' = tries /\ torn' = torn
      /\ reqs # <<>> /\ reqs' = Tail(reqs) /\ Note(FALSE)
  BY DEF Post, PostAnswers, PostIgnores
<1>3. /\ reqs' \in Seq(Frame) /\ Len(reqs') = Len(reqs) - 1
      /\ Head(reqs) = reqs[1] /\ Head(reqs) \in Frame /\ 1 \in DOMAIN reqs
      /\ \A i \in DOMAIN reqs' : i + 1 \in DOMAIN reqs /\ reqs'[i] = reqs[i + 1]
  BY <1>1, <1>2, TailFacts
<1>4. rx' = rx \/ rx' = Append(rx, Head(reqs))
  BY DEF Post, PostAnswers, PostIgnores
<1>5. /\ rx' \in Seq(Frame) /\ Len(rx') \in Nat /\ Len(rx') <= Len(rx) + 1
      /\ \A i \in DOMAIN rx' :
           rx'[i] = reqs[1] \/ (i \in DOMAIN rx /\ rx'[i] = rx[i])
  <2>1. CASE rx' = rx BY <1>1, <2>1, SeqFacts
  <2>2. CASE rx' = Append(rx, Head(reqs))
    <3> DEFINE h == Head(reqs)
    <3>1. h \in Frame /\ h = reqs[1] /\ rx' = Append(rx, h) BY <1>3, <2>2
    <3> HIDE DEF h
    <3>2. /\ Append(rx, h) \in Seq(Frame) /\ Len(Append(rx, h)) = Len(rx) + 1
          /\ \A i \in DOMAIN Append(rx, h) :
               \/ Append(rx, h)[i] = h
               \/ (i \in DOMAIN rx /\ Append(rx, h)[i] = rx[i])
      BY <1>1, <3>1, AppendFacts
    <3>3. Len(rx) \in Nat BY <1>1, SeqFacts
    <3> QED BY <3>1, <3>2, <3>3
  <2> QED BY <1>4, <2>1, <2>2
<1>6. Calls' BY <1>1, <1>2 DEF Calls
<1>7. Len(reqs') + Len(rx') <= Len(reqs) + Len(rx)
  <2>1. Len(reqs) \in Nat /\ Len(rx) \in Nat BY <1>1, SeqFacts
  <2> QED BY <1>3, <1>5, <2>1
<1>8. Awaited'
  <2>1. /\ Len(reqs) \in Nat /\ Len(rx) \in Nat /\ Len(reqs') \in Nat /\ Len(rx') \in Nat
    BY <1>1, <1>3, <1>5, SeqFacts
  <2> QED BY <1>2, <1>7, <2>1, BusAssumption DEF IInv, Awaited, Waits, Reading
<1>9. mixed' \in BOOLEAN /\ (~mixed' => ~mixed \/ Quiet')
  BY <1>1, <1>2, NoteFacts
<1>10. InTurn'
  <2> SUFFICES ASSUME ~mixed', ~mixed PROVE InTurn'
    BY <1>9, QuietInTurn DEF InTurn
  <2>1. /\ \E t \in Thread : cmd[t] = "none"
        /\ Len(reqs) + Len(rx) <= 1
        /\ \A i \in DOMAIN reqs : Own(reqs[i])
        /\ \A i \in DOMAIN rx : Own(rx[i])
    BY DEF IInv, InTurn
  <2>2. Len(reqs') + Len(rx') <= 1
    <3>1. /\ Len(reqs) \in Nat /\ Len(rx) \in Nat /\ Len(reqs') \in Nat /\ Len(rx') \in Nat
      BY <1>1, <1>3, <1>5, SeqFacts
    <3> QED BY <1>7, <2>1, <3>1
  <2>3. \A i \in DOMAIN reqs' : Own(reqs'[i]) BY <1>3, <2>1
  <2>4. \A i \in DOMAIN rx' : Own(rx'[i]) BY <1>3, <1>5, <2>1
  <2> QED BY <1>2, <2>1, <2>2, <2>3, <2>4 DEF InTurn, Own
<1> QED BY <1>1, <1>2, <1>3, <1>5, <1>6, <1>8, <1>9, <1>10, Assemble

LEMMA StutterInv ==
  ASSUME IInv, UNCHANGED vars
  PROVE  IInv'
<1>1. TypeOK' BY DEF IInv, TypeOK, vars
<1>2. Awaited' BY DEF IInv, Awaited, Waits, Reading, vars
<1>3. InTurn' BY DEF IInv, InTurn, Own, vars
<1> QED BY <1>1, <1>2, <1>3 DEF IInv

LEMMA NextInv ==
  ASSUME IInv, [Next]_vars
  PROVE  IInv'
<1>1. CASE ReaderStarts \/ ControlStarts BY <1>1, StartsInv
<1>2. CASE Tear BY <1>2, TearInv
<1>3. CASE Post BY <1>3, PostInv
<1>4. ASSUME NEW t \in Thread, Step(t) PROVE IInv'
  <2>1. CASE Send(t) BY <2>1, SendInv
  <2>2. CASE WriteFails(t) BY <2>2, WriteFailsInv
  <2>3. CASE Timeout(t) \/ LateTimeout(t) \/ ReadFails(t) BY <2>3, TimeoutInv
  <2>4. ASSUME NEW i, Take(t, i) PROVE IInv' BY <2>4, TakeInv
  <2> QED BY <1>4, <2>1, <2>2, <2>3, <2>4 DEF Step
<1>5. CASE UNCHANGED vars BY <1>5, StutterInv
<1> QED BY <1>1, <1>2, <1>3, <1>4, <1>5 DEF Next

-----------------------------------------------------------------------------
(* Theorems                                                                *)

\* The inductive invariant holds of every behaviour.
THEOREM Invariance == Spec => []IInv
BY InitInv, NextInv, PTL DEF Spec

\* The requests, phases and tries of the threads keep their ranges: a thread
\* on the line has a try left, and the line never holds more frames than reads
\* have left behind or wait for (SerialPort, RequestCurrentData, TransferCmd).
THEOREM TypeCorrect == Spec => []TypeOK
<1>1. IInv => TypeOK BY DEF IInv
<1> QED BY <1>1, Invariance, PTL

\* Unless both threads were on the line or a read gave up early since it was
\* last quiet, the frame that ReceiveFrameFrom returns answers the request
\* that the thread has just written, whatever tries failed before.
THEOREM OwnAnswers == Spec => AnswersMatch
<1> DEFINE A == \A t \in Thread : \A i \in DOMAIN rx :
                  Take(t, i) => mixed \/ rx[i] = [by |-> t, kind |-> cmd[t]]
<1>1. ASSUME IInv PROVE A
  <2> SUFFICES ASSUME NEW t \in Thread, NEW i \in DOMAIN rx, Take(t, i), ~mixed
               PROVE  rx[i] = [by |-> t, kind |-> cmd[t]]
    OBVIOUS
  <2>0. rx \in Seq(Frame) BY <1>1 DEF IInv, TypeOK
  <2>1. Own(rx[i]) BY <1>1 DEF IInv, InTurn
  <2>2. rx[i] \in Frame BY <2>0, SeqFacts
  <2>3. cmd[rx[i].by] # "none"
    BY <2>1, <2>2, BusAssumption DEF Own, Frame, Kind, Round
  <2>4. cmd[t] # "none" BY DEF Take, Reading
  <2>5. PICK u \in Thread : cmd[u] = "none" BY <1>1 DEF IInv, InTurn
  <2>6. rx[i].by = t BY <2>2, <2>3, <2>4, <2>5 DEF Thread, Frame
  <2> QED BY <2>1, <2>2, <2>6 DEF Own, Frame
<1>2. IInv /\ [Next]_vars => [A]_vars BY <1>1 DEF A
<1> QED BY <1>2, Invariance, PTL DEF Spec, AnswersMatch

-----------------------------------------------------------------------------
(* Frames in a burst of bytes: the inductive invariant                     *)

\* c are the bytes read last when e bytes were read.
ReadTo(c, e) ==
  Len(c) <= e /\ \A k \in DOMAIN c : c[k] = bytes[e - Len(c) + k]

\* d is what is left of c when it loses its beginning.
TailOf(d, c) ==
  Len(d) <= Len(c) /\ \A k \in DOMAIN d : d[k] = c[Len(c) - Len(d) + k]

\* Where the cache begins.
from == pos - Len(strCache)

\* The parts lie in the burst one behind the other.
PartsLaid ==
  /\ parts \in Seq([at : Nat, of : Frames \cup Answers \cup Scraps])
  /\ \A i \in DOMAIN parts :
       /\ Sent(i).end <= Len(bytes)
       /\ \A k \in DOMAIN parts[i].of : bytes[parts[i].at + k] = parts[i].of[k]
  /\ \A i, j \in DOMAIN parts : i < j => Sent(i).end <= parts[j].at

\* The cache is what was read last, and what was returned comes before it.
CacheRead ==
  /\ ReadTo(strCache, pos)
  /\ \A k \in DOMAIN got :
       /\ ReadTo(got[k].cache, got[k].end)
       /\ got[k].end <= from
       /\ k > 1 => got[k - 1].end <= got[k].end - Len(got[k].cache)

\* What the places of the loops say about the bytes that are left.
Places ==
  /\ pc = "arrive" => pos = 0 /\ got = <<>>
  /\ pc = "slip" => wanted = "frame" /\ pos = Len(bytes) /\ strCache # <<>>
  /\ pc = "silent" => pos = Len(bytes)
  /\ pc = "done" /\ (strCache = <<>> \/ wanted = "ack") => pos = Len(bytes)

\* No answer begins in the first p bytes.
NoAnswer(p) == \A x \in 1..p : bytes[x] \notin {ACK, NAK}

\* c, read when e bytes were read, begins with the first answer.
AckRead(c, e) == NoAnswer(e - Len(c)) /\ (c # <<>> => c[1] \in {ACK, NAK})

\* ReceiveAckFrom keeps everything from the first answer on, and returns once.
AckInv ==
  wanted = "ack" =>
    /\ pc \in {"scan", "append", "done"} => got = <<>> /\ AckRead(strCache, pos)
    /\ pc = "append" => strCache # <<>>
    /\ pc = "silent" =>
         Len(got) = 1 /\ got[1].end = Len(bytes) /\ AckRead(got[1].cache, got[1].end)

\* No start token but those of frames comes in the first n bytes.
InStepTo(n) == \A x \in 1..n : ~Stray(x)

\* What follows is about the burst and, as parameters, pos, pc, strCache and got.

\* The cache begins where the frame does.
Within(i, n, c) == i \in FrameParts /\ n - Len(c) = parts[i].at

\* Before the first stray start token a frame is never read but from its
\* beginning to its end.
InStep(n, at, c) ==
  InStepTo(n) =>
    /\ at = "scan" => \A i \in FrameParts : n <= parts[i].at \/ Sent(i).end <= n
    /\ at = "append" => \E i \in FrameParts : Within(i, n, c) /\ n < Sent(i).end
    /\ at = "done" /\ c # <<>> => \E i \in FrameParts : Within(i, n, c) /\ n = Sent(i).end
    /\ at # "slip"

Returned(i, g) == \E k \in DOMAIN g : g[k] = Sent(i)

\* A call has returned, or returns now, every frame read in step.
Counted(n, at, c, g) ==
  \A i \in FrameParts :
    InStepTo(Sent(i).end) /\ Sent(i).end <= n =>
      Returned(i, g) \/ (at = "done" /\ Sent(i).end = n /\ c # <<>>)

EndsBurst(i) == i \in FrameParts /\ Sent(i).end = Len(bytes)

\* Nothing else was returned, except for the frame that ends the burst.
Exact(g) ==
  \A k \in DOMAIN g :
    g[k].cache # <<>> =>
      \E i \in FrameParts : g[k] = Sent(i) /\ (InStepTo(parts[i].at) \/ EndsBurst(i))

\* Behind a stray start token the burst is read to its end; there no start
\* token is passed over up to that of the last frame.
OutOfStep(n, at, c, g) ==
  ~InStepTo(n) =>
    /\ at # "scan"
    /\ at = "append" => c # <<>> /\ Stray(n - Len(c) + 1)
    /\ at = "slip" => \A i \in FrameParts : EndsBurst(i) => n - Len(c) < parts[i].at
    /\ at = "done" =>
         /\ n = Len(bytes)
         /\ c = <<>> => \A i \in FrameParts : ~EndsBurst(i)
         /\ c # <<>> => \E i \in FrameParts : Within(i, n, c) /\ EndsBurst(i)
    /\ at = "silent" => \A i \in FrameParts : EndsBurst(i) => Returned(i, g)

Received(n, at, c, g) ==
  /\ InStep(n, at, c) /\ Counted(n, at, c, g)
  /\ Len(bytes) <= MaxCache => Exact(g) /\ OutOfStep(n, at, c, g)

FrameInv ==
  wanted = "frame" /\ pc # "arrive" /\ ~Collision => Received(pos, pc, strCache, got)

BurstInv == FramingTypeOK /\ PartsLaid /\ Places /\ CacheRead /\ AckInv /\ FrameInv

-----------------------------------------------------------------------------
(* Lemmas about sequences of bytes                                         *)

\* Append adds one element at the end and leaves the others where they are.
LEMMA AppendAt ==
  ASSUME NEW S, NEW q \in Seq(S), NEW e \in S
  PROVE  /\ Append(q, e) \in Seq(S) /\ Append(q, e) # <<>>
         /\ Len(Append(q, e)) = Len(q) + 1
         /\ DOMAIN Append(q, e) = 1..Len(q) + 1
         /\ \A i \in 1..Len(q) : Append(q, e)[i] = q[i]
         /\ Append(q, e)[Len(q) + 1] = e
OBVIOUS

\* What SubSeq takes out.
LEMMA SubSeqAt ==
  ASSUME NEW S, NEW q \in Seq(S), NEW m \in Nat, NEW n \in Nat,
         1 <= m, m <= n + 1, n <= Len(q)
  PROVE  /\ SubSeq(q, m, n) \in Seq(S)
         /\ Len(SubSeq(q, m, n)) = n - m + 1
         /\ \A k \in 1..n - m + 1 : SubSeq(q, m, n)[k] = q[m + k - 1]
<1>1. \A i \in m..n : q[i] \in S
  OBVIOUS
<1> QED
  BY <1>1, SubSeqProperties

\* Concatenation.
LEMMA ConcatAt ==
  ASSUME NEW S, NEW q \in Seq(S), NEW r \in Seq(S)
  PROVE  /\ q \o r \in Seq(S)
         /\ Len(q \o r) = Len(q) + Len(r)
         /\ \A k \in 1..Len(q) : (q \o r)[k] = q[k]
         /\ \A k \in 1..Len(r) : (q \o r)[Len(q) + k] = r[k]
OBVIOUS

\* Sequences with the same elements are equal.
LEMMA SameSeq ==
  ASSUME NEW S, NEW q \in Seq(S), NEW r \in Seq(S), Len(q) = Len(r),
         \A k \in 1..Len(q) : q[k] = r[k]
  PROVE  q = r
OBVIOUS

\* A nonempty set of positions has a least one.
LEMMA Least ==
  ASSUME NEW S \in SUBSET Nat, S # {}
  PROVE  LET m == CHOOSE i \in S : \A j \in S : i <= j
         IN  m \in S /\ \A j \in S : m <= j
<1> DEFINE R == OpToRel(<, Nat)
<1>1. IsWellFoundedOn(R, Nat)
  BY NatLessThanWellFounded
<1>2. \A x, y \in Nat : x < y => <<x, y>> \in R
  BY DEF OpToRel
<1> HIDE DEF R
<1>3. PICK x \in S : \A y \in S : ~(<<y, x>> \in R)
  BY <1>1, WFMin
<1>4. \A y \in S : ~(y < x)
  BY <1>2, <1>3
<1>5. \A y \in S : x <= y
  BY <1>4
<1> QED
  BY <1>5

\* slipToNextStartToken drops everything before the next start token.
LEMMA SlipFacts ==
  ASSUME NEW c \in Seq(Byte), c # <<>>
  PROVE  LET d == slipToNextStartToken(c)
         IN  /\ d \in Seq(Byte) /\ TailOf(d, c) /\ Len(d) < Len(c)
             /\ d # <<>> => d[1] = SOH
             /\ \A i \in 2..Len(c) - Len(d) : c[i] # SOH
<1> DEFINE starts == {i \in 2..Len(c) : c[i] = SOH}
           m == CHOOSE i \in starts : \A j \in starts : i <= j
           d == slipToNextStartToken(c)
<1>0. Len(c) \in Nat /\ Len(c) > 0 /\ DOMAIN c = 1..Len(c)
  BY SeqFacts
<1>1. CASE starts = {}
  <2>1. d = <<>>
    BY <1>1 DEF slipToNextStartToken
  <2>2. \A i \in 2..Len(c) : c[i] # SOH
    BY <1>1
  <2> QED
    BY <2>1, <2>2, <1>0, EmptyFacts DEF TailOf
<1>2. CASE starts # {}
  <2>1. d = SubSeq(c, m, Len(c))
    BY <1>2 DEF slipToNextStartToken
  <2>2. starts \in SUBSET Nat
    OBVIOUS
  <2>3. m \in starts /\ \A j \in starts : m <= j
    BY <1>2, <2>2, Least
  <2>4. m \in 2..Len(c) /\ c[m] = SOH /\ \A i \in 2..m - 1 : c[i] # SOH
    BY <2>3, <1>0
  <2> HIDE DEF m, starts
  <2>5. /\ d \in Seq(Byte) /\ Len(d) = Len(c) - m + 1
        /\ \A k \in 1..Len(c) - m + 1 : d[k] = c[m + k - 1]
    BY <2>1, <2>4, <1>0, SubSeqAt
  <2> HIDE DEF d
  <2>6. DOMAIN d = 1..Len(d)
    BY <2>5, SeqFacts
  <2>7. Len(d) < Len(c) /\ d[1] = c[m]
    BY <2>4, <2>5, <1>0
  <2>8. \A k \in DOMAIN d : Len(c) - Len(d) + k = m + k - 1
    BY <2>4, <2>5, <2>6, <1>0
  <2>9. TailOf(d, c)
    BY <2>5, <2>6, <2>7, <2>8 DEF TailOf
  <2> QED
    BY <2>4, <2>5, <2>7, <2>9, <1>0 DEF d
<1> QED
  BY <1>1, <1>2

\* isValidFrame keeps a cache that passes the check or is short enough.
LEMMA AfterByteFacts ==
  ASSUME NEW c \in Seq(Byte), c # <<>>
  PROVE  LET d == AfterByte(c)
         IN  /\ d \in Seq(Byte) /\ TailOf(d, c)
             /\ Len(c) <= MaxCache \/ isFrameCRCOK(c) => d = c
<1>0. Len(c) \in Nat /\ Len(c) > 0 /\ DOMAIN c = 1..Len(c) /\ MaxCache \in Nat
  BY SeqFacts, FramingAssumption
<1>1. TailOf(c, c)
  BY <1>0 DEF TailOf
<1> QED
  BY <1>0, <1>1, SlipFacts DEF AfterByte

-----------------------------------------------------------------------------
(* The burst                                                               *)

\* The initial state satisfies the inductive invariant.
LEMMA BurstInit == ASSUME FramingInit PROVE BurstInv
<1>1. bytes = <<>> /\ parts = <<>> /\ strCache = <<>> /\ got = <<>> /\ pos = 0
      /\ pc = "arrive" /\ wanted \in {"frame", "ack"}
  BY DEF FramingInit
<1>2. FramingTypeOK
  BY <1>1, EmptyFacts DEF FramingTypeOK
<1>3. PartsLaid /\ Places
  BY <1>1, EmptyFacts DEF PartsLaid, Places
<1>4. CacheRead
  BY <1>1, EmptyFacts DEF CacheRead, ReadTo
<1>5. AckInv /\ FrameInv
  BY <1>1 DEF AckInv, FrameInv
<1> QED
  BY <1>2, <1>3, <1>4, <1>5 DEF BurstInv

\* The byte that is read next.
LEMMA NextByte ==
  ASSUME FramingTypeOK, More
  PROVE  next \in Byte /\ pos + 1 \in 0..Len(bytes) /\ pos \in Nat /\ Len(bytes) \in Nat
BY SeqFacts DEF FramingTypeOK, More, next

\* Appending the next byte to the cache, with what isValidFrame then drops.
LEMMA AppendedFacts ==
  ASSUME FramingTypeOK, ReadTo(strCache, pos), More
  PROVE  LET c == Append(strCache, next)
         IN  /\ c \in Seq(Byte) /\ c # <<>> /\ Len(c) = Len(strCache) + 1
             /\ c[1] = (IF strCache = <<>> THEN next ELSE strCache[1])
             /\ ReadTo(c, pos + 1)
             /\ AfterByte(c) \in Seq(Byte) /\ TailOf(AfterByte(c), c)
             /\ Len(c) <= MaxCache \/ isFrameCRCOK(c) => AfterByte(c) = c
<1> DEFINE c == Append(strCache, next)
<1>1. next \in Byte /\ pos \in Nat /\ strCache \in Seq(Byte) /\ Len(strCache) \in Nat
      /\ DOMAIN strCache = 1..Len(strCache)
  BY NextByte, SeqFacts DEF FramingTypeOK
<1>2. /\ c \in Seq(Byte) /\ c # <<>> /\ Len(c) = Len(strCache) + 1
      /\ DOMAIN c = 1..Len(strCache) + 1
      /\ \A i \in 1..Len(strCache) : c[i] = strCache[i]
      /\ c[Len(strCache) + 1] = next
  BY <1>1, AppendAt
<1>3. c[1] = IF strCache = <<>> THEN next ELSE strCache[1]
  BY <1>1, <1>2, SeqFacts, EmptyFacts
<1> HIDE DEF c
<1>4. ReadTo(c, pos + 1)
  <2> DEFINE l == Len(strCache)
  <2>0. l \in Nat /\ l <= pos /\ Len(c) = l + 1
    BY <1>1, <1>2 DEF ReadTo
  <2>1. (pos + 1) - Len(c) = pos - l /\ Len(c) <= pos + 1 /\ pos - l + (l + 1) = pos + 1
    <3> HIDE DEF l
    <3> QED BY <2>0, <1>1
  <2>2. \A k \in 1..Len(strCache) : c[k] = bytes[pos - Len(strCache) + k]
    BY <1>1, <1>2 DEF ReadTo
  <2>3. c[Len(strCache) + 1] = bytes[pos - Len(strCache) + (Len(strCache) + 1)]
    BY <2>1, <1>2 DEF next
  <2>4. \A k \in DOMAIN c : k \in 1..Len(strCache) \/ k = Len(strCache) + 1
    BY <1>1, <1>2
  <2>5. \A k \in DOMAIN c : c[k] = bytes[pos - l + k]
    BY <2>2, <2>3, <2>4
  <2> HIDE DEF l
  <2>6. \A k \in DOMAIN c : c[k] = bytes[(pos + 1) - Len(c) + k]
    BY <2>1, <2>5
  <2>7. Len(c) <= pos + 1
    BY <2>1
  <2> QED
    BY <2>6, <2>7 DEF ReadTo
<1>5. /\ AfterByte(c) \in Seq(Byte) /\ TailOf(AfterByte(c), c)
      /\ Len(c) <= MaxCache \/ isFrameCRCOK(c) => AfterByte(c) = c
  BY <1>2, AfterByteFacts
<1> QED
  BY <1>2, <1>3, <1>4, <1>5 DEF c

\* What is left of what was read last was read last.
LEMMA ReadSuffix ==
  ASSUME NEW c \in Seq(Byte), NEW d \in Seq(Byte), NEW e \in Nat,
         ReadTo(c, e), TailOf(d, c)
  PROVE  ReadTo(d, e)
<1>1. Len(c) \in Nat /\ Len(d) \in Nat /\ DOMAIN c = 1..Len(c) /\ DOMAIN d = 1..Len(d)
  BY SeqFacts
<1>2. \A k \in DOMAIN d : Len(c) - Len(d) + k \in DOMAIN c
                          /\ e - Len(c) + (Len(c) - Len(d) + k) = e - Len(d) + k
  BY <1>1 DEF TailOf
<1> QED
  BY <1>1, <1>2 DEF ReadTo, TailOf

\* It is a piece of the burst.
LEMMA ReadPiece ==
  ASSUME NEW c \in Seq(Byte), NEW e \in Nat, bytes \in Seq(Byte), e <= Len(bytes),
         ReadTo(c, e)
  PROVE  c = SubSeq(bytes, e - Len(c) + 1, e)
<1>1. Len(c) \in Nat /\ DOMAIN c = 1..Len(c) /\ Len(c) <= e
  BY SeqFacts DEF ReadTo
<1> DEFINE m == e - Len(c) + 1
           d == SubSeq(bytes, m, e)
<1>2. m \in Nat /\ 1 <= m /\ m <= e + 1 /\ e - m + 1 = Len(c)
  BY <1>1
<1>3. /\ d \in Seq(Byte) /\ Len(d) = e - m + 1
      /\ \A k \in 1..e - m + 1 : d[k] = bytes[m + k - 1]
  <2> HIDE DEF m
  <2> QED
    BY <1>2, SubSeqAt
<1>4. \A k \in 1..Len(c) : d[k] = c[k]
  <2> SUFFICES ASSUME NEW k \in 1..Len(c) PROVE d[k] = c[k]
    OBVIOUS
  <2>1. m + k - 1 = e - Len(c) + k
    BY <1>1
  <2>2. c[k] = bytes[e - Len(c) + k]
    BY <1>1 DEF ReadTo
  <2> HIDE DEF m
  <2> QED
    BY <1>2, <1>3, <2>1, <2>2
<1> QED
  <2> HIDE DEF d, m
  <2>1. Len(d) = Len(c) /\ d \in Seq(Byte)
    BY <1>2, <1>3
  <2>2. c = d
    BY <2>1, <1>4, SameSeq
  <2> QED
    BY <2>2 DEF d, m

-----------------------------------------------------------------------------
(* Types and places                                                        *)

\* A part is a nonempty sequence of bytes.
LEMMA PartFacts ==
  ASSUME NEW p \in Frames \cup Answers \cup Scraps
  PROVE  p \in Seq(Byte) /\ Len(p) \in Nat /\ Len(p) > 0 /\ DOMAIN p = 1..Len(p)
<1>1. p \in Seq(Byte) /\ p # <<>>
  BY FramingAssumption
<1> QED
  BY <1>1, SeqFacts

\* The burst changes only when a part arrives.
LEMMA BurstSteps ==
  ASSUME [FramingNext]_framingVars PROVE Arrive \/ UNCHANGED burstVars
BY DEF FramingNext, framingVars, burstVars, Call, Skip, AppendByte, Silence, Slip, SkipToAck,
       AppendAckByte, AckSilence, Return, BurstOver

\* Every step keeps the types and places.
LEMMA TypeStep ==
  ASSUME BurstInv, [FramingNext]_framingVars PROVE FramingTypeOK' /\ Places'
<1> USE DEF burstVars
<1>0. FramingTypeOK /\ Places /\ ReadTo(strCache, pos)
  BY DEF BurstInv, CacheRead
<1>1. CASE Arrive
  <2>1. PICK p \in Frames \cup Answers \cup Scraps : bytes' = bytes \o p
    BY <1>1 DEF Arrive
  <2>2. bytes' \in Seq(Byte) /\ Len(bytes') \in Nat
    BY <2>1, <1>0, PartFacts, ConcatAt, SeqFacts DEF FramingTypeOK
  <2>3. pos = 0 /\ pos' = 0 /\ got' = <<>> /\ strCache' = <<>> /\ pc' = "arrive"
        /\ wanted' = wanted
    BY <1>0, <1>1 DEF Arrive, FramingTypeOK, Places
  <2> QED
    BY <2>2, <2>3, <1>0, EmptyFacts DEF FramingTypeOK, Places
<1>2. CASE Call
  BY <1>0, <1>2 DEF Call, FramingTypeOK, Places
<1>3. CASE Skip \/ SkipToAck
  BY <1>0, <1>3, NextByte DEF Skip, SkipToAck, FramingTypeOK, Places
<1>4. CASE AppendByte
  <2> DEFINE c == Append(strCache, next)
  <2>1. More /\ pos' = pos + 1 /\ strCache' = AfterByte(c) /\ pc' \in {"done", "append"}
        /\ (pc' = "done" => isFrameCRCOK(c))
    BY <1>4 DEF AppendByte
  <2>2. c # <<>> /\ AfterByte(c) \in Seq(Byte) /\ (isFrameCRCOK(c) => AfterByte(c) = c)
    BY <1>0, <2>1, AppendedFacts
  <2> HIDE DEF c
  <2> QED
    BY <1>0, <1>4, <2>1, <2>2, NextByte DEF AppendByte, FramingTypeOK, Places
<1>5. CASE Silence
  BY <1>0, <1>5, SeqFacts DEF Silence, More, FramingTypeOK, Places
<1>6. CASE Slip
  <2>1. slipToNextStartToken(strCache) \in Seq(Byte)
    BY <1>0, <1>6, SlipFacts DEF Slip, FramingTypeOK, Places
  <2> QED
    BY <1>0, <1>6, <2>1 DEF Slip, FramingTypeOK, Places
<1>7. CASE AppendAckByte
  <2> DEFINE c == Append(strCache, next)
  <2>1. c \in Seq(Byte)
    BY <1>0, <1>7, AppendedFacts DEF AppendAckByte
  <2> HIDE DEF c
  <2>2. strCache' = c
    BY <1>7 DEF c, AppendAckByte
  <2> QED
    BY <1>0, <1>7, <2>1, <2>2, NextByte DEF AppendAckByte, FramingTypeOK, Places
<1>8. CASE AckSilence
  BY <1>0, <1>8, SeqFacts DEF AckSilence, More, FramingTypeOK, Places
<1>9. CASE Return
  <2> DEFINE r == [cache |-> strCache, end |-> pos]
             G == [cache : Seq(Byte), end : 0..Len(bytes)]
  <2>1. r \in G /\ got \in Seq(G) /\ got' = Append(got, r)
    BY <1>0, <1>9 DEF Return, FramingTypeOK
  <2>2. got' \in Seq(G)
    <3> HIDE DEF r, G
    <3> QED
      BY <2>1, AppendAt
  <2>3. pc' = (IF More THEN "scan" ELSE "silent") /\ strCache' = <<>>
        /\ UNCHANGED <<bytes, parts, wanted, pos>>
    BY <1>9 DEF Return
  <2>4. ~More => pos = Len(bytes)
    BY <1>0, SeqFacts DEF More, FramingTypeOK
  <2> QED
    BY <1>0, <2>2, <2>3, <2>4, EmptyFacts DEF FramingTypeOK, Places
<1>10. CASE UNCHANGED framingVars
  BY <1>0, <1>10 DEF framingVars, FramingTypeOK, Places
<1> QED
  BY <1>1, <1>2, <1>3, <1>4, <1>5, <1>6, <1>7, <1>8, <1>9, <1>10
     DEF FramingNext, BurstOver

\* A part that arrives lies behind the others.
LEMMA PartsStep ==
  ASSUME BurstInv, [FramingNext]_framingVars PROVE PartsLaid'
<1>0. FramingTypeOK /\ PartsLaid
  BY DEF BurstInv
<1>1. CASE UNCHANGED burstVars
  BY <1>0, <1>1 DEF burstVars, PartsLaid, Sent
<1>2. CASE Arrive
  <2> DEFINE P == [at : Nat, of : Frames \cup Answers \cup Scraps]
  <2>1. PICK p \in Frames \cup Answers \cup Scraps :
             /\ bytes' = bytes \o p
             /\ parts' = Append(parts, [at |-> Len(bytes), of |-> p])
    BY <1>2 DEF Arrive
  <2>2. p \in Seq(Byte) /\ Len(p) \in Nat /\ DOMAIN p = 1..Len(p)
        /\ bytes \in Seq(Byte) /\ Len(bytes) \in Nat
    BY <1>0, PartFacts, SeqFacts DEF FramingTypeOK
  <2>3. /\ Len(bytes') = Len(bytes) + Len(p)
        /\ \A k \in 1..Len(bytes) : bytes'[k] = bytes[k]
        /\ \A k \in 1..Len(p) : bytes'[Len(bytes) + k] = p[k]
    BY <2>1, <2>2, ConcatAt
  <2> DEFINE r == [at |-> Len(bytes), of |-> p]
             n == Len(parts) + 1
  <2>4. r \in P /\ r.at = Len(bytes) /\ r.of = p /\ parts \in Seq(P)
    BY <1>0, <2>2 DEF PartsLaid
  <2>5. /\ parts' \in Seq(P) /\ Len(parts) \in Nat /\ DOMAIN parts' = 1..n
        /\ DOMAIN parts = 1..Len(parts)
        /\ \A i \in 1..Len(parts) : parts'[i] = parts[i]
        /\ parts'[n] = r
    <3> HIDE DEF r, P
    <3> QED
      BY <2>1, <2>4, AppendAt, SeqFacts DEF r
  <2>6. \A i \in DOMAIN parts :
           parts[i].at \in Nat /\ parts[i].of \in Frames \cup Answers \cup Scraps
           /\ Len(parts[i].of) \in Nat /\ DOMAIN parts[i].of = 1..Len(parts[i].of)
    <3> SUFFICES ASSUME NEW i \in DOMAIN parts
                 PROVE  parts[i].at \in Nat /\ parts[i].of \in Frames \cup Answers \cup Scraps
                        /\ Len(parts[i].of) \in Nat
                        /\ DOMAIN parts[i].of = 1..Len(parts[i].of)
      OBVIOUS
    <3>1. parts[i] \in P
      <4> HIDE DEF P
      <4> QED
        BY <2>4, SeqFacts
    <3>2. parts[i].at \in Nat /\ parts[i].of \in Frames \cup Answers \cup Scraps
      BY <3>1
    <3> QED
      BY <3>2, PartFacts
  <2> HIDE DEF r, P
  <2>7. \A i \in DOMAIN parts' :
           /\ Sent(i)'.end <= Len(bytes')
           /\ \A k \in DOMAIN parts'[i].of : bytes'[parts'[i].at + k] = parts'[i].of[k]
    <3> SUFFICES ASSUME NEW i \in 1..n
                 PROVE  /\ parts'[i].at + Len(parts'[i].of) <= Len(bytes')
                        /\ \A k \in DOMAIN parts'[i].of :
                              bytes'[parts'[i].at + k] = parts'[i].of[k]
      BY <2>5 DEF Sent
    <3>1. CASE i = n
      <4>1. parts'[i].at = Len(bytes) /\ parts'[i].of = p
        BY <3>1, <2>4, <2>5
      <4> QED
        BY <4>1, <2>2, <2>3
    <3>2. CASE i # n
      <4>1. i \in DOMAIN parts /\ parts'[i] = parts[i]
        BY <3>2, <2>5
      <4>2. /\ parts[i].at + Len(parts[i].of) <= Len(bytes)
            /\ \A k \in DOMAIN parts[i].of : bytes[parts[i].at + k] = parts[i].of[k]
        BY <4>1, <1>0 DEF PartsLaid, Sent
      <4>3. \A k \in DOMAIN parts[i].of : parts[i].at + k \in 1..Len(bytes)
        BY <4>1, <4>2, <2>2, <2>6
      <4> QED
        BY <4>1, <4>2, <4>3, <2>2, <2>3, <2>6
    <3> QED
      BY <3>1, <3>2
  <2>8. ASSUME NEW i \in DOMAIN parts', NEW j \in DOMAIN parts', i < j
        PROVE  Sent(i)'.end <= parts'[j].at
    <3>1. i \in DOMAIN parts /\ parts'[i] = parts[i]
      BY <2>5, <2>8
    <3>2. CASE j = n
      BY <3>1, <3>2, <2>4, <2>5, <1>0 DEF PartsLaid, Sent
    <3>3. CASE j # n
      <4>1. j \in DOMAIN parts /\ parts'[j] = parts[j]
        BY <3>3, <2>5
      <4>2. Sent(i).end <= parts[j].at
        BY <3>1, <4>1, <2>8, <1>0 DEF PartsLaid
      <4> QED
        BY <3>1, <4>1, <4>2 DEF Sent
    <3> QED
      BY <3>2, <3>3
  <2> QED
    BY <2>5, <2>7, <2>8 DEF PartsLaid, P
<1> QED
  BY <1>1, <1>2, BurstSteps

-----------------------------------------------------------------------------
(* What is read and returned                                               *)

\* The types of the numbers in the state.
LEMMA BurstNumbers ==
  ASSUME FramingTypeOK, CacheRead
  PROVE  /\ pos \in Nat /\ Len(bytes) \in Nat /\ pos <= Len(bytes)
         /\ Len(strCache) \in Nat /\ from \in Nat /\ Len(strCache) <= pos
         /\ Len(got) \in Nat /\ DOMAIN got = 1..Len(got)
         /\ \A k \in DOMAIN got :
              /\ got[k].cache \in Seq(Byte) /\ got[k].end \in Nat
              /\ Len(got[k].cache) \in Nat
<1>1. bytes \in Seq(Byte) /\ strCache \in Seq(Byte) /\ pos \in 0..Len(bytes)
      /\ got \in Seq([cache : Seq(Byte), end : 0..Len(bytes)])
  BY DEF FramingTypeOK
<1>2. Len(bytes) \in Nat /\ Len(strCache) \in Nat /\ Len(got) \in Nat
      /\ DOMAIN got = 1..Len(got)
  BY <1>1, SeqFacts
<1> DEFINE G == [cache : Seq(Byte), end : 0..Len(bytes)]
<1>3. \A k \in DOMAIN got : got[k] \in G
  <2>1. got \in Seq(G)
    BY <1>1
  <2> HIDE DEF G
  <2> QED
    BY <2>1, SeqFacts
<1>4. \A k \in DOMAIN got : got[k].cache \in Seq(Byte) /\ got[k].end \in 0..Len(bytes)
  BY <1>3
<1>5. \A k \in DOMAIN got : Len(got[k].cache) \in Nat /\ got[k].end \in Nat
  <2> SUFFICES ASSUME NEW k \in DOMAIN got
               PROVE  Len(got[k].cache) \in Nat /\ got[k].end \in Nat
    OBVIOUS
  <2>1. got[k].cache \in Seq(Byte) /\ got[k].end \in 0..Len(bytes)
    BY <1>4
  <2> QED
    BY <2>1, <1>2, SeqFacts
<1>6. Len(strCache) <= pos
  BY DEF CacheRead, ReadTo
<1>7. pos \in Nat /\ pos <= Len(bytes) /\ from \in Nat
  BY <1>1, <1>2, <1>6 DEF from
<1> QED
  BY <1>2, <1>4, <1>5, <1>6, <1>7

\* Nothing is returned, and the cache remains what was read last.
LEMMA CacheKept ==
  ASSUME BurstInv, UNCHANGED <<bytes, got>>, ReadTo(strCache', pos'),
         Len(strCache') \in Nat, pos' \in Nat, from <= pos' - Len(strCache')
  PROVE  CacheRead'
<1>1. FramingTypeOK /\ CacheRead
  BY DEF BurstInv
<1>2. ReadTo(strCache, pos)'
  BY DEF ReadTo
<1>3. ASSUME NEW k \in DOMAIN got
      PROVE  /\ ReadTo(got[k].cache, got[k].end)'
             /\ got'[k].end <= from'
             /\ k > 1 => got'[k - 1].end <= got'[k].end - Len(got'[k].cache)
  <2>1. /\ ReadTo(got[k].cache, got[k].end)
        /\ got[k].end <= from
        /\ k > 1 => got[k - 1].end <= got[k].end - Len(got[k].cache)
    BY <1>1, <1>3 DEF CacheRead
  <2>2. ReadTo(got[k].cache, got[k].end)'
    BY <2>1 DEF ReadTo
  <2>3. got'[k].end <= from'
    BY <2>1, <1>1, <1>3, BurstNumbers DEF from
  <2> QED
    BY <2>1, <2>2, <2>3
<1> QED
  BY <1>2, <1>3 DEF CacheRead

\* Every step keeps the order of what is read and returned.
LEMMA CacheStep ==
  ASSUME BurstInv, [FramingNext]_framingVars PROVE CacheRead'
<1> USE DEF burstVars
<1>0. FramingTypeOK /\ Places /\ CacheRead /\ ReadTo(strCache, pos) /\ strCache \in Seq(Byte)
  BY DEF BurstInv, CacheRead, FramingTypeOK
<1>1. CASE Arrive
  <2>1. got' = <<>> /\ strCache' = <<>> /\ pos' = 0
    BY <1>0, <1>1 DEF Arrive, FramingTypeOK, Places
  <2> QED
    BY <2>1, EmptyFacts DEF CacheRead, ReadTo
<1>2. CASE Call \/ Silence \/ AckSilence \/ UNCHANGED framingVars
  <2>1. UNCHANGED <<bytes, got, strCache, pos>>
    BY <1>2 DEF Call, Silence, AckSilence, framingVars
  <2> QED
    BY <2>1, <1>0, CacheKept, BurstNumbers DEF from
<1>3. CASE Skip \/ SkipToAck
  <2>1. strCache = <<>> /\ UNCHANGED <<bytes, got, strCache>> /\ pos' = pos + 1
    BY <1>0, <1>3 DEF Skip, SkipToAck, FramingTypeOK
  <2>2. ReadTo(strCache', pos') /\ Len(strCache') = 0
    BY <2>1, <1>0, BurstNumbers, EmptyFacts DEF ReadTo
  <2> QED
    BY <2>1, <2>2, <1>0, CacheKept, BurstNumbers DEF from
<1>4. CASE AppendByte \/ AppendAckByte
  <2> DEFINE c == Append(strCache, next)
  <2>1. More /\ pos' = pos + 1 /\ UNCHANGED <<bytes, got>>
        /\ (strCache' = AfterByte(c) \/ strCache' = c)
    BY <1>4 DEF AppendByte, AppendAckByte
  <2>2. c \in Seq(Byte) /\ ReadTo(c, pos + 1) /\ Len(c) = Len(strCache) + 1
        /\ AfterByte(c) \in Seq(Byte) /\ TailOf(AfterByte(c), c)
    BY <1>0, <2>1, AppendedFacts
  <2> HIDE DEF c
  <2>3. pos + 1 \in Nat /\ Len(c) \in Nat /\ Len(AfterByte(c)) \in Nat
    BY <1>0, <2>2, BurstNumbers, SeqFacts
  <2>4. ReadTo(AfterByte(c), pos + 1) /\ Len(AfterByte(c)) <= Len(c)
    BY <2>2, <2>3, ReadSuffix DEF TailOf
  <2>5. ReadTo(strCache', pos') /\ Len(strCache') \in Nat /\ Len(strCache') <= Len(c)
    BY <2>1, <2>2, <2>3, <2>4
  <2> QED
    BY <2>1, <2>2, <2>3, <2>5, <1>0, CacheKept, BurstNumbers DEF from
<1>5. CASE Slip
  <2> DEFINE d == slipToNextStartToken(strCache)
  <2>1. strCache' = d /\ UNCHANGED <<bytes, got, pos>> /\ strCache # <<>>
    BY <1>0, <1>5 DEF Slip, Places
  <2>2. d \in Seq(Byte) /\ TailOf(d, strCache) /\ Len(d) < Len(strCache)
    BY <1>0, <2>1, SlipFacts
  <2> HIDE DEF d
  <2>3. ReadTo(d, pos) /\ Len(d) \in Nat
    BY <1>0, <2>2, BurstNumbers, ReadSuffix, SeqFacts
  <2> QED
    BY <2>1, <2>2, <2>3, <1>0, CacheKept, BurstNumbers DEF from
<1>6. CASE Return
  <2> DEFINE r == [cache |-> strCache, end |-> pos]
             n == Len(got) + 1
             G == [cache : Seq(Byte), end : 0..Len(bytes)]
  <2>1. got' = Append(got, r) /\ strCache' = <<>> /\ UNCHANGED <<bytes, pos>>
    BY <1>6 DEF Return
  <2>2. got \in Seq(G) /\ r \in G /\ r.cache = strCache /\ r.end = pos
    BY <1>0 DEF FramingTypeOK
  <2>3. /\ DOMAIN got' = 1..n /\ got'[n] = r
        /\ \A k \in 1..Len(got) : got'[k] = got[k]
    <3> HIDE DEF r, G
    <3> QED
      BY <2>1, <2>2, AppendAt
  <2> HIDE DEF r, G
  <2>4. from' = pos /\ ReadTo(strCache, pos)'
    BY <2>1, <1>0, BurstNumbers, EmptyFacts DEF from, ReadTo
  <2>5. ASSUME NEW k \in DOMAIN got'
        PROVE  /\ ReadTo(got[k].cache, got[k].end)'
               /\ got'[k].end <= from'
               /\ k > 1 => got'[k - 1].end <= got'[k].end - Len(got'[k].cache)
    <3>1. CASE k = n
      <4>1. got'[k].cache = strCache /\ got'[k].end = pos
        BY <3>1, <2>2, <2>3
      <4>2. ReadTo(got[k].cache, got[k].end)'
        BY <4>1, <2>1, <1>0 DEF ReadTo
      <4>3. k > 1 => k - 1 \in DOMAIN got /\ got'[k - 1] = got[k - 1]
        BY <3>1, <2>3, <1>0, BurstNumbers
      <4>4. k > 1 => got[k - 1].end <= from
        BY <4>3, <1>0 DEF CacheRead
      <4> QED
        BY <4>1, <4>2, <4>3, <4>4, <2>4, <1>0, BurstNumbers DEF from
    <3>2. CASE k # n
      <4>1. k \in DOMAIN got /\ got'[k] = got[k]
            /\ (k > 1 => k - 1 \in DOMAIN got /\ got'[k - 1] = got[k - 1])
        BY <3>2, <2>3, <2>5, <1>0, BurstNumbers
      <4>2. /\ ReadTo(got[k].cache, got[k].end)
            /\ got[k].end <= from
            /\ k > 1 => got[k - 1].end <= got[k].end - Len(got[k].cache)
        BY <4>1, <1>0 DEF CacheRead
      <4>3. ReadTo(got[k].cache, got[k].end)'
        BY <4>1, <4>2, <2>1 DEF ReadTo
      <4>4. got'[k].end <= from'
        BY <4>1, <4>2, <2>4, <1>0, BurstNumbers DEF from
      <4> QED
        BY <4>1, <4>2, <4>3, <4>4
    <3> QED
      BY <3>1, <3>2
  <2> QED
    BY <2>4, <2>5 DEF CacheRead
<1> QED
  BY <1>1, <1>2, <1>3, <1>4, <1>5, <1>6 DEF FramingNext, BurstOver

-----------------------------------------------------------------------------
(* ReceiveAckFrom                                                          *)

\* Every step keeps what the cache of ReceiveAckFrom begins with.
LEMMA AckStep ==
  ASSUME BurstInv, [FramingNext]_framingVars PROVE AckInv'
<1> USE DEF burstVars
<1>0. FramingTypeOK /\ Places /\ CacheRead /\ AckInv
  BY DEF BurstInv
<1> SUFFICES ASSUME wanted' = "ack" PROVE AckInv'
  BY DEF AckInv
<1>1. CASE Arrive
  BY <1>1 DEF Arrive, AckInv
<1>2. CASE Call
  <2>1. pc' = "scan" /\ pos' = 0 /\ got' = <<>> /\ strCache' = <<>>
    BY <1>0, <1>2 DEF Call, FramingTypeOK, Places
  <2> QED
    BY <2>1, EmptyFacts DEF AckInv, AckRead, NoAnswer
<1>3. CASE SkipToAck
  <2>1. /\ pc = "scan" /\ pc' = "scan" /\ wanted = "ack" /\ pos' = pos + 1
        /\ bytes[pos + 1] \notin {ACK, NAK} /\ UNCHANGED <<bytes, got, strCache>>
    BY <1>3 DEF SkipToAck, next
  <2>2. strCache = <<>> /\ got = <<>> /\ AckRead(strCache, pos)
    BY <1>0, <2>1 DEF FramingTypeOK, AckInv
  <2>3. \A x \in 1..pos : bytes[x] \notin {ACK, NAK}
    BY <2>2, <1>0, BurstNumbers, EmptyFacts DEF AckRead, NoAnswer
  <2>4. \A x \in 1..pos + 1 : bytes'[x] \notin {ACK, NAK}
    BY <2>1, <2>3, <1>0, BurstNumbers
  <2> QED
    BY <2>1, <2>2, <2>4, <1>0, BurstNumbers, EmptyFacts DEF AckInv, AckRead, NoAnswer
<1>4. CASE AppendAckByte
  <2> DEFINE c == Append(strCache, next)
  <2>1. /\ pc \in {"scan", "append"} /\ pc' = "append" /\ wanted = "ack" /\ pos' = pos + 1
        /\ strCache' = c /\ UNCHANGED <<bytes, got>> /\ More
        /\ pc = "scan" => next \in {ACK, NAK}
    BY <1>4 DEF AppendAckByte
  <2>2. c # <<>> /\ Len(c) = Len(strCache) + 1
        /\ c[1] = (IF strCache = <<>> THEN next ELSE strCache[1])
    BY <1>0, <2>1, AppendedFacts DEF CacheRead
  <2> HIDE DEF c
  <2>3. got = <<>> /\ AckRead(strCache, pos) /\ (pc = "append" => strCache # <<>>)
    BY <1>0, <2>1 DEF AckInv
  <2>4. c[1] \in {ACK, NAK}
    BY <2>1, <2>2, <2>3, <1>0 DEF AckRead, FramingTypeOK
  <2>5. pos' - Len(c) = pos - Len(strCache)
    BY <2>1, <2>2, <1>0, BurstNumbers
  <2> QED
    BY <2>1, <2>2, <2>3, <2>4, <2>5 DEF AckInv, AckRead, NoAnswer
<1>5. CASE AckSilence
  BY <1>0, <1>5 DEF AckSilence, AckInv, AckRead, NoAnswer
<1>6. CASE Return
  <2> DEFINE r == [cache |-> strCache, end |-> pos]
  <2>1. /\ pc = "done" /\ wanted = "ack" /\ got' = Append(got, r)
        /\ pc' = (IF More THEN "scan" ELSE "silent") /\ UNCHANGED bytes
    BY <1>6 DEF Return
  <2>2. got = <<>> /\ AckRead(strCache, pos) /\ pos = Len(bytes)
    BY <1>0, <2>1 DEF AckInv, Places
  <2>3. pc' = "silent"
    BY <2>1, <2>2, <1>0, BurstNumbers DEF More
  <2>4. got' = <<r>> /\ Len(<<r>>) = 1 /\ <<r>>[1] = r /\ r.cache = strCache /\ r.end = pos
    BY <2>1, <2>2
  <2> HIDE DEF r
  <2>5. Len(got') = 1 /\ got'[1].cache = strCache /\ got'[1].end = pos
    BY <2>4
  <2> QED
    BY <2>1, <2>2, <2>3, <2>5 DEF AckInv, AckRead, NoAnswer
<1>7. CASE Skip \/ AppendByte \/ Silence \/ Slip
  BY <1>0, <1>7 DEF Skip, AppendByte, Silence, Slip, Places
<1>8. CASE UNCHANGED framingVars
  BY <1>0, <1>8 DEF framingVars, AckInv, AckRead, NoAnswer
<1> QED
  BY <1>1, <1>2, <1>3, <1>4, <1>5, <1>6, <1>7, <1>8 DEF FramingNext, BurstOver

\* The answer that comes first is where the cache begins.
LEMMA FirstAnswer ==
  ASSUME BurstInv PROVE FirstAnswerRead
<1>0. FramingTypeOK /\ PartsLaid /\ CacheRead /\ AckInv
  BY DEF BurstInv
<1> SUFFICES ASSUME wanted = "ack", pc = "silent" PROVE FirstAnswerRead
  BY DEF FirstAnswerRead
<1> DEFINE g == got[1].cache
           f == Len(bytes) - Len(g)
<1>1. Len(got) = 1 /\ got[1].end = Len(bytes) /\ AckRead(g, got[1].end)
  BY <1>0 DEF AckInv
<1>2. g \in Seq(Byte) /\ Len(g) \in Nat /\ DOMAIN g = 1..Len(g) /\ 1 \in DOMAIN got
      /\ Len(bytes) \in Nat
  BY <1>0, <1>1, BurstNumbers, SeqFacts
<1>3. ReadTo(g, Len(bytes))
  BY <1>0, <1>1, <1>2 DEF CacheRead
<1> HIDE DEF g
<1>4. ASSUME NEW i \in DOMAIN parts, parts[i].of \in Answers,
             \A x \in 1..parts[i].at : bytes[x] \notin {ACK, NAK}
      PROVE  \A k \in DOMAIN parts[i].of : g[k] = parts[i].of[k]
  <2> DEFINE a == parts[i].at
             p == parts[i].of
             P == [at : Nat, of : Frames \cup Answers \cup Scraps]
  <2>1. a \in Nat /\ p \in Seq(Byte) /\ Len(p) \in Nat /\ Len(p) > 0
        /\ DOMAIN p = 1..Len(p) /\ p[1] \in {ACK, NAK}
    <3>1. parts[i] \in P
      <4>1. parts \in Seq(P)
        BY <1>0 DEF PartsLaid
      <4> HIDE DEF P
      <4> QED
        BY <4>1, SeqFacts
    <3>2. a \in Nat /\ p \in Frames \cup Answers \cup Scraps
      BY <3>1
    <3> QED
      BY <3>2, <1>4, PartFacts, FramingAssumption
  <2>2. /\ a + Len(p) <= Len(bytes)
        /\ \A k \in DOMAIN p : bytes[a + k] = p[k]
    BY <1>0 DEF PartsLaid, Sent
  <2>3. \A x \in 1..a : bytes[x] \notin {ACK, NAK}
    BY <1>4
  <2> HIDE DEF a, p
  <2>4. bytes[a + 1] \in {ACK, NAK}
    BY <2>1, <2>2
  <2>5. f \in Nat /\ \A x \in 1..f : bytes[x] \notin {ACK, NAK}
    BY <1>1, <1>2, <1>3 DEF AckRead, NoAnswer, ReadTo
  <2>6. f <= a
    BY <2>1, <2>4, <2>5
  <2>7. g # <<>> /\ Len(g) > 0
    BY <2>1, <2>2, <2>6, <1>2, EmptyFacts
  <2>8. bytes[f + 1] \in {ACK, NAK}
    BY <2>7, <1>1, <1>2, <1>3 DEF AckRead, ReadTo
  <2>9. a = f
    BY <2>1, <2>3, <2>5, <2>6, <2>8
  <2>10. \A k \in DOMAIN p : k \in DOMAIN g
    BY <2>1, <2>2, <2>9, <1>2
  <2>11. \A k \in DOMAIN p : g[k] = bytes[f + k]
    BY <2>10, <1>3 DEF ReadTo
  <2>12. \A k \in DOMAIN p : g[k] = p[k]
    BY <2>2, <2>9, <2>11
  <2> QED
    BY <2>12 DEF p
<1> QED
  BY <1>1, <1>4 DEF FirstAnswerRead, g

\* What was returned are pieces of the burst, in order.
LEMMA Pieces == ASSUME BurstInv PROVE Unspliced
<1>0. FramingTypeOK /\ CacheRead /\ bytes \in Seq(Byte)
  BY DEF BurstInv, FramingTypeOK
<1> SUFFICES ASSUME NEW k \in DOMAIN got
             PROVE  /\ got[k].end - Len(got[k].cache) >= IF k = 1 THEN 0 ELSE got[k - 1].end
                    /\ got[k].cache =
                         SubSeq(bytes, got[k].end - Len(got[k].cache) + 1, got[k].end)
  BY DEF Unspliced
<1>1. /\ got[k].cache \in Seq(Byte) /\ got[k].end \in Nat /\ Len(got[k].cache) \in Nat
      /\ k \in Nat /\ k >= 1 /\ (k > 1 => k - 1 \in DOMAIN got)
      /\ from \in Nat /\ pos \in Nat /\ Len(bytes) \in Nat /\ Len(strCache) \in Nat
      /\ pos <= Len(bytes)
  BY <1>0, BurstNumbers
<1>2. got[k].end <= Len(bytes)
  <2>1. got[k].end <= from
    BY <1>0 DEF CacheRead
  <2> QED
    BY <2>1, <1>1 DEF from
<1>3. /\ ReadTo(got[k].cache, got[k].end)
      /\ k > 1 => got[k - 1].end <= got[k].end - Len(got[k].cache)
  BY <1>0 DEF CacheRead
<1>4. got[k].cache = SubSeq(bytes, got[k].end - Len(got[k].cache) + 1, got[k].end)
  BY <1>0, <1>1, <1>2, <1>3, ReadPiece
<1>5. k = 1 => got[k].end - Len(got[k].cache) >= 0
  BY <1>1, <1>3 DEF ReadTo
<1>6. k > 1 => got[k - 1].end \in Nat
  BY <1>0, <1>1, BurstNumbers
<1> QED
  BY <1>1, <1>3, <1>4, <1>5, <1>6

-----------------------------------------------------------------------------
(* Frames in the burst                                                     *)

\* A frame that is part of the burst.
LEMMA FrameFacts ==
  ASSUME FramingTypeOK, PartsLaid, NEW i \in FrameParts
  PROVE  /\ i \in DOMAIN parts /\ i \in Nat /\ parts[i].at \in Nat /\ Sent(i).end \in Nat
         /\ Len(parts[i].of) \in Nat /\ Len(parts[i].of) <= MaxCache
         /\ Sent(i).end = parts[i].at + Len(parts[i].of)
         /\ parts[i].at < Sent(i).end /\ Sent(i).end <= Len(bytes)
         /\ Sent(i) = [cache |-> parts[i].of, end |-> Sent(i).end]
         /\ parts[i].of \in Seq(Byte) /\ parts[i].of # <<>>
         /\ isFrameCRCOK(parts[i].of)
         /\ ReadTo(parts[i].of, Sent(i).end)
         /\ bytes[parts[i].at + 1] = SOH
<1> DEFINE P == [at : Nat, of : Frames \cup Answers \cup Scraps]
           p == parts[i].of
           a == parts[i].at
<1>1. parts[i] \in P /\ i \in Nat
  <2>1. parts \in Seq(P) /\ i \in DOMAIN parts
    BY DEF PartsLaid, FrameParts
  <2> HIDE DEF P
  <2> QED
    BY <2>1, SeqFacts
<1>2. i \in DOMAIN parts /\ p \in Frames
  BY DEF FrameParts
<1>3. a \in Nat /\ p \in Seq(Byte) /\ Len(p) \in Nat /\ Len(p) > 0 /\ DOMAIN p = 1..Len(p)
  BY <1>1, <1>2, PartFacts
<1>4. p[1] = SOH /\ isFrameCRCOK(p) /\ Len(p) <= MaxCache
  BY <1>2, FramingAssumption
<1>5. Sent(i).end = a + Len(p) /\ Sent(i) = [cache |-> p, end |-> Sent(i).end]
  BY DEF Sent
<1>6. Sent(i).end <= Len(bytes) /\ \A k \in DOMAIN p : bytes[a + k] = p[k]
  BY <1>2 DEF PartsLaid
<1> HIDE DEF p, a
<1>7. Len(p) <= a + Len(p) /\ (a + Len(p)) - Len(p) = a
  BY <1>3
<1>8. ReadTo(p, a + Len(p))
  BY <1>6, <1>7 DEF ReadTo
<1>9. bytes[a + 1] = SOH /\ a < a + Len(p) /\ p # <<>>
  BY <1>3, <1>4, <1>6, EmptyFacts
<1> QED
  BY <1>2, <1>1, <1>3, <1>4, <1>5, <1>6, <1>8, <1>9 DEF p, a

\* Frames do not overlap.
LEMMA FramesApart ==
  ASSUME FramingTypeOK, PartsLaid, NEW i \in FrameParts, NEW j \in FrameParts
  PROVE  i = j \/ Sent(i).end <= parts[j].at \/ Sent(j).end <= parts[i].at
<1>1. i \in DOMAIN parts /\ j \in DOMAIN parts /\ i \in Nat /\ j \in Nat
  BY FrameFacts
<1>2. i = j \/ i < j \/ j < i
  BY <1>1
<1> QED
  BY <1>1, <1>2 DEF PartsLaid

\* The cache, read to the end of a frame from its beginning, is the frame.
LEMMA WholeFrame ==
  ASSUME FramingTypeOK, PartsLaid, NEW i \in FrameParts,
         NEW c \in Seq(Byte), ReadTo(c, Sent(i).end), Within(i, Sent(i).end, c)
  PROVE  c = parts[i].of
<1> DEFINE p == parts[i].of
           e == Sent(i).end
<1>1. p \in Seq(Byte) /\ ReadTo(p, e) /\ Len(p) \in Nat /\ e \in Nat
      /\ parts[i].at \in Nat /\ e = parts[i].at + Len(p)
  BY FrameFacts
<1>2. Len(c) \in Nat /\ DOMAIN c = 1..Len(c) /\ DOMAIN p = 1..Len(p)
  BY <1>1, SeqFacts
<1>3. Len(c) = Len(p)
  <2> DEFINE a == parts[i].at
             l == Len(p)
             m == Len(c)
  <2>1. e - m = a
    BY DEF Within
  <2>2. e \in Nat /\ m \in Nat /\ a \in Nat /\ l \in Nat /\ e = a + l
    BY <1>1, <1>2
  <2> HIDE DEF e, p, a, l, m
  <2>3. m = l
    BY <2>1, <2>2
  <2> QED
    BY <2>3 DEF l, m
<1>4. ReadTo(c, e)
  OBVIOUS
<1> HIDE DEF e, p
<1>5. \A k \in 1..Len(c) : c[k] = p[k]
  BY <1>1, <1>2, <1>3, <1>4 DEF ReadTo
<1>6. c = p
  BY <1>1, <1>3, <1>5, SameSeq
<1> QED
  BY <1>6 DEF p

\* What passes the check is a frame, unless there is a collision.
LEMMA Passes ==
  ASSUME FramingTypeOK, ~Collision, NEW c \in Seq(Byte), NEW e \in Nat, e <= Len(bytes),
         ReadTo(c, e), c # <<>>, c[1] = SOH, isFrameCRCOK(c)
  PROVE  \E i \in FrameParts : Within(i, e, c) /\ Sent(i).end = e
<1> DEFINE a == e - Len(c)
<1>1. bytes \in Seq(Byte) /\ Len(bytes) \in Nat /\ Len(c) \in Nat /\ Len(c) > 0
      /\ DOMAIN c = 1..Len(c)
  BY SeqFacts DEF FramingTypeOK
<1>2. a \in 0..Len(bytes) /\ e \in 0..Len(bytes) /\ a < e /\ bytes[a + 1] = SOH
  BY <1>1 DEF ReadTo
<1>3. c = SubSeq(bytes, a + 1, e)
  BY <1>1, ReadPiece
<1> HIDE DEF a
<1>4. isFrameCRCOK(SubSeq(bytes, a + 1, e))
  BY <1>3
<1>5. ~(\A i \in FrameParts : parts[i].at # a \/ Sent(i).end # e)
  BY <1>2, <1>4 DEF Collision
<1> QED
  BY <1>5 DEF Within, a

\* The bounds of all frames.
LEMMA Bounds ==
  ASSUME FramingTypeOK, PartsLaid
  PROVE  \A i \in FrameParts :
           /\ parts[i].at \in Nat /\ Sent(i).end \in Nat /\ parts[i].at < Sent(i).end
           /\ Sent(i).end <= Len(bytes) /\ bytes[parts[i].at + 1] = SOH
BY FrameFacts

\* A stretch in step is so from its beginning on.
LEMMA InStepLess ==
  ASSUME NEW m \in Nat, NEW n \in Nat, m <= n, InStepTo(n)
  PROVE  InStepTo(m)
BY DEF InStepTo

\* It ends at the next stray start token.
LEMMA InStepMore ==
  ASSUME NEW n \in Nat
  PROVE  InStepTo(n + 1) <=> InStepTo(n) /\ ~Stray(n + 1)
BY DEF InStepTo

-----------------------------------------------------------------------------
(* ReceiveFrameFrom                                                        *)

\* The first call begins in step.
LEMMA CallReceives ==
  ASSUME BurstInv, Call
  PROVE  Received(pos', pc', strCache', got')
<1>0. FramingTypeOK /\ PartsLaid /\ Places
  BY DEF BurstInv
<1>1. pos' = 0 /\ pc' = "scan" /\ got' = <<>>
  BY <1>0 DEF Call, Places
<1>2. InStepTo(0)
  BY DEF InStepTo
<1>3. \A i \in FrameParts : 0 <= parts[i].at /\ ~(Sent(i).end <= 0)
  BY <1>0, Bounds
<1>4. InStep(0, "scan", strCache') /\ Counted(0, "scan", strCache', <<>>)
  BY <1>3 DEF InStep, Counted
<1>5. Exact(<<>>) /\ OutOfStep(0, "scan", strCache', <<>>)
  BY <1>2, EmptyFacts DEF Exact, OutOfStep
<1> QED
  BY <1>1, <1>4, <1>5 DEF Received

\* A byte that is passed over is none of a frame, while in step.
LEMMA SkipReceives ==
  ASSUME BurstInv, Skip, ~Collision
  PROVE  Received(pos', pc', strCache', got')
<1>0. FramingTypeOK /\ PartsLaid /\ CacheRead
  BY DEF BurstInv
<1>1. /\ pc = "scan" /\ pc' = "scan" /\ pos' = pos + 1 /\ UNCHANGED <<strCache, got>>
      /\ bytes[pos + 1] # SOH
  BY DEF Skip, next
<1>2. Received(pos, "scan", strCache, got)
  BY <1>1 DEF BurstInv, FrameInv, Skip
<1>3. pos \in Nat
  BY <1>0, BurstNumbers
<1>4. InStepTo(pos + 1) <=> InStepTo(pos)
  BY <1>1, <1>3, InStepMore DEF Stray
<1>5. InStepTo(pos) => \A i \in FrameParts : pos + 1 <= parts[i].at \/ Sent(i).end <= pos
  <2> SUFFICES ASSUME InStepTo(pos), NEW i \in FrameParts
               PROVE  pos + 1 <= parts[i].at \/ Sent(i).end <= pos
    OBVIOUS
  <2>1. pos <= parts[i].at \/ Sent(i).end <= pos
    BY <1>2 DEF Received, InStep
  <2>2. pos # parts[i].at
    BY <1>0, <1>1, Bounds
  <2> QED
    BY <2>1, <2>2, <1>0, <1>3, Bounds
<1>6. InStep(pos + 1, "scan", strCache)
  BY <1>3, <1>4, <1>5, <1>0, Bounds DEF InStep
<1>7. Counted(pos + 1, "scan", strCache, got)
  <2> SUFFICES ASSUME NEW i \in FrameParts, InStepTo(Sent(i).end), Sent(i).end <= pos + 1
               PROVE  Returned(i, got)
    BY DEF Counted
  <2>1. parts[i].at \in Nat /\ Sent(i).end \in Nat /\ parts[i].at < Sent(i).end
    BY <1>0, Bounds
  <2>2. CASE Sent(i).end = pos + 1
    <3>1. InStepTo(pos)
      BY <2>2, <1>4
    <3> QED
      BY <3>1, <1>5, <2>1, <2>2, <1>3
  <2>3. CASE Sent(i).end <= pos
    BY <2>3, <1>2 DEF Received, Counted
  <2> QED
    BY <2>1, <2>2, <2>3, <1>3
<1>8. Len(bytes) <= MaxCache => Exact(got) /\ OutOfStep(pos + 1, "scan", strCache, got)
  BY <1>2, <1>4 DEF Received, OutOfStep
<1> QED
  BY <1>1, <1>6, <1>7, <1>8 DEF Received

\* The end of the burst.
LEMMA SilenceReceives ==
  ASSUME BurstInv, Silence, ~Collision
  PROVE  Received(pos', pc', strCache', got')
<1>0. FramingTypeOK /\ PartsLaid /\ CacheRead
  BY DEF BurstInv
<1>1. /\ pc \in {"scan", "append"} /\ UNCHANGED <<pos, strCache, got>>
      /\ pc' = (IF strCache = <<>> THEN "done" ELSE "slip")
      /\ pos \in Nat /\ Len(strCache) \in Nat /\ Len(strCache) <= pos /\ pos = Len(bytes)
  BY <1>0, BurstNumbers DEF Silence, More
<1>2. Received(pos, pc, strCache, got)
  BY <1>1 DEF BurstInv, FrameInv, Silence
<1>3. InStepTo(pos) => strCache = <<>>
  <2>1. pc = "append" => ~InStepTo(pos)
    BY <1>0, <1>1, <1>2, Bounds DEF Received, InStep
  <2> QED
    BY <2>1, <1>0, <1>1 DEF FramingTypeOK
<1>4. InStep(pos, pc', strCache)
  BY <1>1, <1>3 DEF InStep
<1>5. Counted(pos, pc', strCache, got)
  BY <1>1, <1>2 DEF Received, Counted
<1>6. ASSUME Len(bytes) <= MaxCache
      PROVE  Exact(got) /\ OutOfStep(pos, pc', strCache, got)
  <2>1. Exact(got)
    BY <1>2, <1>6 DEF Received
  <2>2. ASSUME ~InStepTo(pos) PROVE OutOfStep(pos, pc', strCache, got)
    <3>1. strCache # <<>> /\ Stray(pos - Len(strCache) + 1)
      BY <1>1, <1>2, <1>6, <2>2 DEF Received, OutOfStep
    <3>2. Len(strCache) > 0
      BY <3>1, <1>0, SeqFacts DEF FramingTypeOK
    <3>3. \A i \in FrameParts : EndsBurst(i) => pos - Len(strCache) < parts[i].at
      BY <3>1, <3>2, <1>0, <1>1, Bounds DEF Stray, EndsBurst
    <3> QED
      BY <3>1, <3>3, <1>1 DEF OutOfStep
  <2> QED
    BY <2>1, <2>2 DEF OutOfStep
<1> QED
  BY <1>1, <1>4, <1>5, <1>6 DEF Received

\* A byte appended in step belongs to the frame that the cache begins with,
\* and ends the call if it is the last one of it.
LEMMA AppendInStep ==
  ASSUME BurstInv, AppendByte, ~Collision, InStepTo(pos + 1)
  PROVE  Received(pos', pc', strCache', got')
<1> DEFINE c == Append(strCache, next)
           n == pos + 1
<1>0. FramingTypeOK /\ PartsLaid /\ CacheRead
  BY DEF BurstInv
<1>1. /\ pc \in {"scan", "append"} /\ pos' = n /\ strCache' = AfterByte(c) /\ got' = got
      /\ pc' = (IF next = EOT /\ isFrameCRCOK(c) THEN "done" ELSE "append")
      /\ pc = "scan" => next = SOH
      /\ More
  BY DEF AppendByte
<1>2. /\ c \in Seq(Byte) /\ c # <<>> /\ Len(c) = Len(strCache) + 1 /\ ReadTo(c, n)
      /\ (Len(c) <= MaxCache => AfterByte(c) = c)
  BY <1>0, <1>1, AppendedFacts DEF CacheRead
<1>3. /\ pos \in Nat /\ n \in Nat /\ n <= Len(bytes) /\ Len(strCache) \in Nat
      /\ Len(c) \in Nat /\ Len(c) > 0 /\ DOMAIN c = 1..Len(c) /\ Len(bytes) \in Nat
      /\ MaxCache \in Nat
  BY <1>0, <1>1, <1>2, BurstNumbers, NextByte, SeqFacts, FramingAssumption
<1>4. Received(pos, pc, strCache, got)
  BY <1>1 DEF BurstInv, FrameInv, AppendByte
<1>5. InStepTo(pos) /\ ~Stray(n)
  BY <1>3, InStepMore
<1>6. c[Len(c)] = next
  BY <1>2, <1>0, NextByte, <1>1, AppendAt DEF FramingTypeOK
<1> HIDE DEF c
<1>7. PICK i \in FrameParts : Within(i, n, c) /\ n <= Sent(i).end
  <2>1. CASE pc = "append"
    <3>1. PICK i \in FrameParts : Within(i, pos, strCache) /\ pos < Sent(i).end
      BY <2>1, <1>4, <1>5 DEF Received, InStep
    <3>2. Within(i, n, c)
      BY <3>1, <1>2, <1>3 DEF Within
    <3> QED
      BY <3>1, <3>2, <1>0, <1>3, Bounds
  <2>2. CASE pc = "scan"
    <3>1. strCache = <<>> /\ bytes[n] = SOH
      BY <2>2, <1>0, <1>1 DEF FramingTypeOK, next
    <3>2. PICK i \in FrameParts : ~(n <= parts[i].at \/ n > Sent(i).end)
      BY <3>1, <1>5 DEF Stray
    <3>3. pos <= parts[i].at \/ Sent(i).end <= pos
      BY <2>2, <1>4, <1>5 DEF Received, InStep
    <3>4. parts[i].at = pos /\ n <= Sent(i).end
      BY <3>2, <3>3, <1>0, <1>3, Bounds
    <3>5. Len(c) = 1
      BY <3>1, <1>2, EmptyFacts
    <3> QED
      BY <3>4, <3>5, <1>3 DEF Within
  <2> QED
    BY <1>1, <2>1, <2>2
<1>8. /\ parts[i].at \in Nat /\ Sent(i).end \in Nat /\ Len(parts[i].of) \in Nat
      /\ Len(parts[i].of) <= MaxCache /\ Sent(i).end = parts[i].at + Len(parts[i].of)
      /\ bytes[parts[i].at + 1] = SOH /\ isFrameCRCOK(parts[i].of)
  BY <1>0, FrameFacts
<1>9. n - Len(c) = parts[i].at
  BY <1>7 DEF Within
<1>10. strCache' = c /\ c[1] = SOH
  <2>1. Len(c) <= Len(parts[i].of)
    BY <1>3, <1>7, <1>8, <1>9
  <2>2. c[1] = bytes[parts[i].at + 1]
    <3>1. c[1] = bytes[n - Len(c) + 1]
      BY <1>2, <1>3 DEF ReadTo
    <3> HIDE DEF n
    <3> QED
      BY <3>1, <1>9
  <2> QED
    BY <2>1, <2>2, <1>1, <1>2, <1>3, <1>8
<1>11. \A j \in FrameParts : InStepTo(Sent(j).end) /\ Sent(j).end <= pos => Returned(j, got)
  BY <1>1, <1>4 DEF Received, Counted
<1>12. CASE n = Sent(i).end
  <2>1. c = parts[i].of
    BY <1>0, <1>2, <1>7, <1>12, WholeFrame
  <2>2. isFrameCRCOK(c)
    BY <2>1, <1>8
  <2>3. next = EOT
    BY <2>2, <1>6 DEF isFrameCRCOK
  <2>4. pc' = "done"
    BY <2>2, <2>3, <1>1
  <2>5. InStep(n, "done", c)
    BY <1>7, <1>12 DEF InStep
  <2>6. Counted(n, "done", c, got)
    BY <1>0, <1>2, <1>3, <1>11, Bounds DEF Counted
  <2>7. Len(bytes) <= MaxCache => Exact(got) /\ OutOfStep(n, "done", c, got)
    BY <1>4 DEF Received, OutOfStep
  <2> QED
    BY <2>4, <2>5, <2>6, <2>7, <1>1, <1>10 DEF Received
<1>13. CASE n < Sent(i).end
  <2>1. ~isFrameCRCOK(c)
    <3> SUFFICES ASSUME isFrameCRCOK(c) PROVE FALSE
      OBVIOUS
    <3>1. PICK j \in FrameParts : Within(j, n, c) /\ Sent(j).end = n
      BY <1>0, <1>2, <1>3, <1>10, Passes
    <3>2. parts[j].at = parts[i].at
      BY <3>1, <1>9 DEF Within
    <3> QED
      BY <3>1, <3>2, <1>0, <1>13, Bounds, FramesApart
  <2>2. pc' = "append"
    BY <2>1, <1>1
  <2>3. InStep(n, "append", c)
    BY <1>7, <1>13 DEF InStep
  <2>4. \A j \in FrameParts : Sent(j).end # n
    <3> SUFFICES ASSUME NEW j \in FrameParts, Sent(j).end = n PROVE FALSE
      OBVIOUS
    <3>1. i = j \/ Sent(i).end <= parts[j].at \/ Sent(j).end <= parts[i].at
      BY <1>0, FramesApart
    <3>2. parts[j].at \in Nat /\ parts[j].at < n
      BY <1>0, Bounds
    <3> QED
      BY <3>1, <3>2, <1>3, <1>8, <1>9, <1>13
  <2>5. Counted(n, "append", c, got)
    BY <2>4, <1>0, <1>3, <1>11, Bounds DEF Counted
  <2>6. Len(bytes) <= MaxCache => Exact(got) /\ OutOfStep(n, "append", c, got)
    BY <1>4 DEF Received, OutOfStep
  <2> QED
    BY <2>2, <2>3, <2>5, <2>6, <1>1, <1>10 DEF Received
<1> QED
  BY <1>3, <1>7, <1>8, <1>12, <1>13

\* Behind a stray start token nothing passes the check before the silence.
LEMMA AppendOutOfStep ==
  ASSUME BurstInv, AppendByte, ~Collision, ~InStepTo(pos + 1)
  PROVE  Received(pos', pc', strCache', got')
<1> DEFINE c == Append(strCache, next)
           n == pos + 1
<1>0. FramingTypeOK /\ PartsLaid /\ CacheRead
  BY DEF BurstInv
<1>1. /\ pc \in {"scan", "append"} /\ pos' = n /\ strCache' = AfterByte(c) /\ got' = got
      /\ pc' = (IF next = EOT /\ isFrameCRCOK(c) THEN "done" ELSE "append")
      /\ More
  BY DEF AppendByte
<1>2. /\ c \in Seq(Byte) /\ c # <<>> /\ Len(c) = Len(strCache) + 1 /\ ReadTo(c, n)
      /\ (Len(c) <= MaxCache => AfterByte(c) = c)
  BY <1>0, <1>1, AppendedFacts DEF CacheRead
<1>3. /\ pos \in Nat /\ n \in Nat /\ n <= Len(bytes) /\ Len(strCache) \in Nat
      /\ Len(c) \in Nat /\ Len(c) > 0 /\ DOMAIN c = 1..Len(c) /\ Len(bytes) \in Nat
      /\ MaxCache \in Nat
  BY <1>0, <1>1, <1>2, BurstNumbers, NextByte, SeqFacts, FramingAssumption
<1>4. Received(pos, pc, strCache, got)
  BY <1>1 DEF BurstInv, FrameInv, AppendByte
<1> HIDE DEF c
<1>5. InStep(n, pc', strCache')
  BY DEF InStep
<1>6. Counted(n, pc', strCache', got)
  <2> SUFFICES ASSUME NEW i \in FrameParts, InStepTo(Sent(i).end), Sent(i).end <= n
               PROVE  Returned(i, got)
    BY DEF Counted
  <2>1. Sent(i).end \in Nat /\ Sent(i).end # n
    BY <1>0, Bounds
  <2>2. Sent(i).end <= pos
    BY <2>1, <1>3
  <2> QED
    BY <2>2, <1>1, <1>4 DEF Received, Counted
<1>7. ASSUME Len(bytes) <= MaxCache
      PROVE  Exact(got) /\ OutOfStep(n, pc', strCache', got)
  <2>1. Exact(got)
    BY <1>4, <1>7 DEF Received
  <2>2. strCache' = c
    BY <1>1, <1>2, <1>3, <1>7 DEF ReadTo
  <2>3. n - Len(c) = pos - Len(strCache)
    BY <1>2, <1>3
  <2>4. Stray(pos - Len(strCache) + 1)
    <3>1. CASE InStepTo(pos)
      <4>1. Stray(n)
        BY <3>1, <1>3, InStepMore
      <4>2. pc # "append"
        <5> SUFFICES ASSUME pc = "append" PROVE FALSE
          OBVIOUS
        <5>1. PICK i \in FrameParts : Within(i, pos, strCache) /\ pos < Sent(i).end
          BY <3>1, <1>4 DEF Received, InStep
        <5>2. n <= parts[i].at \/ n > Sent(i).end
          BY <4>1 DEF Stray
        <5> QED
          BY <5>1, <5>2, <1>0, <1>3, Bounds DEF Within
      <4>3. Len(strCache) = 0
        BY <4>2, <1>0, <1>1, EmptyFacts DEF FramingTypeOK
      <4>4. pos - Len(strCache) + 1 = n
        BY <4>3, <1>3
      <4> QED
        BY <4>1, <4>4
    <3>2. CASE ~InStepTo(pos)
      BY <3>2, <1>1, <1>4, <1>7 DEF Received, OutOfStep
    <3> QED
      BY <3>1, <3>2
  <2>5. Stray(n - Len(c) + 1) /\ c[1] = SOH
    <3>1. Stray(n - Len(c) + 1)
      BY <2>3, <2>4
    <3>2. c[1] = bytes[n - Len(c) + 1]
      BY <1>2, <1>3 DEF ReadTo
    <3> QED
      BY <3>1, <3>2 DEF Stray
  <2>6. ~isFrameCRCOK(c)
    <3> SUFFICES ASSUME isFrameCRCOK(c) PROVE FALSE
      OBVIOUS
    <3>1. PICK j \in FrameParts : Within(j, n, c) /\ Sent(j).end = n
      BY <1>0, <1>2, <1>3, <2>5, Passes
    <3>2. n - Len(c) + 1 <= parts[j].at \/ n - Len(c) + 1 > Sent(j).end
      BY <2>5 DEF Stray
    <3> QED
      BY <3>1, <3>2, <1>0, <1>3, Bounds DEF Within
  <2>7. pc' = "append"
    BY <2>6, <1>1
  <2>8. OutOfStep(n, "append", c, got)
    BY <2>5, <1>2 DEF OutOfStep
  <2> QED
    BY <2>1, <2>2, <2>7, <2>8
<1> QED
  BY <1>1, <1>5, <1>6, <1>7 DEF Received

\* After the silence start tokens are tried up to that of the last frame.
LEMMA SlipReceives ==
  ASSUME BurstInv, Slip, ~Collision
  PROVE  Received(pos', pc', strCache', got')
<1> DEFINE c == strCache
           d == slipToNextStartToken(strCache)
<1>0. FramingTypeOK /\ PartsLaid /\ CacheRead /\ Places
  BY DEF BurstInv
<1>1. /\ pc = "slip" /\ UNCHANGED <<pos, got>> /\ strCache' = d
      /\ pc' = (IF d = <<>> \/ isFrameCRCOK(d) THEN "done" ELSE "slip")
      /\ c # <<>> /\ pos = Len(bytes) /\ wanted = "frame"
  BY <1>0 DEF Slip, Places
<1>2. /\ c \in Seq(Byte) /\ Len(c) \in Nat /\ DOMAIN c = 1..Len(c) /\ ReadTo(c, pos)
      /\ pos \in Nat /\ Len(c) <= pos
  BY <1>0, BurstNumbers, SeqFacts DEF FramingTypeOK, CacheRead
<1>3. /\ d \in Seq(Byte) /\ TailOf(d, c) /\ Len(d) < Len(c)
      /\ d # <<>> => d[1] = SOH
      /\ \A k \in 2..Len(c) - Len(d) : c[k] # SOH
  BY <1>1, <1>2, SlipFacts
<1> HIDE DEF c, d
<1>4. ReadTo(d, pos) /\ Len(d) \in Nat
  BY <1>2, <1>3, ReadSuffix, SeqFacts
<1>5. Received(pos, "slip", c, got)
  BY <1>1 DEF BurstInv, FrameInv, c
<1>6. ~InStepTo(pos)
  BY <1>5 DEF Received, InStep
<1>7. InStep(pos, pc', d)
  BY <1>6 DEF InStep
<1>8. Counted(pos, pc', d, got)
  BY <1>5 DEF Received, Counted
<1>9. ASSUME Len(bytes) <= MaxCache
      PROVE  Exact(got) /\ OutOfStep(pos, pc', d, got)
  <2>1. Exact(got) /\ \A i \in FrameParts : EndsBurst(i) => pos - Len(c) < parts[i].at
    BY <1>5, <1>6, <1>9 DEF Received, OutOfStep
  <2>2. \A i \in FrameParts : EndsBurst(i) => pos - Len(d) <= parts[i].at
    <3> SUFFICES ASSUME NEW i \in FrameParts, EndsBurst(i), parts[i].at < pos - Len(d)
                 PROVE  FALSE
      BY <1>0, <1>2, <1>4, Bounds
    <3> DEFINE a == parts[i].at
               k == a + 1 - (pos - Len(c))
    <3>1. a \in Nat /\ a < pos /\ bytes[a + 1] = SOH /\ pos - Len(c) < a /\ a < pos - Len(d)
      BY <1>0, <1>1, <2>1, Bounds DEF EndsBurst
    <3> HIDE DEF a
    <3>2. k \in 2..Len(c) - Len(d) /\ k \in DOMAIN c /\ pos - Len(c) + k = a + 1
      BY <3>1, <1>2, <1>4
    <3> HIDE DEF k
    <3>3. c[k] = bytes[a + 1]
      BY <3>2, <1>2 DEF ReadTo
    <3> QED
      BY <3>1, <3>2, <3>3, <1>3
  <2>3. CASE d = <<>>
    <3>1. \A i \in FrameParts : ~EndsBurst(i)
      BY <2>2, <2>3, <1>0, <1>1, <1>2, Bounds, EmptyFacts DEF EndsBurst
    <3> QED
      BY <3>1, <2>1, <2>3, <1>1 DEF OutOfStep
  <2>4. CASE d # <<>> /\ isFrameCRCOK(d)
    <3>1. PICK i \in FrameParts : Within(i, pos, d) /\ Sent(i).end = pos
      BY <2>4, <1>0, <1>1, <1>2, <1>3, <1>4, Passes
    <3>2. EndsBurst(i)
      BY <3>1, <1>1 DEF EndsBurst
    <3> QED
      BY <3>1, <3>2, <2>1, <2>4, <1>1 DEF OutOfStep
  <2>5. CASE d # <<>> /\ ~isFrameCRCOK(d)
    <3>1. \A i \in FrameParts : EndsBurst(i) => pos - Len(d) < parts[i].at
      <4> SUFFICES ASSUME NEW i \in FrameParts, EndsBurst(i), pos - Len(d) = parts[i].at
                   PROVE  FALSE
        BY <2>2, <1>0, <1>2, <1>4, Bounds
      <4>1. Sent(i).end = pos /\ Within(i, Sent(i).end, d) /\ ReadTo(d, Sent(i).end)
        BY <1>1, <1>4 DEF EndsBurst, Within
      <4>2. d = parts[i].of
        BY <4>1, <1>0, <1>3, WholeFrame
      <4> QED
        BY <4>2, <2>5, <1>0, FrameFacts
    <3> QED
      BY <3>1, <2>1, <2>5, <1>1 DEF OutOfStep
  <2> QED
    BY <2>3, <2>4, <2>5
<1> QED
  BY <1>1, <1>7, <1>8, <1>9 DEF Received

\* A call returns a frame read in step, or the last one, or nothing.
LEMMA ReturnReceives ==
  ASSUME BurstInv, Return, wanted = "frame", ~Collision
  PROVE  Received(pos', pc', strCache', got')
<1> DEFINE c == strCache
           r == [cache |-> strCache, end |-> pos]
           m == Len(got) + 1
           G == [cache : Seq(Byte), end : 0..Len(bytes)]
<1>0. FramingTypeOK /\ PartsLaid /\ CacheRead /\ Places
  BY DEF BurstInv
<1>1. /\ pc = "done" /\ got' = Append(got, r) /\ strCache' = <<>> /\ pos' = pos
      /\ pc' = (IF More THEN "scan" ELSE "silent")
      /\ r.cache = c /\ r.end = pos /\ r = [cache |-> c, end |-> pos]
  BY DEF Return
<1>2. /\ c \in Seq(Byte) /\ Len(c) \in Nat /\ ReadTo(c, pos)
      /\ pos \in Nat /\ Len(c) <= pos /\ pos <= Len(bytes) /\ Len(bytes) \in Nat
      /\ (c = <<>> => pos = Len(bytes))
  BY <1>0, <1>1, BurstNumbers DEF FramingTypeOK, CacheRead, Places
<1>3. /\ DOMAIN got' = 1..m /\ got'[m] = r /\ m \in 1..m
      /\ \A k \in DOMAIN got : k \in 1..m /\ got'[k] = got[k]
      /\ \A k \in 1..m : k = m \/ k \in DOMAIN got
  <2>1. got \in Seq(G) /\ r \in G
    BY <1>0 DEF FramingTypeOK
  <2>2. Len(got) \in Nat /\ DOMAIN got = 1..Len(got)
    BY <1>0, BurstNumbers
  <2> HIDE DEF G, r
  <2>3. /\ DOMAIN got' = 1..m /\ got'[m] = r
        /\ \A k \in 1..Len(got) : got'[k] = got[k]
    BY <1>1, <2>1, AppendAt
  <2> QED
    BY <2>2, <2>3
<1>4. Received(pos, "done", c, got)
  BY <1>1 DEF BurstInv, FrameInv, c
<1> HIDE DEF c, r, m
\* The frame is returned if the cache holds it.
<1>5. ASSUME NEW i \in FrameParts, Within(i, pos, c), pos = Sent(i).end
      PROVE  r = Sent(i) /\ Returned(i, got')
  <2>1. c = parts[i].of
    BY <1>0, <1>2, <1>5, WholeFrame
  <2>2. r = Sent(i)
    BY <2>1, <1>0, <1>1, <1>5, FrameFacts
  <2> QED
    BY <2>2, <1>3 DEF Returned
<1>6. \A i \in FrameParts : Returned(i, got) => Returned(i, got')
  BY <1>3 DEF Returned
<1>7. InStepTo(pos) /\ c # <<>> => \E i \in FrameParts : Within(i, pos, c) /\ pos = Sent(i).end
  BY <1>4 DEF Received, InStep
<1>8. pc' = "scan" => c # <<>>
  BY <1>1, <1>2 DEF More
<1>9. pc' \in {"scan", "silent"} /\ (pos = Len(bytes) => pc' = "silent")
  BY <1>1, <1>2 DEF More
<1>10. InStep(pos, pc', <<>>)
  <2> SUFFICES ASSUME InStepTo(pos), pc' = "scan", NEW j \in FrameParts
               PROVE  pos <= parts[j].at \/ Sent(j).end <= pos
    BY <1>9 DEF InStep
  <2>1. PICK i \in FrameParts : Within(i, pos, c) /\ pos = Sent(i).end
    BY <1>7, <1>8
  <2>2. i = j \/ Sent(i).end <= parts[j].at \/ Sent(j).end <= parts[i].at
    BY <1>0, FramesApart
  <2> QED
    BY <2>1, <2>2, <1>0, <1>2, Bounds
<1>11. Counted(pos, pc', <<>>, got')
  <2> SUFFICES ASSUME NEW j \in FrameParts, InStepTo(Sent(j).end), Sent(j).end <= pos
               PROVE  Returned(j, got')
    BY DEF Counted
  <2>1. CASE Returned(j, got)
    BY <2>1, <1>6
  <2>2. CASE Sent(j).end = pos /\ c # <<>>
    <3>1. PICK i \in FrameParts : Within(i, pos, c) /\ pos = Sent(i).end
      BY <2>2, <1>7
    <3>2. i = j
      BY <3>1, <2>2, <1>0, Bounds, FramesApart
    <3> QED
      BY <3>1, <3>2, <1>5
  <2> QED
    BY <2>1, <2>2, <1>4 DEF Received, Counted
<1>12. ASSUME Len(bytes) <= MaxCache
       PROVE  Exact(got') /\ OutOfStep(pos, pc', <<>>, got')
  <2>0. Exact(got) /\ OutOfStep(pos, "done", c, got)
    BY <1>4, <1>12 DEF Received
  <2>1. ~InStepTo(pos) =>
          /\ pos = Len(bytes)
          /\ c = <<>> => \A i \in FrameParts : ~EndsBurst(i)
          /\ c # <<>> => \E i \in FrameParts : Within(i, pos, c) /\ pos = Sent(i).end
    BY <2>0 DEF OutOfStep, EndsBurst
  <2>2. ASSUME c # <<>>
        PROVE  \E i \in FrameParts : r = Sent(i) /\ (InStepTo(parts[i].at) \/ EndsBurst(i))
    <3>1. PICK i \in FrameParts : Within(i, pos, c) /\ pos = Sent(i).end
      BY <1>7, <2>1, <2>2
    <3>2. InStepTo(pos) => InStepTo(parts[i].at)
      BY <3>1, <1>0, <1>2, Bounds, InStepLess
    <3> QED
      BY <3>1, <3>2, <2>1, <1>5 DEF EndsBurst
  <2>3. Exact(got')
    <3> SUFFICES ASSUME NEW k \in 1..m, got'[k].cache # <<>>
                 PROVE  \E i \in FrameParts :
                          got'[k] = Sent(i) /\ (InStepTo(parts[i].at) \/ EndsBurst(i))
      BY <1>3 DEF Exact
    <3>1. CASE k = m
      BY <3>1, <2>2, <1>1, <1>3
    <3>2. CASE k \in DOMAIN got
      BY <3>2, <2>0, <1>3 DEF Exact
    <3> QED
      BY <3>1, <3>2, <1>3
  <2>4. ASSUME ~InStepTo(pos), NEW j \in FrameParts, EndsBurst(j)
        PROVE  Returned(j, got')
    <3>1. PICK i \in FrameParts : Within(i, pos, c) /\ pos = Sent(i).end
      BY <2>1, <2>4
    <3>2. i = j
      BY <3>1, <2>1, <2>4, <1>0, Bounds, FramesApart DEF EndsBurst
    <3> QED
      BY <3>1, <3>2, <1>5
  <2>5. ~InStepTo(pos) => pc' = "silent"
    BY <2>1, <1>9
  <2> QED
    BY <2>3, <2>4, <2>5 DEF OutOfStep
<1> QED
  BY <1>1, <1>10, <1>11, <1>12 DEF Received

\* What is said of a burst remains true as long as the burst does.
LEMMA SameBurst ==
  ASSUME UNCHANGED burstVars, Received(pos', pc', strCache', got')
  PROVE  Received(pos, pc, strCache, got)'
<1>1. bytes' = bytes /\ parts' = parts
  BY DEF burstVars
<1>2. FrameParts' = FrameParts /\ \A i : Sent(i)' = Sent(i)
  BY <1>1 DEF FrameParts, Sent
<1>3. \A x : Stray(x)' = Stray(x)
  BY <1>1, <1>2 DEF Stray
<1>4. \A n : InStepTo(n)' = InStepTo(n)
  BY <1>3 DEF InStepTo
<1> QED
  BY <1>1, <1>2, <1>3, <1>4
     DEF Received, InStep, Counted, Exact, OutOfStep, Within, EndsBurst, Returned

\* Every step keeps the account of the frames.
LEMMA FrameStep ==
  ASSUME BurstInv, [FramingNext]_framingVars PROVE FrameInv'
<1> SUFFICES ASSUME wanted' = "frame", pc' # "arrive", ~Collision'
             PROVE  Received(pos, pc, strCache, got)'
  BY DEF FrameInv
<1>1. ~Arrive
  BY DEF Arrive, BurstInv
<1>2. UNCHANGED burstVars
  BY <1>1, BurstSteps
<1>3. ~Collision /\ wanted = "frame"
  <2>1. bytes' = bytes /\ parts' = parts /\ wanted' = wanted
    BY <1>2 DEF burstVars
  <2>2. FrameParts' = FrameParts /\ \A i : Sent(i)' = Sent(i)
    BY <2>1 DEF FrameParts, Sent
  <2> QED
    BY <2>1, <2>2 DEF Collision
<1>4. Received(pos', pc', strCache', got')
  <2>1. CASE Call
    BY <2>1, CallReceives
  <2>2. CASE Skip
    BY <2>2, <1>3, SkipReceives
  <2>3. CASE AppendByte
    BY <2>3, <1>3, AppendInStep, AppendOutOfStep
  <2>4. CASE Silence
    BY <2>4, <1>3, SilenceReceives
  <2>5. CASE Slip
    BY <2>5, <1>3, SlipReceives
  <2>6. CASE Return
    BY <2>6, <1>3, ReturnReceives
  <2>7. CASE UNCHANGED framingVars
    <3>1. UNCHANGED <<pos, pc, strCache, got>>
      BY <2>7 DEF framingVars
    <3>2. Received(pos, pc, strCache, got)
      BY <3>1, <1>3 DEF BurstInv, FrameInv
    <3> QED
      BY <3>1, <3>2
  <2>8. ~(SkipToAck \/ AppendAckByte \/ AckSilence)
    BY <1>3 DEF SkipToAck, AppendAckByte, AckSilence
  <2> QED
    BY <1>1, <2>1, <2>2, <2>3, <2>4, <2>5, <2>6, <2>7, <2>8 DEF FramingNext, BurstOver
<1> QED
  BY <1>2, <1>4, SameBurst

\* When the burst is over, the account is what was received.
LEMMA Account ==
  ASSUME BurstInv PROVE FramesReceived
<1> DEFINE inStep == {i \in FrameParts : \A x \in 1..parts[i].at : ~Stray(x)}
           last == {i \in FrameParts : Sent(i).end = Len(bytes)}
           full == {l \in DOMAIN got : got[l].cache # <<>>}
           received == {got[k] : k \in full}
<1> SUFFICES ASSUME wanted = "frame", pc = "silent", ~Collision
             PROVE  \/ received = {Sent(i) : i \in inStep \cup last}
                    \/ Len(bytes) > MaxCache /\ {Sent(i) : i \in inStep} \subseteq received
  BY Zenon DEF FramesReceived
<1>0. FramingTypeOK /\ PartsLaid /\ CacheRead /\ Places
  BY DEF BurstInv
<1>1. pos = Len(bytes) /\ pos \in Nat /\ Len(bytes) \in Nat /\ MaxCache \in Nat
  BY <1>0, BurstNumbers, FramingAssumption DEF Places
<1>2. Received(pos, "silent", strCache, got)
  BY DEF BurstInv, FrameInv
<1>3. ASSUME NEW i \in FrameParts, Returned(i, got) PROVE Sent(i) \in received
  <2>1. PICK k \in DOMAIN got : got[k] = Sent(i)
    BY <1>3 DEF Returned
  <2>2. got[k].cache # <<>>
    BY <2>1, <1>0, FrameFacts
  <2> QED
    BY <2>1, <2>2
<1>4. ASSUME NEW i \in inStep PROVE Sent(i) \in received
  <2>1. i \in FrameParts /\ InStepTo(parts[i].at)
    BY DEF InStepTo
  <2>2. /\ parts[i].at \in Nat /\ Sent(i).end \in Nat /\ parts[i].at < Sent(i).end
        /\ Sent(i).end <= pos
    BY <2>1, <1>0, <1>1, Bounds
  <2>3. InStepTo(Sent(i).end)
    BY <2>1, <2>2 DEF InStepTo, Stray
  <2>4. Returned(i, got)
    BY <2>1, <2>2, <2>3, <1>2 DEF Received, Counted
  <2> HIDE DEF received
  <2> QED
    BY <2>1, <2>4, <1>3
<1>5. ASSUME Len(bytes) <= MaxCache
      PROVE  received = {Sent(i) : i \in inStep \cup last}
  <2>1. ASSUME NEW i \in last PROVE Sent(i) \in received
    <3>1. i \in FrameParts /\ EndsBurst(i)
      BY DEF EndsBurst
    <3>2. CASE InStepTo(pos)
      <4>1. parts[i].at \in Nat /\ parts[i].at <= pos
        BY <3>1, <1>0, <1>1, Bounds
      <4>2. InStepTo(parts[i].at)
        BY <3>2, <4>1, <1>1, InStepLess
      <4>3. i \in inStep
        BY <3>1, <4>2 DEF InStepTo
      <4> HIDE DEF inStep, received
      <4> QED
        BY <4>3, <1>4
    <3>3. CASE ~InStepTo(pos)
      <4>1. Returned(i, got)
        BY <3>1, <3>3, <1>2, <1>5 DEF Received, OutOfStep
      <4> HIDE DEF received
      <4> QED
        BY <3>1, <4>1, <1>3
    <3> QED
      BY <3>2, <3>3
  <2>2. ASSUME NEW k \in full PROVE got[k] \in {Sent(i) : i \in inStep \cup last}
    <3>1. PICK i \in FrameParts : got[k] = Sent(i) /\ (InStepTo(parts[i].at) \/ EndsBurst(i))
      BY <1>2, <1>5 DEF Received, Exact
    <3>2. i \in inStep \cup last
      BY <3>1 DEF InStepTo, EndsBurst
    <3> QED
      BY <3>1, <3>2
  <2>3. \A e \in received : e \in {Sent(i) : i \in inStep \cup last}
    BY <2>2
  <2>4. \A e \in {Sent(i) : i \in inStep \cup last} : e \in received
    <3> HIDE DEF received, inStep, last
    <3> QED
      BY <2>1, <1>4
  <2> HIDE DEF received, inStep, last
  <2> QED
    BY <2>3, <2>4
<1>6. {Sent(i) : i \in inStep} \subseteq received
  <2> HIDE DEF received, inStep
  <2> QED
    BY <1>4
<1>7. CASE Len(bytes) <= MaxCache
  BY <1>5, <1>7
<1>8. CASE Len(bytes) > MaxCache
  BY <1>6, <1>8
<1>9. Len(bytes) <= MaxCache \/ Len(bytes) > MaxCache
  BY <1>1
<1> HIDE DEF received, inStep, last
<1> QED
  BY <1>7, <1>8, <1>9

-----------------------------------------------------------------------------
\* Every step preserves the inductive invariant.
LEMMA BurstStep == ASSUME BurstInv, [FramingNext]_framingVars PROVE BurstInv'
BY TypeStep, PartsStep, CacheStep, AckStep, FrameStep DEF BurstInv

\* BurstInv is an invariant of the specification.
LEMMA Inductive == FramingSpec => []BurstInv
<1>1. FramingInit => BurstInv
  BY BurstInit
<1>2. BurstInv /\ [FramingNext]_framingVars => BurstInv'
  BY BurstStep
<1> QED
  BY <1>1, <1>2, PTL DEF FramingSpec

\* The variables have their types, and each call of Receive...From begins with
\* an empty cache.
THEOREM FramingTypes == FramingSpec => []FramingTypeOK
<1>1. BurstInv => FramingTypeOK
  BY DEF BurstInv
<1>2. FramingSpec => []BurstInv
  BY Inductive
<1> QED
  BY <1>1, <1>2, PTL

\* What Packet's calls return are pieces of the burst, in order and without
\* overlap, whatever slipToNextStartToken has dropped between them.
THEOREM BurstUnspliced == FramingSpec => []Unspliced
<1>1. BurstInv => Unspliced
  BY Pieces
<1>2. FramingSpec => []BurstInv
  BY Inductive
<1> QED
  BY <1>1, <1>2, PTL

\* ReceiveAckFrom returns once for a burst, from its first ACK or NAK on.
THEOREM FirstAnswerIsRead == FramingSpec => []FirstAnswerRead
<1>1. BurstInv => FirstAnswerRead
  BY FirstAnswer
<1>2. FramingSpec => []BurstInv
  BY Inductive
<1> QED
  BY <1>1, <1>2, PTL

\* ReceiveFrameFrom returns the frames before the first stray start token and,
\* from a burst that fits into the cache, the one that ends it and no other;
\* only bytes that pass the check by accident can make a difference.
THEOREM ReceivedFrames == FramingSpec => []FramesReceived
<1>1. BurstInv => FramesReceived
  BY Account
<1>2. FramingSpec => []BurstInv
  BY Inductive
<1> QED
  BY <1>1, <1>2, PTL

-----------------------------------------------------------------------------
(* The burst is used up                                                    *)

\* What the place in a call adds: a search or a cache that fills may yet slip,
\* and then returns.
Pending ==
  CASE pc = "silent" -> 0
    [] pc = "done" -> 1
    [] pc = "slip" -> 2
    [] OTHER -> 3

\* Steps that are left of the calls for this burst: each byte is read once,
\* and a byte in the cache is dropped or returned once.
Left == 4 * (Len(bytes) - pos) + 3 * Len(strCache) + Pending

CallSteps ==
  Skip \/ AppendByte \/ Silence \/ Slip \/ SkipToAck \/ AppendAckByte \/ AckSilence \/ Return

\* Every step of a call takes from what is left, and only when nothing is left
\* is the burst used up.
UsedUp ==
  /\ Left \in Nat /\ (Left = 0 <=> pc = "silent")
  /\ Call => Left' = 4 * Len(bytes) + 3
  /\ CallSteps => Left' < Left

\* Reading a byte, into the cache or not.
LEMMA ReadingShrinks ==
  ASSUME BurstInv, Skip \/ AppendByte \/ SkipToAck \/ AppendAckByte
  PROVE  Left' < Left
<1>1. FramingTypeOK /\ ReadTo(strCache, pos) /\ More
  BY DEF BurstInv, CacheRead, Skip, AppendByte, SkipToAck, AppendAckByte
<1>2. /\ pos \in Nat /\ Len(bytes) \in Nat /\ Len(strCache) \in Nat
      /\ bytes' = bytes /\ pos' = pos + 1 /\ pc \in {"scan", "append"}
  BY BurstNumbers DEF BurstInv, Skip, AppendByte, SkipToAck, AppendAckByte, burstVars
<1>3. Pending = 3
  BY <1>2 DEF Pending
<1>4. Pending' \in {0, 1, 2, 3}
  BY DEF Pending
<1>5. Len(strCache') \in Nat /\ Len(strCache') <= Len(strCache) + 1
  <2> DEFINE c == Append(strCache, next)
  <2>1. /\ c \in Seq(Byte) /\ Len(c) = Len(strCache) + 1
        /\ AfterByte(c) \in Seq(Byte) /\ TailOf(AfterByte(c), c)
    BY <1>1, AppendedFacts
  <2>2. Len(AfterByte(c)) \in Nat /\ Len(AfterByte(c)) <= Len(strCache) + 1
    BY <2>1, SeqFacts DEF TailOf
  <2>3. strCache' \in {strCache, c, AfterByte(c)}
    BY DEF Skip, AppendByte, SkipToAck, AppendAckByte
  <2> HIDE DEF c
  <2> QED
    BY <1>2, <2>1, <2>2, <2>3
<1> QED
  BY <1>2, <1>3, <1>4, <1>5 DEF Left

\* What follows the silence, and the end of a call.
LEMMA EndingShrinks ==
  ASSUME BurstInv, Silence \/ Slip \/ AckSilence \/ Return
  PROVE  Left' < Left
<1>1. FramingTypeOK /\ Places
  BY DEF BurstInv
<1>2. /\ pos \in Nat /\ Len(bytes) \in Nat /\ Len(strCache) \in Nat /\ pos <= Len(bytes)
      /\ bytes' = bytes /\ pos' = pos
  BY BurstNumbers DEF BurstInv, Silence, Slip, AckSilence, Return, burstVars
<1>3. CASE Silence \/ AckSilence
  <2>1. strCache' = strCache /\ pc \in {"scan", "append"} /\ pc' \in {"slip", "done"}
    BY <1>3 DEF Silence, AckSilence
  <2>2. Pending = 3 /\ Pending' \in {1, 2}
    BY <2>1 DEF Pending
  <2> QED
    BY <1>2, <2>1, <2>2 DEF Left
<1>4. CASE Slip
  <2>1. /\ pc = "slip" /\ strCache' = slipToNextStartToken(strCache)
        /\ pc' \in {"slip", "done"}
    BY <1>4 DEF Slip
  <2>2. strCache # <<>> /\ strCache \in Seq(Byte)
    BY <1>1, <2>1 DEF Places, FramingTypeOK
  <2>3. Len(strCache') \in Nat /\ Len(strCache') < Len(strCache)
    BY <2>1, <2>2, SlipFacts, SeqFacts
  <2>4. Pending = 2 /\ Pending' \in {1, 2}
    BY <2>1 DEF Pending
  <2> QED
    BY <1>2, <2>3, <2>4 DEF Left
<1>5. CASE Return
  <2>1. pc = "done" /\ strCache' = <<>> /\ pc' = (IF More THEN "scan" ELSE "silent")
    BY <1>5 DEF Return
  <2>2. Pending = 1 /\ Len(strCache') = 0
    BY <2>1, EmptyFacts DEF Pending
  <2>3. CASE More
    <3>1. strCache # <<>> /\ strCache \in Seq(Byte)
      BY <1>1, <1>2, <2>1, <2>3 DEF Places, FramingTypeOK, More
    <3>2. Len(strCache) >= 1
      BY <3>1, SeqFacts
    <3>3. Pending' = 3
      BY <2>1, <2>3 DEF Pending
    <3> QED
      BY <1>2, <2>2, <3>2, <3>3 DEF Left
  <2>4. CASE ~More
    <3>1. Pending' = 0
      BY <2>1, <2>4 DEF Pending
    <3> QED
      BY <1>2, <2>2, <3>1 DEF Left
  <2> QED
    BY <2>3, <2>4
<1> QED
  BY <1>3, <1>4, <1>5

\* The calls of ReceiveFrameFrom or ReceiveAckFrom use a burst of n bytes up
\* within 4n + 3 steps, however often slipToNextStartToken gives a start up:
\* there is an end at which FramesReceived and FirstAnswerRead speak.
THEOREM BurstsEnd == FramingSpec => [][UsedUp]_framingVars
<1>1. BurstInv => UsedUp
  <2> SUFFICES ASSUME BurstInv PROVE UsedUp
    OBVIOUS
  <2>1. FramingTypeOK /\ Places
    BY DEF BurstInv
  <2>2. pos \in Nat /\ Len(bytes) \in Nat /\ Len(strCache) \in Nat /\ pos <= Len(bytes)
    BY BurstNumbers DEF BurstInv
  <2>3. Pending \in {0, 1, 2, 3} /\ (Pending = 0 <=> pc = "silent")
    BY DEF Pending
  <2>4. pc = "silent" => pos = Len(bytes) /\ Len(strCache) = 0
    BY <2>1, EmptyFacts DEF Places, FramingTypeOK
  <2>5. Left \in Nat /\ (Left = 0 <=> pc = "silent")
    BY <2>2, <2>3, <2>4 DEF Left
  <2>6. ASSUME Call PROVE Left' = 4 * Len(bytes) + 3
    <3>1. bytes' = bytes /\ pos' = 0 /\ strCache' = <<>> /\ pc' = "scan"
      BY <2>1, <2>6 DEF Call, burstVars, Places, FramingTypeOK
    <3>2. Pending' = 3
      BY <3>1 DEF Pending
    <3> QED
      BY <2>2, <3>1, <3>2, EmptyFacts DEF Left
  <2> QED
    BY <2>5, <2>6, ReadingShrinks, EndingShrinks DEF UsedUp, CallSteps
<1>2. FramingSpec => []BurstInv
  BY Inductive
<1> QED
  BY <1>1, <1>2, PTL
=============================================================================
