------------------------- MODULE CommandRelayProofs -------------------------
(***************************************************************************)
(* Proofs about CommandRelay, for any width of a byte, any batch, number   *)
(* of tries and set of stray numbers: counters and buffers stay within     *)
(* their bounds, SendQueueData pops only records that the server has dealt *)
(* with, and a transfer of just one batch that returns has delivered it.   *)
(***************************************************************************)
EXTENDS CommandRelay, SequenceTheorems, WellFoundedInduction, TLAPS

\* The records that the server has taken or refused.
Dealt == stored \cup refused

\* The count stays behind nStart, and the batch is sent at one count only.
\* There is room on the wire for what a pass sends.
Counted ==
  /\ pc \in {"pass", "ack"} => count = Batch /\ count <= nStart + 1
  /\ pc \notin {"pass", "ack"} => count <= nStart
  /\ pc = "record" /\ count < Batch =>
       Len(queue) <= count /\ Len(wire) + Len(acks) + Batch <= MaxWire
  /\ pc = "pass" => Len(wire) + Len(acks) + Len(queue) <= MaxWire

\* Nothing is in transit before the batch is sent.  Then every pass sends the
\* queue in ascending order, so that whatever precedes a record in the queue
\* was dealt with or precedes it on the wire too; and an answer vouches for
\* the records up to its number.
Orderly ==
  ~blurred =>
    /\ Ascending(queue)
    /\ pc = "record" /\ count < Batch => Len(wire) = 0 /\ Len(acks) = 0
    /\ pc \in {"pass", "ack"} =>
         /\ \A i \in DOMAIN acks, p \in DOMAIN queue :
              queue[p] <= acks[i] => queue[p] \in Dealt
         /\ \A i \in DOMAIN wire, p \in DOMAIN queue :
              queue[p] < wire[i] =>
                queue[p] \in Dealt \/ \E j \in 1..i - 1 : wire[j] = queue[p]

\* What the transfer received is queued until the server has dealt with it.
Kept ==
  ~blurred =>
    /\ pc = "record" /\ count < Batch => answered \subseteq ToSet(queue)
    /\ pc \in {"pass", "ack"} => answered \subseteq ToSet(queue) \cup Dealt
    /\ pc \in {"record", "done"} /\ count = Batch => answered \subseteq Dealt

\* The inductive invariant.
IInv == TypeOK /\ Counted /\ Orderly /\ Kept

-----------------------------------------------------------------------------
(* Lemmas about numbers and sequences                                      *)

\* The range of the numbers, without the product that bounds it.
LEMMA NumFacts ==
  /\ Byte * Byte \in Nat /\ Byte * Byte > 0
  /\ Num = 0..Byte * Byte - 1 /\ Num \subseteq Nat /\ 0 \in Num
  /\ \A n \in Num : n + 1 \in 0..Byte * Byte
<1>1. Byte \in Nat /\ Byte > 0 BY RelayAssumption
<1>2. Byte * Byte \in Nat /\ Byte * Byte > 0 BY <1>1
<1> DEFINE N == Byte * Byte
<1>3. N \in Nat /\ N > 0 /\ Num = 0..N - 1 BY <1>2 DEF Num
<1> HIDE DEF N
<1>4. Num \subseteq Nat /\ 0 \in Num /\ \A n \in Num : n + 1 \in 0..N BY <1>3
<1> QED BY <1>3, <1>4 DEF N

\* Exchanging the bytes of a number gives a number.
LEMMA SwapFacts == \A n \in Num : Swap(n) \in Num
<1> SUFFICES ASSUME NEW n \in Num PROVE Swap(n) \in Num
  OBVIOUS
<1>1. Byte \in Nat /\ Byte > 0 BY RelayAssumption
<1>2. n \in Nat /\ n < Byte * Byte BY NumFacts
<1> DEFINE r == n % Byte
           d == n \div Byte
<1>3. r \in 0..Byte - 1 BY <1>1, <1>2
<1>4. d \in Nat /\ n = Byte * d + r BY <1>1, <1>2
<1> HIDE DEF r, d
<1>5. d < Byte
  <2> SUFFICES ASSUME d >= Byte PROVE FALSE
    BY <1>1, <1>4
  <2>1. Byte * d >= Byte * Byte BY <1>1, <1>4
  <2> QED BY <1>1, <1>2, <1>3, <1>4, <2>1
<1>6. r * Byte <= (Byte - 1) * Byte /\ r * Byte >= 0 /\ r * Byte \in Int BY <1>1, <1>3
<1>7. (Byte - 1) * Byte = Byte * Byte - Byte BY <1>1
<1>8. r * Byte + d \in 0..Byte * Byte - 1
  <2> DEFINE N == Byte * Byte
             m == r * Byte
  <2>1. N \in Nat BY NumFacts
  <2>2. m \in Int /\ m >= 0 /\ m <= N - Byte BY <1>6, <1>7
  <2> HIDE DEF N, m
  <2>3. m + d \in 0..N - 1 BY <1>1, <1>4, <1>5, <2>1, <2>2
  <2> QED BY <2>3 DEF N, m
<1>9. Swap(n) = r * Byte + d BY DEF Swap, r, d
<1> QED BY <1>8, <1>9 DEF Num

\* A set of natural numbers has a least element.
LEMMA LeastFacts ==
  ASSUME NEW T \in SUBSET Nat, T # {}
  PROVE  \E x \in T : \A y \in T : x <= y
<1> DEFINE R == OpToRel(<, Nat)
<1>1. IsWellFoundedOn(R, Nat) BY NatLessThanWellFounded
<1>2. \A x, y \in Nat : x < y => <<x, y>> \in R BY DEF OpToRel
<1> HIDE DEF R
<1>3. PICK x \in T : \A y \in T : ~(<<y, x>> \in R) BY <1>1, WFMin
<1>4. \A y \in T : ~(y < x) BY <1>2, <1>3
<1>5. \A y \in T : x <= y BY <1>4
<1> QED BY <1>5

\* A bounded set of them has a greatest one, which Max chooses.
LEMMA MaxFacts ==
  ASSUME NEW n \in Nat, NEW S \in SUBSET (0..n), S # {}
  PROVE  Max(S) \in S /\ \A y \in S : y <= Max(S)
<1> DEFINE T == {n - i : i \in S}
<1>1. T \in SUBSET Nat OBVIOUS
<1>2. PICK s : s \in S OBVIOUS
<1>3. n - s \in T BY <1>2
<1>4. T # {} BY <1>3
<1>5. PICK x \in T : \A y \in T : x <= y
  <2> HIDE DEF T
  <2> QED BY <1>1, <1>4, LeastFacts
<1>6. PICK z \in S : x = n - z BY <1>5
<1>7. \A y \in S : z >= y BY <1>5, <1>6
<1>8. \E m \in S : \A y \in S : m >= y BY <1>7
<1> QED BY <1>8 DEF Max

\* The empty sequence has no positions.
LEMMA EmptyFacts == DOMAIN <<>> = {} /\ Len(<<>>) = 0
OBVIOUS

\* Positions of a sequence.
LEMMA SeqFacts ==
  ASSUME NEW S, NEW q \in Seq(S)
  PROVE  /\ Len(q) \in Nat /\ DOMAIN q = 1..Len(q)
         /\ \A i \in DOMAIN q : q[i] \in S
         /\ Len(q) = 0 => q = <<>>
OBVIOUS

\* Append keeps what was there and adds one element at the end.
LEMMA AppendFacts ==
  ASSUME NEW S, NEW q \in Seq(S), NEW e \in S
  PROVE  /\ Append(q, e) \in Seq(S)
         /\ Len(Append(q, e)) = Len(q) + 1
         /\ \A i \in DOMAIN q : i \in DOMAIN Append(q, e) /\ Append(q, e)[i] = q[i]
         /\ Len(q) + 1 \in DOMAIN Append(q, e) /\ Append(q, e)[Len(q) + 1] = e
         /\ \A i \in DOMAIN Append(q, e) :
              Append(q, e)[i] = e \/ (i \in DOMAIN q /\ Append(q, e)[i] = q[i])
<1>1. /\ Append(q, e) \in Seq(S) /\ Len(q) \in Nat
      /\ Len(Append(q, e)) = Len(q) + 1
      /\ DOMAIN Append(q, e) = 1..Len(q) + 1 /\ DOMAIN q = 1..Len(q)
      /\ \A i \in 1..Len(q) : Append(q, e)[i] = q[i]
      /\ Append(q, e)[Len(q) + 1] = e
  OBVIOUS
<1> QED BY <1>1

\* Tail drops the first element only.
LEMMA TailFacts ==
  ASSUME NEW S, NEW q \in Seq(S), q # <<>>
  PROVE  /\ Tail(q) \in Seq(S)
         /\ Head(q) = q[1] /\ Head(q) \in S /\ 1 \in DOMAIN q
         /\ Len(Tail(q)) = Len(q) - 1
         /\ \A i \in DOMAIN Tail(q) : i + 1 \in DOMAIN q /\ Tail(q)[i] = q[i + 1]
OBVIOUS

\* What is left behind the first k elements.
LEMMA RestFacts ==
  ASSUME NEW S, NEW q \in Seq(S), NEW k \in 0..Len(q)
  PROVE  /\ SubSeq(q, k + 1, Len(q)) \in Seq(S)
         /\ Len(SubSeq(q, k + 1, Len(q))) = Len(q) - k
         /\ DOMAIN SubSeq(q, k + 1, Len(q)) = 1..Len(q) - k
         /\ \A i \in 1..Len(q) - k :
              k + i \in DOMAIN q /\ SubSeq(q, k + 1, Len(q))[i] = q[k + i]
OBVIOUS

\* Concatenation, by positions.
LEMMA ConcatFacts ==
  ASSUME NEW S, NEW q \in Seq(S), NEW r \in Seq(S)
  PROVE  /\ q \o r \in Seq(S) /\ Len(q \o r) = Len(q) + Len(r)
         /\ DOMAIN (q \o r) = 1..Len(q) + Len(r)
         /\ \A i \in 1..Len(q) : (q \o r)[i] = q[i]
         /\ \A i \in 1..Len(r) : (q \o r)[Len(q) + i] = r[i]
<1>1. Len(q) \in Nat /\ Len(r) \in Nat BY SeqFacts
<1>2. /\ q \o r \in Seq(S) /\ Len(q \o r) = Len(q) + Len(r)
      /\ \A i \in 1..Len(q) + Len(r) :
           (q \o r)[i] = IF i <= Len(q) THEN q[i] ELSE r[i - Len(q)]
  BY ConcatProperties
<1>3. DOMAIN (q \o r) = 1..Len(q) + Len(r) BY <1>2, SeqFacts
<1>4. \A i \in 1..Len(q) : (q \o r)[i] = q[i] BY <1>1, <1>2
<1>5. \A i \in 1..Len(r) : (q \o r)[Len(q) + i] = r[i]
  <2> SUFFICES ASSUME NEW i \in 1..Len(r) PROVE (q \o r)[Len(q) + i] = r[i]
    OBVIOUS
  <2>1. Len(q) + i \in 1..Len(q) + Len(r) /\ ~(Len(q) + i <= Len(q))
        /\ Len(q) + i - Len(q) = i
    BY <1>1
  <2> QED BY <1>2, <2>1
<1> QED BY <1>2, <1>3, <1>4, <1>5

\* What is popped is a prefix of the queue, with numbers up to the answer's.
LEMMA PoppedFacts ==
  ASSUME NEW q \in Seq(Num), NEW a \in Int
  PROVE  \E k \in 0..Len(q) : /\ Popped(q, a) = SubSeq(q, k + 1, Len(q))
                              /\ \A j \in 1..k : q[j] <= a
<1> DEFINE S == {i \in 0..Len(q) : \A j \in 1..i : q[j] <= a}
<1>1. Len(q) \in Nat BY SeqFacts
<1>2. 0 \in S BY <1>1
<1>3. S \in SUBSET (0..Len(q)) /\ S # {} BY <1>2
<1>4. Max(S) \in S
  <2> HIDE DEF S
  <2> QED BY <1>1, <1>3, MaxFacts
<1>5. Popped(q, a) = SubSeq(q, Max(S) + 1, Len(q)) BY DEF Popped
<1> QED BY <1>4, <1>5

-----------------------------------------------------------------------------
(* The parts of the invariant                                              *)

Flags ==
  /\ empty \in BOOLEAN /\ owed \in BOOLEAN
  /\ bIn \in BOOLEAN /\ bExt \in BOOLEAN /\ blurred \in BOOLEAN

Ranges ==
  /\ pc \in {"command", "ask", "answer", "forward", "record", "pass", "ack", "done"}
  /\ retry \in 0..Tries
  /\ pc \in {"ask", "answer", "forward"} => retry < Tries
  /\ nStart \in 0..Byte * Byte /\ nEnd \in Num /\ count \in 0..Byte * Byte
  /\ pc \in {"record", "pass", "ack"} => nStart <= nEnd

Link == left \in Command /\ conn \in {"up", "failing", "down"}

Buffers ==
  /\ queue \in Seq(Num) /\ answered \subseteq Num
  /\ wire \in Seq(Num) /\ acks \in Seq(Num \cup {NAK})
  /\ Len(wire) + Len(acks) <= MaxWire
  /\ stored \subseteq Num /\ refused \subseteq Num

LEMMA Parts ==
  ASSUME IInv
  PROVE  Flags /\ Ranges /\ Link /\ Buffers /\ Counted /\ Orderly /\ Kept
<1>1. Flags BY DEF IInv, TypeOK, Flags
<1>2. Ranges BY DEF IInv, TypeOK, Ranges
<1>3. Link BY DEF IInv, TypeOK, Link
<1>4. Buffers BY DEF IInv, TypeOK, Buffers
<1> QED BY <1>1, <1>2, <1>3, <1>4 DEF IInv

LEMMA Assemble ==
  ASSUME Flags', Ranges', Link', Buffers', Counted', Orderly', Kept'
  PROVE  IInv'
<1>1. TypeOK' BY Zenon DEF TypeOK, Flags, Ranges, Link, Buffers
<1> QED BY <1>1 DEF IInv

LEMMA InitInv == ASSUME Init PROVE IInv
<1>1. pc = "command" /\ count = 0 /\ nStart = 0 /\ queue = <<>> /\ wire = <<>> /\ acks = <<>>
  BY DEF Init
<1>2. TypeOK
  <2>1. Flags BY DEF Init, Flags
  <2>2. Ranges BY NumFacts, RelayAssumption DEF Init, Ranges
  <2>3. Link BY DEF Init, Link, Command, Handled
  <2>4. Buffers
    <3>1. <<>> \in Seq(Num) /\ <<>> \in Seq(Num \cup {NAK}) OBVIOUS
    <3> QED BY <3>1, EmptyFacts, RelayAssumption DEF Init, Buffers
  <2> QED BY <2>1, <2>2, <2>3, <2>4, Zenon DEF TypeOK, Flags, Ranges, Link, Buffers
<1>3. Counted BY <1>1 DEF Counted
<1>4. Orderly BY <1>1, EmptyFacts DEF Orderly, Ascending
<1>5. Kept BY <1>1 DEF Kept
<1> QED BY <1>2, <1>3, <1>4, <1>5 DEF IInv

-----------------------------------------------------------------------------
(* Commands and TransferCmd                                                *)

\* Outside of a history transfer the queue is not touched.
LEMMA AwayInv ==
  ASSUME IInv, pc \notin {"pass", "ack"},
         pc' \in {"command", "ask", "answer", "forward"},
         UNCHANGED <<rangeVars, serverVars>>,
         retry' \in 0..Tries, pc' # "command" => retry' < Tries,
         left' \in Command, empty' \in BOOLEAN, owed' \in BOOLEAN,
         bIn' \in BOOLEAN, bExt' \in BOOLEAN, conn' \in {"up", "failing", "down"},
         wire' \in Seq(Num), acks' \in Seq(Num \cup {NAK}),
         Len(wire') + Len(acks') <= MaxWire
  PROVE  IInv'
<1>1. Flags /\ Ranges /\ Link /\ Buffers /\ Counted /\ Orderly /\ Kept
  BY Parts
<1>2. /\ nStart' = nStart /\ nEnd' = nEnd /\ count' = count /\ queue' = queue
      /\ answered' = answered /\ blurred' = blurred
      /\ stored' = stored /\ refused' = refused
  BY DEF rangeVars, serverVars
<1>3. Flags' BY <1>1, <1>2, Zenon DEF Flags
<1>4. Ranges' BY <1>1, <1>2 DEF Ranges
<1>5. Link' BY DEF Link
<1>6. Buffers' BY <1>1, <1>2 DEF Buffers
<1>7. Counted' BY <1>1, <1>2 DEF Counted
<1>8. Orderly' BY <1>1, <1>2 DEF Orderly, Ascending
<1>9. Kept' BY <1>1, <1>2 DEF Kept
<1> QED BY <1>3, <1>4, <1>5, <1>6, <1>7, <1>8, <1>9, Assemble

\* A history transfer begins with an empty queue, and knows whether something
\* of an earlier one is in transit.
LEMMA HistoryInv ==
  ASSUME IInv, NEW s \in Num, NEW e \in Num, HistoryStarts(s, e),
         left' \in Command, empty' \in BOOLEAN, owed' \in BOOLEAN,
         bIn' \in BOOLEAN, bExt' \in BOOLEAN, conn' \in {"up", "failing", "down"},
         wire' = wire, acks' \in Seq(Num \cup {NAK})
  PROVE  IInv'
<1>1. Flags /\ Ranges /\ Link /\ Buffers /\ Counted /\ Orderly /\ Kept
  BY Parts
<1>2. /\ nStart' = s /\ nEnd' = e /\ count' = 0 /\ queue' = <<>> /\ answered' = {}
      /\ stored' = {} /\ refused' = {} /\ retry' = retry
      /\ Len(wire) + Len(acks') + Batch <= MaxWire
      /\ s <= e => pc' = "record"
      /\ ~(s <= e) => pc' = "done"
  BY DEF HistoryStarts
<1>3. Len(wire) \in Nat /\ Len(acks') \in Nat /\ wire \in Seq(Num)
  BY <1>1, SeqFacts DEF Buffers
<1>4. Len(wire') + Len(acks') <= MaxWire BY <1>2, <1>3, RelayAssumption
<1>5. blurred' \in BOOLEAN /\ (~blurred' => wire = <<>> /\ acks' = <<>>)
  <2>1. blurred' = (wire # <<>> \/ acks' # <<>>) BY DEF HistoryStarts
  <2> QED BY <2>1
<1>6. Flags' BY <1>5 DEF Flags
<1>7. Ranges' BY <1>1, <1>2, NumFacts DEF Ranges
<1>8. Link' BY DEF Link
<1>9. Buffers'
  <2>1. queue' \in Seq(Num) BY <1>2
  <2> QED BY <1>2, <1>3, <1>4, <2>1 DEF Buffers
<1>10. Counted'
  <2>1. Len(queue') <= count' BY <1>2, EmptyFacts
  <2> QED BY <1>2, <2>1, NumFacts DEF Counted
<1>11. Orderly'
  <2>1. Ascending(queue)' BY <1>2, EmptyFacts DEF Ascending
  <2>2. ~blurred' => Len(wire') = 0 /\ Len(acks') = 0 BY <1>5, EmptyFacts, Zenon
  <2> QED BY <1>2, <2>1, <2>2 DEF Orderly
<1>12. Kept' BY <1>2, RelayAssumption DEF Kept
<1> QED BY <1>6, <1>7, <1>8, <1>9, <1>10, <1>11, <1>12, Assemble

LEMMA GetCommandInv ==
  ASSUME IInv, NEW c \in Command, GetCommand(c)
  PROVE  IInv'
<1>1. Flags /\ Ranges /\ Link /\ Buffers
  BY Parts
<1>2. /\ left' = c /\ empty' = FALSE /\ bIn' = bIn /\ bExt' = bExt
      /\ conn' = conn /\ wire' = wire /\ pc = "command"
  BY DEF GetCommand
<1>3. owed' \in BOOLEAN BY DEF GetCommand
<1>4. PICK k \in 0..Len(acks) : acks' = SubSeq(acks, k + 1, Len(acks))
  BY DEF GetCommand
<1>5. acks' \in Seq(Num \cup {NAK}) /\ Len(acks') = Len(acks) - k /\ Len(acks) \in Nat
  BY <1>1, <1>4, RestFacts, SeqFacts DEF Buffers
<1>6. wire' \in Seq(Num) /\ Len(wire') = Len(wire) /\ Len(wire) \in Nat
  BY <1>1, <1>2, SeqFacts DEF Buffers
<1>7. Len(wire') + Len(acks') <= MaxWire
  BY <1>1, <1>4, <1>5, <1>6, RelayAssumption DEF Buffers
<1>8. /\ empty' \in BOOLEAN /\ bIn' \in BOOLEAN /\ bExt' \in BOOLEAN
      /\ conn' \in {"up", "failing", "down"} /\ left' \in Command
  BY <1>1, <1>2, Zenon DEF Flags, Link
<1>9. CASE TransferStarts \/ Ignored
  <2>1. /\ pc' \in {"command", "ask"} /\ retry' \in 0..Tries
        /\ pc' # "command" => retry' < Tries
        /\ UNCHANGED <<rangeVars, serverVars>>
    BY <1>1, <1>9, RelayAssumption DEF TransferStarts, Ignored, Ranges
  <2> QED BY <1>2, <1>3, <1>5, <1>6, <1>7, <1>8, <2>1, AwayInv
<1>10. ASSUME NEW f \in Num, NEW t \in Num, HistoryStarts(Swap(f), Swap(t)) PROVE IInv'
  <2>1. Swap(f) \in Num /\ Swap(t) \in Num BY SwapFacts
  <2> QED BY <1>2, <1>3, <1>5, <1>8, <1>10, <2>1, HistoryInv
<1> QED BY <1>9, <1>10 DEF GetCommand, Command, Handled

LEMMA GetsNothingInv ==
  ASSUME IInv, GetsNothing
  PROVE  IInv'
<1>1. Flags /\ Ranges /\ Link /\ Buffers
  BY Parts
<1>2. /\ left' = left /\ empty' = TRUE /\ bIn' = bIn /\ bExt' = bExt /\ owed' = owed
      /\ wire' = wire /\ acks' = acks /\ pc = "command"
  BY DEF GetsNothing
<1>3. conn' \in {"up", "failing", "down"} BY DEF GetsNothing
<1>4. /\ empty' \in BOOLEAN /\ bIn' \in BOOLEAN /\ bExt' \in BOOLEAN /\ owed' \in BOOLEAN
      /\ left' \in Command
  BY <1>1, <1>2, Zenon DEF Flags, Link
<1>5. /\ wire' \in Seq(Num) /\ acks' \in Seq(Num \cup {NAK})
      /\ Len(wire') + Len(acks') <= MaxWire
  BY <1>1, <1>2 DEF Buffers
<1>6. CASE TransferStarts \/ Ignored
  <2>1. /\ pc' \in {"command", "ask"} /\ retry' \in 0..Tries
        /\ pc' # "command" => retry' < Tries
        /\ UNCHANGED <<rangeVars, serverVars>>
    BY <1>1, <1>6, RelayAssumption DEF TransferStarts, Ignored, Ranges
  <2> QED BY <1>2, <1>3, <1>4, <1>5, <2>1, AwayInv
<1>7. ASSUME NEW s \in Num, NEW e \in Num, HistoryStarts(s, e) PROVE IInv'
  BY <1>2, <1>3, <1>4, <1>5, <1>7, HistoryInv
<1> QED BY <1>1, <1>6, <1>7 DEF GetsNothing, Link, Command, Handled

LEMMA ReconnectsInv ==
  ASSUME IInv, Reconnects
  PROVE  IInv'
<1>1. Flags /\ Ranges /\ Link
  BY Parts
<1>2. /\ left' = left /\ bIn' = bIn /\ pc = "command" /\ pc' = "command" /\ retry' = retry
      /\ empty' = TRUE /\ bExt' = FALSE /\ owed' = FALSE
      /\ wire' = <<>> /\ acks' = <<>> /\ conn' = "up"
      /\ UNCHANGED <<rangeVars, serverVars>>
  BY DEF Reconnects
<1>3. wire' \in Seq(Num) /\ acks' \in Seq(Num \cup {NAK}) BY <1>2
<1>4. Len(wire') = 0 /\ Len(acks') = 0 BY <1>2, EmptyFacts, Zenon
<1>5. Len(wire') + Len(acks') <= MaxWire BY <1>4, RelayAssumption
<1>6. retry' \in 0..Tries BY <1>1, <1>2 DEF Ranges
<1>7. /\ empty' \in BOOLEAN /\ bIn' \in BOOLEAN /\ bExt' \in BOOLEAN /\ owed' \in BOOLEAN
      /\ left' \in Command
  BY <1>1, <1>2, Zenon DEF Flags, Link
<1> QED BY <1>2, <1>3, <1>5, <1>6, <1>7, AwayInv

LEMMA TransferInv ==
  ASSUME IInv, Transfer
  PROVE  IInv'
<1>1. Flags /\ Ranges /\ Link /\ Buffers
  BY Parts
<1>2. /\ left' = left /\ empty' = empty /\ conn' = conn /\ wire' = wire /\ acks' = acks
      /\ UNCHANGED <<rangeVars, serverVars>> /\ pc \in {"ask", "answer", "forward"}
  BY DEF Transfer, Asks, GetsAnswer, NoAnswer, Forwards, ForwardFails, netVars, relayVars
<1>3. /\ wire' \in Seq(Num) /\ acks' \in Seq(Num \cup {NAK})
      /\ Len(wire') + Len(acks') <= MaxWire
  BY <1>1, <1>2 DEF Buffers
<1>4. /\ pc' \in {"command", "ask", "answer", "forward"}
      /\ retry' \in 0..Tries /\ (pc' # "command" => retry' < Tries)
  BY <1>1, <1>2, RelayAssumption
  DEF Transfer, Asks, GetsAnswer, NoAnswer, Forwards, ForwardFails, relayVars, Ranges
<1>5. bIn' \in BOOLEAN /\ bExt' \in BOOLEAN
  BY <1>1 DEF Transfer, Asks, GetsAnswer, NoAnswer, Forwards, ForwardFails, relayVars, Flags
<1>6. owed' \in BOOLEAN
  BY <1>1 DEF Transfer, Asks, GetsAnswer, NoAnswer, Forwards, ForwardFails, relayVars, Flags
<1>7. empty' \in BOOLEAN /\ left' \in Command /\ conn' \in {"up", "failing", "down"}
  BY <1>1, <1>2, Zenon DEF Flags, Link
<1> QED BY <1>2, <1>3, <1>4, <1>5, <1>6, <1>7, AwayInv

-----------------------------------------------------------------------------
(* HistoryDataTransfer and SendQueueData                                   *)

LEMMA RecordInv ==
  ASSUME IInv, NEW n, Record(n)
  PROVE  IInv'
<1>1. Flags /\ Ranges /\ Link /\ Buffers /\ Counted /\ Orderly /\ Kept
  BY Parts
<1>2. /\ pc = "record" /\ count' = count + 1 /\ nEnd' = nEnd /\ left' = left
      /\ empty' = empty /\ retry' = retry /\ bIn' = bIn /\ bExt' = bExt /\ owed' = owed
      /\ conn' = conn /\ wire' = wire /\ acks' = acks
      /\ stored' = stored /\ refused' = refused
  BY DEF Record, relayVars, netVars, serverVars
<1>3. /\ nStart \in Nat /\ nEnd \in Nat /\ count \in Nat /\ nStart <= nEnd
      /\ nStart \in Num /\ nStart + 1 \in 0..Byte * Byte /\ count <= nStart
      /\ count + 1 \in 0..Byte * Byte
  BY <1>1, <1>2, NumFacts DEF Ranges, Counted
<1>4. n = Nothing \/ n \in Num
  BY <1>3, SwapFacts, RelayAssumption DEF Record, Num
<1>5. n # Nothing => n \in Num BY <1>4
<1>6. \/ queue' = queue /\ (n = Nothing \/ n \in ToSet(queue))
      \/ queue' = Append(queue, n) /\ n \in Num
  BY <1>5 DEF Record
<1>7. /\ queue' \in Seq(Num) /\ Len(queue') <= Len(queue) + 1 /\ Len(queue') \in Nat
      /\ ToSet(queue) \subseteq ToSet(queue') /\ (n = Nothing \/ n \in ToSet(queue'))
  <2>1. queue \in Seq(Num) /\ Len(queue) \in Nat BY <1>1, SeqFacts DEF Buffers
  <2>2. CASE queue' = queue /\ (n = Nothing \/ n \in ToSet(queue))
    BY <2>1, <2>2
  <2>3. CASE queue' = Append(queue, n) /\ n \in Num
    <3> DEFINE a == Append(queue, n)
    <3>1. /\ a \in Seq(Num) /\ Len(a) = Len(queue) + 1
          /\ \A i \in DOMAIN queue : i \in DOMAIN a /\ a[i] = queue[i]
          /\ Len(queue) + 1 \in DOMAIN a /\ a[Len(queue) + 1] = n
      BY <2>1, <2>3, AppendFacts
    <3> HIDE DEF a
    <3>2. ToSet(queue) \subseteq ToSet(a) /\ n \in ToSet(a) BY <3>1 DEF ToSet
    <3>3. queue' = a BY <2>3 DEF a
    <3> QED BY <2>1, <3>1, <3>2, <3>3
  <2> QED BY <1>6, <2>2, <2>3
<1>8. answered' = answered \cup ({n} \ {Nothing}) BY DEF Record
<1>9. \/ count' = Batch /\ pc' = "pass" /\ nStart' = nStart
      \/ /\ count' # Batch /\ nStart' = nStart + 1
         /\ (pc' = "record" /\ nStart' <= nEnd) \/ pc' = "done"
  BY DEF Record, Advance
<1>10. blurred' \in BOOLEAN /\ (~blurred' => ~blurred /\ Ascending(queue'))
  <2>1. blurred' = (blurred \/ ~Ascending(queue')) BY DEF Record
  <2> QED BY <1>1, <2>1 DEF Flags
<1>11. Flags' BY <1>1, <1>2, <1>10, Zenon DEF Flags
<1>12. Ranges' BY <1>1, <1>2, <1>3, <1>9 DEF Ranges
<1>13. Link' BY <1>1, <1>2 DEF Link
<1>14. Buffers'
  <2>1. answered' \subseteq Num BY <1>1, <1>4, <1>8 DEF Buffers
  <2> QED BY <1>1, <1>2, <1>7, <2>1 DEF Buffers
<1>15. Batch \in Nat BY RelayAssumption
<1>16. count < Batch =>
         Len(queue') <= count' /\ Len(wire') + Len(acks') + Batch <= MaxWire
  <2>1. Len(queue) \in Nat BY <1>1, SeqFacts DEF Buffers
  <2> QED BY <1>1, <1>2, <1>3, <1>7, <2>1 DEF Counted
<1>17. Counted'
  <2>1. Len(wire') \in Nat /\ Len(acks') \in Nat BY <1>1, <1>2, SeqFacts DEF Buffers
  <2>2. CASE pc' = "pass"
    <3>1. count' = Batch /\ nStart' = nStart BY <1>9, <2>2
    <3>2. Len(queue') <= Batch /\ Len(wire') + Len(acks') + Batch <= MaxWire
      BY <1>2, <1>3, <1>15, <1>16, <3>1
    <3>3. Len(wire') + Len(acks') + Len(queue') <= MaxWire
      BY <1>7, <1>15, <2>1, <3>2, RelayAssumption
    <3> QED BY <1>2, <1>3, <2>2, <3>1, <3>3 DEF Counted
  <2>3. CASE pc' # "pass"
    <3>1. pc' \in {"record", "done"} /\ nStart' = nStart + 1 BY <1>9, <2>3
    <3>2. count' < Batch => count < Batch BY <1>2, <1>3, <1>15
    <3> QED BY <1>2, <1>3, <1>16, <3>1, <3>2 DEF Counted
  <2> QED BY <2>2, <2>3
<1>18. count' <= Batch => count < Batch BY <1>2, <1>3, <1>15
<1>19. pc' # "ack" /\ (pc' = "pass" => count' = Batch) /\ (count' = Batch => pc' = "pass")
  BY <1>9
<1>20. Orderly'
  <2> SUFFICES ASSUME ~blurred' PROVE Orderly'
    BY DEF Orderly
  <2>1. ~blurred /\ Ascending(queue)' BY <1>10 DEF Ascending
  <2>2. count' <= Batch => Len(wire') = 0 /\ Len(acks') = 0
    BY <1>1, <1>2, <1>18, <2>1 DEF Orderly
  <2>3. Len(wire') = 0 /\ Len(acks') = 0 => DOMAIN wire' = {} /\ DOMAIN acks' = {}
    BY <1>14, SeqFacts DEF Buffers
  <2>4. CASE pc' = "pass"
    <3>1. DOMAIN wire' = {} /\ DOMAIN acks' = {} BY <1>15, <1>19, <2>2, <2>3, <2>4
    <3> QED BY <2>1, <2>4, <3>1 DEF Orderly
  <2>5. CASE pc' # "pass"
    <3>1. count' < Batch => count' <= Batch BY <1>2, <1>3, <1>15
    <3> QED BY <1>19, <2>1, <2>2, <2>5, <3>1 DEF Orderly
  <2> QED BY <2>4, <2>5
<1>21. Kept'
  <2> SUFFICES ASSUME ~blurred' PROVE Kept'
    BY DEF Kept
  <2>1. count' <= Batch => answered \subseteq ToSet(queue)
    BY <1>1, <1>2, <1>10, <1>18 DEF Kept
  <2>2. count' <= Batch => answered' \subseteq ToSet(queue')
    BY <1>7, <1>8, <2>1, Zenon
  <2>3. ToSet(queue)' = ToSet(queue') OBVIOUS
  <2>4. (count' < Batch => count' <= Batch) /\ (count' = Batch => count' <= Batch)
    BY <1>2, <1>3, <1>15
  <2> QED BY <1>19, <2>2, <2>3, <2>4 DEF Kept
<1> QED BY <1>11, <1>12, <1>13, <1>14, <1>17, <1>20, <1>21, Assemble

LEMMA DroppedInv ==
  ASSUME IInv, Dropped
  PROVE  IInv'
<1>1. Flags /\ Ranges /\ Link /\ Buffers
  BY Parts
<1>2. /\ pc' = "command" /\ nStart' = 0 /\ nEnd' = 0 /\ count' = 0 /\ queue' = <<>>
      /\ answered' = {} /\ blurred' = FALSE /\ left' = left
      /\ empty' = empty /\ retry' = retry /\ bIn' = bIn /\ bExt' = bExt /\ owed' = owed
      /\ conn' = conn /\ wire' = wire /\ acks' = acks
      /\ stored' = stored /\ refused' = refused
  BY DEF Dropped, relayVars, netVars, serverVars
<1>3. Flags' BY <1>1, <1>2, Zenon DEF Flags
<1>4. Ranges' BY <1>1, <1>2, NumFacts DEF Ranges
<1>5. Link' BY <1>1, <1>2 DEF Link
<1>6. Buffers'
  <2>1. queue' \in Seq(Num) BY <1>2
  <2> QED BY <1>1, <1>2, <2>1 DEF Buffers
<1>7. Counted' BY <1>2 DEF Counted
<1>8. Orderly' BY <1>2, EmptyFacts DEF Orderly, Ascending
<1>9. Kept' BY <1>2 DEF Kept
<1> QED BY <1>3, <1>4, <1>5, <1>6, <1>7, <1>8, <1>9, Assemble

LEMMA SendsQueueInv ==
  ASSUME IInv, SendsQueue
  PROVE  IInv'
<1>1. Flags /\ Ranges /\ Link /\ Buffers /\ Counted /\ Orderly /\ Kept
  BY Parts
<1>2. /\ pc = "pass" /\ pc' = "ack" /\ left' = left
      /\ empty' = empty /\ retry' = retry /\ bIn' = bIn /\ bExt' = bExt /\ owed' = owed
      /\ nStart' = nStart /\ nEnd' = nEnd /\ count' = count /\ queue' = queue
      /\ answered' = answered /\ blurred' = blurred
      /\ conn' = conn /\ acks' = acks /\ stored' = stored /\ refused' = refused
  BY DEF SendsQueue, relayVars, rangeVars, serverVars
<1>3. wire' = wire \/ wire' = wire \o queue BY DEF SendsQueue
<1>4. /\ queue \in Seq(Num) /\ wire \in Seq(Num) /\ acks \in Seq(Num \cup {NAK})
      /\ Len(queue) \in Nat /\ Len(wire) \in Nat /\ Len(acks) \in Nat
      /\ DOMAIN wire = 1..Len(wire) /\ DOMAIN queue = 1..Len(queue)
  BY <1>1, SeqFacts DEF Buffers
<1>5. /\ wire \o queue \in Seq(Num) /\ Len(wire \o queue) = Len(wire) + Len(queue)
      /\ DOMAIN (wire \o queue) = 1..Len(wire) + Len(queue)
      /\ \A i \in 1..Len(wire) : (wire \o queue)[i] = wire[i]
      /\ \A i \in 1..Len(queue) : (wire \o queue)[Len(wire) + i] = queue[i]
  BY <1>4, ConcatFacts
<1>6. wire' \in Seq(Num) /\ Len(wire') + Len(acks') <= MaxWire
  <2>1. CASE wire' = wire BY <1>1, <1>2, <2>1 DEF Buffers
  <2>2. CASE wire' = wire \o queue
    <3>1. wire' \in Seq(Num) /\ Len(wire') = Len(wire) + Len(queue) BY <1>5, <2>2, Zenon
    <3>2. Len(wire) + Len(acks) + Len(queue) <= MaxWire BY <1>1, <1>2 DEF Counted
    <3> QED BY <1>2, <1>4, <3>1, <3>2, RelayAssumption
  <2> QED BY <1>3, <2>1, <2>2
<1>7. Flags' BY <1>1, <1>2, Zenon DEF Flags
<1>8. Ranges' BY <1>1, <1>2 DEF Ranges
<1>9. Link' BY <1>1, <1>2 DEF Link
<1>10. Buffers' BY <1>1, <1>2, <1>6 DEF Buffers
<1>11. Counted' BY <1>1, <1>2 DEF Counted
<1>12. Kept' BY <1>1, <1>2 DEF Kept, Dealt
<1>13. Orderly'
  <2> SUFFICES ASSUME ~blurred PROVE Orderly'
    BY <1>2 DEF Orderly
  <2>1. /\ Ascending(queue)
        /\ \A i \in DOMAIN acks, p \in DOMAIN queue :
             queue[p] <= acks[i] => queue[p] \in Dealt
        /\ \A i \in DOMAIN wire, p \in DOMAIN queue :
             queue[p] < wire[i] =>
               queue[p] \in Dealt \/ \E j \in 1..i - 1 : wire[j] = queue[p]
    BY <1>1, <1>2 DEF Orderly
  <2>2. Ascending(queue)' BY <1>2, <2>1 DEF Ascending
  <2>3. Dealt' = Dealt BY <1>2 DEF Dealt
  <2> DEFINE w == wire \o queue
  <2>4. ASSUME NEW i \in DOMAIN w, NEW p \in DOMAIN queue, queue[p] < w[i]
        PROVE  queue[p] \in Dealt \/ \E j \in 1..i - 1 : w[j] = queue[p]
    <3>1. i \in 1..Len(wire) + Len(queue) BY <1>5
    <3>2. /\ \A j \in 1..Len(wire) : w[j] = wire[j]
          /\ \A j \in 1..Len(queue) : w[Len(wire) + j] = queue[j]
      BY <1>5
    <3> HIDE DEF w
    <3>3. CASE i \in 1..Len(wire)
      <4>1. queue[p] < wire[i] BY <2>4, <3>2, <3>3
      <4>2. queue[p] \in Dealt \/ \E j \in 1..i - 1 : wire[j] = queue[p]
        BY <1>4, <2>1, <3>3, <4>1
      <4>3. \A j \in 1..i - 1 : w[j] = wire[j] BY <1>4, <3>2, <3>3
      <4> QED BY <4>2, <4>3
    <3>4. CASE i \notin 1..Len(wire)
      <4> DEFINE m == i - Len(wire)
      <4>1. m \in 1..Len(queue) /\ i = Len(wire) + m BY <1>4, <3>1, <3>4
      <4>2. w[i] = queue[m] BY <3>2, <4>1
      <4> HIDE DEF m
      <4>3. queue[p] < queue[m] BY <2>4, <4>2
      <4>4. p \in 1..Len(queue) /\ queue[p] \in Nat /\ queue[m] \in Nat
        BY <1>4, <4>1, SeqFacts, NumFacts
      <4>5. ~(m < p) /\ m # p
        <5>1. m < p => queue[m] < queue[p] BY <1>4, <2>1, <4>1, <4>4 DEF Ascending
        <5> QED BY <4>3, <4>4, <5>1
      <4>6. p < m BY <4>1, <4>4, <4>5
      <4>7. Len(wire) + p \in 1..i - 1 BY <1>4, <4>1, <4>4, <4>6
      <4> QED BY <3>2, <4>4, <4>7
    <3> QED BY <3>3, <3>4
  <2>5. \A i \in DOMAIN wire', p \in DOMAIN queue' :
          queue'[p] < wire'[i] =>
            queue'[p] \in Dealt' \/ \E j \in 1..i - 1 : wire'[j] = queue'[p]
    <3>1. CASE wire' = wire BY <1>2, <2>1, <2>3, <3>1
    <3>2. CASE wire' = w
      <4> HIDE DEF w
      <4> QED BY <1>2, <2>3, <2>4, <3>2
    <3> QED BY <1>3, <3>1, <3>2
  <2> QED BY <1>2, <2>1, <2>2, <2>3, <2>5 DEF Orderly
<1> QED BY <1>7, <1>8, <1>9, <1>10, <1>11, <1>12, <1>13, Assemble

\* A pass ends: the first k records of the queue are popped, the first m
\* answers read.
LEMMA PassEnds ==
  ASSUME IInv, pc = "ack", NEW k \in 0..Len(queue), NEW m \in 0..Len(acks),
         acks' = SubSeq(acks, m + 1, Len(acks)),
         AfterPass(SubSeq(queue, k + 1, Len(queue))),
         ~blurred => \A j \in 1..k : queue[j] \in Dealt,
         conn' \in {"up", "failing", "down"},
         UNCHANGED <<left, empty, relayVars, nEnd, count, answered, blurred, wire, serverVars>>
  PROVE  IInv'
<1> DEFINE q == SubSeq(queue, k + 1, Len(queue))
           a == SubSeq(acks, m + 1, Len(acks))
<1>1. Flags /\ Ranges /\ Link /\ Buffers /\ Counted /\ Orderly /\ Kept
  BY Parts
<1>2. /\ left' = left /\ nEnd' = nEnd /\ count' = count /\ answered' = answered
      /\ empty' = empty /\ retry' = retry /\ bIn' = bIn /\ bExt' = bExt /\ owed' = owed
      /\ blurred' = blurred /\ wire' = wire /\ stored' = stored /\ refused' = refused
      /\ queue' = q /\ acks' = a
  BY DEF AfterPass, relayVars, serverVars
<1>3. /\ queue \in Seq(Num) /\ wire \in Seq(Num) /\ acks \in Seq(Num \cup {NAK})
      /\ Len(queue) \in Nat /\ Len(wire) \in Nat /\ Len(acks) \in Nat
      /\ DOMAIN queue = 1..Len(queue) /\ DOMAIN acks = 1..Len(acks)
  BY <1>1, SeqFacts DEF Buffers
<1>4. /\ q \in Seq(Num) /\ Len(q) = Len(queue) - k /\ DOMAIN q = 1..Len(queue) - k
      /\ \A i \in DOMAIN q : k + i \in DOMAIN queue /\ q[i] = queue[k + i]
  BY <1>3, RestFacts
<1>5. /\ a \in Seq(Num \cup {NAK}) /\ Len(a) = Len(acks) - m
      /\ \A i \in DOMAIN a : m + i \in DOMAIN acks /\ a[i] = acks[m + i]
  BY <1>3, RestFacts
<1>6. \/ q = <<>> /\ nStart' = nStart + 1
         /\ ((pc' = "record" /\ nStart' <= nEnd) \/ pc' = "done")
      \/ pc' = "pass" /\ nStart' = nStart /\ Len(wire) + Len(acks') + Len(q) <= MaxWire
  BY DEF AfterPass, Advance
<1> HIDE DEF q, a
<1>7. /\ nStart \in Nat /\ nEnd \in Num /\ nStart <= nEnd /\ count = Batch
      /\ nStart + 1 \in 0..Byte * Byte /\ count <= nStart + 1 /\ count \in Nat
  <2>1. nStart \in Num /\ nEnd \in Num /\ nStart <= nEnd
    BY <1>1, NumFacts DEF Ranges
  <2> QED BY <1>1, <2>1, NumFacts DEF Ranges, Counted
<1>8. Flags' BY <1>1, <1>2, Zenon DEF Flags
<1>9. Ranges' BY <1>1, <1>2, <1>6, <1>7 DEF Ranges
<1>10. Link' BY <1>1, <1>2 DEF Link
<1>11. Buffers'
  <2>1. Len(wire) + Len(acks) <= MaxWire BY <1>1 DEF Buffers
  <2>2. Len(wire') = Len(wire) /\ Len(acks') = Len(acks) - m BY <1>2, <1>5, Zenon
  <2>3. Len(wire') + Len(acks') <= MaxWire
    <3>1. ASSUME NEW x \in Nat, NEW y \in Nat, x + y <= MaxWire
          PROVE  x + (y - m) <= MaxWire
      BY <1>3, <3>1, RelayAssumption
    <3>2. Len(wire) + (Len(acks) - m) <= MaxWire BY <1>3, <2>1, <3>1
    <3> QED BY <2>2, <3>2
  <2> QED BY <1>1, <1>2, <1>4, <1>5, <2>3 DEF Buffers
<1>12. Counted' BY <1>2, <1>6, <1>7 DEF Counted
<1>13. Dealt' = Dealt BY <1>2 DEF Dealt
<1>14. Orderly'
  <2> SUFFICES ASSUME ~blurred PROVE Orderly'
    BY <1>2 DEF Orderly
  <2>1. /\ Ascending(queue)
        /\ \A i \in DOMAIN acks, p \in DOMAIN queue :
             queue[p] <= acks[i] => queue[p] \in Dealt
        /\ \A i \in DOMAIN wire, p \in DOMAIN queue :
             queue[p] < wire[i] =>
               queue[p] \in Dealt \/ \E j \in 1..i - 1 : wire[j] = queue[p]
    BY <1>1 DEF Orderly
  <2>2. Ascending(q)
    <3> SUFFICES ASSUME NEW i \in DOMAIN q, NEW j \in DOMAIN q, i < j PROVE q[i] < q[j]
      BY DEF Ascending
    <3>1. i \in Nat /\ j \in Nat /\ k \in Nat BY <1>3, <1>4
    <3>2. k + i < k + j BY <3>1
    <3>3. k + i \in DOMAIN queue /\ k + j \in DOMAIN queue
          /\ q[i] = queue[k + i] /\ q[j] = queue[k + j]
      BY <1>4
    <3> QED BY <2>1, <3>2, <3>3 DEF Ascending
  <2>3. \A i \in DOMAIN a, p \in DOMAIN q : q[p] <= a[i] => q[p] \in Dealt
    <3> SUFFICES ASSUME NEW i \in DOMAIN a, NEW p \in DOMAIN q, q[p] <= a[i]
                 PROVE  q[p] \in Dealt
      OBVIOUS
    <3>1. k + p \in DOMAIN queue /\ q[p] = queue[k + p] BY <1>4
    <3>2. m + i \in DOMAIN acks /\ a[i] = acks[m + i] BY <1>5
    <3> QED BY <2>1, <3>1, <3>2
  <2>4. \A i \in DOMAIN wire, p \in DOMAIN q :
          q[p] < wire[i] => q[p] \in Dealt \/ \E j \in 1..i - 1 : wire[j] = q[p]
    <3> SUFFICES ASSUME NEW i \in DOMAIN wire, NEW p \in DOMAIN q, q[p] < wire[i]
                 PROVE  q[p] \in Dealt \/ \E j \in 1..i - 1 : wire[j] = q[p]
      OBVIOUS
    <3>1. k + p \in DOMAIN queue /\ q[p] = queue[k + p] BY <1>4
    <3> QED BY <2>1, <3>1
  <2>5. Ascending(queue)' BY <1>2, <2>2 DEF Ascending
  <2>6. pc' = "record" => ~(count' < Batch) BY <1>2, <1>7
  <2>7. /\ \A i \in DOMAIN acks', p \in DOMAIN queue' :
             queue'[p] <= acks'[i] => queue'[p] \in Dealt'
        /\ \A i \in DOMAIN wire', p \in DOMAIN queue' :
             queue'[p] < wire'[i] =>
               queue'[p] \in Dealt' \/ \E j \in 1..i - 1 : wire'[j] = queue'[p]
    <3> DEFINE Vouched(x, y, d) ==
                 \A i \in DOMAIN y, p \in DOMAIN x : x[p] <= y[i] => x[p] \in d
               Preceded(x, y, d) ==
                 \A i \in DOMAIN y, p \in DOMAIN x :
                   x[p] < y[i] => x[p] \in d \/ \E j \in 1..i - 1 : y[j] = x[p]
    <3>1. queue' = q /\ acks' = a /\ wire' = wire BY <1>2
    <3>2. Vouched(q, a, Dealt) BY <2>3
    <3>3. Preceded(q, wire, Dealt) BY <2>4
    <3> HIDE DEF Vouched, Preceded
    <3>4. Vouched(queue', acks', Dealt') /\ Preceded(queue', wire', Dealt')
      BY <1>13, <3>1, <3>2, <3>3
    <3> QED BY <3>4 DEF Vouched, Preceded
  <2> QED BY <2>5, <2>6, <2>7 DEF Orderly
<1>15. Kept'
  <2> SUFFICES ASSUME ~blurred PROVE Kept'
    BY <1>2 DEF Kept
  <2>1. answered \subseteq ToSet(queue) \cup Dealt BY <1>1 DEF Kept
  <2>2. ToSet(queue) \subseteq ToSet(q) \cup Dealt
    <3> SUFFICES ASSUME NEW p \in DOMAIN queue PROVE queue[p] \in ToSet(q) \cup Dealt
      BY DEF ToSet
    <3>1. CASE p \in 1..k BY <3>1
    <3>2. CASE p \notin 1..k
      <4>1. p - k \in DOMAIN q /\ k + (p - k) = p BY <1>3, <1>4, <3>2
      <4>2. q[p - k] = queue[p] BY <1>4, <4>1
      <4> QED BY <4>1, <4>2 DEF ToSet
    <3> QED BY <3>1, <3>2
  <2>3. q = <<>> => ToSet(q) = {} BY EmptyFacts DEF ToSet
  <2>4. answered' \subseteq ToSet(queue)' \cup Dealt' BY <1>2, <1>13, <2>1, <2>2, Zenon
  <2>5. pc' # "pass" => answered' \subseteq Dealt'
    <3>1. pc' # "pass" => q = <<>> BY <1>6
    <3> QED BY <1>2, <1>13, <2>1, <2>2, <2>3, <3>1, Zenon
  <2>6. pc' # "ack" /\ ~(count' < Batch) BY <1>2, <1>6, <1>7
  <2> QED BY <2>4, <2>5, <2>6 DEF Kept
<1> QED BY <1>8, <1>9, <1>10, <1>11, <1>12, <1>14, <1>15, Assemble

\* Every record that GetsAck pops was dealt with: the numbers ascend, and the
\* answer vouches for all up to its own.
LEMMA PoppedDealt ==
  ASSUME IInv, pc = "ack", acks # <<>>
  PROVE  \E k \in 0..Len(queue) :
           /\ Popped(queue, AckNo(acks[1])) = SubSeq(queue, k + 1, Len(queue))
           /\ ~blurred => \A j \in 1..k : queue[j] \in Dealt
<1>1. /\ queue \in Seq(Num) /\ acks \in Seq(Num \cup {NAK})
      /\ Len(queue) \in Nat /\ DOMAIN queue = 1..Len(queue)
      /\ Len(acks) \in Nat /\ DOMAIN acks = 1..Len(acks)
  BY Parts, SeqFacts DEF Buffers
<1>2. 1 \in DOMAIN acks
  <2>1. Len(acks) # 0 BY <1>1, SeqFacts
  <2> QED BY <1>1, <2>1
<1>3. acks[1] \in Num \cup {NAK} BY <1>1, <1>2, SeqFacts
<1>4. AckNo(acks[1]) \in Int
  BY <1>3, NumFacts DEF AckNo, Nothing
<1>5. PICK k \in 0..Len(queue) :
        /\ Popped(queue, AckNo(acks[1])) = SubSeq(queue, k + 1, Len(queue))
        /\ \A j \in 1..k : queue[j] <= AckNo(acks[1])
  BY <1>1, <1>4, PoppedFacts
<1>6. ASSUME ~blurred, NEW j \in 1..k PROVE queue[j] \in Dealt
  <2>1. j \in DOMAIN queue /\ queue[j] \in Num BY <1>1, <1>5, SeqFacts
  <2>2. queue[j] <= AckNo(acks[1]) /\ queue[j] \in Nat BY <1>5, <2>1, NumFacts
  <2>3. AckNo(acks[1]) = acks[1] BY <2>2 DEF AckNo, Nothing
  <2>4. queue[j] <= acks[1] BY <2>2, <2>3
  <2> QED BY <1>2, <1>6, <2>1, <2>4, Parts DEF Orderly
<1> QED BY <1>5, <1>6

LEMMA AcksInv ==
  ASSUME IInv, Acks
  PROVE  IInv'
<1>1. PICK m \in DOMAIN acks : GetsAck(m) BY DEF Acks
<1>2. acks \in Seq(Num \cup {NAK}) /\ Len(acks) \in Nat /\ DOMAIN acks = 1..Len(acks)
  BY Parts, SeqFacts DEF Buffers
<1>3. m \in 0..Len(acks) /\ acks # <<>> BY <1>1, <1>2, EmptyFacts
<1>4. pc = "ack" /\ conn = "up" /\ conn' = conn BY <1>1 DEF GetsAck
<1>5. PICK k \in 0..Len(queue) :
        /\ Popped(queue, AckNo(acks[1])) = SubSeq(queue, k + 1, Len(queue))
        /\ ~blurred => \A j \in 1..k : queue[j] \in Dealt
  BY <1>3, <1>4, PoppedDealt
<1>6. AfterPass(SubSeq(queue, k + 1, Len(queue)))
  <2>1. AfterPass(Popped(queue, AckNo(acks[1]))) BY <1>1 DEF GetsAck
  <2> QED BY <1>5, <2>1
<1>7. /\ acks' = SubSeq(acks, m + 1, Len(acks))
      /\ UNCHANGED <<left, empty, relayVars, nEnd, count, answered, blurred, wire, serverVars>>
  BY <1>1 DEF GetsAck
<1> QED BY <1>3, <1>4, <1>5, <1>6, <1>7, PassEnds

LEMMA GetsNoAckInv ==
  ASSUME IInv, GetsNoAck
  PROVE  IInv'
<1>1. /\ acks \in Seq(Num \cup {NAK}) /\ Len(acks) \in Nat
      /\ queue \in Seq(Num) /\ Len(queue) \in Nat
  BY Parts, SeqFacts DEF Buffers
<1>2. SubSeq(acks, 0 + 1, Len(acks)) = acks /\ SubSeq(queue, 0 + 1, Len(queue)) = queue
  BY <1>1
<1>3. /\ pc = "ack" /\ AfterPass(queue) /\ acks' = acks
      /\ conn' \in {"up", "failing", "down"}
      /\ UNCHANGED <<left, empty, relayVars, nEnd, count, answered, blurred, wire, serverVars>>
  BY DEF GetsNoAck
<1>4. 0 \in 0..Len(acks) /\ 0 \in 0..Len(queue) /\ \A j \in 1..0 : queue[j] \in Dealt
  BY <1>1
<1>5. AfterPass(SubSeq(queue, 0 + 1, Len(queue))) BY <1>2, <1>3
<1>6. acks' = SubSeq(acks, 0 + 1, Len(acks)) BY <1>2, <1>3
<1> QED BY <1>3, <1>4, <1>5, <1>6, PassEnds

-----------------------------------------------------------------------------
(* The server and the network                                              *)

\* The server deals with the first record on the wire, and may answer with
\* its number or with a NAK.
LEMMA ServerInv ==
  ASSUME IInv, Server
  PROVE  IInv'
<1> DEFINE h == Head(wire)
<1>1. Flags /\ Ranges /\ Link /\ Buffers /\ Counted /\ Orderly /\ Kept
  BY Parts
<1>2. /\ pc' = pc /\ left' = left /\ empty' = empty /\ retry' = retry
      /\ bIn' = bIn /\ bExt' = bExt /\ owed' = owed /\ conn' = conn
      /\ nStart' = nStart /\ nEnd' = nEnd /\ count' = count /\ queue' = queue
      /\ answered' = answered /\ blurred' = blurred
      /\ wire # <<>> /\ wire' = Tail(wire)
  BY DEF Server, ServerStores, ServerRefuses, relayVars, rangeVars
<1>3. /\ queue \in Seq(Num) /\ wire \in Seq(Num) /\ acks \in Seq(Num \cup {NAK})
      /\ Len(queue) \in Nat /\ Len(wire) \in Nat /\ Len(acks) \in Nat
      /\ DOMAIN wire = 1..Len(wire) /\ DOMAIN queue = 1..Len(queue)
  BY <1>1, SeqFacts DEF Buffers
<1>4. /\ wire' \in Seq(Num) /\ h = wire[1] /\ h \in Num /\ 1 \in DOMAIN wire
      /\ Len(wire') = Len(wire) - 1
      /\ \A i \in DOMAIN wire' : i + 1 \in DOMAIN wire /\ wire'[i] = wire[i + 1]
  BY <1>2, <1>3, TailFacts
<1>5. \/ acks' = acks
      \/ \E x \in {h, NAK} : acks' = Append(acks, x)
  BY DEF Server, ServerStores, ServerRefuses
<1>6. stored' \cup refused' = Dealt \cup {h}
  BY DEF Server, ServerStores, ServerRefuses, Dealt
<1>7. stored' \subseteq Num /\ refused' \subseteq Num
  BY <1>1, <1>4 DEF Server, ServerStores, ServerRefuses, Buffers
<1> HIDE DEF h
<1>8. /\ acks' \in Seq(Num \cup {NAK}) /\ Len(acks') <= Len(acks) + 1 /\ Len(acks') \in Nat
      /\ \A i \in DOMAIN acks' :
           acks'[i] \in {h, NAK} \/ (i \in DOMAIN acks /\ acks'[i] = acks[i])
  <2>1. CASE acks' = acks BY <1>3, <2>1
  <2>2. ASSUME NEW x \in {h, NAK}, acks' = Append(acks, x)
        PROVE  /\ acks' \in Seq(Num \cup {NAK}) /\ Len(acks') <= Len(acks) + 1 /\ Len(acks') \in Nat
               /\ \A i \in DOMAIN acks' :
                    acks'[i] \in {h, NAK} \/ (i \in DOMAIN acks /\ acks'[i] = acks[i])
    <3>1. x \in Num \cup {NAK} BY <1>4
    <3>2. /\ Append(acks, x) \in Seq(Num \cup {NAK})
          /\ Len(Append(acks, x)) = Len(acks) + 1
          /\ \A i \in DOMAIN Append(acks, x) :
               \/ Append(acks, x)[i] = x
               \/ (i \in DOMAIN acks /\ Append(acks, x)[i] = acks[i])
      BY <1>3, <3>1, AppendFacts
    <3> QED BY <1>3, <2>2, <3>2
  <2> QED BY <1>5, <2>1, <2>2
<1>9. Len(wire') + Len(acks') <= Len(wire) + Len(acks) BY <1>3, <1>4, <1>8
<1>10. Len(wire') \in Nat BY <1>4, SeqFacts
<1>11. Flags' BY <1>1, <1>2, Zenon DEF Flags
<1>12. Ranges' BY <1>1, <1>2 DEF Ranges
<1>13. Link' BY <1>1, <1>2 DEF Link
<1>14. Buffers'
  <2>1. Len(wire') + Len(acks') <= MaxWire
    BY <1>1, <1>3, <1>8, <1>9, <1>10, RelayAssumption DEF Buffers
  <2> QED BY <1>1, <1>2, <1>4, <1>7, <1>8, <2>1 DEF Buffers
<1>15. Counted'
  <2>1. /\ pc = "record" /\ count < Batch => Len(wire') + Len(acks') + Batch <= MaxWire
        /\ pc = "pass" => Len(wire') + Len(acks') + Len(queue) <= MaxWire
    BY <1>1, <1>3, <1>8, <1>9, <1>10, RelayAssumption DEF Counted
  <2> QED BY <1>1, <1>2, <2>1 DEF Counted
<1>16. Dealt' = Dealt \cup {h} BY <1>6 DEF Dealt
<1>17. Kept' BY <1>1, <1>2, <1>16 DEF Kept
<1>18. Orderly'
  <2> SUFFICES ASSUME ~blurred PROVE Orderly'
    BY <1>2 DEF Orderly
  <2>1. Ascending(queue)' BY <1>1, <1>2 DEF Orderly, Ascending
  <2>2. ~(pc' = "record" /\ count' < Batch) BY <1>1, <1>2, <1>3, <1>4 DEF Orderly
  <2> SUFFICES ASSUME pc \in {"pass", "ack"}
               PROVE  /\ \A i \in DOMAIN acks', p \in DOMAIN queue :
                           queue[p] <= acks'[i] => queue[p] \in Dealt'
                      /\ \A i \in DOMAIN wire', p \in DOMAIN queue :
                           queue[p] < wire'[i] =>
                             queue[p] \in Dealt' \/ \E j \in 1..i - 1 : wire'[j] = queue[p]
    BY <1>2, <2>1, <2>2 DEF Orderly
  <2>3. /\ \A i \in DOMAIN acks, p \in DOMAIN queue :
             queue[p] <= acks[i] => queue[p] \in Dealt
        /\ \A i \in DOMAIN wire, p \in DOMAIN queue :
             queue[p] < wire[i] =>
               queue[p] \in Dealt \/ \E j \in 1..i - 1 : wire[j] = queue[p]
    BY <1>1 DEF Orderly
  <2>4. \A p \in DOMAIN queue : queue[p] \in Nat BY <1>3, SeqFacts, NumFacts
  <2>5. h \in Nat BY <1>4, NumFacts
  <2>6. ASSUME NEW p \in DOMAIN queue, queue[p] <= h PROVE queue[p] \in Dealt'
    <3>1. queue[p] = h \/ queue[p] < wire[1] BY <1>4, <2>4, <2>5, <2>6
    <3>2. CASE queue[p] = h BY <1>16, <3>2
    <3>3. CASE queue[p] < wire[1]
      <4>1. queue[p] \in Dealt \/ \E j \in 1..1 - 1 : wire[j] = queue[p]
        BY <1>4, <2>3, <3>3
      <4>2. 1..1 - 1 = {} OBVIOUS
      <4> QED BY <1>16, <4>1, <4>2
    <3> QED BY <3>1, <3>2, <3>3
  <2>7. ASSUME NEW i \in DOMAIN acks', NEW p \in DOMAIN queue, queue[p] <= acks'[i]
        PROVE  queue[p] \in Dealt'
    <3>1. acks'[i] # NAK BY <2>4, <2>7 DEF NAK
    <3>2. CASE acks'[i] = h BY <2>6, <2>7, <3>2
    <3>3. CASE i \in DOMAIN acks /\ acks'[i] = acks[i] BY <1>16, <2>3, <2>7, <3>3
    <3> QED BY <1>8, <3>1, <3>2, <3>3
  <2>8. ASSUME NEW i \in DOMAIN wire', NEW p \in DOMAIN queue, queue[p] < wire'[i]
        PROVE  queue[p] \in Dealt' \/ \E j \in 1..i - 1 : wire'[j] = queue[p]
    <3>1. i + 1 \in DOMAIN wire /\ wire'[i] = wire[i + 1] BY <1>4
    <3>2. queue[p] < wire[i + 1] BY <2>8, <3>1
    <3>3. queue[p] \in Dealt \/ \E j \in 1..(i + 1) - 1 : wire[j] = queue[p]
      BY <2>3, <3>1, <3>2
    <3>4. CASE queue[p] \in Dealt BY <1>16, <3>4
    <3>5. ASSUME NEW j \in 1..(i + 1) - 1, wire[j] = queue[p]
          PROVE  queue[p] \in Dealt' \/ \E l \in 1..i - 1 : wire'[l] = queue[p]
      <4>1. i \in 1..Len(wire') BY <1>4, SeqFacts
      <4>2. CASE j = 1 BY <1>4, <1>16, <3>5, <4>2
      <4>3. CASE j # 1
        <5>1. j - 1 \in 1..i - 1 /\ j - 1 \in 1..Len(wire') /\ (j - 1) + 1 = j
          BY <1>10, <4>1, <4>3
        <5>2. j - 1 \in DOMAIN wire' BY <1>4, <5>1, SeqFacts
        <5>3. wire'[j - 1] = wire[j] BY <1>4, <5>1, <5>2
        <5> QED BY <3>5, <5>1, <5>3
      <4> QED BY <4>2, <4>3
    <3> QED BY <3>3, <3>4, <3>5
  <2> QED BY <2>7, <2>8
<1> QED BY <1>11, <1>12, <1>13, <1>14, <1>15, <1>17, <1>18, Assemble

LEMMA LinkFailsInv ==
  ASSUME IInv, LinkFails
  PROVE  IInv'
<1>1. Flags /\ Ranges /\ Link /\ Buffers /\ Counted /\ Orderly /\ Kept
  BY Parts
<1>2. /\ pc' = pc /\ left' = left /\ empty' = empty /\ retry' = retry
      /\ bIn' = bIn /\ bExt' = bExt /\ owed' = owed /\ conn' = "failing"
      /\ nStart' = nStart /\ nEnd' = nEnd /\ count' = count /\ queue' = queue
      /\ answered' = answered /\ blurred' = blurred
      /\ stored' = stored /\ refused' = refused
  BY DEF LinkFails, relayVars, rangeVars, serverVars
<1>3. wire' = <<>> /\ acks' = <<>> BY DEF LinkFails
<1>4. /\ Len(wire') = 0 /\ Len(acks') = 0 /\ DOMAIN wire' = {} /\ DOMAIN acks' = {}
  BY <1>3, EmptyFacts, Zenon
<1>5. wire' \in Seq(Num) /\ acks' \in Seq(Num \cup {NAK}) BY <1>3
<1>6. Flags' BY <1>1, <1>2, Zenon DEF Flags
<1>7. Ranges' BY <1>1, <1>2 DEF Ranges
<1>8. Link' BY <1>1, <1>2 DEF Link
<1>9. Buffers' BY <1>1, <1>2, <1>4, <1>5, RelayAssumption DEF Buffers
<1>10. Counted'
  <2>1. Len(queue) \in Nat /\ Len(wire) \in Nat /\ Len(acks) \in Nat
    BY <1>1, SeqFacts DEF Buffers
  <2> QED BY <1>1, <1>2, <1>4, <2>1, RelayAssumption DEF Counted
<1>11. Orderly' BY <1>1, <1>2, <1>4 DEF Orderly, Ascending
<1>12. Kept' BY <1>1, <1>2 DEF Kept, Dealt
<1> QED BY <1>6, <1>7, <1>8, <1>9, <1>10, <1>11, <1>12, Assemble

LEMMA StutterInv ==
  ASSUME IInv, UNCHANGED vars
  PROVE  IInv'
<1> USE DEF vars, relayVars, rangeVars, netVars, serverVars
<1>1. Flags /\ Ranges /\ Link /\ Buffers /\ Counted /\ Orderly /\ Kept
  BY Parts
<1>2. Flags' BY <1>1, Zenon DEF Flags
<1>3. Ranges' BY <1>1 DEF Ranges
<1>4. Link' BY <1>1 DEF Link
<1>5. Buffers' BY <1>1 DEF Buffers
<1>6. Counted' BY <1>1 DEF Counted
<1>7. Orderly' BY <1>1 DEF Orderly, Ascending, Dealt
<1>8. Kept' BY <1>1 DEF Kept, Dealt
<1> QED BY <1>2, <1>3, <1>4, <1>5, <1>6, <1>7, <1>8, Assemble

LEMMA NextInv ==
  ASSUME IInv, [Next]_vars
  PROVE  IInv'
<1>1. ASSUME NEW c \in Command, GetCommand(c) PROVE IInv' BY <1>1, GetCommandInv
<1>2. CASE GetsNothing BY <1>2, GetsNothingInv
<1>3. CASE Reconnects BY <1>3, ReconnectsInv
<1>4. CASE Transfer BY <1>4, TransferInv
<1>5. ASSUME NEW n \in Num \cup {Nothing}, Record(n) PROVE IInv' BY <1>5, RecordInv
<1>6. CASE SendsQueue BY <1>6, SendsQueueInv
<1>7. CASE Acks BY <1>7, AcksInv
<1>8. CASE GetsNoAck BY <1>8, GetsNoAckInv
<1>9. CASE TransferThrows \/ HistoryReturns
  BY <1>9, DroppedInv DEF TransferThrows, HistoryReturns
<1>10. CASE Server BY <1>10, ServerInv
<1>11. CASE LinkFails BY <1>11, LinkFailsInv
<1>12. CASE UNCHANGED vars BY <1>12, StutterInv
<1> QED
  BY <1>1, <1>2, <1>3, <1>4, <1>5, <1>6, <1>7, <1>8, <1>9, <1>10, <1>11, <1>12
  DEF Next, Commands, History

-----------------------------------------------------------------------------
(* Theorems                                                                *)

\* The inductive invariant holds of every behaviour.
THEOREM Invariance == Spec => []IInv
BY InitInv, NextInv, PTL DEF Spec

\* Retries, numbers, counts and what is in transit keep their ranges,
\* although HistoryDataTransfer never resets its count and SendQueueData
\* repeats without a limit.
THEOREM TypeCorrect == Spec => []TypeOK
<1>1. IInv => TypeOK BY DEF IInv
<1> QED BY <1>1, Invariance, PTL

\* A record that SendQueueData pops was taken by the server or refused by it,
\* as long as the numbers ascend and nothing of an earlier transfer was in
\* transit.
THEOREM PopsDealt == Spec => PoppedStored
<1> DEFINE A == Acks => blurred \/ ToSet(queue) \ ToSet(queue') \subseteq stored \cup refused
<1>1. ASSUME IInv PROVE A
  <2> SUFFICES ASSUME Acks, ~blurred, NEW p \in DOMAIN queue,
                      queue[p] \notin ToSet(queue')
               PROVE  queue[p] \in stored \cup refused
    BY DEF ToSet
  <2>1. PICK m \in DOMAIN acks : GetsAck(m) BY DEF Acks
  <2>2. pc = "ack" /\ acks # <<>> BY <2>1, EmptyFacts DEF GetsAck
  <2>3. PICK k \in 0..Len(queue) :
          /\ Popped(queue, AckNo(acks[1])) = SubSeq(queue, k + 1, Len(queue))
          /\ \A j \in 1..k : queue[j] \in Dealt
    BY <1>1, <2>2, PoppedDealt
  <2>4. queue' = SubSeq(queue, k + 1, Len(queue))
    BY <2>1, <2>3 DEF GetsAck, AfterPass
  <2>5. queue \in Seq(Num) /\ Len(queue) \in Nat /\ DOMAIN queue = 1..Len(queue)
    BY <1>1, Parts, SeqFacts DEF Buffers
  <2>6. /\ DOMAIN queue' = 1..Len(queue) - k
        /\ \A i \in 1..Len(queue) - k : queue'[i] = queue[k + i]
    BY <2>3, <2>4, <2>5, RestFacts
  <2>7. p \in 1..k
    <3> SUFFICES ASSUME p \notin 1..k PROVE FALSE
      OBVIOUS
    <3>1. p - k \in 1..Len(queue) - k /\ k + (p - k) = p BY <2>3, <2>5
    <3>2. queue'[p - k] = queue[p] BY <2>6, <3>1
    <3> QED BY <2>6, <3>1, <3>2 DEF ToSet
  <2> QED BY <2>3, <2>7 DEF Dealt
<1>2. IInv /\ [Next]_vars => [A]_vars BY <1>1 DEF A
<1> QED BY <1>2, Invariance, PTL DEF Spec, PoppedStored

\* A transfer of just Batch records that returns normally has delivered all
\* that the post answered, or was refused it.
THEOREM BatchServed == Spec => []ServedInFull
<1>1. IInv => ServedInFull
  BY Parts DEF ServedInFull, Kept, Dealt
<1> QED BY <1>1, Invariance, PTL
=============================================================================
