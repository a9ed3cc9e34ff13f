------------------------ MODULE StoreForwardProofs ------------------------
(***************************************************************************)
(* Proofs about StoreForward: for any number of readings, retries, packets *)
(* in transit and restarts, a reading leaves the agent only after the      *)
(* server stored it, the file covers the queue except in the intervals     *)
(* AtRisk names, and only a restart in such an interval, or a save under a *)
(* running Load, forgets a reading; and the data path implements Delivery. *)
(***************************************************************************)
EXTENDS StoreForward, TLAPS

\* No stray packet stands before an undelivered reading of the same number:
\* Push would not queue that reading again when the sequence is loaded.
Unshadowed(s) ==
  \A i, j \in DOMAIN s :
    i < j /\ s[j].ra /\ s[i].no = s[j].no => s[i].ra \/ s[j].no \in server

\* Positive answers in transit are about stored readings.
AcksStored == \A i \in DOMAIN acks : acks[i] # NAK => acks[i] \in server

\* Numbers are unique in the queue, and a reading that Load has yet to queue
\* is not hidden by a stray packet.
Loadable ==
  /\ \A i, j \in DOMAIN queue : queue[i].no = queue[j].no => i = j
  /\ \A i \in DOMAIN queue, j \in DOMAIN toLoad :
       toLoad[j].ra /\ queue[i].no = toLoad[j].no
         => queue[i].ra \/ toLoad[j].no \in server
  /\ Unshadowed(toLoad)
  /\ Unshadowed(file)

\* How the program counters, the file and the unread records are related.
Windows ==
  /\ spc = "load" => rpc = "none"
  /\ spc # "load" => toLoad = <<>>
  /\ spc = "load" /\ mpc = "write" => fault
  /\ "write" \in {rpc, mpc} => Held(file) \subseteq Held(queue) \cup server

IInv ==
  TypeOK /\ AcksStored /\ Loadable /\ Windows /\ AcceptedKept /\ FileCoversQueue

-----------------------------------------------------------------------------
(* Lemmas about the operators on packet sequences                          *)

\* Membership in Held, spelled out with positions.
LEMMA HeldMember ==
  ASSUME NEW q \in Seq(Packet), NEW n
  PROVE  n \in Held(q) <=> \E i \in 1..Len(q) : q[i].ra /\ q[i].no = n
BY DEF Held

\* The empty sequence holds nothing.
LEMMA HeldEmpty == Held(<<>>) = {}
BY DEF Held

\* Held only names data numbers.
LEMMA HeldType ==
  ASSUME NEW q \in Seq(Packet)
  PROVE  Held(q) \subseteq DataNo
<1> SUFFICES ASSUME NEW n \in Held(q) PROVE n \in DataNo
  OBVIOUS
<1>1. PICK i \in 1..Len(q) : q[i].no = n
  BY HeldMember
<1>2. q[i] \in Packet
  OBVIOUS
<1> QED BY <1>1, <1>2 DEF Packet

\* DataPacketQueue::Push keeps what is queued, adds at most the new packet
\* and keeps the numbers unique.
LEMMA PushFacts ==
  ASSUME NEW q \in Seq(Packet), NEW p \in Packet
  PROVE  /\ Push(q, p) \in Seq(Packet)
         /\ q # <<>> => Push(q, p) # <<>>
         /\ Held(q) \subseteq Held(Push(q, p))
         /\ \A n \in Held(Push(q, p)) : n \in Held(q) \/ (p.ra /\ n = p.no)
         /\ (\A i \in DOMAIN q : q[i].no # p.no) => Push(q, p) = Append(q, p)
         /\ (\A i \in DOMAIN q : q[i].no # p.no) /\ p.ra => p.no \in Held(Push(q, p))
         /\ (\E i \in DOMAIN q : q[i].no = p.no) => Push(q, p) = q
<1>1. CASE \E i \in DOMAIN q : q[i].no = p.no
  BY <1>1 DEF Push
<1>2. CASE \A i \in DOMAIN q : q[i].no # p.no
  <2> DEFINE r == Append(q, p)
  <2>1. Push(q, p) = r
    BY <1>2 DEF Push
  <2>2. /\ r \in Seq(Packet)
        /\ Len(r) = Len(q) + 1
        /\ \A i \in 1..Len(q) : r[i] = q[i]
        /\ r[Len(q) + 1] = p
    OBVIOUS
  <2> HIDE DEF r
  <2>3. Held(q) \subseteq Held(r)
    <3> SUFFICES ASSUME NEW n \in Held(q) PROVE n \in Held(r)
      OBVIOUS
    <3>1. PICK i \in 1..Len(q) : q[i].ra /\ q[i].no = n
      BY HeldMember
    <3>2. i \in 1..Len(r) /\ r[i].ra /\ r[i].no = n
      BY <2>2, <3>1
    <3> QED BY <2>2, <3>2, HeldMember
  <2>4. \A n \in Held(r) : n \in Held(q) \/ (p.ra /\ n = p.no)
    <3> SUFFICES ASSUME NEW n \in Held(r) PROVE n \in Held(q) \/ (p.ra /\ n = p.no)
      OBVIOUS
    <3>1. PICK i \in 1..Len(r) : r[i].ra /\ r[i].no = n
      BY <2>2, HeldMember
    <3>2. CASE i = Len(q) + 1
      BY <2>2, <3>1, <3>2
    <3>3. CASE i # Len(q) + 1
      BY <2>2, <3>1, <3>3, HeldMember
    <3> QED BY <3>2, <3>3
  <2>5. p.ra => p.no \in Held(r)
    <3>1. Len(q) + 1 \in 1..Len(r)
      BY <2>2
    <3> QED BY <2>2, <3>1, HeldMember
  <2> QED BY <1>2, <2>1, <2>2, <2>3, <2>4, <2>5 DEF r
<1> QED BY <1>1, <1>2

\* The positions of a queue after a Push.
LEMMA PushPositions ==
  ASSUME NEW q \in Seq(Packet), NEW p \in Packet
  PROVE  /\ \A i \in DOMAIN q : i \in DOMAIN Push(q, p) /\ Push(q, p)[i] = q[i]
         /\ \E i \in DOMAIN Push(q, p) : Push(q, p)[i].no = p.no
         /\ \A i \in DOMAIN Push(q, p) :
              \/ i \in DOMAIN q /\ Push(q, p)[i] = q[i]
              \/ /\ Push(q, p)[i] = p /\ i = Len(q) + 1
                 /\ \A k \in DOMAIN q : q[k].no # p.no
<1>1. CASE \E i \in DOMAIN q : q[i].no = p.no
  <2>1. Push(q, p) = q BY <1>1, PushFacts
  <2> QED BY <1>1, <2>1
<1>2. CASE \A i \in DOMAIN q : q[i].no # p.no
  <2> DEFINE r == Append(q, p)
  <2>1. Push(q, p) = r BY <1>2, PushFacts
  <2>2. /\ DOMAIN r = 1..Len(q) + 1 /\ DOMAIN q = 1..Len(q) /\ Len(q) \in Nat
        /\ \A i \in 1..Len(q) : r[i] = q[i]
        /\ r[Len(q) + 1] = p
    OBVIOUS
  <2> HIDE DEF r
  <2>3. \A i \in DOMAIN q : i \in DOMAIN r /\ r[i] = q[i] BY <2>2
  <2>4. Len(q) + 1 \in DOMAIN r /\ r[Len(q) + 1].no = p.no BY <2>2
  <2>5. \A i \in DOMAIN r : (i \in DOMAIN q /\ r[i] = q[i]) \/ (r[i] = p /\ i = Len(q) + 1)
    BY <2>2
  <2> QED BY <1>2, <2>1, <2>3, <2>4, <2>5
<1> QED BY <1>1, <1>2

\* Pop removes the first packet only.
LEMMA TailFacts ==
  ASSUME NEW q \in Seq(Packet), q # <<>>
  PROVE  /\ Tail(q) \in Seq(Packet)
         /\ Head(q) = q[1] /\ Head(q) \in Packet
         /\ Len(Tail(q)) = Len(q) - 1
         /\ \A i \in 1..Len(q) - 1 : Tail(q)[i] = q[i + 1]
         /\ Held(Tail(q)) \subseteq Held(q)
         /\ \A n \in Held(q) : n \in Held(Tail(q)) \/ (Head(q).ra /\ n = Head(q).no)
<1> DEFINE t == Tail(q)
<1>1. /\ t \in Seq(Packet)
      /\ Len(q) >= 1
      /\ Len(t) = Len(q) - 1
      /\ \A i \in 1..Len(q) - 1 : t[i] = q[i + 1]
      /\ Head(q) = q[1] /\ Head(q) \in Packet
  OBVIOUS
<1> HIDE DEF t
<1>2. Held(t) \subseteq Held(q)
  <2> SUFFICES ASSUME NEW n \in Held(t) PROVE n \in Held(q)
    OBVIOUS
  <2>1. PICK i \in 1..Len(t) : t[i].ra /\ t[i].no = n
    BY <1>1, HeldMember
  <2>2. i + 1 \in 1..Len(q) /\ q[i + 1] = t[i]
    BY <1>1, <2>1
  <2> QED BY <2>1, <2>2, HeldMember
<1>3. ASSUME NEW n \in Held(q)
      PROVE  n \in Held(t) \/ (Head(q).ra /\ n = Head(q).no)
  <2>1. PICK i \in 1..Len(q) : q[i].ra /\ q[i].no = n
    BY HeldMember
  <2>2. CASE i = 1
    BY <1>1, <2>1, <2>2
  <2>3. CASE i # 1
    <3>1. i - 1 \in 1..Len(t) /\ t[i - 1] = q[i]
      BY <1>1, <2>3
    <3> QED BY <1>1, <2>1, <3>1, HeldMember
  <2> QED BY <2>2, <2>3
<1> QED BY <1>1, <1>2, <1>3 DEF t

\* What a prefix of a sequence holds.
LEMMA PrefixFacts ==
  ASSUME NEW s \in Seq(Packet), NEW q \in Prefixes(s)
  PROVE  /\ q \in Seq(Packet)
         /\ Len(q) <= Len(s)
         /\ \A i \in 1..Len(q) : q[i] = s[i]
         /\ Held(q) \subseteq Held(s)
<1>1. PICK k \in 0..Len(s) : q = SubSeq(s, 1, k)
  BY DEF Prefixes
<1>2. q \in Seq(Packet) /\ Len(q) = k /\ \A i \in 1..k : q[i] = s[i]
  BY <1>1
<1>3. Held(q) \subseteq Held(s)
  <2> SUFFICES ASSUME NEW n \in Held(q) PROVE n \in Held(s)
    OBVIOUS
  <2>1. PICK i \in 1..Len(q) : q[i].ra /\ q[i].no = n
    BY <1>2, HeldMember
  <2> QED BY <1>2, <2>1, HeldMember
<1> QED BY <1>2, <1>3

\* The empty sequence has no other prefix.
LEMMA EmptyPrefix == \A q \in Prefixes(<<>>) : q = <<>>
<1> SUFFICES ASSUME NEW q \in Prefixes(<<>>) PROVE q = <<>>
  OBVIOUS
<1>1. PICK k \in 0..Len(<<>>) : q = SubSeq(<<>>, 1, k)
  BY DEF Prefixes
<1>2. k = 0
  BY <1>1
<1> QED BY <1>1, <1>2

\* Record i of g comes from q or, d records further on, from f.
Origin(g, q, f, i, d) ==
  \/ i <= Len(q) /\ g[i] = q[i]
  \/ i > Len(q) /\ i - Len(q) + d \in 1..Len(f) /\ g[i] = f[i - Len(q) + d]

\* A file written over another: it starts with the records just written,
\* and the rest of it is a suffix of what was there.
LEMMA OverlayFacts ==
  ASSUME NEW q \in Seq(Packet), NEW f \in Seq(Packet), NEW g \in Overlay(q, f)
  PROVE  /\ g \in Seq(Packet)
         /\ Held(q) \subseteq Held(g)
         /\ Held(g) \subseteq Held(q) \cup Held(f)
         /\ \E d \in Nat : \A i \in 1..Len(g) : Origin(g, q, f, i, d)
<1>1. CASE q = <<>>
  <2>1. g = f
    BY <1>1 DEF Overlay
  <2>2. \A i \in 1..Len(g) : Origin(g, q, f, i, 0)
    BY <1>1, <2>1 DEF Origin
  <2> QED BY <1>1, <2>1, <2>2, HeldEmpty
<1>2. CASE q # <<>>
  <2>1. PICK k \in 2..Len(f) + 2 : g = q \o SubSeq(f, k, Len(f))
    BY <1>2 DEF Overlay
  <2> DEFINE t == SubSeq(f, k, Len(f))
  <2>2. /\ t \in Seq(Packet)
        /\ \A i \in 1..Len(t) : i + (k - 1) \in 1..Len(f) /\ t[i] = f[i + (k - 1)]
    <3>1. CASE k <= Len(f)
      BY <3>1
    <3>2. CASE k > Len(f)
      <4>1. t = <<>>
        BY <3>2
      <4> QED BY <4>1
    <3> QED BY <3>1, <3>2
  <2> HIDE DEF t
  <2>3. /\ g \in Seq(Packet)
        /\ Len(g) = Len(q) + Len(t)
        /\ \A i \in 1..Len(q) : g[i] = q[i]
        /\ \A i \in 1..Len(t) : g[i + Len(q)] = t[i]
    BY <2>1, <2>2 DEF t
  <2>4. \A i \in 1..Len(g) : Origin(g, q, f, i, k - 1)
    <3> TAKE i \in 1..Len(g)
    <3>1. CASE i <= Len(q)
      BY <2>3, <3>1 DEF Origin
    <3>2. CASE i > Len(q)
      <4>0. i - Len(q) \in 1..Len(t) /\ (i - Len(q)) + Len(q) = i
        BY <2>2, <2>3, <3>2
      <4>1. i - Len(q) \in 1..Len(t) /\ g[i] = t[i - Len(q)]
        BY <2>3, <4>0
      <4> QED BY <2>2, <3>2, <4>1 DEF Origin
    <3> QED BY <3>1, <3>2
  <2>5. Held(q) \subseteq Held(g)
    <3> SUFFICES ASSUME NEW n \in Held(q) PROVE n \in Held(g)
      OBVIOUS
    <3>1. PICK i \in 1..Len(q) : q[i].ra /\ q[i].no = n
      BY HeldMember
    <3>2. i \in 1..Len(g) /\ g[i] = q[i]
      BY <2>2, <2>3
    <3> QED BY <2>3, <3>1, <3>2, HeldMember
  <2>6. Held(g) \subseteq Held(q) \cup Held(f)
    <3> SUFFICES ASSUME NEW n \in Held(g) PROVE n \in Held(q) \cup Held(f)
      OBVIOUS
    <3>1. PICK i \in 1..Len(g) : g[i].ra /\ g[i].no = n
      BY <2>3, HeldMember
    <3>2. CASE i <= Len(q)
      BY <2>4, <3>1, <3>2, HeldMember DEF Origin
    <3>3. CASE i > Len(q)
      <4> DEFINE m == i - Len(q) + (k - 1)
      <4>0. Origin(g, q, f, i, k - 1) /\ ~(i <= Len(q))
        BY <2>2, <2>3, <2>4, <3>3
      <4>a. m \in 1..Len(f) /\ g[i] = f[m]
        BY <4>0 DEF Origin
      <4> HIDE DEF m
      <4>1. PICK j \in 1..Len(f) : g[i] = f[j]
        BY <4>a
      <4> QED BY <3>1, <4>1, HeldMember
    <3> QED BY <3>2, <3>3
  <2>7. k - 1 \in Nat
    BY <2>1
  <2> QED BY <2>3, <2>4, <2>5, <2>6, <2>7
<1> QED BY <1>1, <1>2

-----------------------------------------------------------------------------
(* Type correctness                                                        *)

\* Sequences and packets the actions build.
LEMMA BuiltTypes ==
  /\ <<>> \in Seq(Packet) /\ <<>> \in Seq(DataNo) /\ <<>> \in Seq(DataNo \cup {NAK})
  /\ \A p \in Packet : <<p>> \in Seq(Packet) /\ Len(<<p>>) = 1
  /\ \A n \in DataNo, b \in BOOLEAN : [no |-> n, ra |-> b] \in Packet
  /\ \A q \in Seq(Packet) : Len(q) = 1 => q[1] \in Packet
<1>1. \A n \in DataNo, b \in BOOLEAN : [no |-> n, ra |-> b] \in Packet
  BY DEF Packet
<1> QED BY <1>1

\* Every step keeps TypeOK.
LEMMA TypeStep == TypeOK /\ [Next]_vars => TypeOK'
<1> SUFFICES ASSUME TypeOK, [Next]_vars PROVE TypeOK'
  OBVIOUS
<1> USE ConstantsAssumption DEF TypeOK, queueVars, netVars, histVars
<1>1. CASE RequestCurrentData
  <2>1. mpNo' \in 0..MaxNo
    BY <1>1 DEF RequestCurrentData
  <2>2. PICK n \in DataNo, b \in BOOLEAN : currentData' = <<[no |-> n, ra |-> b]>>
    <3>1. \/ mpNo' \in DataNo /\ currentData' = <<[no |-> mpNo', ra |-> TRUE]>>
          \/ \E n \in DataNo : currentData' = <<[no |-> n, ra |-> FALSE]>>
      BY <1>1 DEF RequestCurrentData, DataNo
    <3> QED BY <3>1
  <2>3. currentData' \in Seq(Packet) /\ Len(currentData') = 1
    BY <2>2, BuiltTypes
  <2> QED BY <1>1, <2>1, <2>3 DEF RequestCurrentData
<1>2. CASE PushData
  <2>1. currentData[1] \in Packet
    <3>1. currentData \in Seq(Packet) /\ Len(currentData) = 1
      BY <1>2 DEF PushData
    <3> QED BY <3>1, BuiltTypes
  <2>2. /\ queue' \in Seq(Packet) /\ Held(queue') \subseteq DataNo
        /\ queue # <<>> => queue' # <<>>
    BY <1>2, <2>1, PushFacts, HeldType DEF PushData
  <2> QED BY <1>2, <2>2 DEF PushData
<1>3. ASSUME SaveOpen
      PROVE  /\ toLoad' \in Seq(Packet) /\ file' \in Seq(Packet) /\ queue' = queue
             /\ fault' \in BOOLEAN /\ lost' \subseteq DataNo
  BY <1>3, PrefixFacts, HeldType DEF SaveOpen
<1>4. ASSUME SaveWrite
      PROVE  /\ toLoad' \in Seq(Packet) /\ file' \in Seq(Packet) /\ queue' = queue
             /\ fault' \in BOOLEAN /\ lost' \subseteq DataNo
  BY <1>4, PrefixFacts, OverlayFacts DEF SaveWrite
<1>5. CASE ReaderSaveData
  <2>1. currentData' = <<>> /\ rpc' \in {"request", "write"}
    BY <1>5 DEF ReaderSaveData
  <2>2. CASE SaveOpen
    BY <1>3, <1>5, <2>1, <2>2, BuiltTypes DEF ReaderSaveData
  <2>3. CASE ~SaveOpen
    BY <1>5, <2>1, <2>3, BuiltTypes DEF ReaderSaveData, SaveOpenFails
  <2> QED BY <2>2, <2>3
<1>6. CASE ReaderSaveWrite
  BY <1>4, <1>6 DEF ReaderSaveWrite
<1>7. CASE LoadRecord
  <2>1. Head(toLoad) \in Packet /\ Tail(toLoad) \in Seq(Packet)
    BY <1>7, TailFacts DEF LoadRecord
  <2> QED BY <1>7, <2>1, PushFacts DEF LoadRecord
<1>8. CASE LoadDone
  BY <1>8 DEF LoadDone
<1>9. CASE NegoiateDataChannel
  <2>1. 0 \in 0..RetryLimit + 1
    OBVIOUS
  <2> QED BY <1>9, <2>1, BuiltTypes DEF NegoiateDataChannel, Connected
<1>10. CASE SendDone
  BY <1>10, BuiltTypes DEF SendDone, Return
<1>11. CASE DropStray
  BY <1>11, TailFacts DEF DropStray
<1>12. CASE WritePacket
  <2>1. Head(queue) \in Packet
    BY <1>12, TailFacts DEF WritePacket
  <2>2. Head(queue).no \in DataNo
    BY <2>1 DEF Packet
  <2> QED BY <1>12, <2>2 DEF WritePacket
<1>13. ASSUME NEW got, NEW closed \in BOOLEAN, CheckAck(got, closed), queue # <<>>
       PROVE  /\ queue' \in Seq(Packet)
              /\ spc' \in {"idle", "send"}
              /\ retry' \in 0..RetryLimit + 1
              /\ conn' \in BOOLEAN /\ link' \in BOOLEAN
              /\ wire' \in Seq(DataNo) /\ acks' \in Seq(DataNo \cup {NAK})
  <2>1. Tail(queue) \in Seq(Packet)
    BY <1>13, TailFacts
  <2>2. retry' \in 0..RetryLimit + 1
    BY <1>13 DEF CheckAck, GivesUp
  <2>3. /\ queue' = queue \/ queue' = Tail(queue)
        /\ spc' \in {"idle", "send"}
        /\ conn' \in BOOLEAN
        /\ link' = link \/ link' = FALSE
        /\ wire' = wire \/ wire' = <<>>
        /\ acks' = <<>>
    BY <1>13 DEF CheckAck, Return
  <2> QED BY <2>1, <2>2, <2>3, BuiltTypes
<1>14. CASE WriteFails
  <2>1. queue # <<>> /\ CheckAck(<<>>, FALSE)
    BY <1>14 DEF WriteFails
  <2> QED BY <1>13, <1>14, <2>1 DEF WriteFails
<1>15. CASE ReceiveAck
  BY <1>13, <1>15 DEF ReceiveAck
<1>16. CASE Reconnect
  BY <1>16, BuiltTypes DEF Reconnect, Connected, Return
<1>17. CASE MainSaveData
  BY <1>3, <1>17 DEF MainSaveData, SaveOpenFails
<1>18. CASE MainSaveWrite
  BY <1>4, <1>18 DEF MainSaveWrite
<1>19. CASE Crash
  <2>1. file' \in Seq(Packet)
    BY <1>19, PrefixFacts, OverlayFacts DEF Crash
  <2>2. crashes' \in 0..MaxCrashes
    BY <1>19 DEF Crash
  <2>3. lost' \subseteq DataNo
    BY <1>19 DEF Crash
  <2>4. /\ queue' = <<>> /\ toLoad' \in Seq(Packet) /\ currentData' = <<>>
        /\ spc' = "load" /\ rpc' = "none" /\ mpc' = "wait"
        /\ retry' = 0 /\ fault' = FALSE
        /\ conn' = FALSE /\ link' = FALSE /\ wire' = <<>> /\ acks' = <<>>
        /\ mpNo' = mpNo /\ accepted' = accepted /\ server' = server
    BY <1>19, <2>1 DEF Crash
  <2>5. 0 \in 0..RetryLimit + 1
    OBVIOUS
  <2> QED BY <2>1, <2>2, <2>3, <2>4, <2>5, BuiltTypes
<1>20. CASE ServerStores
  BY <1>20 DEF ServerStores
<1>21. CASE ServerRefuses
  BY <1>21 DEF ServerRefuses
<1>22. CASE LinkDown
  <2>1. wire' \in Seq(DataNo) /\ acks' \in Seq(DataNo \cup {NAK})
    BY <1>22, BuiltTypes DEF LinkDown
  <2> QED BY <1>22, <2>1 DEF LinkDown
<1>23. CASE UNCHANGED vars
  BY <1>23 DEF vars
<1> QED
  BY <1>1, <1>2, <1>5, <1>6, <1>7, <1>8, <1>9, <1>10, <1>11, <1>12, <1>14, <1>15,
     <1>16, <1>17, <1>18, <1>19, <1>20, <1>21, <1>22, <1>23
     DEF Next, Reader, Sender, Main, Environment

\* The initial state has the right types.
LEMMA TypeInit == Init => TypeOK
<1> SUFFICES ASSUME Init PROVE TypeOK
  OBVIOUS
<1> USE ConstantsAssumption DEF Init
<1>1. <<>> \in Seq(Packet) /\ <<>> \in Seq(DataNo) /\ <<>> \in Seq(DataNo \cup {NAK})
  OBVIOUS
<1>2. 0 \in 0..RetryLimit + 1 /\ 0 \in 0..MaxNo /\ 0 \in 0..MaxCrashes
  OBVIOUS
<1>3. rpc # "push"
  OBVIOUS
<1> QED BY <1>1, <1>2, <1>3 DEF TypeOK

\* Every reachable state has the right types; in particular SendCurrentData
\* never counts more than RetryLimit + 1 failures.
THEOREM TypeCorrect == Spec => []TypeOK
BY TypeInit, TypeStep, PTL DEF Spec

-----------------------------------------------------------------------------
(* The inductive invariant.  Steps that touch neither queue nor file are   *)
(* treated together, and so are the two that pop a packet.                 *)

Quiet ==
  /\ UNCHANGED <<queue, file, toLoad, fault, mpc, accepted, lost>>
  /\ server \subseteq server'
  /\ spc' = "load" <=> spc = "load"
  /\ rpc' = rpc \/ (rpc = "request" /\ rpc' = "push")

PopStep ==
  /\ queue # <<>> /\ queue' = Tail(queue)
  /\ Head(queue).ra => Head(queue).no \in server
  /\ spc # "load" /\ spc' # "load"
  /\ UNCHANGED <<file, toLoad, fault, mpc, rpc, accepted, lost, server>>

\* What each step is, as far as the queue and the file go.
LEMMA StepKinds ==
  ASSUME TypeOK, AcksStored, [Next]_vars
  PROVE  \/ Quiet \/ PopStep \/ PushData \/ ReaderSaveData \/ ReaderSaveWrite
         \/ LoadRecord \/ LoadDone \/ MainSaveData \/ MainSaveWrite \/ Crash
<1> USE DEF queueVars, netVars, histVars
<1>1. CASE RequestCurrentData
  BY <1>1 DEF RequestCurrentData, Quiet
<1>2. CASE NegoiateDataChannel
  BY <1>2 DEF NegoiateDataChannel, Quiet
<1>3. CASE SendDone
  BY <1>3 DEF SendDone, Return, Quiet
<1>4. CASE DropStray
  BY <1>4 DEF DropStray, PopStep
<1>5. CASE WritePacket
  BY <1>5 DEF WritePacket, Quiet
<1>6. CASE WriteFails
  <2>1. ~AckMatches(<<>>)
    BY DEF AckMatches
  <2>2. CheckAck(<<>>, FALSE) /\ spc = "send"
    BY <1>6 DEF WriteFails
  <2>3. queue' = queue /\ spc' # "load"
    BY <2>1, <2>2 DEF CheckAck, Return
  <2> QED BY <1>6, <2>2, <2>3 DEF WriteFails, Quiet
<1>7. CASE ReceiveAck
  <2>1. PICK closed : CheckAck(acks, closed)
    BY <1>7 DEF ReceiveAck
  <2>2. spc = "ack" /\ queue # <<>>
    BY <1>7 DEF ReceiveAck, TypeOK
  <2>3. AckMatches(acks) => Head(queue).no \in server
    <3> SUFFICES ASSUME AckMatches(acks) PROVE Head(queue).no \in server
      OBVIOUS
    <3>1. acks # <<>> /\ acks[1] # NAK /\ acks[1] = Head(queue).no
      BY DEF AckMatches
    <3>2. 1 \in DOMAIN acks
      BY <3>1 DEF TypeOK
    <3> QED BY <3>1, <3>2 DEF AcksStored
  <2>4. \/ queue' = queue /\ spc' # "load"
        \/ AckMatches(acks) /\ queue' = Tail(queue) /\ spc' # "load"
    BY <2>1 DEF CheckAck, Return
  <2> QED BY <1>7, <2>2, <2>3, <2>4 DEF ReceiveAck, Quiet, PopStep
<1>8. CASE Reconnect
  BY <1>8 DEF Reconnect, Return, Quiet
<1>9. CASE ServerStores
  BY <1>9 DEF ServerStores, Quiet
<1>10. CASE ServerRefuses
  BY <1>10 DEF ServerRefuses, Quiet
<1>11. CASE LinkDown
  BY <1>11 DEF LinkDown, Quiet
<1>12. CASE UNCHANGED vars
  BY <1>12 DEF vars, Quiet
<1> QED
  BY <1>1, <1>2, <1>3, <1>4, <1>5, <1>6, <1>7, <1>8, <1>9, <1>10, <1>11, <1>12
     DEF Next, Reader, Sender, Main, Environment

\* Answers are sent only by ServerStores, for what it stores, and by
\* ServerRefuses, and the server never forgets.
LEMMA AcksStep ==
  ASSUME TypeOK, AcksStored, [Next]_vars
  PROVE  AcksStored'
<1> USE DEF queueVars, netVars, histVars
<1>1. CASE ServerStores
  <2>1. Head(wire) \in server' /\ server \subseteq server' /\ acks' = Append(acks, Head(wire))
    BY <1>1 DEF ServerStores
  <2>2. acks \in Seq(DataNo \cup {NAK}) /\ Head(wire) \in DataNo \cup {NAK}
    BY <1>1 DEF ServerStores, TypeOK
  <2>3. ASSUME NEW i \in DOMAIN acks' PROVE acks'[i] = Head(wire) \/ (i \in DOMAIN acks /\ acks'[i] = acks[i])
    BY <2>1, <2>2
  <2> QED BY <2>1, <2>3 DEF AcksStored
<1>2. CASE ServerRefuses
  <2>1. server' = server /\ acks' = Append(acks, NAK)
    BY <1>2 DEF ServerRefuses
  <2>2. acks \in Seq(DataNo \cup {NAK}) /\ NAK \in DataNo \cup {NAK}
    BY DEF TypeOK
  <2>3. ASSUME NEW i \in DOMAIN acks' PROVE acks'[i] = NAK \/ (i \in DOMAIN acks /\ acks'[i] = acks[i])
    BY <2>1, <2>2
  <2> QED BY <2>1, <2>3 DEF AcksStored
<1>3. ASSUME acks' = <<>> PROVE AcksStored'
  BY <1>3 DEF AcksStored
<1>4. ASSUME acks' = acks, server' = server PROVE AcksStored'
  BY <1>4 DEF AcksStored
<1>5. CASE NegoiateDataChannel \/ SendDone \/ Reconnect \/ WriteFails \/ ReceiveAck
  <2>1. acks' = <<>>
    BY <1>5 DEF NegoiateDataChannel, SendDone, Reconnect, WriteFails, ReceiveAck,
                CheckAck, Connected, Return
  <2> QED BY <1>3, <2>1
<1>6. CASE Crash \/ LinkDown
  BY <1>3, <1>4, <1>6 DEF Crash, LinkDown
<1>7. CASE RequestCurrentData \/ PushData \/ ReaderSaveData \/ ReaderSaveWrite
  BY <1>4, <1>7 DEF RequestCurrentData, PushData, ReaderSaveData, ReaderSaveWrite
<1>8. CASE LoadRecord \/ LoadDone \/ DropStray \/ WritePacket
  BY <1>4, <1>8 DEF LoadRecord, LoadDone, DropStray, WritePacket
<1>9. CASE MainSaveData \/ MainSaveWrite \/ UNCHANGED vars
  BY <1>4, <1>9 DEF MainSaveData, MainSaveWrite, vars
<1> QED
  BY <1>1, <1>2, <1>5, <1>6, <1>7, <1>8, <1>9
     DEF Next, Reader, Sender, Main, Environment

\* The packet PushData and LoadRecord hand to Push.
LEMMA PushedPackets ==
  ASSUME TypeOK
  PROVE  /\ PushData => currentData[1] \in Packet
         /\ LoadRecord => toLoad # <<>> /\ Head(toLoad) \in Packet
<1>1. PushData => currentData \in Seq(Packet) /\ Len(currentData) = 1
  BY DEF PushData, TypeOK
<1>2. LoadRecord => toLoad \in Seq(Packet) /\ toLoad # <<>>
  BY DEF LoadRecord, TypeOK
<1> QED BY <1>1, <1>2, BuiltTypes, TailFacts

\* What a save leaves behind, by its two steps.
LEMMA SaveFacts ==
  ASSUME TypeOK
  PROVE  /\ SaveOpen => /\ queue' = queue /\ file' = <<>>
                        /\ toLoad' \in Prefixes(toLoad)
                        /\ fault' = (fault \/ spc = "load")
                        /\ lost' = lost \cup (Held(toLoad) \
                               (Held(toLoad') \cup Held(queue) \cup server))
         /\ SaveWrite => /\ queue' = queue /\ toLoad' = toLoad /\ lost' = lost
                         /\ Held(file') \subseteq Held(queue) \cup Held(file)
                         /\ ~fault' => Held(queue) \subseteq Held(file')
                         /\ fault /\ spc = "load" => fault'
<1>1. SaveOpen => /\ queue' = queue /\ file' = <<>>
                  /\ toLoad' \in Prefixes(toLoad)
                  /\ fault' = (fault \/ spc = "load")
                  /\ lost' = lost \cup (Held(toLoad) \
                         (Held(toLoad') \cup Held(queue) \cup server))
  BY DEF SaveOpen
<1>2. ASSUME SaveWrite
      PROVE  /\ queue' = queue /\ toLoad' = toLoad /\ lost' = lost
             /\ Held(file') \subseteq Held(queue) \cup Held(file)
             /\ ~fault' => Held(queue) \subseteq Held(file')
             /\ fault /\ spc = "load" => fault'
  <2>1. PICK q \in Prefixes(queue) :
               /\ file' \in Overlay(q, file)
               /\ fault' = (q # queue \/ (fault /\ spc = "load"))
    BY <1>2 DEF SaveWrite
  <2>2. q \in Seq(Packet) /\ Held(q) \subseteq Held(queue)
    BY PrefixFacts DEF TypeOK
  <2>3. Held(q) \subseteq Held(file') /\ Held(file') \subseteq Held(q) \cup Held(file)
    BY <2>1, <2>2, OverlayFacts DEF TypeOK
  <2> QED BY <1>2, <2>1, <2>2, <2>3 DEF SaveWrite
<1> QED BY <1>1, <1>2

\* The relations between program counters, file and queue are kept.
LEMMA WindowsStep ==
  ASSUME IInv, [Next]_vars
  PROVE  Windows'
<1> USE DEF queueVars, netVars, histVars
<1>0. TypeOK /\ AcksStored /\ Windows
  BY DEF IInv
<1>1. CASE Quiet
  BY <1>0, <1>1 DEF Quiet, Windows
<1>2. CASE PopStep
  <2>1. \A n \in Held(queue) : n \in Held(queue') \cup server'
    BY <1>0, <1>2, TailFacts DEF PopStep, TypeOK
  <2> QED BY <1>0, <1>2, <2>1 DEF PopStep, Windows
<1>3. CASE PushData
  <2>1. Held(queue) \subseteq Held(queue')
    BY <1>0, <1>3, PushedPackets, PushFacts DEF PushData, TypeOK
  <2> QED BY <1>0, <1>3, <2>1 DEF PushData, Windows
<1>4. CASE ReaderSaveData
  <2>1. spc' = spc /\ mpc' = mpc /\ server' = server /\ spc # "load" /\ toLoad = <<>>
    BY <1>0, <1>4 DEF ReaderSaveData, Windows
  <2>2. CASE SaveOpen
    <3>1. toLoad' = <<>>
      BY <1>0, <2>1, <2>2, SaveFacts, EmptyPrefix
    <3>2. Held(file') = {}
      BY <1>0, <2>2, SaveFacts, HeldEmpty
    <3> QED BY <2>1, <3>1, <3>2 DEF Windows
  <2>3. CASE ~SaveOpen
    BY <1>0, <1>4, <2>1, <2>3 DEF ReaderSaveData, SaveOpenFails, Windows
  <2> QED BY <2>2, <2>3
<1>5. CASE ReaderSaveWrite
  BY <1>0, <1>5, SaveFacts DEF ReaderSaveWrite, Windows
<1>6. CASE LoadRecord
  <2>1. Held(queue) \subseteq Held(queue')
    BY <1>0, <1>6, PushedPackets, PushFacts DEF LoadRecord, TypeOK
  <2> QED BY <1>0, <1>6, <2>1 DEF LoadRecord, Windows
<1>7. CASE LoadDone
  BY <1>0, <1>7 DEF LoadDone, Windows
<1>8. CASE MainSaveData
  <2>1. spc' = spc /\ rpc' = rpc /\ server' = server
    BY <1>8 DEF MainSaveData
  <2>2. CASE SaveOpen
    <3>1. spc # "load" => toLoad' = <<>>
      BY <1>0, <2>2, SaveFacts, EmptyPrefix DEF Windows
    <3>2. Held(file') = {}
      BY <1>0, <2>2, SaveFacts, HeldEmpty
    <3>3. spc = "load" => fault'
      BY <1>0, <2>2, SaveFacts
    <3> QED BY <1>0, <2>1, <3>1, <3>2, <3>3 DEF Windows
  <2>3. CASE ~SaveOpen
    BY <1>0, <1>8, <2>1, <2>3 DEF MainSaveData, SaveOpenFails, Windows
  <2> QED BY <2>2, <2>3
<1>9. CASE MainSaveWrite
  BY <1>0, <1>9, SaveFacts DEF MainSaveWrite, Windows
<1>10. CASE Crash
  BY <1>10 DEF Crash, Windows
<1> QED
  BY <1>0, <1>1, <1>2, <1>3, <1>4, <1>5, <1>6, <1>7, <1>8, <1>9, <1>10, StepKinds

\* Load moves readings from the file to the queue.
LEMMA LoadHeld ==
  ASSUME TypeOK, LoadRecord
  PROVE  Held(queue') \cup Held(toLoad') \subseteq Held(queue) \cup Held(toLoad)
<1>1. toLoad \in Seq(Packet) /\ queue \in Seq(Packet) /\ toLoad # <<>>
      /\ Head(toLoad) \in Packet
  BY PushedPackets DEF TypeOK
<1>2. queue' = Push(queue, Head(toLoad)) /\ toLoad' = Tail(toLoad)
  BY DEF LoadRecord
<1>3. Head(toLoad).ra => Head(toLoad).no \in Held(toLoad)
  <2>1. 1 \in 1..Len(toLoad) /\ Head(toLoad) = toLoad[1]
    BY <1>1
  <2> QED BY <1>1, <2>1, HeldMember
<1>4. Held(toLoad') \subseteq Held(toLoad)
  BY <1>1, <1>2, TailFacts
<1>5. \A n \in Held(queue') : n \in Held(queue) \/ (Head(toLoad).ra /\ n = Head(toLoad).no)
  BY <1>1, <1>2, PushFacts
<1> QED BY <1>3, <1>4, <1>5

\* The file covers the queue again whenever no save is due or under way.
LEMMA CoverStep ==
  ASSUME IInv, [Next]_vars
  PROVE  FileCoversQueue'
<1> USE DEF queueVars, netVars, histVars
<1>0. TypeOK /\ AcksStored /\ Windows /\ FileCoversQueue
  BY DEF IInv
<1>1. CASE Quiet
  BY <1>0, <1>1 DEF Quiet, FileCoversQueue, AtRisk
<1>2. CASE PopStep
  <2>1. Held(queue') \subseteq Held(queue)
    BY <1>0, <1>2, TailFacts DEF PopStep, TypeOK
  <2> QED BY <1>0, <1>2, <2>1 DEF PopStep, FileCoversQueue, AtRisk
<1>3. CASE PushData
  BY <1>3 DEF PushData, FileCoversQueue, AtRisk
<1>4. CASE ReaderSaveData
  <2>1. toLoad = <<>>
    BY <1>0, <1>4 DEF ReaderSaveData, Windows
  <2>2. CASE queue = <<>>
    <3>1. queue' = <<>> /\ toLoad' = <<>>
      BY <1>4, <2>1, <2>2 DEF ReaderSaveData
    <3> QED BY <3>1, HeldEmpty DEF FileCoversQueue
  <2>3. CASE queue # <<>>
    <3>1. AtRisk'
      BY <1>4, <2>3 DEF ReaderSaveData, SaveOpenFails, AtRisk
    <3> QED BY <3>1 DEF FileCoversQueue
  <2> QED BY <2>2, <2>3
<1>5. CASE ReaderSaveWrite
  <2>1. toLoad = <<>> /\ SaveWrite
    BY <1>0, <1>5 DEF ReaderSaveWrite, Windows
  <2> QED BY <1>0, <2>1, SaveFacts, HeldEmpty DEF FileCoversQueue, AtRisk
<1>6. CASE LoadRecord
  <2>1. Held(queue') \cup Held(toLoad') \subseteq Held(queue) \cup Held(toLoad)
    BY <1>0, <1>6, LoadHeld
  <2> QED BY <1>0, <1>6, <2>1 DEF LoadRecord, FileCoversQueue, AtRisk
<1>7. CASE LoadDone
  BY <1>0, <1>7 DEF LoadDone, FileCoversQueue, AtRisk, Windows
<1>8. CASE MainSaveData
  <2>1. CASE queue = <<>>
    BY <1>0, <1>8, <2>1 DEF MainSaveData, FileCoversQueue, AtRisk
  <2>2. CASE queue # <<>>
    <3>1. AtRisk'
      BY <1>8, <2>2 DEF MainSaveData, SaveOpenFails, AtRisk
    <3> QED BY <3>1 DEF FileCoversQueue
  <2> QED BY <2>1, <2>2
<1>9. CASE MainSaveWrite
  <2>1. CASE spc = "load"
    <3>1. fault'
      BY <1>0, <1>9, <2>1, SaveFacts DEF MainSaveWrite, Windows
    <3> QED BY <3>1 DEF FileCoversQueue, AtRisk
  <2>2. CASE spc # "load"
    <3>1. toLoad = <<>> /\ SaveWrite
      BY <1>0, <1>9, <2>2 DEF MainSaveWrite, Windows
    <3> QED BY <1>0, <3>1, SaveFacts, HeldEmpty DEF FileCoversQueue, AtRisk
  <2> QED BY <2>1, <2>2
<1>10. CASE Crash
  <2>1. queue' = <<>> /\ toLoad' = file'
    BY <1>10 DEF Crash
  <2> QED BY <2>1, HeldEmpty DEF FileCoversQueue
<1> QED
  BY <1>0, <1>1, <1>2, <1>3, <1>4, <1>5, <1>6, <1>7, <1>8, <1>9, <1>10, StepKinds

\* No step takes an undelivered reading out of the agent.
LEMMA KeptStep ==
  ASSUME IInv, [Next]_vars
  PROVE  AcceptedKept'
<1> USE DEF queueVars, netVars, histVars
<1>0. TypeOK /\ AcksStored /\ Windows /\ Loadable /\ AcceptedKept
  BY DEF IInv
<1>1. CASE Quiet
  BY <1>0, <1>1 DEF Quiet, AcceptedKept
<1>2. CASE PopStep
  <2>1. \A n \in Held(queue) : n \in Held(queue') \cup server
    BY <1>0, <1>2, TailFacts DEF PopStep, TypeOK
  <2> QED BY <1>0, <1>2, <2>1 DEF PopStep, AcceptedKept
<1>3. CASE PushData
  <2>1. Held(queue) \subseteq Held(queue')
    BY <1>0, <1>3, PushedPackets, PushFacts DEF PushData, TypeOK
  <2> QED BY <1>0, <1>3, <2>1 DEF PushData, AcceptedKept
<1>4. CASE ReaderSaveData
  <2>1. accepted' = accepted /\ server' = server
    BY <1>4 DEF ReaderSaveData
  <2>2. CASE SaveOpen
    BY <1>0, <2>1, <2>2, SaveFacts DEF AcceptedKept
  <2>3. CASE ~SaveOpen
    BY <1>0, <1>4, <2>1, <2>3 DEF ReaderSaveData, SaveOpenFails, AcceptedKept
  <2> QED BY <2>2, <2>3
<1>5. CASE ReaderSaveWrite
  BY <1>0, <1>5, SaveFacts DEF ReaderSaveWrite, AcceptedKept
<1>6. CASE LoadRecord
  <2> DEFINE h == Head(toLoad)
  <2>1. /\ toLoad \in Seq(Packet) /\ queue \in Seq(Packet) /\ toLoad # <<>>
        /\ h \in Packet /\ h = toLoad[1] /\ 1 \in DOMAIN toLoad
    BY <1>0, <1>6, PushedPackets, TailFacts DEF TypeOK
  <2>2. /\ queue' = Push(queue, h) /\ toLoad' = Tail(toLoad)
        /\ UNCHANGED <<accepted, server, lost>>
    BY <1>6 DEF LoadRecord
  <2> HIDE DEF h
  <2>3. h.ra => h.no \in Held(queue') \cup server
    <3>1. CASE \E i \in DOMAIN queue : queue[i].no = h.no
      <4>1. PICK i \in DOMAIN queue : queue[i].no = h.no
        BY <3>1
      <4>2. h.ra => queue[i].ra \/ h.no \in server
        BY <1>0, <2>1, <4>1 DEF Loadable
      <4>3. queue[i].ra => h.no \in Held(queue)
        BY <2>1, <4>1, HeldMember
      <4>4. Held(queue) \subseteq Held(queue')
        BY <2>1, <2>2, PushFacts
      <4> QED BY <4>2, <4>3, <4>4
    <3>2. CASE \A i \in DOMAIN queue : queue[i].no # h.no
      BY <2>1, <2>2, <3>2, PushFacts
    <3> QED BY <3>1, <3>2
  <2>4. Held(queue) \subseteq Held(queue')
    BY <2>1, <2>2, PushFacts
  <2>5. \A n \in Held(toLoad) : n \in Held(toLoad') \/ (h.ra /\ n = h.no)
    BY <2>1, <2>2, TailFacts DEF h
  <2> QED BY <1>0, <2>2, <2>3, <2>4, <2>5 DEF AcceptedKept
<1>7. CASE LoadDone
  BY <1>0, <1>7 DEF LoadDone, AcceptedKept
<1>8. CASE MainSaveData
  <2>1. accepted' = accepted /\ server' = server
    BY <1>8 DEF MainSaveData
  <2>2. CASE SaveOpen
    BY <1>0, <2>1, <2>2, SaveFacts DEF AcceptedKept
  <2>3. CASE ~SaveOpen
    BY <1>0, <1>8, <2>1, <2>3 DEF MainSaveData, SaveOpenFails, AcceptedKept
  <2> QED BY <2>2, <2>3
<1>9. CASE MainSaveWrite
  BY <1>0, <1>9, SaveFacts DEF MainSaveWrite, AcceptedKept
<1>10. CASE Crash
  <2>1. /\ lost' = accepted \ (server \cup Held(file')) /\ toLoad' = file'
        /\ accepted' = accepted /\ server' = server
    BY <1>10 DEF Crash
  <2> QED BY <2>1 DEF AcceptedKept
<1> QED
  BY <1>0, <1>1, <1>2, <1>3, <1>4, <1>5, <1>6, <1>7, <1>8, <1>9, <1>10, StepKinds

\* Unshadowed survives dropping records at either end.
LEMMA UnshadowedParts ==
  ASSUME NEW s \in Seq(Packet), Unshadowed(s)
  PROVE  /\ \A q \in Prefixes(s) : Unshadowed(q)
         /\ s # <<>> => Unshadowed(Tail(s))
<1>1. ASSUME NEW q \in Prefixes(s) PROVE Unshadowed(q)
  <2>1. q \in Seq(Packet) /\ Len(q) <= Len(s) /\ \A i \in 1..Len(q) : q[i] = s[i]
    BY PrefixFacts
  <2> QED BY <2>1 DEF Unshadowed
<1>2. ASSUME s # <<>> PROVE Unshadowed(Tail(s))
  <2> DEFINE t == Tail(s)
  <2>1. t \in Seq(Packet) /\ Len(t) = Len(s) - 1 /\ \A i \in 1..Len(s) - 1 : t[i] = s[i + 1]
    BY <1>2, TailFacts
  <2> HIDE DEF t
  <2>2. ASSUME NEW i \in DOMAIN t, NEW j \in DOMAIN t, i < j, t[j].ra, t[i].no = t[j].no
        PROVE  t[i].ra \/ t[j].no \in server
    <3>1. i + 1 \in DOMAIN s /\ j + 1 \in DOMAIN s /\ i + 1 < j + 1
          /\ t[i] = s[i + 1] /\ t[j] = s[j + 1]
      BY <2>1, <2>2
    <3> QED BY <2>2, <3>1 DEF Unshadowed
  <2> QED BY <2>2 DEF Unshadowed, t
<1> QED BY <1>1, <1>2

\* A save that overlaps another one leaves no shadowed reading in the file:
\* what remains of the other's records was in the queue a moment ago.
LEMMA OverlayUnshadowed ==
  ASSUME TypeOK, Loadable, Windows, "write" \in {rpc, mpc},
         NEW q \in Prefixes(queue), NEW g \in Overlay(q, file)
  PROVE  Unshadowed(g)
<1>1. queue \in Seq(Packet) /\ file \in Seq(Packet)
  BY DEF TypeOK
<1>2. q \in Seq(Packet) /\ Len(q) <= Len(queue) /\ \A i \in 1..Len(q) : q[i] = queue[i]
  BY <1>1, PrefixFacts
<1>3. PICK d \in Nat : \A i \in 1..Len(g) : Origin(g, q, file, i, d)
  BY <1>1, <1>2, OverlayFacts
<1>4. g \in Seq(Packet)
  BY <1>1, <1>2, OverlayFacts
<1>5. Held(file) \subseteq Held(queue) \cup server
  BY DEF Windows
<1>6. ASSUME NEW i \in 1..Len(g), NEW j \in 1..Len(g), i < j, g[j].ra, g[i].no = g[j].no
      PROVE  g[i].ra \/ g[j].no \in server
  <2>1. CASE j <= Len(q)
    <3>1. i \in DOMAIN queue /\ j \in DOMAIN queue /\ g[i] = queue[i] /\ g[j] = queue[j]
      BY <1>1, <1>2, <1>3, <1>6, <2>1 DEF Origin
    <3>2. i = j
      BY <1>6, <3>1 DEF Loadable
    <3> QED BY <1>6, <3>2
  <2>2. CASE i <= Len(q) /\ j > Len(q)
    <3> DEFINE b == j - Len(q) + d
    <3>0. Origin(g, q, file, j, d) /\ ~(j <= Len(q))
      BY <1>2, <1>3, <2>2
    <3>a. b \in 1..Len(file) /\ g[j] = file[b]
      BY <3>0 DEF Origin
    <3> HIDE DEF b
    <3>1. PICK k \in 1..Len(file) : g[j] = file[k]
      BY <3>a
    <3>2. g[j].no \in Held(queue) \cup server
      BY <1>1, <1>5, <1>6, <3>1, HeldMember
    <3>3. i \in DOMAIN queue /\ g[i] = queue[i]
      BY <1>1, <1>2, <1>3, <2>2 DEF Origin
    <3>4. ASSUME g[j].no \in Held(queue) PROVE g[i].ra
      <4>1. PICK m \in 1..Len(queue) : queue[m].ra /\ queue[m].no = g[j].no
        BY <1>1, <3>4, HeldMember
      <4>2. m \in DOMAIN queue /\ queue[m].no = queue[i].no
        BY <1>1, <1>6, <3>3, <4>1
      <4>3. m = i
        BY <3>3, <4>2 DEF Loadable
      <4> QED BY <3>3, <4>1, <4>3
    <3> QED BY <3>2, <3>4
  <2>3. CASE i > Len(q)
    <3> DEFINE a == i - Len(q) + d
               b == j - Len(q) + d
    <3>1. a \in DOMAIN file /\ g[i] = file[a]
      BY <1>1, <1>3, <2>3 DEF Origin
    <3>2. b \in DOMAIN file /\ g[j] = file[b]
      BY <1>1, <1>2, <1>3, <1>6, <2>3 DEF Origin
    <3>3. a < b
      BY <1>2, <1>3, <1>6
    <3> HIDE DEF a, b
    <3> QED BY <1>6, <3>1, <3>2, <3>3 DEF Loadable, Unshadowed
  <2> QED BY <1>2, <2>1, <2>2, <2>3
<1> QED BY <1>4, <1>6 DEF Unshadowed

\* Every step keeps the records loadable.
LEMMA LoadableStep ==
  ASSUME IInv, [Next]_vars
  PROVE  Loadable'
<1> USE DEF queueVars, netVars, histVars
<1>0. TypeOK /\ AcksStored /\ Windows /\ Loadable
  BY DEF IInv
<1> DEFINE Unique(q) == \A i, j \in DOMAIN q : q[i].no = q[j].no => i = j
<1>a. /\ queue \in Seq(Packet) /\ toLoad \in Seq(Packet) /\ file \in Seq(Packet)
      /\ Unique(queue) /\ Unshadowed(toLoad) /\ Unshadowed(file)
  BY <1>0 DEF TypeOK, Loadable
<1>b. ASSUME NEW p \in Packet PROVE Unique(Push(queue, p))
  <2>1. CASE \E i \in DOMAIN queue : queue[i].no = p.no
    BY <1>a, <2>1, PushFacts
  <2>2. CASE \A i \in DOMAIN queue : queue[i].no # p.no
    <3> DEFINE r == Append(queue, p)
    <3>1. /\ DOMAIN r = 1..Len(queue) + 1 /\ DOMAIN queue = 1..Len(queue)
          /\ \A i \in 1..Len(queue) : r[i] = queue[i]
          /\ r[Len(queue) + 1] = p /\ Len(queue) \in Nat
      BY <1>a
    <3>2. Push(queue, p) = r
      BY <1>a, <2>2, PushFacts
    <3> HIDE DEF r
    <3>3. Unique(r)
      BY <1>a, <2>2, <3>1
    <3> QED BY <3>2, <3>3
  <2> QED BY <2>1, <2>2
<1>1. CASE Quiet
  BY <1>0, <1>1 DEF Quiet, Loadable, Unshadowed
<1>2. CASE PopStep
  <2>1. toLoad' = <<>> /\ file' = file /\ server' = server /\ queue' = Tail(queue)
    BY <1>0, <1>2 DEF PopStep, Windows
  <2>2. /\ DOMAIN queue' = 1..Len(queue) - 1 /\ DOMAIN queue = 1..Len(queue)
        /\ \A i \in 1..Len(queue) - 1 : queue'[i] = queue[i + 1]
    BY <1>2, <1>a, TailFacts DEF PopStep
  <2>3. Len(queue) \in Nat
    BY <1>a
  <2>4. ASSUME NEW i \in DOMAIN queue', NEW j \in DOMAIN queue', queue'[i].no = queue'[j].no
        PROVE  i = j
    <3>1. /\ i + 1 \in DOMAIN queue /\ queue'[i] = queue[i + 1]
          /\ j + 1 \in DOMAIN queue /\ queue'[j] = queue[j + 1]
      BY <2>2, <2>3
    <3>2. i + 1 = j + 1
      BY <1>a, <2>4, <3>1
    <3> QED BY <2>2, <2>3, <3>2
  <2> QED BY <1>a, <2>1, <2>4 DEF Loadable, Unshadowed
<1>3. CASE PushData
  <2>1. toLoad' = <<>> /\ file' = file /\ server' = server
    BY <1>0, <1>3 DEF PushData, Windows
  <2>2. currentData[1] \in Packet /\ queue' = Push(queue, currentData[1])
    BY <1>0, <1>3, PushedPackets DEF PushData
  <2>3. Unique(queue')
    <3> HIDE DEF Unique
    <3> QED BY <1>b, <2>2
  <2> QED BY <1>a, <2>1, <2>3 DEF Loadable, Unshadowed
<1>4. ASSUME SaveOpen, server' = server PROVE Loadable'
  <2>1. queue' = queue /\ file' = <<>> /\ toLoad' \in Prefixes(toLoad)
    BY <1>0, <1>4, SaveFacts
  <2>2. Unshadowed(toLoad')
    BY <1>a, <2>1, UnshadowedParts
  <2>3. /\ DOMAIN toLoad' \subseteq DOMAIN toLoad
        /\ \A i \in DOMAIN toLoad' : toLoad'[i] = toLoad[i]
    BY <1>a, <2>1, PrefixFacts
  <2> QED BY <1>0, <1>4, <2>1, <2>2, <2>3 DEF Loadable, Unshadowed
<1>5. ASSUME SaveWrite, server' = server, "write" \in {rpc, mpc} PROVE Loadable'
  <2>1. PICK q \in Prefixes(queue) : file' \in Overlay(q, file)
    BY <1>5 DEF SaveWrite
  <2>2. Unshadowed(file')
    BY <1>0, <1>5, <2>1, OverlayUnshadowed
  <2>3. queue' = queue /\ toLoad' = toLoad
    BY <1>5 DEF SaveWrite
  <2> QED BY <1>0, <1>5, <2>2, <2>3 DEF Loadable, Unshadowed
<1>6. CASE ReaderSaveData \/ MainSaveData
  <2>1. server' = server
    BY <1>6 DEF ReaderSaveData, MainSaveData
  <2>2. CASE ~SaveOpen
    <3>1. UNCHANGED <<queue, file, toLoad>>
      BY <1>6, <2>2 DEF ReaderSaveData, MainSaveData, SaveOpenFails
    <3> QED BY <1>0, <2>1, <3>1 DEF Loadable, Unshadowed
  <2> QED BY <1>4, <2>1, <2>2
<1>7. CASE ReaderSaveWrite \/ MainSaveWrite
  BY <1>5, <1>7 DEF ReaderSaveWrite, MainSaveWrite
<1>8. CASE LoadRecord
  <2> DEFINE h == Head(toLoad)
  <2>1. h \in Packet /\ toLoad # <<>> /\ h = toLoad[1]
    BY <1>0, <1>8, <1>a, PushedPackets, TailFacts
  <2>2. /\ queue' = Push(queue, h) /\ toLoad' = Tail(toLoad)
        /\ file' = file /\ server' = server
    BY <1>8 DEF LoadRecord
  <2> HIDE DEF h
  <2>3. Unique(queue')
    <3> HIDE DEF Unique
    <3> QED BY <1>b, <2>1, <2>2
  <2>4. Unshadowed(toLoad')
    BY <1>a, <2>1, <2>2, UnshadowedParts
  <2>5. ASSUME NEW i \in DOMAIN queue'
        PROVE  (i \in DOMAIN queue /\ queue'[i] = queue[i]) \/ queue'[i] = h
    BY <1>a, <2>1, <2>2, PushPositions
  <2>6. ASSUME NEW i \in DOMAIN queue', NEW j \in DOMAIN toLoad',
               toLoad'[j].ra, queue'[i].no = toLoad'[j].no
        PROVE  queue'[i].ra \/ toLoad'[j].no \in server
    <3>1. j + 1 \in DOMAIN toLoad /\ toLoad'[j] = toLoad[j + 1] /\ 1 < j + 1 /\ 1 \in DOMAIN toLoad
      BY <1>a, <2>1, <2>2, TailFacts
    <3>2. CASE i \in DOMAIN queue /\ queue'[i] = queue[i]
      BY <1>0, <2>6, <3>1, <3>2 DEF Loadable
    <3>3. CASE queue'[i] = h
      BY <1>a, <2>1, <2>6, <3>1, <3>3 DEF Unshadowed
    <3> QED BY <2>5, <3>2, <3>3
  <2> QED BY <1>a, <2>2, <2>3, <2>4, <2>6 DEF Loadable, Unshadowed
<1>9. CASE LoadDone
  BY <1>0, <1>9 DEF LoadDone, Loadable, Unshadowed
<1>10. CASE Crash
  <2>1. queue' = <<>> /\ toLoad' = file' /\ server' = server
    BY <1>10 DEF Crash
  <2>2. Unshadowed(file')
    <3>1. CASE "write" \in {rpc, mpc}
      BY <1>0, <1>10, <3>1, OverlayUnshadowed DEF Crash
    <3>2. CASE "write" \notin {rpc, mpc}
      BY <1>10, <1>a, <3>2 DEF Crash
    <3> QED BY <3>1, <3>2
  <2> QED BY <2>1, <2>2 DEF Loadable, Unshadowed
<1> HIDE DEF Unique
<1> QED
  BY <1>0, <1>1, <1>2, <1>3, <1>6, <1>7, <1>8, <1>9, <1>10, StepKinds

\* IInv is inductive.
LEMMA IInvStep == IInv /\ [Next]_vars => IInv'
BY TypeStep, AcksStep, WindowsStep, CoverStep, KeptStep, LoadableStep DEF IInv

\* IInv holds initially.
LEMMA IInvInit == Init => IInv
<1> SUFFICES ASSUME Init PROVE IInv
  OBVIOUS
<1>1. TypeOK
  BY TypeInit
<1>2. AcksStored /\ Loadable /\ Windows
  BY DEF Init, AcksStored, Loadable, Windows, Unshadowed
<1>3. AcceptedKept /\ FileCoversQueue
  BY HeldEmpty DEF Init, AcceptedKept, FileCoversQueue
<1> QED BY <1>1, <1>2, <1>3 DEF IInv

\* SendCurrentData pops, and a restart's Load passes over, only what the
\* server has: no acknowledged, repeated or re-read packet makes the agent
\* drop another reading.
THEOREM ReadingsKept == Spec => []AcceptedKept
<1>1. IInv => AcceptedKept
  BY DEF IInv
<1> QED BY IInvInit, IInvStep, <1>1, PTL DEF Spec

\* Outside the intervals AtRisk names, ./Current.data holds every queued
\* reading, with any interleaving of the reader's and the main thread's
\* DataPacketQueue::Save.
THEOREM FileCovers == Spec => []FileCoversQueue
<1>1. IInv => FileCoversQueue
  BY DEF IInv
<1> QED BY IInvInit, IInvStep, <1>1, PTL DEF Spec

\* A reading is forgotten only by a restart in such an interval, or by the
\* main thread's save truncating the file under a running Load.
THEOREM LossesExplained == Spec => LossOnlyAtRisk
<1> DEFINE Explained == lost' \subseteq lost \/ AtRisk \/ (spc = "load" /\ mpc' = "write")
<1>1. ASSUME IInv, [Next]_vars PROVE [Explained]_vars
  <2> USE DEF queueVars, netVars, histVars
  <2>0. TypeOK /\ AcksStored /\ Windows /\ AcceptedKept /\ FileCoversQueue
    BY <1>1 DEF IInv
  <2>1. CASE Quiet \/ PopStep \/ LoadRecord \/ LoadDone
    BY <2>1 DEF Quiet, PopStep, LoadRecord, LoadDone
  <2>2. CASE PushData
    BY <2>2 DEF PushData
  <2>3. CASE ReaderSaveData \/ ReaderSaveWrite \/ MainSaveWrite
    BY <2>3 DEF ReaderSaveData, ReaderSaveWrite, MainSaveWrite, AtRisk
  <2>4. CASE MainSaveData
    <3>1. CASE spc # "load"
      <4>1. Held(toLoad) = {}
        BY <2>0, <3>1, HeldEmpty DEF Windows
      <4> QED BY <2>4, <4>1 DEF MainSaveData, SaveOpen, SaveOpenFails
    <3>2. CASE spc = "load"
      BY <2>4, <3>2 DEF MainSaveData, SaveOpenFails
    <3> QED BY <3>1, <3>2
  <2>5. CASE Crash
    <3>1. ASSUME ~AtRisk PROVE lost' \subseteq lost
      <4>1. file' = file /\ lost' = accepted \ (server \cup Held(file'))
        BY <2>5, <3>1 DEF Crash, AtRisk
      <4> QED BY <2>0, <3>1, <4>1 DEF AcceptedKept, FileCoversQueue
    <3> QED BY <3>1
  <2> QED BY <1>1, <2>0, <2>1, <2>2, <2>3, <2>4, <2>5, StepKinds
<1> QED BY IInvInit, IInvStep, <1>1, PTL DEF Spec, LossOnlyAtRisk

-----------------------------------------------------------------------------
(* StoreForward implements Delivery.  The invariant of the refinement      *)
(* says which readings the agent holds, what is on the wire, and that the  *)
(* undelivered readings come in the order of their numbers.                *)

\* What the agent holds was accepted and is not forgotten, what is forgotten
\* was accepted and is not stored, and the post's numbers ascend.
Known ==
  /\ Held(queue) \cup Held(toLoad) \cup Held(file) \subseteq accepted \ lost
  /\ lost \subseteq accepted \ server
  /\ \A n \in accepted : n <= mpNo
  /\ rpc = "push" /\ currentData[1].ra => currentData[1].no = mpNo

\* A packet in transit is the one at the front of the queue, or a repetition
\* of one that the server already has.
OnWire ==
  /\ wire # <<>> => spc # "load"
  /\ \A i \in DOMAIN wire :
       \/ wire[i] \in server
       \/ queue # <<>> /\ Head(queue).ra /\ Head(queue).no = wire[i]

\* No undelivered reading stands behind a later one.
Ordered(s) ==
  \A i, j \in DOMAIN s :
    i < j /\ s[i].ra /\ s[j].ra => s[i].no <= s[j].no \/ s[j].no \in server

\* The number is in q, or among the first k of the packets of s.
Before(n, k, s, q) ==
  (\E l \in 1..k : s[l].no = n) \/ \E l \in DOMAIN q : q[l].no = n

\* The same, but a number may be repeated: a file that two savers wrote at
\* once holds records twice, and Push passes over the second.
Mergeable(s) ==
  \A i, j \in DOMAIN s :
    i < j /\ s[i].ra /\ s[j].ra =>
      \/ s[i].no <= s[j].no \/ s[j].no \in server
      \/ \E l \in 1..i - 1 : s[l].no = s[j].no

\* The queue is in order, and will be when Load has read the rest of the file.
InOrder ==
  /\ Ordered(queue)
  /\ \A i \in DOMAIN queue, j \in DOMAIN toLoad :
       queue[i].ra /\ toLoad[j].ra =>
         \/ queue[i].no <= toLoad[j].no \/ toLoad[j].no \in server
         \/ Before(toLoad[j].no, 0, toLoad, queue)
  /\ \A i, j \in DOMAIN toLoad :
       i < j /\ toLoad[i].ra /\ toLoad[j].ra =>
         \/ toLoad[i].no <= toLoad[j].no \/ toLoad[j].no \in server
         \/ Before(toLoad[j].no, i - 1, toLoad, queue)
  /\ Mergeable(file)

\* Two saves overlap in a file that both have emptied; what one save writes
\* over is what the other wrote from the queue.
Saves ==
  /\ "write" \in {rpc, mpc} => Ordered(file)
  /\ rpc = "write" /\ mpc = "write" => file = <<>>

\* The inductive invariant of the refinement.
RInv == IInv /\ Known /\ OnWire /\ InOrder /\ Saves

\* The post's numbers only grow, and a packet that is about to be queued
\* carries the newest one if it is a reading.
LEMMA NumberStep ==
  ASSUME TypeOK, Known, [Next]_vars
  PROVE  /\ mpNo <= mpNo'
         /\ rpc' = "push" /\ currentData'[1].ra => currentData'[1].no = mpNo'
<1> USE DEF queueVars, netVars, histVars
<1>0. mpNo \in Nat /\ mpNo <= mpNo
  BY ConstantsAssumption DEF TypeOK
<1>1. CASE RequestCurrentData
  <2>1. \/ mpNo' \in mpNo..MaxNo /\ currentData' = <<[no |-> mpNo', ra |-> TRUE]>>
        \/ mpNo' = mpNo /\ \E n \in DataNo : currentData' = <<[no |-> n, ra |-> FALSE]>>
    BY <1>1 DEF RequestCurrentData
  <2>2. CASE mpNo' \in mpNo..MaxNo /\ currentData' = <<[no |-> mpNo', ra |-> TRUE]>>
    <3>1. mpNo <= mpNo' BY <1>0, <2>2, ConstantsAssumption
    <3>2. currentData'[1] = [no |-> mpNo', ra |-> TRUE] BY <2>2
    <3> QED BY <3>1, <3>2
  <2>3. ASSUME NEW n \in DataNo, mpNo' = mpNo, currentData' = <<[no |-> n, ra |-> FALSE]>>
        PROVE  mpNo <= mpNo' /\ ~currentData'[1].ra
    <3>1. currentData'[1] = [no |-> n, ra |-> FALSE] BY <2>3
    <3> QED BY <1>0, <2>3, <3>1
  <2> QED BY <2>1, <2>2, <2>3
<1>2. CASE PushData \/ ReaderSaveData \/ ReaderSaveWrite \/ LoadDone \/ Crash
  BY <1>0, <1>2 DEF PushData, ReaderSaveData, ReaderSaveWrite, LoadDone, Crash
<1>3. ASSUME UNCHANGED <<mpNo, rpc, currentData>>
      PROVE  /\ mpNo <= mpNo'
             /\ rpc' = "push" /\ currentData'[1].ra => currentData'[1].no = mpNo'
  BY <1>0, <1>3 DEF Known
<1>4. CASE LoadRecord \/ NegoiateDataChannel \/ SendDone \/ DropStray \/ WritePacket
  BY <1>3, <1>4 DEF LoadRecord, NegoiateDataChannel, SendDone, DropStray, WritePacket
<1>5. CASE WriteFails \/ ReceiveAck \/ Reconnect \/ Main
  BY <1>3, <1>5 DEF WriteFails, ReceiveAck, Reconnect, Main, MainSaveData, MainSaveWrite
<1>6. CASE ServerStores \/ ServerRefuses \/ LinkDown \/ UNCHANGED vars
  BY <1>3, <1>6 DEF ServerStores, ServerRefuses, LinkDown, vars
<1> QED
  BY <1>1, <1>2, <1>4, <1>5, <1>6 DEF Next, Reader, Sender, Environment

\* Only ServerStores adds to what the server has.
LEMMA StoreStep ==
  ASSUME [Next]_vars
  PROVE  server' = server \/ ServerStores
<1> USE DEF queueVars, netVars, histVars
<1>1. CASE Reader
  BY <1>1 DEF Reader, RequestCurrentData, PushData, ReaderSaveData, ReaderSaveWrite
<1>2. CASE LoadRecord \/ LoadDone \/ NegoiateDataChannel \/ SendDone \/ DropStray
  BY <1>2 DEF LoadRecord, LoadDone, NegoiateDataChannel, SendDone, DropStray
<1>3. CASE WritePacket \/ WriteFails \/ ReceiveAck \/ Reconnect
  BY <1>3 DEF WritePacket, WriteFails, ReceiveAck, Reconnect
<1>4. CASE Main
  BY <1>4 DEF Main, MainSaveData, MainSaveWrite
<1>5. CASE ServerRefuses \/ LinkDown \/ Crash \/ UNCHANGED vars
  BY <1>5 DEF ServerRefuses, LinkDown, Crash, vars
<1> QED BY <1>1, <1>2, <1>3, <1>4, <1>5 DEF Next, Sender, Environment

\* A packet on the wire that the server does not have yet is owed to it, and
\* is the first in the queue.
LEMMA FirstOnWire ==
  ASSUME TypeOK, Known, OnWire, wire # <<>>, Head(wire) \notin server
  PROVE  /\ queue # <<>> /\ Head(queue).ra /\ Head(queue).no = Head(wire)
         /\ Head(wire) \in Held(queue)
         /\ Head(wire) \in accepted \ (server \cup lost)
<1>1. wire \in Seq(DataNo) /\ queue \in Seq(Packet) BY DEF TypeOK
<1>2. Head(wire) = wire[1] /\ 1 \in DOMAIN wire BY <1>1
<1>3. queue # <<>> /\ Head(queue).ra /\ Head(queue).no = Head(wire)
  BY <1>2 DEF OnWire
<1>4. 1 \in 1..Len(queue) /\ Head(queue) = queue[1] BY <1>1, <1>3
<1>5. Head(wire) \in Held(queue) BY <1>1, <1>3, <1>4, HeldMember
<1> QED BY <1>3, <1>5 DEF Known

\* What a restart finds in the file was in the file or in the queue.
LEMMA CrashHeld ==
  ASSUME TypeOK, Crash
  PROVE  Held(file') \subseteq Held(queue) \cup Held(file)
<1>1. queue \in Seq(Packet) /\ file \in Seq(Packet) BY DEF TypeOK
<1>2. CASE "write" \in {rpc, mpc}
  <2>1. PICK q \in Prefixes(queue) : file' \in Overlay(q, file)
    BY <1>2 DEF Crash
  <2>2. q \in Seq(Packet) /\ Held(q) \subseteq Held(queue)
    BY <1>1, PrefixFacts
  <2>3. Held(file') \subseteq Held(q) \cup Held(file)
    BY <1>1, <2>1, <2>2, OverlayFacts
  <2> QED BY <2>2, <2>3
<1>3. CASE "write" \notin {rpc, mpc} BY <1>3 DEF Crash
<1> QED BY <1>2, <1>3

\* Every step keeps Known.
LEMMA KnownStep ==
  ASSUME IInv, Known, OnWire, [Next]_vars
  PROVE  Known'
<1> USE DEF queueVars, netVars, histVars
<1>0. TypeOK /\ AcksStored /\ Windows
  BY DEF IInv
<1>a. /\ Held(queue) \subseteq accepted \ lost /\ Held(toLoad) \subseteq accepted \ lost
      /\ Held(file) \subseteq accepted \ lost /\ lost \subseteq accepted \ server
      /\ \A n \in accepted : n <= mpNo
  BY DEF Known
<1>b. /\ mpNo <= mpNo' /\ mpNo \in Int /\ mpNo' \in Int /\ accepted \subseteq Int
      /\ rpc' = "push" /\ currentData'[1].ra => currentData'[1].no = mpNo'
  <2>1. TypeOK' BY <1>0, TypeStep
  <2> QED BY <1>0, <2>1, NumberStep, ConstantsAssumption DEF TypeOK, DataNo
<1>c. \A n \in accepted : n <= mpNo' BY <1>a, <1>b
<1>1. CASE Quiet
  <2>1. lost \subseteq accepted \ server'
    <3>1. CASE server' = server BY <1>a, <3>1
    <3>2. CASE ServerStores
      <4>1. server' = server \cup {Head(wire)} /\ wire # <<>> BY <3>2 DEF ServerStores
      <4>2. Head(wire) \notin lost BY <1>0, <1>a, <4>1, FirstOnWire
      <4> QED BY <1>a, <4>1, <4>2
    <3> QED BY <3>1, <3>2, StoreStep
  <2> QED BY <1>1, <1>a, <1>b, <1>c, <2>1 DEF Quiet, Known
<1>2. CASE PopStep
  <2>1. Held(queue') \subseteq Held(queue)
    BY <1>0, <1>2, TailFacts DEF PopStep, TypeOK
  <2> QED BY <1>2, <1>a, <1>b, <1>c, <2>1 DEF PopStep, Known
<1>3. CASE PushData
  <2> DEFINE p == currentData[1]
  <2>1. p \in Packet /\ queue \in Seq(Packet) BY <1>0, <1>3, PushedPackets DEF TypeOK
  <2>2. queue' = Push(queue, p) BY <1>3 DEF PushData
  <2>3. \A n \in Held(queue') : n \in Held(queue) \/ (p.ra /\ n = p.no)
    BY <2>1, <2>2, PushFacts
  <2>4. p.ra => p.no = mpNo BY <1>3 DEF PushData, Known
  <2> HIDE DEF p
  <2>5. /\ accepted' = accepted \cup Held(queue') /\ lost' = lost \ Held(queue')
        /\ toLoad' = toLoad /\ file' = file /\ server' = server /\ mpNo' = mpNo
    BY <1>3 DEF PushData
  <2>6. \A n \in accepted' : n <= mpNo'
    <3>1. \A n \in Held(queue') : n <= mpNo' BY <1>a, <1>b, <1>c, <2>3, <2>4, <2>5
    <3> QED BY <1>c, <2>5, <3>1
  <2> QED BY <1>a, <1>b, <2>5, <2>6 DEF Known
<1>4. CASE ReaderSaveData \/ MainSaveData
  <2>1. accepted' = accepted /\ server' = server
    BY <1>4 DEF ReaderSaveData, MainSaveData
  <2>2. CASE SaveOpen
    <3>1. /\ queue' = queue /\ file' = <<>> /\ toLoad' \in Prefixes(toLoad)
          /\ lost' = lost \cup (Held(toLoad) \ (Held(toLoad') \cup Held(queue) \cup server))
      BY <1>0, <2>2, SaveFacts
    <3>2. Held(toLoad') \subseteq Held(toLoad) BY <1>0, <3>1, PrefixFacts DEF TypeOK
    <3>3. Held(file') = {} BY <3>1, HeldEmpty
    <3>4. lost' \subseteq accepted' \ server' BY <1>a, <2>1, <3>1
    <3>5. Held(queue') \cup Held(toLoad') \cup Held(file') \subseteq accepted' \ lost'
      BY <1>a, <2>1, <3>1, <3>2, <3>3
    <3> QED BY <1>b, <1>c, <2>1, <3>4, <3>5 DEF Known
  <2>3. CASE ~SaveOpen
    <3>1. UNCHANGED <<queue, file, toLoad, lost>>
      BY <1>4, <2>3 DEF ReaderSaveData, MainSaveData, SaveOpenFails
    <3> QED BY <1>a, <1>b, <1>c, <2>1, <3>1 DEF Known
  <2> QED BY <2>2, <2>3
<1>5. CASE ReaderSaveWrite \/ MainSaveWrite
  <2>1. accepted' = accepted /\ server' = server /\ SaveWrite
    BY <1>5 DEF ReaderSaveWrite, MainSaveWrite
  <2>2. /\ queue' = queue /\ toLoad' = toLoad /\ lost' = lost
        /\ Held(file') \subseteq Held(queue) \cup Held(file)
    BY <1>0, <2>1, SaveFacts
  <2> QED BY <1>a, <1>b, <1>c, <2>1, <2>2 DEF Known
<1>6. CASE LoadRecord
  <2>1. UNCHANGED <<accepted, server, lost, file>> BY <1>6 DEF LoadRecord
  <2>2. Held(queue') \cup Held(toLoad') \subseteq Held(queue) \cup Held(toLoad)
    BY <1>0, <1>6, LoadHeld
  <2> QED BY <1>a, <1>b, <1>c, <2>1, <2>2 DEF Known
<1>7. CASE LoadDone
  BY <1>7, <1>a, <1>b, <1>c DEF LoadDone, Known
<1>8. CASE Crash
  <2>1. /\ queue' = <<>> /\ toLoad' = file' /\ accepted' = accepted /\ server' = server
        /\ lost' = accepted \ (server \cup Held(file'))
    BY <1>8 DEF Crash
  <2>2. Held(file') \subseteq accepted BY <1>0, <1>8, <1>a, CrashHeld
  <2>3. Held(queue') = {} BY <2>1, HeldEmpty
  <2>4. Held(queue') \cup Held(toLoad') \cup Held(file') \subseteq accepted' \ lost'
    BY <2>1, <2>2, <2>3
  <2> QED BY <1>b, <1>c, <2>1, <2>4 DEF Known
<1> QED
  BY <1>0, <1>1, <1>2, <1>3, <1>4, <1>5, <1>6, <1>7, <1>8, StepKinds

\* Push leaves the front of the queue where it is.
LEMMA PushHead ==
  ASSUME NEW q \in Seq(Packet), NEW p \in Packet, q # <<>>
  PROVE  Push(q, p) # <<>> /\ Head(Push(q, p)) = Head(q)
<1>1. CASE \E i \in DOMAIN q : q[i].no = p.no
  BY <1>1, PushFacts
<1>2. CASE \A i \in DOMAIN q : q[i].no # p.no
  <2>1. Push(q, p) = Append(q, p) BY <1>2, PushFacts
  <2>2. /\ Append(q, p) # <<>> /\ Append(q, p)[1] = q[1]
        /\ Head(Append(q, p)) = Append(q, p)[1] /\ Head(q) = q[1]
    OBVIOUS
  <2> QED BY <2>1, <2>2
<1> QED BY <1>1, <1>2

\* Every step keeps OnWire.
LEMMA OnWireStep ==
  ASSUME TypeOK, AcksStored, OnWire, [Next]_vars
  PROVE  OnWire'
<1> USE DEF queueVars, netVars, histVars
<1>a. wire \in Seq(DataNo) /\ queue \in Seq(Packet) BY DEF TypeOK
<1>1. ASSUME wire' = <<>> PROVE OnWire'
  BY <1>1 DEF OnWire
<1>2. ASSUME UNCHANGED <<wire, queue, server>>, spc' # "load" \/ spc' = spc PROVE OnWire'
  BY <1>2 DEF OnWire
<1>3. ASSUME wire' = wire, server' = server, spc' # "load",
             Head(queue).ra => Head(queue).no \in server
      PROVE  OnWire'
  BY <1>3 DEF OnWire
<1>4. CASE RequestCurrentData \/ ReaderSaveData \/ ReaderSaveWrite \/ LoadDone \/ Main
  BY <1>2, <1>4 DEF RequestCurrentData, ReaderSaveData, ReaderSaveWrite, LoadDone,
                    Main, MainSaveData, MainSaveWrite, SaveOpen, SaveOpenFails, SaveWrite
<1>5. CASE NegoiateDataChannel \/ SendDone \/ Reconnect \/ LinkDown \/ Crash
  BY <1>1, <1>5 DEF NegoiateDataChannel, SendDone, Reconnect, LinkDown, Crash,
                    Connected, Return
<1>6. CASE PushData
  <2>1. currentData[1] \in Packet BY <1>6, PushedPackets
  <2>2. queue' = Push(queue, currentData[1]) /\ UNCHANGED <<wire, server, spc>>
    BY <1>6 DEF PushData
  <2>3. queue # <<>> => queue' # <<>> /\ Head(queue') = Head(queue)
    BY <1>a, <2>1, <2>2, PushHead
  <2> QED BY <2>2, <2>3 DEF OnWire
<1>7. CASE LoadRecord
  <2>1. wire' = <<>> BY <1>7 DEF LoadRecord, OnWire
  <2> QED BY <1>1, <2>1
<1>8. CASE DropStray
  <2>1. wire' = wire /\ server' = server /\ spc' # "load" /\ ~Head(queue).ra
    BY <1>8 DEF DropStray
  <2> QED BY <1>3, <2>1
<1>9. CASE WritePacket
  <2> DEFINE n == Head(queue).no
  <2>1. /\ queue # <<>> /\ Head(queue).ra /\ queue' = queue /\ server' = server
        /\ spc' = "ack" /\ (wire' = wire \/ wire' = Append(wire, n))
    BY <1>9 DEF WritePacket
  <2>2. n \in DataNo
    <3>1. Head(queue) \in Packet BY <1>a, <2>1, TailFacts
    <3> QED BY <3>1 DEF Packet
  <2>3. ASSUME NEW i \in DOMAIN wire'
        PROVE  wire'[i] = n \/ (i \in DOMAIN wire /\ wire'[i] = wire[i])
    <3> HIDE DEF n
    <3>1. CASE wire' = wire BY <3>1
    <3>2. CASE wire' = Append(wire, n)
      BY <1>a, <2>2, <3>2
    <3> QED BY <2>1, <3>1, <3>2
  <2> QED BY <2>1, <2>3 DEF OnWire
<1>10. ASSUME NEW got, NEW closed, CheckAck(got, closed), server' = server,
              AckMatches(got) => Head(queue).no \in server
       PROVE  OnWire'
  <2>1. \/ wire' = <<>>
        \/ wire' = wire /\ spc' = "send" /\ queue' = queue
        \/ wire' = wire /\ spc' = "send" /\ AckMatches(got)
    BY <1>10 DEF CheckAck, Return
  <2>2. CASE wire' = wire /\ spc' = "send" /\ queue' = queue
    BY <1>2, <1>10, <2>2
  <2>3. CASE wire' = wire /\ spc' = "send" /\ AckMatches(got)
    BY <1>3, <1>10, <2>3
  <2> QED BY <1>1, <2>1, <2>2, <2>3
<1>11. CASE WriteFails
  <2>1. ~AckMatches(<<>>) BY DEF AckMatches
  <2>2. CheckAck(<<>>, FALSE) /\ server' = server BY <1>11 DEF WriteFails
  <2> QED BY <1>10, <2>1, <2>2
<1>12. CASE ReceiveAck
  <2>1. PICK closed : CheckAck(acks, closed) BY <1>12 DEF ReceiveAck
  <2>2. AckMatches(acks) => Head(queue).no \in server
    <3> SUFFICES ASSUME AckMatches(acks) PROVE Head(queue).no \in server
      OBVIOUS
    <3>1. acks # <<>> /\ acks[1] # NAK /\ acks[1] = Head(queue).no
      BY DEF AckMatches
    <3>2. 1 \in DOMAIN acks
      BY <3>1 DEF TypeOK
    <3> QED BY <3>1, <3>2 DEF AcksStored
  <2>3. server' = server BY <1>12 DEF ReceiveAck
  <2> QED BY <1>10, <2>1, <2>2, <2>3
<1>13. CASE ServerStores \/ ServerRefuses
  <2>1. /\ wire # <<>> /\ wire' = Tail(wire) /\ queue' = queue /\ spc' = spc
        /\ server \subseteq server'
    BY <1>13 DEF ServerStores, ServerRefuses
  <2>2. \A i \in DOMAIN wire' : i + 1 \in DOMAIN wire /\ wire'[i] = wire[i + 1]
    BY <1>a, <2>1
  <2> QED BY <2>1, <2>2 DEF OnWire
<1>14. CASE UNCHANGED vars
  BY <1>2, <1>14 DEF vars
<1> QED
  BY <1>4, <1>5, <1>6, <1>7, <1>8, <1>9, <1>11, <1>12, <1>13, <1>14
     DEF Next, Reader, Sender, Environment

\* What a save leaves in the file can be loaded in order, even when it writes
\* over what another save wrote.
LEMMA OverlayOrder ==
  ASSUME TypeOK, Windows, Ordered(queue), Ordered(file), "write" \in {rpc, mpc},
         NEW q \in Prefixes(queue), NEW g \in Overlay(q, file)
  PROVE  Mergeable(g) /\ (file = <<>> => Ordered(g))
<1>1. queue \in Seq(Packet) /\ file \in Seq(Packet)
  BY DEF TypeOK
<1>2. q \in Seq(Packet) /\ Len(q) <= Len(queue) /\ \A i \in 1..Len(q) : q[i] = queue[i]
  BY <1>1, PrefixFacts
<1>3. PICK d \in Nat : \A i \in 1..Len(g) : Origin(g, q, file, i, d)
  BY <1>1, <1>2, OverlayFacts
<1>4. g \in Seq(Packet)
  BY <1>1, <1>2, OverlayFacts
<1>5. Held(file) \subseteq Held(queue) \cup server
  BY DEF Windows
<1>6. ASSUME NEW i \in 1..Len(g), NEW j \in 1..Len(g), i < j, g[i].ra, g[j].ra, j <= Len(q)
      PROVE  g[i].no <= g[j].no \/ g[j].no \in server
  <2>1. i \in DOMAIN queue /\ j \in DOMAIN queue /\ g[i] = queue[i] /\ g[j] = queue[j]
    BY <1>1, <1>2, <1>3, <1>6 DEF Origin
  <2> QED BY <1>6, <2>1 DEF Ordered
<1>7. ASSUME NEW i \in 1..Len(g), NEW j \in 1..Len(g), i < j, g[i].ra, g[j].ra,
             i <= Len(q), j > Len(q)
      PROVE  \/ g[i].no <= g[j].no \/ g[j].no \in server
             \/ \E l \in 1..i - 1 : g[l].no = g[j].no
  <2> DEFINE b == j - Len(q) + d
  <2>0. Origin(g, q, file, j, d) /\ ~(j <= Len(q))
    BY <1>2, <1>3, <1>7
  <2>a. b \in 1..Len(file) /\ g[j] = file[b]
    BY <2>0 DEF Origin
  <2> HIDE DEF b
  <2>1. g[j].no \in Held(queue) \cup server
    BY <1>1, <1>5, <1>7, <2>a, HeldMember
  <2>2. i \in DOMAIN queue /\ g[i] = queue[i] /\ i \in 1..Len(q)
    BY <1>1, <1>2, <1>3, <1>7 DEF Origin
  <2>3. ASSUME g[j].no \in Held(queue), g[j].no \notin server
        PROVE  g[i].no <= g[j].no \/ \E l \in 1..i - 1 : g[l].no = g[j].no
    <3>1. PICK m \in 1..Len(queue) : queue[m].ra /\ queue[m].no = g[j].no
      BY <1>1, <2>3, HeldMember
    <3>2. m \in DOMAIN queue BY <1>1, <3>1
    <3>3. CASE i < m
      BY <1>7, <2>2, <2>3, <3>1, <3>2, <3>3 DEF Ordered
    <3>4. CASE i = m
      <4>1. g[i].no = g[j].no BY <2>2, <3>1, <3>4
      <4>2. g[i] \in Packet BY <1>4
      <4>3. g[i].no \in DataNo BY <4>2 DEF Packet
      <4>4. g[i].no \in Int BY <4>3, ConstantsAssumption DEF DataNo
      <4> QED BY <4>1, <4>4
    <3>5. CASE m < i
      <4>1. m \in 1..i - 1 /\ m \in 1..Len(g) /\ m <= Len(q)
        BY <1>2, <1>4, <2>2, <3>1, <3>5
      <4>2. Origin(g, q, file, m, d) BY <1>3, <4>1
      <4>3. g[m] = queue[m] BY <1>2, <4>1, <4>2 DEF Origin
      <4> QED BY <3>1, <4>1, <4>3
    <3>6. i \in Int /\ m \in Int BY <1>1, <2>2, <3>1
    <3> QED BY <3>3, <3>4, <3>5, <3>6
  <2> QED BY <2>1, <2>3
<1>8. ASSUME NEW i \in 1..Len(g), NEW j \in 1..Len(g), i < j, g[i].ra, g[j].ra,
             i > Len(q)
      PROVE  g[i].no <= g[j].no \/ g[j].no \in server
  <2> DEFINE a == i - Len(q) + d
             b == j - Len(q) + d
  <2>1. a \in DOMAIN file /\ g[i] = file[a]
    BY <1>1, <1>3, <1>8 DEF Origin
  <2>2. b \in DOMAIN file /\ g[j] = file[b]
    BY <1>1, <1>2, <1>3, <1>8 DEF Origin
  <2>3. a < b
    BY <1>2, <1>3, <1>8
  <2> HIDE DEF a, b
  <2> QED BY <1>8, <2>1, <2>2, <2>3 DEF Ordered
<1>9. Mergeable(g)
  <2> SUFFICES ASSUME NEW i \in 1..Len(g), NEW j \in 1..Len(g), i < j, g[i].ra, g[j].ra
               PROVE  \/ g[i].no <= g[j].no \/ g[j].no \in server
                      \/ \E l \in 1..i - 1 : g[l].no = g[j].no
    BY <1>4 DEF Mergeable
  <2>1. Len(q) \in Nat BY <1>2
  <2>2. j <= Len(q) \/ (i <= Len(q) /\ j > Len(q)) \/ i > Len(q) BY <2>1
  <2> QED BY <1>6, <1>7, <1>8, <2>2
<1>10. ASSUME file = <<>> PROVE Ordered(g)
  <2> SUFFICES ASSUME NEW i \in 1..Len(g), NEW j \in 1..Len(g), i < j, g[i].ra, g[j].ra
               PROVE  g[i].no <= g[j].no \/ g[j].no \in server
    BY <1>4 DEF Ordered
  <2>1. Len(file) = 0 BY <1>10
  <2>2. j <= Len(q) BY <1>3, <2>1 DEF Origin
  <2> QED BY <1>6, <2>2
<1> QED BY <1>9, <1>10

\* The empty sequence is in order, and so is what a sequence in order leaves
\* without its first packet.
LEMMA OrderedParts ==
  /\ Ordered(<<>>) /\ Mergeable(<<>>)
  /\ \A q \in Seq(Packet) : q # <<>> /\ Ordered(q) => Ordered(Tail(q))
<1>1. Ordered(<<>>) /\ Mergeable(<<>>) BY DEF Ordered, Mergeable
<1>2. ASSUME NEW q \in Seq(Packet), q # <<>>, Ordered(q) PROVE Ordered(Tail(q))
  <2> DEFINE t == Tail(q)
  <2>1. t \in Seq(Packet) /\ Len(t) = Len(q) - 1 /\ \A i \in 1..Len(q) - 1 : t[i] = q[i + 1]
    BY <1>2, TailFacts
  <2> HIDE DEF t
  <2>2. ASSUME NEW i \in DOMAIN t, NEW j \in DOMAIN t, i < j, t[i].ra, t[j].ra
        PROVE  t[i].no <= t[j].no \/ t[j].no \in server
    <3>1. i + 1 \in DOMAIN q /\ j + 1 \in DOMAIN q /\ i + 1 < j + 1
          /\ t[i] = q[i + 1] /\ t[j] = q[j + 1]
      BY <2>1, <2>2
    <3> QED BY <1>2, <2>2, <3>1 DEF Ordered
  <2> QED BY <2>2 DEF Ordered, t
<1> QED BY <1>1, <1>2

\* A reading that is pushed behind others with smaller numbers keeps the
\* queue in order.
LEMMA PushOrdered ==
  ASSUME NEW q \in Seq(Packet), NEW p \in Packet, Ordered(q),
         (\A k \in DOMAIN q : q[k].no # p.no) /\ p.ra =>
           \A i \in DOMAIN q : q[i].ra => q[i].no <= p.no \/ p.no \in server
  PROVE  Ordered(Push(q, p))
<1> DEFINE r == Push(q, p)
<1>1. /\ r \in Seq(Packet) /\ DOMAIN q = 1..Len(q) /\ Len(q) \in Nat
      /\ DOMAIN r = 1..Len(r) /\ Len(r) \in Nat
  BY PushFacts
<1>2. \A i \in DOMAIN r :
        \/ i \in DOMAIN q /\ r[i] = q[i]
        \/ r[i] = p /\ i = Len(q) + 1 /\ \A k \in DOMAIN q : q[k].no # p.no
  BY PushPositions
<1> HIDE DEF r
<1>3. ASSUME NEW i \in DOMAIN r, NEW j \in DOMAIN r, i < j, r[i].ra, r[j].ra
      PROVE  r[i].no <= r[j].no \/ r[j].no \in server
  <2>1. CASE j \in DOMAIN q /\ r[j] = q[j]
    <3>1. i \in DOMAIN q /\ r[i] = q[i] BY <1>1, <1>2, <1>3, <2>1
    <3> QED BY <1>3, <2>1, <3>1 DEF Ordered
  <2>2. CASE r[j] = p /\ j = Len(q) + 1 /\ \A k \in DOMAIN q : q[k].no # p.no
    <3>1. i \in DOMAIN q /\ r[i] = q[i] BY <1>1, <1>2, <1>3, <2>2
    <3> QED BY <1>3, <2>2, <3>1
  <2> QED BY <1>2, <2>1, <2>2
<1> QED BY <1>3 DEF Ordered, r

\* Every step keeps the undelivered readings in order.
LEMMA InOrderStep ==
  ASSUME IInv, Known, InOrder, Saves, [Next]_vars
  PROVE  InOrder'
<1> USE DEF queueVars, netVars, histVars
<1>0. TypeOK /\ AcksStored /\ Windows
  BY DEF IInv
<1>a. queue \in Seq(Packet) /\ toLoad \in Seq(Packet) /\ file \in Seq(Packet)
  BY <1>0 DEF TypeOK
<1>b. /\ Ordered(queue) /\ Mergeable(file)
      /\ \A i \in DOMAIN queue, j \in DOMAIN toLoad :
           queue[i].ra /\ toLoad[j].ra =>
             \/ queue[i].no <= toLoad[j].no \/ toLoad[j].no \in server
             \/ Before(toLoad[j].no, 0, toLoad, queue)
      /\ \A i, j \in DOMAIN toLoad :
           i < j /\ toLoad[i].ra /\ toLoad[j].ra =>
             \/ toLoad[i].no <= toLoad[j].no \/ toLoad[j].no \in server
             \/ Before(toLoad[j].no, i - 1, toLoad, queue)
  BY DEF InOrder
<1>c. ASSUME toLoad' = <<>>, Ordered(queue)', Mergeable(file)' PROVE InOrder'
  BY <1>c DEF InOrder
<1>1. CASE Quiet
  <2>1. UNCHANGED <<queue, toLoad, file>> /\ server \subseteq server'
    BY <1>1 DEF Quiet
  <2>2. Ordered(queue)' BY <1>b, <2>1 DEF Ordered
  <2>3. Mergeable(file)' BY <1>b, <2>1 DEF Mergeable
  <2>4. \A n, k : Before(n, k, toLoad, queue) => Before(n, k, toLoad', queue') BY <2>1 DEF Before
  <2> QED BY <1>b, <2>1, <2>2, <2>3, <2>4 DEF InOrder
<1>2. CASE PopStep
  <2>1. /\ toLoad' = <<>> /\ file' = file /\ server' = server
        /\ queue # <<>> /\ queue' = Tail(queue)
    BY <1>0, <1>2 DEF PopStep, Windows
  <2>2. Ordered(queue') BY <1>a, <1>b, <2>1, OrderedParts
  <2>3. Ordered(queue)' BY <2>1, <2>2 DEF Ordered
  <2>4. Mergeable(file)' BY <1>b, <2>1 DEF Mergeable
  <2> QED BY <1>c, <2>1, <2>3, <2>4
<1>3. CASE PushData
  <2> DEFINE p == currentData[1]
  <2>1. toLoad' = <<>> /\ file' = file /\ server' = server
    BY <1>0, <1>3 DEF PushData, Windows
  <2>2. p \in Packet /\ queue' = Push(queue, p)
    BY <1>0, <1>3, PushedPackets DEF PushData
  <2>3. p.ra => p.no = mpNo BY <1>3 DEF PushData, Known
  <2> HIDE DEF p
  <2>4. ASSUME NEW i \in DOMAIN queue, queue[i].ra PROVE queue[i].no <= mpNo
    <3>1. queue[i].no \in Held(queue) BY <1>a, <2>4, HeldMember
    <3> QED BY <3>1 DEF Known
  <2>5. Ordered(queue') BY <1>a, <1>b, <2>2, <2>3, <2>4, PushOrdered
  <2>6. Ordered(queue)' BY <2>1, <2>5 DEF Ordered
  <2>7. Mergeable(file)' BY <1>b, <2>1 DEF Mergeable
  <2> QED BY <1>c, <2>1, <2>6, <2>7
<1>4. CASE ReaderSaveData \/ MainSaveData
  <2>1. server' = server
    BY <1>4 DEF ReaderSaveData, MainSaveData
  <2>2. CASE SaveOpen
    <3>1. queue' = queue /\ file' = <<>> /\ toLoad' \in Prefixes(toLoad)
      BY <1>0, <2>2, SaveFacts
    <3>2. /\ DOMAIN toLoad' \subseteq DOMAIN toLoad
          /\ \A i \in DOMAIN toLoad' : toLoad'[i] = toLoad[i]
          /\ DOMAIN toLoad' = 1..Len(toLoad') /\ Len(toLoad') \in Nat
      <4>1. /\ toLoad' \in Seq(Packet) /\ Len(toLoad') <= Len(toLoad)
            /\ \A i \in 1..Len(toLoad') : toLoad'[i] = toLoad[i]
        BY <1>a, <3>1, PrefixFacts
      <4>2. DOMAIN toLoad' = 1..Len(toLoad') /\ Len(toLoad') \in Nat BY <4>1
      <4>3. DOMAIN toLoad = 1..Len(toLoad) /\ Len(toLoad) \in Nat BY <1>a
      <4> QED BY <4>1, <4>2, <4>3
    <3>3. Ordered(queue)' BY <1>b, <2>1, <3>1 DEF Ordered
    <3>4. Mergeable(file)' BY <3>1 DEF Mergeable
    <3>5. ASSUME NEW i \in DOMAIN toLoad', NEW n, Before(n, i - 1, toLoad, queue)
          PROVE  Before(n, i - 1, toLoad', queue')
      <4>1. \A l \in 1..i - 1 : l \in DOMAIN toLoad' BY <3>2
      <4>2. \A l \in 1..i - 1 : toLoad'[l] = toLoad[l] BY <3>2, <4>1
      <4> QED BY <3>1, <3>5, <4>2 DEF Before
    <3>6. ASSUME NEW n, Before(n, 0, toLoad, queue) PROVE Before(n, 0, toLoad', queue')
      BY <3>1, <3>6 DEF Before
    <3> QED BY <1>b, <2>1, <3>1, <3>2, <3>3, <3>4, <3>5, <3>6 DEF InOrder
  <2>3. CASE ~SaveOpen
    <3>1. UNCHANGED <<queue, file, toLoad>>
      BY <1>4, <2>3 DEF ReaderSaveData, MainSaveData, SaveOpenFails
    <3>2. Ordered(queue)' /\ Mergeable(file)' BY <1>b, <2>1, <3>1 DEF Ordered, Mergeable
    <3>3. \A n, k : Before(n, k, toLoad, queue) => Before(n, k, toLoad', queue') BY <3>1 DEF Before
    <3> QED BY <1>b, <2>1, <3>1, <3>2, <3>3 DEF InOrder
  <2> QED BY <2>2, <2>3
<1>5. CASE ReaderSaveWrite \/ MainSaveWrite
  <2>1. server' = server /\ SaveWrite /\ "write" \in {rpc, mpc}
    BY <1>5 DEF ReaderSaveWrite, MainSaveWrite
  <2>2. PICK q \in Prefixes(queue) : file' \in Overlay(q, file)
    BY <2>1 DEF SaveWrite
  <2>3. queue' = queue /\ toLoad' = toLoad BY <2>1 DEF SaveWrite
  <2>4. Mergeable(file') BY <1>0, <1>b, <2>1, <2>2, OverlayOrder DEF Saves
  <2>5. Ordered(queue)' /\ Mergeable(file)'
    BY <1>b, <2>1, <2>3, <2>4 DEF Ordered, Mergeable
  <2>6. \A n, k : Before(n, k, toLoad, queue) => Before(n, k, toLoad', queue') BY <2>3 DEF Before
  <2> QED BY <1>b, <2>1, <2>3, <2>5, <2>6 DEF InOrder
<1>6. CASE LoadRecord
  <2> DEFINE h == Head(toLoad)
  <2>1. h \in Packet /\ toLoad # <<>> /\ h = toLoad[1] /\ 1 \in DOMAIN toLoad
    BY <1>0, <1>6, <1>a, PushedPackets, TailFacts
  <2>2. /\ queue' = Push(queue, h) /\ toLoad' = Tail(toLoad)
        /\ file' = file /\ server' = server
    BY <1>6 DEF LoadRecord
  <2> HIDE DEF h
  <2>3. /\ \A i \in DOMAIN queue : i \in DOMAIN queue' /\ queue'[i] = queue[i]
        /\ \E i \in DOMAIN queue' : queue'[i].no = h.no
        /\ \A i \in DOMAIN queue' :
             \/ i \in DOMAIN queue /\ queue'[i] = queue[i]
             \/ queue'[i] = h
    BY <1>a, <2>1, <2>2, PushPositions
  <2>4. \A j \in DOMAIN toLoad' :
          j + 1 \in DOMAIN toLoad /\ toLoad'[j] = toLoad[j + 1] /\ 1 < j + 1 /\ j \in Nat
    BY <1>a, <2>1, <2>2, TailFacts
  <2>5. Ordered(queue')
    <3>1. ASSUME \A k \in DOMAIN queue : queue[k].no # h.no, h.ra,
                 NEW i \in DOMAIN queue, queue[i].ra
          PROVE  queue[i].no <= h.no \/ h.no \in server
      <4>1. ~Before(h.no, 0, toLoad, queue)
        BY <3>1 DEF Before
      <4> QED BY <1>b, <2>1, <3>1, <4>1
    <3> QED BY <1>a, <1>b, <2>1, <2>2, <3>1, PushOrdered
  <2>6. Ordered(queue)' /\ Mergeable(file)'
    BY <1>b, <2>2, <2>5 DEF Ordered, Mergeable
  <2>7. ASSUME NEW n, Before(n, 0, toLoad, queue) PROVE Before(n, 0, toLoad', queue')
    BY <2>3, <2>7 DEF Before
  <2>8. ASSUME NEW i \in DOMAIN queue', NEW j \in DOMAIN toLoad', queue'[i].ra, toLoad'[j].ra
        PROVE  \/ queue'[i].no <= toLoad'[j].no \/ toLoad'[j].no \in server'
               \/ Before(toLoad'[j].no, 0, toLoad', queue')
    <3>1. j + 1 \in DOMAIN toLoad /\ toLoad'[j] = toLoad[j + 1] /\ 1 < j + 1 BY <2>4
    <3>2. CASE i \in DOMAIN queue /\ queue'[i] = queue[i]
      BY <1>b, <2>2, <2>7, <2>8, <3>1, <3>2
    <3>3. CASE queue'[i] = h
      <4>1. \/ toLoad[1].no <= toLoad[j + 1].no \/ toLoad[j + 1].no \in server
            \/ Before(toLoad[j + 1].no, 1 - 1, toLoad, queue)
        BY <1>b, <2>1, <2>8, <3>1, <3>3
      <4>2. Before(toLoad[j + 1].no, 1 - 1, toLoad, queue)
              => Before(toLoad[j + 1].no, 0, toLoad, queue)
        OBVIOUS
      <4> QED BY <2>1, <2>2, <2>7, <3>1, <3>3, <4>1, <4>2
    <3> QED BY <2>3, <3>2, <3>3
  <2>9. ASSUME NEW i \in DOMAIN toLoad', NEW j \in DOMAIN toLoad', i < j,
               toLoad'[i].ra, toLoad'[j].ra
        PROVE  \/ toLoad'[i].no <= toLoad'[j].no \/ toLoad'[j].no \in server'
               \/ Before(toLoad'[j].no, i - 1, toLoad', queue')
    <3> DEFINE x == toLoad'[j].no
    <3>1. /\ i + 1 \in DOMAIN toLoad /\ toLoad'[i] = toLoad[i + 1] /\ i \in Nat
          /\ j + 1 \in DOMAIN toLoad /\ toLoad'[j] = toLoad[j + 1] /\ j \in Nat
      BY <2>4
    <3>2. i + 1 < j + 1 BY <2>9, <3>1
    <3>3. \/ toLoad'[i].no <= x \/ x \in server
          \/ Before(x, (i + 1) - 1, toLoad, queue)
      BY <1>b, <2>9, <3>1, <3>2
    <3> HIDE DEF x
    <3>4. ASSUME Before(x, (i + 1) - 1, toLoad, queue) PROVE Before(x, i - 1, toLoad', queue')
      <4>1. CASE \E l \in DOMAIN queue : queue[l].no = x
        BY <2>3, <4>1 DEF Before
      <4>2. ASSUME NEW l \in 1..(i + 1) - 1, toLoad[l].no = x
            PROVE  Before(x, i - 1, toLoad', queue')
        <5>1. CASE l = 1
          BY <2>1, <2>3, <4>2, <5>1 DEF Before
        <5>2. CASE l # 1
          <6>1. l - 1 \in 1..i - 1 /\ (l - 1) + 1 = l BY <3>1, <4>2, <5>2
          <6>2. l - 1 \in DOMAIN toLoad'
            <7>1. DOMAIN toLoad' = 1..Len(toLoad') /\ Len(toLoad') \in Nat
              BY <1>a, <2>1, <2>2, TailFacts
            <7> QED BY <2>9, <3>1, <6>1, <7>1
          <6>3. toLoad'[l - 1] = toLoad[l] BY <2>4, <6>1, <6>2
          <6> QED BY <4>2, <6>1, <6>3 DEF Before
        <5> QED BY <5>1, <5>2
      <4> QED BY <3>4, <4>1, <4>2 DEF Before
    <3> QED BY <2>2, <3>3, <3>4 DEF x
  <2> QED BY <2>6, <2>8, <2>9 DEF InOrder
<1>7. CASE LoadDone
  <2>1. UNCHANGED <<queue, toLoad, file, server>> BY <1>7 DEF LoadDone
  <2>2. Ordered(queue)' /\ Mergeable(file)' BY <1>b, <2>1 DEF Ordered, Mergeable
  <2>3. \A n, k : Before(n, k, toLoad, queue) => Before(n, k, toLoad', queue') BY <2>1 DEF Before
  <2> QED BY <1>b, <2>1, <2>2, <2>3 DEF InOrder
<1>8. CASE Crash
  <2>1. queue' = <<>> /\ toLoad' = file' /\ server' = server
    BY <1>8 DEF Crash
  <2>2. Mergeable(file')
    <3>1. CASE "write" \in {rpc, mpc}
      <4>1. PICK q \in Prefixes(queue) : file' \in Overlay(q, file)
        BY <1>8, <3>1 DEF Crash
      <4> QED BY <1>0, <1>b, <3>1, <4>1, OverlayOrder DEF Saves
    <3>2. CASE "write" \notin {rpc, mpc}
      BY <1>8, <1>b, <3>2 DEF Crash
    <3> QED BY <3>1, <3>2
  <2>3. Ordered(queue)' BY <2>1 DEF Ordered
  <2>4. Mergeable(file)' /\ Mergeable(toLoad)' BY <2>1, <2>2 DEF Mergeable
  <2>5. DOMAIN queue' = {} BY <2>1
  <2> QED BY <2>3, <2>4, <2>5 DEF InOrder, Mergeable, Before
<1> QED
  BY <1>0, <1>1, <1>2, <1>3, <1>4, <1>5, <1>6, <1>7, <1>8, StepKinds

\* Every step keeps the file that is being saved in order.
LEMMA SavesStep ==
  ASSUME IInv, InOrder, Saves, [Next]_vars
  PROVE  Saves'
<1> USE DEF queueVars, netVars, histVars
<1>0. TypeOK /\ AcksStored /\ Windows
  BY DEF IInv
<1>1. ASSUME file' = file, server \subseteq server',
             "write" \in {rpc', mpc'} => "write" \in {rpc, mpc},
             rpc' = "write" /\ mpc' = "write" => rpc = "write" /\ mpc = "write"
      PROVE  Saves'
  <2>1. Ordered(file) => Ordered(file)' BY <1>1 DEF Ordered
  <2> QED BY <1>1, <2>1 DEF Saves
<1>2. CASE Quiet
  BY <1>1, <1>2 DEF Quiet
<1>3. CASE PopStep \/ PushData \/ LoadRecord \/ LoadDone
  BY <1>1, <1>3 DEF PopStep, PushData, LoadRecord, LoadDone
<1>4. CASE ReaderSaveData \/ MainSaveData
  <2>1. CASE SaveOpen
    <3>1. file' = <<>> BY <2>1 DEF SaveOpen
    <3>2. Ordered(file)' BY <3>1 DEF Ordered
    <3> QED BY <3>1, <3>2 DEF Saves
  <2>2. CASE ~SaveOpen
    BY <1>1, <1>4, <2>2 DEF ReaderSaveData, MainSaveData, SaveOpenFails
  <2> QED BY <2>1, <2>2
<1>5. CASE ReaderSaveWrite \/ MainSaveWrite
  <2>1. SaveWrite /\ server' = server /\ "write" \in {rpc, mpc}
    BY <1>5 DEF ReaderSaveWrite, MainSaveWrite
  <2>2. ~(rpc' = "write" /\ mpc' = "write")
    BY <1>5 DEF ReaderSaveWrite, MainSaveWrite
  <2>3. ASSUME "write" \in {rpc', mpc'} PROVE Ordered(file)'
    <3>1. rpc = "write" /\ mpc = "write"
      BY <1>5, <2>3 DEF ReaderSaveWrite, MainSaveWrite
    <3>2. file = <<>> /\ Ordered(file) /\ Ordered(queue)
      BY <3>1 DEF Saves, InOrder
    <3>3. PICK q \in Prefixes(queue) : file' \in Overlay(q, file)
      BY <2>1 DEF SaveWrite
    <3>4. Ordered(file') BY <1>0, <2>1, <3>2, <3>3, OverlayOrder
    <3> QED BY <2>1, <3>4 DEF Ordered
  <2> QED BY <2>2, <2>3 DEF Saves
<1>6. CASE Crash
  BY <1>6 DEF Crash, Saves
<1> QED
  BY <1>0, <1>2, <1>3, <1>4, <1>5, <1>6, StepKinds

\* RInv is inductive.
LEMMA RInvStep == RInv /\ [Next]_vars => RInv'
<1> SUFFICES ASSUME RInv, [Next]_vars PROVE RInv'
  OBVIOUS
<1>1. IInv /\ Known /\ OnWire /\ InOrder /\ Saves BY DEF RInv
<1>2. TypeOK /\ AcksStored BY <1>1 DEF IInv
<1>3. IInv' BY <1>1, IInvStep
<1>4. Known' BY <1>1, KnownStep
<1>5. OnWire' BY <1>1, <1>2, OnWireStep
<1>6. InOrder' BY <1>1, InOrderStep
<1>7. Saves' BY <1>1, SavesStep
<1> QED BY <1>3, <1>4, <1>5, <1>6, <1>7 DEF RInv

\* RInv holds initially.
LEMMA RInvInit == Init => RInv
<1> SUFFICES ASSUME Init PROVE RInv
  OBVIOUS
<1>1. IInv BY IInvInit
<1>2. Known BY HeldEmpty DEF Init, Known
<1>3. OnWire BY DEF Init, OnWire
<1>4. InOrder /\ Saves BY DEF Init, InOrder, Saves, Ordered, Mergeable
<1> QED BY <1>1, <1>2, <1>3, <1>4 DEF RInv

\* The packet that reaches the server for the first time is the oldest
\* reading it is owed.
LEMMA OldestFirst ==
  ASSUME RInv, wire # <<>>, Head(wire) \notin server
  PROVE  /\ Head(wire) \in D!Pending
         /\ \A m \in D!Pending : Head(wire) <= m
<1>0. TypeOK /\ Windows /\ AcceptedKept /\ Known /\ OnWire /\ Ordered(queue)
  BY DEF RInv, IInv, InOrder
<1>1. queue \in Seq(Packet) BY <1>0 DEF TypeOK
<1>2. /\ queue # <<>> /\ Head(queue).ra /\ Head(queue).no = Head(wire)
      /\ Head(wire) \in accepted \ (server \cup lost)
  BY <1>0, FirstOnWire
<1>3. toLoad = <<>> BY <1>0 DEF OnWire, Windows
<1>4. Held(toLoad) = {} BY <1>3, HeldEmpty
<1>5. ASSUME NEW m \in D!Pending PROVE Head(wire) <= m
  <2>1. m \in Held(queue) /\ m \notin server
    BY <1>0, <1>4, <1>5 DEF AcceptedKept, D!Pending
  <2>2. PICK j \in 1..Len(queue) : queue[j].ra /\ queue[j].no = m
    BY <1>1, <2>1, HeldMember
  <2>3. Head(queue) = queue[1] /\ 1 \in DOMAIN queue /\ j \in DOMAIN queue /\ j \in Nat
    BY <1>1, <1>2, <2>2
  <2>4. CASE j = 1
    <3>1. Head(wire) = m BY <1>2, <2>2, <2>3, <2>4
    <3>2. m \in Int BY <1>0, <2>1, <1>1, HeldType, ConstantsAssumption DEF DataNo
    <3> QED BY <3>1, <3>2
  <2>5. CASE j # 1
    <3>1. 1 < j BY <2>2, <2>3, <2>5
    <3> QED BY <1>0, <1>2, <2>1, <2>2, <2>3, <3>1 DEF Ordered
  <2> QED BY <2>4, <2>5
<1> QED BY <1>2, <1>5 DEF D!Pending

\* Every step of the data path is a step of Delivery or leaves its variables
\* alone.
LEMMA DeliveryStep ==
  ASSUME RInv, [Next]_vars
  PROVE  [D!Next]_(D!vars)
<1> USE DEF queueVars, netVars, histVars
<1>0. TypeOK /\ AcksStored /\ Windows /\ AcceptedKept /\ Known /\ OnWire
  BY DEF RInv, IInv
<1>a. /\ queue \in Seq(Packet) /\ toLoad \in Seq(Packet) /\ wire \in Seq(DataNo)
      /\ accepted \subseteq DataNo /\ server \subseteq DataNo /\ lost \subseteq DataNo
  BY <1>0 DEF TypeOK
<1>b. /\ Held(queue) \subseteq accepted \ lost /\ Held(toLoad) \subseteq accepted \ lost
      /\ Held(file) \subseteq accepted \ lost /\ lost \cap server = {}
  BY <1>0 DEF Known
<1>1. ASSUME UNCHANGED <<accepted, server, lost>> PROVE [D!Next]_(D!vars)
  BY <1>1 DEF D!vars
<1>2. ASSUME NEW S \in SUBSET D!Pending, lost' = lost \cup S, UNCHANGED <<accepted, server>>
      PROVE  [D!Next]_(D!vars)
  <2>1. S \in SUBSET DataNo BY <1>a, <1>2 DEF D!Pending
  <2>2. D!Lose(S) BY <1>2 DEF D!Lose
  <2> QED BY <2>1, <2>2 DEF D!Next
<1>3. CASE Quiet
  <2>1. accepted' = accepted /\ lost' = lost BY <1>3 DEF Quiet
  <2>2. CASE ServerStores /\ Head(wire) \notin server
    <3> DEFINE n == Head(wire)
    <3>1. wire # <<>> /\ server' = server \cup {n} BY <2>2 DEF ServerStores
    <3>2. n \in D!Pending /\ \A m \in D!Pending : n <= m
      BY <2>2, <3>1, OldestFirst
    <3>3. n \in DataNo BY <1>a, <3>2 DEF D!Pending
    <3> HIDE DEF n
    <3>4. D!Deliver(n) BY <2>1, <3>1, <3>2 DEF D!Deliver
    <3> QED BY <3>3, <3>4 DEF D!Next
  <2>3. CASE ~(ServerStores /\ Head(wire) \notin server)
    <3>1. server' = server BY <2>3, StoreStep DEF ServerStores
    <3> QED BY <1>1, <2>1, <3>1
  <2> QED BY <2>2, <2>3
<1>4. CASE PopStep \/ LoadRecord \/ LoadDone
  BY <1>1, <1>4 DEF PopStep, LoadRecord, LoadDone
<1>5. CASE PushData
  <2> DEFINE p == currentData[1]
  <2>1. p \in Packet BY <1>0, <1>5, PushedPackets
  <2>2. /\ queue' = Push(queue, p) /\ server' = server
        /\ accepted' = accepted \cup Held(queue') /\ lost' = lost \ Held(queue')
    BY <1>5 DEF PushData
  <2> HIDE DEF p
  <2>3. /\ Held(queue) \subseteq Held(queue')
        /\ \A n \in Held(queue') : n \in Held(queue) \/ (p.ra /\ n = p.no)
    BY <1>a, <2>1, <2>2, PushFacts
  <2>4. CASE p.no \in Held(queue') /\ p.ra
    <3>1. Held(queue') = Held(queue) \cup {p.no} BY <2>3, <2>4
    <3>2. accepted' = accepted \cup {p.no} /\ lost' = lost \ {p.no}
      BY <1>b, <2>2, <3>1
    <3>3. p.no \in DataNo BY <2>1 DEF Packet
    <3>4. D!Accept(p.no) BY <2>2, <3>2 DEF D!Accept
    <3> QED BY <3>3, <3>4 DEF D!Next
  <2>5. CASE ~(p.no \in Held(queue') /\ p.ra)
    <3>1. Held(queue') = Held(queue) BY <2>3, <2>5
    <3>2. accepted' = accepted /\ lost' = lost BY <1>b, <2>2, <3>1
    <3> QED BY <1>1, <2>2, <3>2
  <2> QED BY <2>4, <2>5
<1>6. CASE ReaderSaveData \/ MainSaveData
  <2>1. accepted' = accepted /\ server' = server
    BY <1>6 DEF ReaderSaveData, MainSaveData
  <2>2. CASE SaveOpen
    <3> DEFINE S == Held(toLoad) \ (Held(toLoad') \cup Held(queue) \cup server)
    <3>1. lost' = lost \cup S BY <2>2 DEF SaveOpen
    <3>2. S \in SUBSET D!Pending BY <1>b DEF D!Pending
    <3> HIDE DEF S
    <3> QED BY <1>2, <2>1, <3>1, <3>2
  <2>3. CASE ~SaveOpen
    <3>1. lost' = lost
      BY <1>6, <2>3 DEF ReaderSaveData, MainSaveData, SaveOpenFails
    <3> QED BY <1>1, <2>1, <3>1
  <2> QED BY <2>2, <2>3
<1>7. CASE ReaderSaveWrite \/ MainSaveWrite
  BY <1>1, <1>7 DEF ReaderSaveWrite, MainSaveWrite, SaveWrite
<1>8. CASE Crash
  <2> DEFINE S == lost' \ lost
  <2>1. /\ accepted' = accepted /\ server' = server
        /\ lost' = accepted \ (server \cup Held(file'))
    BY <1>8 DEF Crash
  <2>2. Held(file') \subseteq Held(queue) \cup Held(file) BY <1>0, <1>8, CrashHeld
  <2>3. lost \subseteq accepted BY <1>0 DEF Known
  <2>4. lost' = lost \cup S BY <1>b, <2>1, <2>2, <2>3
  <2>5. S \in SUBSET D!Pending BY <2>1 DEF D!Pending
  <2> HIDE DEF S
  <2> QED BY <1>2, <2>1, <2>4, <2>5
<1> QED
  BY <1>0, <1>3, <1>4, <1>5, <1>6, <1>7, <1>8, StepKinds

\* The queue, the file, the savers, the retries and the restarts together
\* behave as Delivery: SendCurrentData has the server store readings for the
\* first time in the order of their numbers, only readings the agent took
\* from the post, and one that is forgotten was owed until then.
THEOREM Implements == Spec => ImplementsDelivery
<1>1. Init => D!Init
  BY DEF Init, D!Init
<1>2. RInv /\ [Next]_vars => [D!Next]_(D!vars)
  BY DeliveryStep
<1> QED BY RInvInit, RInvStep, <1>1, <1>2, PTL DEF Spec, ImplementsDelivery, D!Spec
=============================================================================
