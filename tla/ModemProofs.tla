---------------------------- MODULE ModemProofs ----------------------------
(***************************************************************************)
(* Proofs about Modem, for any numbers of attempts and of late answers:    *)
(* every return of PowerOn and PowerOff leaves the AT port closed, the     *)
(* connection is asked for only on a confirmed context if there is a name  *)
(* or an address to confirm it by, and a modem that is taken for on was    *)
(* connected unless answers were late.  The first two hold although        *)
(* answers do not name their commands: the only command that takes a       *)
(* context away is written last before the port is closed.  A call of      *)
(* PowerOn or PowerOff takes a bounded number of steps: Left counts down   *)
(* to its end.                                                             *)
(***************************************************************************)
EXTENDS Modem, SequenceTheorems, TLAPS

\* The Boolean part of TypeOK.
Flags ==
  /\ bPowerOff \in BOOLEAN /\ bModemOpen \in BOOLEAN /\ bModemOnFirstTime \in BOOLEAN
  /\ waiting \in BOOLEAN /\ conn \in BOOLEAN /\ late \in BOOLEAN /\ named \in BOOLEAN

\* The port is open exactly during the dialogue, and only there is waited.
Places ==
  /\ waiting => at \in Dialogue
  /\ at \in Dialogue => conn
  /\ at = "open" => retry > 0

\* AT+CFUN is in transit only when the dialogue is about to end, so a context
\* reported in an unread answer is still there, and so is one read before.
ResetLast ==
  /\ \A i \in DOMAIN sent : sent[i] = "CFUN" => at = "reset"
  /\ \A i \in DOMAIN rx : rx[i] = "context OK" => at = "reset" \/ context # "none"
  /\ named /\ at \in {"signal3", "connect"} => context # "none"

\* As long as every command was answered before the next was written, one
\* command or answer is in transit at most; while ConnectIP waits, it is its
\* own.
InStep ==
  ~late =>
    /\ Len(sent) + Len(rx) <= 1
    /\ at = "connect" /\ waiting =>
         /\ \A i \in DOMAIN sent : sent[i] = "CONNECT=1"
         /\ \A i \in DOMAIN rx : rx[i] = "ERROR" \/ line # "down"

IInv == TypeOK /\ PortReleased /\ Places /\ ResetLast /\ InStep

-----------------------------------------------------------------------------
(* Lemmas about sequences and the order of the dialogue                    *)

\* The empty sequence has no positions.
LEMMA EmptyFacts == DOMAIN <<>> = {} /\ Len(<<>>) = 0
OBVIOUS

\* Positions of a sequence.
LEMMA SeqFacts ==
  ASSUME NEW S, NEW q \in Seq(S)
  PROVE  /\ Len(q) \in Nat /\ DOMAIN q = 1..Len(q)
         /\ \A i \in DOMAIN q : q[i] \in S
         /\ q # <<>> => 1 \in DOMAIN q /\ Len(q) >= 1
OBVIOUS

\* Append keeps what was there and adds one element at the end.
LEMMA AppendFacts ==
  ASSUME NEW S, NEW q \in Seq(S), NEW e \in S
  PROVE  /\ Append(q, e) \in Seq(S)
         /\ Len(Append(q, e)) = Len(q) + 1
         /\ \A i \in DOMAIN Append(q, e) :
              Append(q, e)[i] = e \/ (i \in DOMAIN q /\ Append(q, e)[i] = q[i])
         /\ q = <<>> => Len(Append(q, e)) = 1
<1>1. /\ Append(q, e) \in Seq(S) /\ Len(q) \in Nat
      /\ Len(Append(q, e)) = Len(q) + 1
      /\ DOMAIN Append(q, e) = 1..Len(q) + 1 /\ DOMAIN q = 1..Len(q)
      /\ \A i \in 1..Len(q) : Append(q, e)[i] = q[i]
      /\ Append(q, e)[Len(q) + 1] = e
  OBVIOUS
<1>2. q = <<>> => Len(q) = 0 BY EmptyFacts, Zenon
<1> QED BY <1>1, <1>2

\* Tail drops the first element only.
LEMMA TailFacts ==
  ASSUME NEW S, NEW q \in Seq(S), q # <<>>
  PROVE  /\ Tail(q) \in Seq(S)
         /\ Head(q) = q[1] /\ Head(q) \in S /\ 1 \in DOMAIN q
         /\ Len(Tail(q)) = Len(q) - 1
         /\ \A i \in DOMAIN Tail(q) : \E j \in DOMAIN q : Tail(q)[i] = q[j]
<1>1. /\ Tail(q) \in Seq(S) /\ Len(q) \in Nat /\ Len(q) >= 1
      /\ Head(q) = q[1] /\ Head(q) \in S
      /\ Len(Tail(q)) = Len(q) - 1
      /\ \A i \in 1..Len(q) - 1 : Tail(q)[i] = q[i + 1]
  OBVIOUS
<1>2. DOMAIN q = 1..Len(q) BY SeqFacts
<1>3. DOMAIN Tail(q) = 1..Len(q) - 1 BY <1>1, SeqFacts
<1>4. \A i \in 1..Len(q) - 1 : i + 1 \in 1..Len(q) BY <1>1
<1> QED BY <1>1, <1>2, <1>3, <1>4

\* What is read from the port, and what is left of it.
LEMMA ReadFacts ==
  ASSUME NEW S, NEW q \in Seq(S), NEW k \in 0..Len(q)
  PROVE  /\ SubSeq(q, k + 1, Len(q)) \in Seq(S)
         /\ Len(SubSeq(q, k + 1, Len(q))) = Len(q) - k
         /\ \A i \in DOMAIN SubSeq(q, k + 1, Len(q)) :
              \E j \in DOMAIN q : SubSeq(q, k + 1, Len(q))[i] = q[j]
         /\ \A x \in ToSet(SubSeq(q, 1, k)) : \E j \in DOMAIN q : x = q[j]
<1>1. /\ Len(q) \in Nat /\ DOMAIN q = 1..Len(q) /\ \A i \in 1..Len(q) : q[i] \in S
      /\ k \in Nat /\ k <= Len(q)
  BY SeqFacts
<1> DEFINE n == Len(q) r == SubSeq(q, k + 1, n) g == SubSeq(q, 1, k)
<1>2. /\ r \in Seq(S) /\ Len(r) = (IF k + 1 <= n THEN n - (k + 1) + 1 ELSE 0)
      /\ \A i \in 1..n - (k + 1) + 1 : r[i] = q[k + 1 + i - 1]
  <2>1. \A i \in k + 1..n : q[i] \in S BY <1>1
  <2>2. k + 1 \in Int /\ n \in Int BY <1>1
  <2> QED BY <2>1, <2>2, SubSeqProperties
<1>3. /\ g \in Seq(S) /\ Len(g) = (IF 1 <= k THEN k - 1 + 1 ELSE 0)
      /\ \A i \in 1..k - 1 + 1 : g[i] = q[1 + i - 1]
  <2>1. \A i \in 1..k : q[i] \in S BY <1>1
  <2>2. 1 \in Int /\ k \in Int BY <1>1
  <2> QED BY <2>1, <2>2, SubSeqProperties
<1>4. DOMAIN r = 1..Len(r) /\ DOMAIN g = 1..Len(g) BY <1>2, <1>3, SeqFacts
<1> HIDE DEF r, g
<1>5. Len(r) = n - k
  <2>1. n \in Nat /\ k \in Nat /\ k <= n BY <1>1
  <2>2. Len(r) = (IF k + 1 <= n THEN n - (k + 1) + 1 ELSE 0) BY <1>2
  <2> HIDE DEF n
  <2>3. CASE k + 1 <= n BY <2>1, <2>2, <2>3
  <2>4. CASE ~(k + 1 <= n) BY <2>1, <2>2, <2>4
  <2> QED BY <2>3, <2>4
<1>6. Len(g) = k BY <1>1, <1>3
<1>7. \A i \in DOMAIN r : k + i \in DOMAIN q /\ r[i] = q[k + i]
  <2> TAKE i \in DOMAIN r
  <2>1. i \in 1..n - (k + 1) + 1 /\ k + 1 + i - 1 = k + i BY <1>1, <1>4, <1>5
  <2>2. k + i \in 1..n BY <1>1, <1>4, <1>5
  <2> QED BY <1>1, <1>2, <2>1, <2>2
<1>8. \A i \in DOMAIN g : i \in DOMAIN q /\ g[i] = q[i]
  <2> TAKE i \in DOMAIN g
  <2>1. i \in 1..k - 1 + 1 /\ 1 + i - 1 = i BY <1>1, <1>4, <1>6
  <2> QED BY <1>1, <1>3, <2>1
<1>9. \A x \in ToSet(g) : \E j \in DOMAIN q : x = q[j] BY <1>8 DEF ToSet
<1> QED BY <1>2, <1>5, <1>7, <1>9 DEF r, g

\* Every stage of the dialogue writes one of the commands; only UT_Reset
\* writes AT+CFUN.
LEMMA CommandFacts ==
  ASSUME at \in Dialogue
  PROVE  /\ Command \in Commands
         /\ Command = "CFUN" => at = "reset"
         /\ at = "connect" => Command = "CONNECT=1"
BY DEF Command, Commands, Dialogue, SignalStages, CheckStages

\* A stage that succeeds leads to another one; the last signal check follows
\* only a context check, ConnectIP only the last signal check or the check
\* of the second time routine.
LEMMA SuccessFacts ==
  ASSUME at \in Dialogue \ {"connect", "reset", "off"}
  PROVE  /\ AfterSuccess(at) \in Dialogue \ {"reset", "off"}
         /\ AfterSuccess(at) = "signal3" => at \in CheckStages
         /\ AfterSuccess(at) = "connect" => at \in CheckStages \cup {"signal3"}
BY DEF AfterSuccess, Dialogue, SignalStages, CheckStages

\* A stage that fails leads to one that neither needs nor has a context.
LEMMA FailureFacts ==
  ASSUME NEW s
  PROVE  AfterFailure(s) \in Dialogue \ {"signal3", "connect"}
BY DEF AfterFailure, Dialogue, SignalStages, CheckStages

\* CheckContext, if it has a name to look for, succeeds only on an answer that
\* names the context, and
\* ConnectIP only on an answer other than an error.
LEMMA VerdictFacts ==
  ASSUME NEW got, Verdict(got) = "ok"
  PROVE  /\ named /\ at \in CheckStages => "context OK" \in got
         /\ at = "connect" => \E x \in got : x # "ERROR"
<1>1. ASSUME named, at \in CheckStages PROVE "context OK" \in got
  <2>1. at \notin {"attach", "connect", "echo", "reset"} BY <1>1 DEF CheckStages
  <2>2. CASE got \ {"ERROR"} # {} BY <1>1, <2>1, <2>2 DEF Verdict
  <2>3. CASE got \ {"ERROR"} = {} BY <1>1, <2>1, <2>3 DEF Verdict
  <2> QED BY <2>2, <2>3
<1>2. ASSUME at = "connect" PROVE got \ {"ERROR"} # {}
  <2>1. at \notin CheckStages \cup {"attach", "echo", "reset"} BY <1>2 DEF CheckStages
  <2> QED BY <1>2, <2>1 DEF Verdict
<1> QED BY <1>1, <1>2

\* The initial state satisfies the inductive invariant.
LEMMA InitInv == Init => IInv
<1> SUFFICES ASSUME Init PROVE IInv
  OBVIOUS
<1> USE EmptyFacts DEF Init
<1>1. TypeOK
  <2>1. Flags BY Zenon DEF Flags
  <2>2. retry \in 0..Tries BY TriesAssumption
  <2> QED BY <2>1, <2>2 DEF TypeOK, Flags
<1>2. PortReleased /\ Places BY DEF PortReleased, Places, Dialogue, SignalStages, CheckStages
<1>3. ResetLast BY DEF ResetLast
<1>4. InStep BY DEF InStep
<1> QED BY <1>1, <1>2, <1>3, <1>4 DEF IInv

\* A step that closes the port and leaves the dialogue.
LEMMA ClosedInv ==
  ASSUME IInv, PortClosed, at' \in {"idle", "offOpen"}, waiting' = FALSE,
         signal' = signal,
         bPowerOff' \in BOOLEAN, bModemOpen' \in BOOLEAN, bModemOnFirstTime' \in BOOLEAN,
         retry' \in 0..Tries \/ retry' \in 0..OffTries
  PROVE  IInv'
<1> USE EmptyFacts
<1>1. conn' = FALSE /\ sent' = <<>> /\ rx' = <<>> /\ late' = late /\ named' = named
  BY DEF PortClosed
<1>2. line' \in {"down", "up", "dropped"} /\ context' \in {"none", "set", "lost"}
  BY DEF PortClosed, IInv, TypeOK
<1>3. conn' \in BOOLEAN /\ late' \in BOOLEAN /\ waiting' \in BOOLEAN
  BY <1>1, Zenon DEF IInv, TypeOK
<1>4. TypeOK' BY <1>1, <1>2, <1>3 DEF IInv, TypeOK
<1>5. PortReleased' BY <1>1 DEF PortReleased
<1>6. Places' BY DEF Places, Dialogue, SignalStages, CheckStages
<1>7. ResetLast' BY <1>1 DEF ResetLast
<1>8. InStep' BY <1>1 DEF InStep
<1> QED BY <1>4, <1>5, <1>6, <1>7, <1>8 DEF IInv

\* A step to another stage of the dialogue, which may have read answers.
LEMMA MovedInv ==
  ASSUME IInv, at # "reset", conn = TRUE, NEW s \in Dialogue, Goto(s),
         named /\ s \in {"signal3", "connect"} => context # "none",
         bPowerOff' = bPowerOff, bModemOpen' \in BOOLEAN, bModemOnFirstTime' \in BOOLEAN,
         UNCHANGED <<conn, sent, late, modemVars>>,
         rx' \in Seq(Answers), Len(rx') <= Len(rx),
         \A i \in DOMAIN rx' : \E j \in DOMAIN rx : rx'[i] = rx[j]
  PROVE  IInv'
<1> USE DEF IInv, modemVars
<1>1. /\ at' = s /\ signal' = "ask" /\ waiting' = FALSE /\ retry' = Tries
      /\ conn' = conn /\ sent' = sent /\ late' = late /\ line' = line /\ context' = context
      /\ named' = named
  BY DEF Goto
<1>2. waiting' \in BOOLEAN BY <1>1, Zenon
<1>3. retry' \in 0..Tries BY <1>1, TriesAssumption
<1>4. s \notin {"idle", "open", "offOpen"} BY DEF Dialogue, SignalStages, CheckStages
<1>5. TypeOK' BY <1>1, <1>2, <1>3 DEF TypeOK
<1>6. PortReleased' /\ Places' BY <1>1, <1>4 DEF PortReleased, Places
<1>7. ResetLast'
  <2>1. named' = named BY <1>1
  <2>2. named' => named BY <2>1
  <2> QED BY <1>1, <2>2 DEF ResetLast
<1>8. InStep'
  <2>1. Len(sent) \in Nat /\ Len(rx) \in Nat /\ Len(rx') \in Nat BY SeqFacts DEF TypeOK
  <2> QED BY <1>1, <2>1 DEF InStep
<1> QED BY <1>5, <1>6, <1>7, <1>8

\* The end of a wait, with answers that were in the port and what is left
\* of them there.
LEMMA AnsweredInv ==
  ASSUME IInv, waiting, NEW got, NEW r \in Seq(Answers), Answered(got),
         \A x \in got : \E j \in DOMAIN rx : x = rx[j],
         rx' = (IF conn' THEN r ELSE <<>>),
         Len(r) <= Len(rx),
         \A i \in DOMAIN r : \E j \in DOMAIN rx : r[i] = rx[j]
  PROVE  IInv'
<1> USE DEF IInv
<1>1. at \in Dialogue /\ conn = TRUE BY DEF Places, TypeOK
<1>2. Len(r) \in Nat /\ Len(rx) \in Nat /\ Len(sent) \in Nat BY SeqFacts DEF TypeOK
<1>3. /\ bPowerOff \in BOOLEAN /\ bModemOpen \in BOOLEAN /\ bModemOnFirstTime \in BOOLEAN
  BY DEF TypeOK
<1> DEFINE again == Verdict(got) = "again" /\ retry > 1
           ok == Verdict(got) = "ok"
<1> HIDE DEF again, ok
<1>4. CASE /\ again
           /\ waiting' = FALSE /\ retry' = retry - 1
           /\ UNCHANGED <<bPowerOff, bModemOpen, bModemOnFirstTime, at, signal, conn, sent,
                          late, modemVars>>
  <2> USE DEF modemVars
  <2>1. rx' = r BY <1>1, <1>4
  <2>2. waiting' \in BOOLEAN BY <1>4, Zenon
  <2>3. retry' \in 0..Tries \/ retry' \in 0..OffTries
    BY <1>4, TriesAssumption DEF again, TypeOK
  <2>4. TypeOK' BY <1>4, <2>1, <2>2, <2>3 DEF TypeOK
  <2>5. PortReleased' BY <1>4 DEF PortReleased
  <2>6. Places' BY <1>1, <1>4 DEF Places, Dialogue, SignalStages, CheckStages
  <2>7. ResetLast' BY <1>4, <2>1 DEF ResetLast
  <2>8. InStep' BY <1>2, <1>4, <2>1 DEF InStep
  <2> QED BY <2>4, <2>5, <2>6, <2>7, <2>8
<1>5. CASE /\ ok /\ at \in SignalStages /\ signal = "ask"
           /\ signal' = "level" /\ waiting' = FALSE
           /\ UNCHANGED <<bPowerOff, bModemOpen, bModemOnFirstTime, at, retry, conn, sent,
                          late, modemVars>>
  <2> USE DEF modemVars
  <2>1. rx' = r BY <1>1, <1>5
  <2>2. waiting' \in BOOLEAN BY <1>5, Zenon
  <2>3. TypeOK' BY <1>5, <2>1, <2>2 DEF TypeOK
  <2>4. PortReleased' BY <1>5 DEF PortReleased
  <2>5. Places' BY <1>1, <1>5 DEF Places, Dialogue, SignalStages, CheckStages
  <2>6. ResetLast' BY <1>5, <2>1 DEF ResetLast
  <2>7. InStep' BY <1>2, <1>5, <2>1 DEF InStep
  <2> QED BY <2>3, <2>4, <2>5, <2>6, <2>7
<1>6. CASE /\ ok /\ at \notin {"connect", "reset", "off"} /\ signal # "weak"
           /\ at \in SignalStages => signal = "strong"
           /\ StageOK
           /\ UNCHANGED <<conn, sent, late, modemVars>>
  <2>1. rx' = r BY <1>1, <1>6
  <2> DEFINE s == AfterSuccess(at)
  <2>2. /\ s \in Dialogue /\ (s = "signal3" => at \in CheckStages)
        /\ (s = "connect" => at \in CheckStages \cup {"signal3"})
    BY <1>1, <1>6, SuccessFacts
  <2>3. Goto(s) /\ UNCHANGED <<bPowerOff, bModemOpen, bModemOnFirstTime>> BY <1>6 DEF StageOK
  <2> HIDE DEF s
  <2>4. ASSUME named, at \in CheckStages PROVE context # "none"
    <3>1. "context OK" \in got BY <1>6, <2>4, VerdictFacts DEF ok
    <3>2. PICK j \in DOMAIN rx : rx[j] = "context OK" BY <3>1
    <3> QED BY <1>6, <3>2 DEF ResetLast
  <2>5. named /\ s \in {"signal3", "connect"} => context # "none" BY <2>2, <2>4 DEF ResetLast
  <2>6. bModemOpen' \in BOOLEAN /\ bModemOnFirstTime' \in BOOLEAN BY <1>3, <2>3
  <2> QED BY <1>1, <1>6, <2>1, <2>2, <2>3, <2>5, <2>6, MovedInv
<1>7. CASE /\ ~again /\ at \notin {"reset", "off"}
           /\ ok => signal = "weak"
           /\ StageFails
           /\ UNCHANGED <<conn, sent, late, modemVars>>
  <2>1. rx' = r BY <1>1, <1>7
  <2> DEFINE s == AfterFailure(at)
  <2>2. s \in Dialogue \ {"signal3", "connect"} BY FailureFacts
  <2>3. Goto(s) /\ bPowerOff' = bPowerOff BY <1>7 DEF StageFails
  <2> HIDE DEF s
  <2>4. bModemOpen' \in BOOLEAN /\ bModemOnFirstTime' \in BOOLEAN
    BY <1>7, Zenon DEF StageFails
  <2> QED BY <1>1, <1>7, <2>1, <2>2, <2>3, <2>4, MovedInv
<1>8. CASE ok /\ at = "connect" /\ PowerOnDone
  <2>1. bPowerOff' \in BOOLEAN /\ bModemOpen' \in BOOLEAN BY <1>8, Zenon DEF PowerOnDone
  <2>2. /\ PortClosed /\ at' \in {"idle", "offOpen"} /\ waiting' = FALSE
        /\ signal' = signal /\ bModemOnFirstTime' \in BOOLEAN
        /\ (retry' \in 0..Tries \/ retry' \in 0..OffTries)
    BY <1>3, <1>8 DEF PowerOnDone, TypeOK
  <2> QED BY <2>1, <2>2, ClosedInv
<1>9. CASE ~again /\ at = "reset" /\ PowerOnFails
  <2>1. bModemOpen' \in BOOLEAN BY <1>9, Zenon DEF PowerOnFails
  <2>2. /\ PortClosed /\ at' \in {"idle", "offOpen"} /\ waiting' = FALSE
        /\ signal' = signal /\ bPowerOff' \in BOOLEAN /\ bModemOnFirstTime' \in BOOLEAN
        /\ (retry' \in 0..Tries \/ retry' \in 0..OffTries)
    BY <1>3, <1>9 DEF PowerOnFails, TypeOK
  <2> QED BY <2>1, <2>2, ClosedInv
<1>10. CASE ~again /\ at = "off" /\ PowerOffDone
  <2>1. /\ PortClosed /\ at' \in {"idle", "offOpen"} /\ waiting' = FALSE
        /\ signal' = signal /\ bPowerOff' \in BOOLEAN /\ bModemOpen' \in BOOLEAN
        /\ bModemOnFirstTime' \in BOOLEAN
        /\ (retry' \in 0..Tries \/ retry' \in 0..OffTries)
    BY <1>3, <1>10 DEF PowerOffDone, TypeOK
  <2> QED BY <2>1, ClosedInv
<1> QED BY <1>4, <1>5, <1>6, <1>7, <1>8, <1>9, <1>10, Zenon DEF Answered, again, ok

\* Calls begin, and the port is opened or not.
LEMMA CallsInv ==
  IInv /\ (PowerOnStarts \/ PowerOffStarts \/ OpensPort \/ OpenFails \/ PowerOffOpens) => IInv'
<1> SUFFICES ASSUME IInv,
             PowerOnStarts \/ PowerOffStarts \/ OpensPort \/ OpenFails \/ PowerOffOpens
    PROVE IInv'
  OBVIOUS
<1> USE EmptyFacts, TriesAssumption
    DEF IInv, portVars, modemVars, Dialogue, SignalStages, CheckStages
<1>1. CASE PowerOnStarts
  <2> USE DEF PowerOnStarts, Goto
  <2>1. bModemOnFirstTime' \in BOOLEAN /\ waiting' \in BOOLEAN BY <1>1, Zenon
  <2>2. retry' \in 0..Tries BY <1>1
  <2>3. TypeOK' BY <1>1, <2>1, <2>2 DEF TypeOK
  <2>4. PortReleased' /\ Places' BY <1>1 DEF PortReleased, Places
  <2>5. ResetLast' BY <1>1 DEF ResetLast
  <2>6. InStep' BY <1>1 DEF InStep
  <2> QED BY <2>3, <2>4, <2>5, <2>6
<1>2. CASE PowerOffStarts
  <2> USE DEF PowerOffStarts
  <2>1. bPowerOff' \in BOOLEAN /\ waiting' \in BOOLEAN BY <1>2, Zenon
  <2>2. retry' \in 0..OffTries BY <1>2
  <2>3. TypeOK' BY <1>2, <2>1, <2>2 DEF TypeOK
  <2>4. PortReleased' /\ Places' BY <1>2 DEF PortReleased, Places
  <2>5. ResetLast' BY <1>2 DEF ResetLast
  <2>6. InStep' BY <1>2 DEF InStep
  <2> QED BY <2>3, <2>4, <2>5, <2>6
<1>3. CASE OpensPort
  <2> USE DEF OpensPort, PortOpened, Goto
  <2>1. conn' \in BOOLEAN /\ late' \in BOOLEAN /\ waiting' \in BOOLEAN BY <1>3, Zenon
  <2>2. retry' \in 0..Tries /\ at' \in {"second", "echo"} BY <1>3
  <2>3. TypeOK' BY <1>3, <2>1, <2>2 DEF TypeOK
  <2>4. PortReleased' /\ Places' BY <1>3, <2>2 DEF PortReleased, Places
  <2>5. ResetLast' BY <1>3, <2>2 DEF ResetLast
  <2>6. InStep' BY <1>3 DEF InStep
  <2> QED BY <2>3, <2>4, <2>5, <2>6
<1>4. CASE OpenFails
  <2> USE DEF OpenFails
  <2>1. retry' \in 0..Tries \/ retry' \in 0..OffTries BY <1>4 DEF Places, TypeOK
  <2>2. at' = (IF retry' = 0 THEN "idle" ELSE "open") BY <1>4
  <2>3. at' \in {"idle", "open"} /\ (at' = "open" => retry' > 0) BY <2>1, <2>2
  <2>4. TypeOK' BY <1>4, <2>1, <2>3 DEF TypeOK
  <2>5. PortReleased' /\ Places' BY <1>4, <2>3 DEF PortReleased, Places
  <2>6. ResetLast' BY <1>4, <2>3 DEF ResetLast
  <2>7. InStep' BY <1>4, <2>3 DEF InStep
  <2> QED BY <2>4, <2>5, <2>6, <2>7
<1>5. CASE PowerOffOpens
  <2> USE DEF PowerOffOpens, PortOpened
  <2>1. conn' \in BOOLEAN /\ late' \in BOOLEAN BY <1>5, Zenon
  <2>2. TypeOK' BY <1>5, <2>1 DEF TypeOK
  <2>3. PortReleased' /\ Places' BY <1>5 DEF PortReleased, Places
  <2>4. ResetLast' BY <1>5 DEF ResetLast
  <2>5. InStep' BY <1>5 DEF InStep
  <2> QED BY <2>2, <2>3, <2>4, <2>5
<1> QED BY <1>1, <1>2, <1>3, <1>4, <1>5

\* A command written while another is unanswered makes the dialogue late.
LEMMA WritesCommandInv == IInv /\ WritesCommand => IInv'
<1> SUFFICES ASSUME IInv, WritesCommand PROVE IInv'
  OBVIOUS
<1> USE DEF IInv, modemVars
<1>1. /\ at \in Dialogue /\ sent' = Append(sent, Command) /\ waiting' = TRUE /\ rx' = rx
      /\ late' = (late \/ sent # <<>> \/ rx # <<>>) /\ at' = at /\ conn' = conn
      /\ retry' = retry /\ line' = line /\ context' = context /\ signal' = signal
      /\ named' = named
      /\ bPowerOff' = bPowerOff /\ bModemOpen' = bModemOpen
      /\ bModemOnFirstTime' = bModemOnFirstTime
  BY DEF WritesCommand
<1> DEFINE c == Command
<1>2. c \in Commands /\ (c = "CFUN" => at = "reset") /\ (at = "connect" => c = "CONNECT=1")
  BY <1>1, CommandFacts
<1> HIDE DEF c
<1>3. /\ sent' = Append(sent, c) /\ sent' \in Seq(Commands)
      /\ \A i \in DOMAIN sent' : sent'[i] = c \/ (i \in DOMAIN sent /\ sent'[i] = sent[i])
      /\ (sent = <<>> => Len(sent') = 1)
  <2>1. sent' = Append(sent, c) BY <1>1 DEF c
  <2>2. sent \in Seq(Commands) BY DEF TypeOK
  <2> QED BY <1>2, <2>1, <2>2, AppendFacts
<1>4. waiting' \in BOOLEAN /\ late' \in BOOLEAN BY <1>1, Zenon
<1>5. TypeOK' BY <1>1, <1>3, <1>4 DEF TypeOK
<1>6. PortReleased' /\ Places' BY <1>1 DEF PortReleased, Places
<1>7. ResetLast'
  <2>1. named' = named BY <1>1
  <2>2. named' => named BY <2>1
  <2>3. named' /\ at' \in {"signal3", "connect"} => context' # "none"
    BY <1>1, <2>2 DEF ResetLast
  <2>4. \A i \in DOMAIN sent' : sent'[i] = "CFUN" => at' = "reset"
    BY <1>1, <1>2, <1>3 DEF ResetLast
  <2>5. \A i \in DOMAIN rx' : rx'[i] = "context OK" => at' = "reset" \/ context' # "none"
    BY <1>1 DEF ResetLast
  <2> QED BY <2>3, <2>4, <2>5 DEF ResetLast
<1>8. ASSUME ~late' PROVE sent = <<>> /\ rx = <<>> /\ Len(rx) = 0
  BY <1>1, <1>8, EmptyFacts, Zenon
<1>9. InStep'
  <2> SUFFICES ASSUME ~late'
      PROVE  /\ Len(sent') + Len(rx') <= 1
             /\ at = "connect" =>
                  /\ \A i \in DOMAIN sent' : sent'[i] = "CONNECT=1"
                  /\ \A i \in DOMAIN rx' : rx'[i] = "ERROR" \/ line # "down"
    BY <1>1 DEF InStep
  <2>1. Len(sent') = 1 /\ Len(rx') = 0 BY <1>1, <1>3, <1>8
  <2>2. DOMAIN rx' = {} /\ DOMAIN sent = {} BY <1>1, <1>8, EmptyFacts, Zenon
  <2> QED BY <1>2, <1>3, <2>1, <2>2
<1> QED BY <1>5, <1>6, <1>7, <1>9

\* WaitATResponse returns, with answers or without.
LEMMA WaitEndsInv == IInv /\ (ReadsAnswer \/ TimesOut) => IInv'
<1> SUFFICES ASSUME IInv, ReadsAnswer \/ TimesOut PROVE IInv'
  OBVIOUS
<1>1. rx \in Seq(Answers) BY DEF IInv, TypeOK
<1>2. Len(rx) \in Nat BY <1>1, SeqFacts
<1>3. CASE ReadsAnswer
  <2>1. PICK k \in 1..Len(rx) :
          /\ Answered(ToSet(SubSeq(rx, 1, k)))
          /\ rx' = IF conn' THEN SubSeq(rx, k + 1, Len(rx)) ELSE <<>>
    BY <1>3 DEF ReadsAnswer
  <2> DEFINE r == SubSeq(rx, k + 1, Len(rx)) got == ToSet(SubSeq(rx, 1, k))
  <2>2. k \in 0..Len(rx) BY <1>2
  <2>3. /\ r \in Seq(Answers) /\ Len(r) = Len(rx) - k
        /\ \A i \in DOMAIN r : \E j \in DOMAIN rx : r[i] = rx[j]
        /\ \A x \in got : \E j \in DOMAIN rx : x = rx[j]
    BY <1>1, <2>2, ReadFacts
  <2>4. waiting /\ Answered(got) /\ rx' = (IF conn' THEN r ELSE <<>>)
    BY <1>3, <2>1 DEF ReadsAnswer
  <2> HIDE DEF r, got
  <2>5. Len(r) <= Len(rx) BY <1>2, <2>3
  <2> QED BY <2>3, <2>4, <2>5, AnsweredInv
<1>4. CASE TimesOut
  <2>1. waiting /\ Answered({}) /\ rx' = (IF conn' THEN rx ELSE <<>>)
    BY <1>4 DEF TimesOut
  <2>2. Len(rx) <= Len(rx) BY <1>2
  <2> QED BY <1>1, <2>1, <2>2, AnsweredInv
<1> QED BY <1>3, <1>4

\* The signal level is read, or an exception ends the call.
LEMMA OtherAgentInv == IInv /\ (ReadsLevel \/ PowerOnThrows \/ PowerOffThrows) => IInv'
<1> SUFFICES ASSUME IInv, ReadsLevel \/ PowerOnThrows \/ PowerOffThrows PROVE IInv'
  OBVIOUS
<1> USE DEF IInv
<1>1. /\ bPowerOff \in BOOLEAN /\ bModemOpen \in BOOLEAN /\ bModemOnFirstTime \in BOOLEAN
  BY DEF TypeOK
<1>2. CASE ReadsLevel
  <2> USE DEF modemVars
  <2>1. PICK k \in 0..Len(rx) : rx' = SubSeq(rx, k + 1, Len(rx)) BY <1>2 DEF ReadsLevel
  <2>2. rx \in Seq(Answers) BY DEF TypeOK
  <2>3. /\ rx' \in Seq(Answers) /\ Len(rx') = Len(rx) - k
        /\ \A i \in DOMAIN rx' : \E j \in DOMAIN rx : rx'[i] = rx[j]
    BY <2>1, <2>2, ReadFacts
  <2>4. Len(rx) \in Nat /\ Len(rx') \in Nat /\ Len(sent) \in Nat /\ Len(rx') <= Len(rx)
    BY <2>1, <2>2, <2>3, SeqFacts DEF TypeOK
  <2>5. /\ at \in SignalStages /\ at' = at /\ retry' = Tries /\ waiting' = waiting
        /\ conn' = conn /\ sent' = sent /\ late' = late /\ line' = line
        /\ context' = context /\ named' = named /\ signal' \in {"strong", "weak"}
        /\ bPowerOff' = bPowerOff /\ bModemOpen' = bModemOpen
        /\ bModemOnFirstTime' = bModemOnFirstTime
    BY <1>2 DEF ReadsLevel
  <2>6. retry' \in 0..Tries BY <2>5, TriesAssumption
  <2>7. TypeOK' BY <2>3, <2>5, <2>6 DEF TypeOK
  <2>8. PortReleased' /\ Places' BY <2>5 DEF PortReleased, Places, SignalStages
  <2>9. ResetLast' BY <2>3, <2>5 DEF ResetLast
  <2>10. InStep' BY <2>3, <2>4, <2>5 DEF InStep, SignalStages
  <2> QED BY <2>7, <2>8, <2>9, <2>10
<1>3. CASE PowerOnThrows
  <2>1. bModemOpen' \in BOOLEAN BY <1>3, Zenon DEF PowerOnThrows, PowerOnFails
  <2>2. /\ PortClosed /\ at' \in {"idle", "offOpen"} /\ waiting' = FALSE
        /\ signal' = signal /\ bPowerOff' \in BOOLEAN /\ bModemOnFirstTime' \in BOOLEAN
        /\ (retry' \in 0..Tries \/ retry' \in 0..OffTries)
    BY <1>1, <1>3 DEF PowerOnThrows, PowerOnFails, TypeOK
  <2> QED BY <2>1, <2>2, ClosedInv
<1>4. CASE PowerOffThrows
  <2>1. /\ PortClosed /\ at' \in {"idle", "offOpen"} /\ waiting' = FALSE
        /\ signal' = signal /\ bPowerOff' \in BOOLEAN /\ bModemOpen' \in BOOLEAN
        /\ bModemOnFirstTime' \in BOOLEAN
        /\ retry' = retry \/ (retry > 1 /\ retry' = retry - 1)
    BY <1>1, <1>4 DEF PowerOffThrows, PowerOffDone
  <2>2. retry' \in 0..Tries \/ retry' \in 0..OffTries BY <2>1, TriesAssumption DEF TypeOK
  <2> QED BY <2>1, <2>2, ClosedInv
<1> QED BY <1>2, <1>3, <1>4

\* The modem takes the first command, and answers it or not: only AT+CFUN
\* takes the context away, and the answer to ConnectIP is its own.
LEMMA DeviceInv == IInv /\ Device => IInv'
<1> SUFFICES ASSUME IInv, Device PROVE IInv'
  OBVIOUS
<1> USE DEF IInv, callVars, portVars, modemVars
<1>1. rx \in Seq(Answers) /\ sent \in Seq(Commands) BY DEF TypeOK
<1>2. Len(rx) \in Nat /\ Len(sent) \in Nat BY <1>1, SeqFacts
<1>3. ASSUME sent # <<>>, sent' = Tail(sent), UNCHANGED <<callVars, conn, late, named>>,
             NEW a \in Answers, rx' = Append(rx, a) \/ rx' = rx,
             line' \in {"down", "up", "dropped"}, context' \in {"none", "set", "lost"},
             context' = "none" => context = "none" \/ Head(sent) = "CFUN",
             a = "context OK" => context' # "none",
             line' # line => line' = "up" \/ Head(sent) \in {"CONNECT=0", "CFUN"},
             Head(sent) = "CONNECT=1" => a = "ERROR" \/ line' = "up"
      PROVE  IInv'
  <2>1. /\ sent' \in Seq(Commands) /\ Len(sent') = Len(sent) - 1 /\ Len(sent) >= 1
        /\ Head(sent) = sent[1] /\ 1 \in DOMAIN sent
        /\ \A i \in DOMAIN sent' : \E j \in DOMAIN sent : sent'[i] = sent[j]
    BY <1>1, <1>3, TailFacts, SeqFacts
  <2>2. /\ rx' \in Seq(Answers)
        /\ Len(rx') = Len(rx) + 1 \/ Len(rx') = Len(rx)
        /\ \A i \in DOMAIN rx' : rx'[i] = a \/ (i \in DOMAIN rx /\ rx'[i] = rx[i])
    <3>1. CASE rx' = Append(rx, a) BY <1>1, <3>1, AppendFacts
    <3>2. CASE rx' = rx BY <1>1, <3>2
    <3> QED BY <1>3, <3>1, <3>2
  <2>3. /\ at' = at /\ waiting' = waiting /\ conn' = conn /\ late' = late /\ retry' = retry
        /\ signal' = signal /\ bPowerOff' = bPowerOff /\ bModemOpen' = bModemOpen
        /\ bModemOnFirstTime' = bModemOnFirstTime /\ named' = named
    BY <1>3
  <2>4. TypeOK' BY <1>3, <2>1, <2>2, <2>3 DEF TypeOK
  <2>5. PortReleased' /\ Places' BY <2>3 DEF PortReleased, Places
  <2>6. ResetLast'
    <3>1. Head(sent) = "CFUN" => at = "reset" BY <2>1 DEF ResetLast
    <3>2. named' => named BY <2>3, Zenon
    <3> QED BY <1>3, <2>1, <2>2, <2>3, <3>1, <3>2 DEF ResetLast
  <2>7. InStep'
    <3> SUFFICES ASSUME ~late
        PROVE  /\ Len(sent') + Len(rx') <= 1
               /\ at = "connect" /\ waiting =>
                    /\ \A i \in DOMAIN sent' : sent'[i] = "CONNECT=1"
                    /\ \A i \in DOMAIN rx' : rx'[i] = "ERROR" \/ line' # "down"
      BY <2>3 DEF InStep
    <3>1. Len(sent') + Len(rx') <= 1 BY <1>2, <2>1, <2>2 DEF InStep
    <3>2. ASSUME at = "connect", waiting
          PROVE  /\ \A i \in DOMAIN sent' : sent'[i] = "CONNECT=1"
                 /\ \A i \in DOMAIN rx' : rx'[i] = "ERROR" \/ line' # "down"
      <4>1. Head(sent) = "CONNECT=1" BY <2>1, <3>2 DEF InStep
      <4>2. a = "ERROR" \/ line' = "up" BY <1>3, <4>1
      <4>3. line' = line \/ line' = "up" BY <1>3, <4>1
      <4> QED BY <2>1, <2>2, <3>2, <4>2, <4>3 DEF InStep
    <3> QED BY <3>1, <3>2
  <2> QED BY <2>4, <2>5, <2>6, <2>7
<1>4. CASE ModemConfirms
  <2> DEFINE a == CASE Head(sent) = "CGDCONT?" /\ context = "set" -> "context OK"
                    [] OTHER -> "OK"
  <2>1. a \in Answers /\ (a = "context OK" => Head(sent) = "CGDCONT?" /\ context = "set")
    BY DEF Answers
  <2>2. /\ sent # <<>> /\ sent' = Tail(sent) /\ UNCHANGED <<callVars, conn, late, named>>
        /\ rx' = Append(rx, a)
    BY <1>4 DEF ModemConfirms
  <2> HIDE DEF a
  <2>3. /\ line' \in {"down", "up", "dropped"}
        /\ line' # line => line' = "up" \/ Head(sent) \in {"CONNECT=0", "CFUN"}
        /\ Head(sent) = "CONNECT=1" => line' = "up"
    BY <1>4 DEF ModemConfirms, TypeOK
  <2>4. /\ context' \in {"none", "set", "lost"}
        /\ context' = "none" => context = "none" \/ Head(sent) = "CFUN"
        /\ Head(sent) = "CGDCONT?" => context' = context
    BY <1>4 DEF ModemConfirms, TypeOK
  <2>5. a = "context OK" => context' # "none" BY <2>1, <2>4
  <2> QED BY <1>3, <2>1, <2>2, <2>3, <2>4, <2>5
<1>5. CASE ModemAnswers
  <2>1. /\ sent # <<>> /\ sent' = Tail(sent) /\ UNCHANGED <<callVars, conn, late, named>>
        /\ line' = line /\ context' = context
    BY <1>5 DEF ModemAnswers
  <2>2. line \in {"down", "up", "dropped"} /\ context \in {"none", "set", "lost"}
    BY DEF TypeOK
  <2>3. "ERROR" \in Answers /\ "attached OK" \in Answers BY DEF Answers
  <2>4. CASE rx' = Append(rx, "ERROR")
    BY <1>3, <2>1, <2>2, <2>3, <2>4
  <2>5. CASE Head(sent) = "CGATT?" /\ rx' = Append(rx, "attached OK")
    BY <1>3, <2>1, <2>2, <2>3, <2>5
  <2> QED BY <1>5, <2>4, <2>5 DEF ModemAnswers
<1>6. CASE ModemIgnores
  <2>1. /\ sent # <<>> /\ sent' = Tail(sent) /\ UNCHANGED <<callVars, conn, late, named>>
        /\ rx' = rx /\ line' = line /\ context' = context
    BY <1>6 DEF ModemIgnores
  <2>2. line \in {"down", "up", "dropped"} /\ context \in {"none", "set", "lost"}
    BY DEF TypeOK
  <2>3. "ERROR" \in Answers BY DEF Answers
  <2> QED BY <1>3, <2>1, <2>2, <2>3
<1>7. CASE LineDrops
  <2>1. TypeOK' BY <1>7 DEF LineDrops, TypeOK
  <2>2. PortReleased' /\ Places' BY <1>7 DEF LineDrops, PortReleased, Places
  <2>3. ResetLast' /\ InStep' BY <1>7 DEF LineDrops, ResetLast, InStep
  <2> QED BY <2>1, <2>2, <2>3
<1>8. CASE ContextLost
  <2>1. TypeOK' BY <1>8 DEF ContextLost, TypeOK
  <2>2. PortReleased' /\ Places' BY <1>8 DEF ContextLost, PortReleased, Places
  <2>3. ResetLast' /\ InStep' BY <1>8 DEF ContextLost, ResetLast, InStep
  <2> QED BY <2>1, <2>2, <2>3
<1> QED BY <1>4, <1>5, <1>6, <1>7, <1>8 DEF Device

\* A step that changes nothing.
LEMMA StutterInv == IInv /\ UNCHANGED vars => IInv'
<1> SUFFICES ASSUME IInv, UNCHANGED vars PROVE IInv'
  OBVIOUS
<1> USE DEF IInv, vars, callVars, portVars, modemVars
<1>1. TypeOK' BY DEF TypeOK
<1>2. PortReleased' /\ Places' BY DEF PortReleased, Places
<1>3. ResetLast' BY DEF ResetLast
<1>4. InStep' BY DEF InStep
<1> QED BY <1>1, <1>2, <1>3, <1>4

-----------------------------------------------------------------------------
\* The inductive invariant holds in every reachable state.
THEOREM Invariance == Spec => []IInv
<1>1. IInv /\ [Next]_vars => IInv'
  BY CallsInv, WritesCommandInv, WaitEndsInv, OtherAgentInv, DeviceInv, StutterInv
     DEF Next, Agent
<1> QED BY <1>1, InitInv, PTL DEF Spec

\* Every variable stays in its set: the stages of the dialogue follow each
\* other without leaving it, and the attempts are counted down to 0 at most.
THEOREM TypeCorrect == Spec => []TypeOK
<1>1. IInv => TypeOK BY DEF IInv
<1> QED BY <1>1, Invariance, PTL

\* Every return of PowerOn and PowerOff leaves the AT port closed.
THEOREM PortAlwaysReleased == Spec => []PortReleased
<1>1. IInv => PortReleased BY DEF IInv
<1> QED BY <1>1, Invariance, PTL

\* ConnectIP is only called when the context was confirmed and not reset, if a
\* user name or an address is configured to confirm it by.
THEOREM ContextBeforeConnect == Spec => []ContextConfirmed
<1>1. IInv => ContextConfirmed BY DEF IInv, ResetLast, ContextConfirmed
<1> QED BY <1>1, Invariance, PTL

\* What PowerOnDone takes for the confirmation of ConnectIP is one, unless
\* answers were late on this connection.
LEMMA DoneConnected ==
  ASSUME IInv, waiting, NEW got, Verdict(got) = "ok", at = "connect", ~late,
         \A x \in got : \E j \in DOMAIN rx : x = rx[j]
  PROVE  line # "down"
<1>1. PICK x \in got : x # "ERROR" BY VerdictFacts
<1>2. PICK j \in DOMAIN rx : x = rx[j] BY <1>1
<1> QED BY <1>1, <1>2 DEF IInv, InStep

\* The modem is taken for on only when it connected, or answers were late.
THEOREM OnConnected == Spec => OnMeansConnected
<1> DEFINE P == bPowerOff /\ ~bPowerOff' => line # "down" \/ late
<1>1. IInv /\ [Next]_vars => [P]_vars
  <2> SUFFICES ASSUME IInv, Next, bPowerOff, ~bPowerOff', ~late PROVE line # "down"
    OBVIOUS
  <2>1. ASSUME NEW got, Answered(got), waiting,
               \A x \in got : \E j \in DOMAIN rx : x = rx[j]
        PROVE  line # "down"
    <3>1. Verdict(got) = "ok" /\ at = "connect"
      BY <2>1, Zenon DEF Answered, StageOK, StageFails, PowerOnFails, PowerOffDone
    <3> QED BY <2>1, <3>1, DoneConnected
  <2>2. CASE ReadsAnswer
    <3>1. PICK k \in 1..Len(rx) : Answered(ToSet(SubSeq(rx, 1, k))) BY <2>2 DEF ReadsAnswer
    <3>2. rx \in Seq(Answers) BY DEF IInv, TypeOK
    <3>3. k \in 0..Len(rx) BY <3>2, SeqFacts
    <3>4. \A x \in ToSet(SubSeq(rx, 1, k)) : \E j \in DOMAIN rx : x = rx[j]
      BY <3>2, <3>3, ReadFacts
    <3> QED BY <2>1, <2>2, <3>1, <3>4 DEF ReadsAnswer
  <2>3. CASE TimesOut BY <2>1, <2>3 DEF TimesOut
  <2>4. ~(PowerOnStarts \/ PowerOffStarts \/ OpensPort \/ OpenFails \/ PowerOffOpens)
    BY Zenon DEF PowerOnStarts, PowerOffStarts, OpensPort, OpenFails, PowerOffOpens
  <2>5. ~(WritesCommand \/ ReadsLevel \/ PowerOnThrows \/ PowerOffThrows)
    BY DEF WritesCommand, ReadsLevel, PowerOnThrows, PowerOffThrows, PowerOnFails,
           PowerOffDone
  <2>6. ~Device
    BY DEF Device, ModemConfirms, ModemAnswers, ModemIgnores, LineDrops, ContextLost,
           callVars
  <2> QED BY <2>2, <2>3, <2>4, <2>5, <2>6 DEF Next, Agent
<1> QED BY <1>1, Invariance, PTL DEF Spec, OnMeansConnected

-----------------------------------------------------------------------------
(* The length of a call                                                    *)

\* CheckSignalLevel asks for the level, reads it, and ends the report.
Phase(g) == CASE g = "ask" -> 2 [] g = "level" -> 1 [] OTHER -> 0

\* Commands that PowerOn may yet come to at stage s: no stage leads to an
\* earlier one, that of the second time routine included.
Ahead(s, g) ==
  CASE s = "open" -> 17
    [] s \in {"echo", "second"} -> 16
    [] s = "signal1" -> 13 + Phase(g)
    [] s = "check" -> 12
    [] s = "signal2" -> 9 + Phase(g)
    [] s = "activate" -> 8
    [] s = "attach" -> 7
    [] s = "logon" -> 6
    [] s = "recheck" -> 5
    [] s = "signal3" -> 2 + Phase(g)
    [] s = "connect" -> 1
    [] OTHER -> 0

\* A command is written and waited for Tries times at most.
Spell == 2 * Tries + 2

\* Steps that are left of the call.
Left ==
  CASE at = "idle" -> 0
    [] at = "offOpen" -> 3 * retry + 2
    [] at = "off" -> 3 * retry + (IF waiting THEN 0 ELSE 1)
    [] OTHER -> Ahead(at, signal) * Spell + 2 * retry + (IF waiting THEN 0 ELSE 1)

\* The attempts that are left, during a call.
Counters ==
  /\ at \in (Dialogue \ {"off"}) \cup {"open"} => retry \in 1..Tries
  /\ at \in {"off", "offOpen"} => retry \in 1..OffTries
  /\ at = "open" => ~waiting

\* A call begins with a number of steps that depends on the numbers of
\* attempts only; each of its steps takes one at least, the modem and the
\* network take none, and it is over when none is left.
CountsDown ==
  /\ Left \in Nat /\ (Left = 0 <=> at = "idle")
  /\ PowerOnStarts => Left' = 18 * Spell - 1
  /\ PowerOffStarts => Left' = 3 * OffTries + 2
  /\ Agent => Left' < Left
  /\ Device => Left' = Left

\* The numbers of attempts.
LEMMA TriesFacts ==
  /\ Tries \in Nat /\ Tries > 0 /\ OffTries \in Nat /\ OffTries > 0
  /\ Spell \in Nat /\ Spell = 2 * Tries + 2
BY TriesAssumption DEF Spell

\* Ahead is a number.
LEMMA AheadType == ASSUME NEW s, NEW g PROVE Ahead(s, g) \in Nat
<1>1. Phase(g) \in {0, 1, 2} BY DEF Phase
<1> HIDE DEF Phase
<1> QED BY <1>1 DEF Ahead

\* A command less outweighs all attempts at the next one.
LEMMA CommandLess ==
  ASSUME NEW q \in Nat, NEW r \in Nat, q < r, NEW x \in Nat, x < Spell, NEW y \in Nat
  PROVE  q * Spell + x < r * Spell + y
<1> USE TriesFacts
<1>1. PICK k \in Nat : r = q + 1 + k
  <2>1. r - q - 1 \in Nat OBVIOUS
  <2> QED BY <2>1
<1>2. r * Spell = q * Spell + Spell + k * Spell /\ k * Spell \in Nat /\ q * Spell \in Nat
  BY <1>1
<1> QED BY <1>2

\* The order of the dialogue: whatever a stage ends with, fewer are ahead.
LEMMA StagesAscend ==
  /\ at \in Dialogue \ {"connect", "reset", "off"} =>
       Ahead(AfterSuccess(at), "ask") < Ahead(at, signal)
  /\ at \in Dialogue \ {"reset", "off"} =>
       Ahead(AfterFailure(at), "ask") < Ahead(at, signal)
<1>1. Phase("ask") = 2 /\ Phase(signal) \in {0, 1, 2} BY DEF Phase
<1> HIDE DEF Phase
<1> USE <1>1 DEF Ahead, Dialogue, SignalStages, CheckStages
<1>2. at \in Dialogue \ {"connect", "reset", "off"} =>
        Ahead(AfterSuccess(at), "ask") < Ahead(at, signal)
  BY DEF AfterSuccess
<1>3. at \in Dialogue \ {"reset", "off"} =>
        Ahead(AfterFailure(at), "ask") < Ahead(at, signal)
  BY DEF AfterFailure
<1> QED BY <1>2, <1>3

\* Left during PowerOn and during PowerOff.
LEMMA LeftParts ==
  /\ at \in (Dialogue \ {"off"}) \cup {"open"} =>
       Left = Ahead(at, signal) * Spell + 2 * retry + (IF waiting THEN 0 ELSE 1)
  /\ at = "idle" => Left = 0
  /\ at = "offOpen" => Left = 3 * retry + 2
  /\ at = "off" => Left = 3 * retry + (IF waiting THEN 0 ELSE 1)
BY DEF Left, Dialogue, SignalStages, CheckStages

\* Left is a number, and 0 only between two calls.
LEMMA LeftCounts ==
  ASSUME TypeOK, Counters
  PROVE  Left \in Nat /\ (Left = 0 <=> at = "idle")
<1> USE TriesFacts
<1>1. CASE at \in (Dialogue \ {"off"}) \cup {"open"}
  <2>1. Ahead(at, signal) * Spell \in Nat BY AheadType
  <2>2. retry \in Nat /\ retry > 0 BY <1>1 DEF Counters
  <2>3. at # "idle" BY <1>1 DEF Dialogue, SignalStages, CheckStages
  <2> QED BY <1>1, <2>1, <2>2, <2>3, LeftParts
<1>2. CASE at = "idle" BY <1>2, LeftParts
<1>3. CASE at \in {"off", "offOpen"}
  <2>1. retry \in Nat /\ retry > 0 BY <1>3 DEF Counters
  <2> QED BY <1>3, <2>1, LeftParts
<1> QED BY <1>1, <1>2, <1>3 DEF TypeOK, Dialogue

\* The call ends.
LEMMA EndsCount ==
  ASSUME TypeOK, Counters, at # "idle", at' = "idle"
  PROVE  Left' < Left /\ Counters'
<1>1. Left \in Nat /\ Left > 0 BY LeftCounts
<1>2. Left' = 0 BY DEF Left
<1>3. Counters' BY DEF Counters, Dialogue, SignalStages, CheckStages
<1> QED BY <1>1, <1>2, <1>3

\* PowerOn goes on to its next stage.
LEMMA GotoCounts ==
  ASSUME TypeOK, Counters, at \in (Dialogue \ {"off"}) \cup {"open"},
         NEW s \in Dialogue \ {"off"}, Goto(s), Ahead(s, "ask") < Ahead(at, signal)
  PROVE  Left' < Left /\ Counters'
<1> USE TriesFacts
<1>1. at' = s /\ signal' = "ask" /\ waiting' = FALSE /\ retry' = Tries BY DEF Goto
<1>2. s \notin {"idle", "off", "offOpen", "open"}
  BY DEF Dialogue, SignalStages, CheckStages
<1>3. Left' = Ahead(s, "ask") * Spell + (2 * Tries + 1)
  <2>1. Left' = Ahead(s, "ask") * Spell + 2 * Tries + 1 BY <1>1, <1>2 DEF Left
  <2>2. Ahead(s, "ask") * Spell \in Nat BY AheadType
  <2> QED BY <2>1, <2>2
<1>4. retry \in Nat BY DEF Counters
<1>5. PICK y \in Nat : Left = Ahead(at, signal) * Spell + y
  <2>1. Left = Ahead(at, signal) * Spell + 2 * retry + (IF waiting THEN 0 ELSE 1)
    BY LeftParts
  <2>2. Ahead(at, signal) * Spell \in Nat BY AheadType
  <2>3. Left = Ahead(at, signal) * Spell + (2 * retry + (IF waiting THEN 0 ELSE 1))
    BY <1>4, <2>1, <2>2
  <2>4. 2 * retry + (IF waiting THEN 0 ELSE 1) \in Nat BY <1>4
  <2> QED BY <2>3, <2>4
<1>6. Left' < Left BY <1>3, <1>5, AheadType, CommandLess
<1>7. Counters' BY <1>1, <1>2 DEF Counters
<1> QED BY <1>6, <1>7

\* The wait for an answer is over, however it ends.
LEMMA AnsweredCounts ==
  ASSUME TypeOK, Places, Counters, waiting, NEW got, Answered(got)
  PROVE  Left' < Left /\ Counters'
<1> USE TriesFacts
<1>1. at \in Dialogue BY DEF Places
<1>2. at # "idle" BY <1>1 DEF Dialogue, SignalStages, CheckStages
<1>3. CASE /\ retry > 1 /\ waiting' = FALSE /\ retry' = retry - 1
           /\ at' = at /\ signal' = signal
  <2>1. at # "open" /\ at # "offOpen"
    BY <1>1 DEF Dialogue, SignalStages, CheckStages
  <2>2. Counters' BY <1>1, <1>3, <2>1 DEF Counters
  <2>3. CASE at = "off"
    <3>1. retry \in Nat BY <2>3 DEF Counters
    <3> QED BY <1>3, <2>2, <2>3, <3>1 DEF Left
  <2>4. CASE at # "off"
    <3>1. retry \in Nat /\ Ahead(at, signal) * Spell \in Nat
      BY <1>1, <2>4, AheadType DEF Counters
    <3>2. Left = Ahead(at, signal) * Spell + 2 * retry
      BY <1>1, <2>4, <3>1, LeftParts
    <3>3. Left' = Ahead(at, signal) * Spell + 2 * (retry - 1) + 1
      BY <1>2, <1>3, <2>1, <2>4 DEF Left
    <3> QED BY <2>2, <3>1, <3>2, <3>3
  <2> QED BY <2>3, <2>4
<1>4. CASE /\ at \in SignalStages /\ signal = "ask" /\ signal' = "level"
           /\ waiting' = FALSE /\ at' = at /\ retry' = retry
  <2>1. at \in {"signal1", "signal2", "signal3"} /\ at \in Dialogue \ {"off"}
    BY <1>4 DEF SignalStages, Dialogue
  <2>2. retry \in 1..Tries BY <2>1 DEF Counters
  <2>3. Ahead(at, "level") < Ahead(at, "ask") BY <2>1 DEF Ahead, Phase
  <2>4. Left = Ahead(at, "ask") * Spell + 2 * retry
    <3>1. Ahead(at, "ask") * Spell \in Nat BY AheadType
    <3> QED BY <1>4, <2>1, <2>2, <3>1, LeftParts
  <2>5. Left' = Ahead(at, "level") * Spell + (2 * retry + 1)
    <3>1. Ahead(at, "level") * Spell \in Nat BY AheadType
    <3>2. Left' = Ahead(at, "level") * Spell + 2 * retry + 1
      BY <1>4, <2>1 DEF Left
    <3> QED BY <2>2, <3>1, <3>2
  <2>6. Left' < Left
    <3>1. 2 * retry \in Nat /\ 2 * retry + 1 \in Nat /\ 2 * retry + 1 < Spell BY <2>2
    <3> QED BY <2>3, <2>4, <2>5, <3>1, AheadType, CommandLess
  <2>7. Counters' BY <1>4, <2>1, <2>2 DEF Counters
  <2> QED BY <2>6, <2>7
<1>5. CASE at \notin {"connect", "reset", "off"} /\ StageOK
  <2>1. Goto(AfterSuccess(at)) BY <1>5 DEF StageOK
  <2>2. at \in Dialogue \ {"connect", "reset", "off"} BY <1>1, <1>5
  <2>3. AfterSuccess(at) \in Dialogue \ {"off"} BY <2>2, SuccessFacts
  <2>4. Ahead(AfterSuccess(at), "ask") < Ahead(at, signal) BY <2>2, StagesAscend
  <2> QED BY <2>1, <2>2, <2>3, <2>4, GotoCounts
<1>6. CASE at \notin {"reset", "off"} /\ StageFails
  <2>1. Goto(AfterFailure(at)) BY <1>6 DEF StageFails
  <2>2. at \in Dialogue \ {"reset", "off"} BY <1>1, <1>6
  <2>3. AfterFailure(at) \in Dialogue \ {"off"}
    BY DEF AfterFailure, Dialogue, SignalStages, CheckStages
  <2>4. Ahead(AfterFailure(at), "ask") < Ahead(at, signal) BY <2>2, StagesAscend
  <2> QED BY <2>1, <2>2, <2>3, <2>4, GotoCounts
<1>7. CASE PowerOnDone \/ PowerOnFails \/ PowerOffDone
  <2>1. at' = "idle" BY <1>7 DEF PowerOnDone, PowerOnFails, PowerOffDone
  <2> QED BY <1>2, <2>1, EndsCount
<1> QED BY <1>3, <1>4, <1>5, <1>6, <1>7, Zenon DEF Answered

\* A command is written, or a level is read.
LEMMA DialogueCounts ==
  ASSUME TypeOK, Places, Counters, WritesCommand \/ ReadsLevel
  PROVE  Left' < Left /\ Counters'
<1> USE TriesFacts
<1>1. CASE WritesCommand
  <2>1. /\ at \in Dialogue /\ waiting = FALSE /\ waiting' = TRUE
        /\ at' = at /\ signal' = signal /\ retry' = retry
    BY <1>1 DEF WritesCommand, TypeOK
  <2>2. at \notin {"idle", "open", "offOpen"}
    BY <2>1 DEF Dialogue, SignalStages, CheckStages
  <2>3. Counters' BY <2>1, <2>2 DEF Counters
  <2>4. CASE at = "off"
    <3>1. retry \in Nat BY <2>4 DEF Counters
    <3> QED BY <2>1, <2>3, <2>4, <3>1 DEF Left
  <2>5. CASE at # "off"
    <3>1. retry \in Nat /\ Ahead(at, signal) * Spell \in Nat
      BY <2>1, <2>5, AheadType DEF Counters
    <3>2. Left = Ahead(at, signal) * Spell + 2 * retry + 1
      BY <2>1, <2>5, LeftParts
    <3>3. Left' = Ahead(at, signal) * Spell + 2 * retry + 0
      BY <2>1, <2>2, <2>5 DEF Left
    <3> QED BY <2>3, <3>1, <3>2, <3>3
  <2> QED BY <2>4, <2>5
<1>2. CASE ReadsLevel
  <2>1. /\ at \in SignalStages /\ signal = "level" /\ signal' \in {"strong", "weak"}
        /\ retry' = Tries /\ at' = at /\ waiting' = waiting
    BY <1>2 DEF ReadsLevel
  <2>2. at \in {"signal1", "signal2", "signal3"} /\ at \in Dialogue \ {"off"}
    BY <2>1 DEF SignalStages, Dialogue
  <2>3. retry \in 1..Tries BY <2>2 DEF Counters
  <2>4. Ahead(at, signal') < Ahead(at, "level") BY <2>1, <2>2 DEF Ahead, Phase
  <2>5. PICK y \in Nat : Left = Ahead(at, "level") * Spell + y
    <3>1. Ahead(at, "level") * Spell \in Nat BY AheadType
    <3>2. Left = Ahead(at, "level") * Spell + 2 * retry + (IF waiting THEN 0 ELSE 1)
      BY <2>1, <2>2, LeftParts
    <3>3. Left = Ahead(at, "level") * Spell + (2 * retry + (IF waiting THEN 0 ELSE 1))
      BY <2>3, <3>1, <3>2
    <3>4. 2 * retry + (IF waiting THEN 0 ELSE 1) \in Nat BY <2>3
    <3> QED BY <3>3, <3>4
  <2>6. PICK x \in Nat : x < Spell /\ Left' = Ahead(at, signal') * Spell + x
    <3>1. Ahead(at, signal') * Spell \in Nat BY AheadType
    <3>2. Left' = Ahead(at, signal') * Spell + 2 * Tries + (IF waiting THEN 0 ELSE 1)
      BY <2>1, <2>2 DEF Left
    <3>3. Left' = Ahead(at, signal') * Spell + (2 * Tries + (IF waiting THEN 0 ELSE 1))
      BY <3>1, <3>2
    <3>4. 2 * Tries + (IF waiting THEN 0 ELSE 1) \in 0..Spell - 1 OBVIOUS
    <3> QED BY <3>3, <3>4
  <2>7. Left' < Left BY <2>4, <2>5, <2>6, AheadType, CommandLess
  <2>8. Counters' BY <2>1, <2>2 DEF Counters
  <2> QED BY <2>7, <2>8
<1> QED BY <1>1, <1>2

\* The attempts at opening the port, and those of PowerOff.
LEMMA AttemptsCount ==
  ASSUME TypeOK, Places, Counters,
         OpensPort \/ OpenFails \/ PowerOffOpens \/ PowerOnThrows \/ PowerOffThrows
  PROVE  Left' < Left /\ Counters'
<1> USE TriesFacts
<1>1. CASE OpensPort
  <2>1. PICK s \in {"second", "echo"} : at = "open" /\ Goto(s)
    BY <1>1 DEF OpensPort
  <2>2. s \in Dialogue \ {"off"} BY DEF Dialogue, CheckStages
  <2>3. Ahead(s, "ask") < Ahead(at, signal) BY <2>1 DEF Ahead
  <2> QED BY <2>1, <2>2, <2>3, GotoCounts
<1>2. CASE OpenFails
  <2>1. /\ at = "open" /\ retry' = retry - 1 /\ at' = (IF retry' = 0 THEN "idle" ELSE "open")
        /\ signal' = signal /\ waiting' = waiting
    BY <1>2 DEF OpenFails
  <2>2. retry \in 1..Tries /\ ~waiting BY <2>1 DEF Counters
  <2>3. CASE at' = "idle" BY <2>1, <2>3, EndsCount
  <2>4. CASE at' = "open"
    <3>1. Ahead("open", signal) * Spell \in Nat /\ Ahead("open", signal') = Ahead("open", signal)
      BY <2>1, AheadType
    <3>2. Left = Ahead("open", signal) * Spell + 2 * retry + 1
      BY <2>1, <2>2, LeftParts
    <3>3. Left' = Ahead("open", signal) * Spell + 2 * (retry - 1) + 1
      BY <2>1, <2>2, <2>4, <3>1 DEF Left
    <3>4. retry' \in 1..Tries BY <2>1, <2>2, <2>4
    <3>5. Counters' BY <2>1, <2>2, <2>4, <3>4 DEF Counters
    <3> QED BY <2>2, <3>1, <3>2, <3>3, <3>5
  <2> QED BY <2>1, <2>3, <2>4
<1>3. CASE PowerOffOpens
  <2>1. at = "offOpen" /\ at' = "off" /\ waiting' = waiting /\ retry' = retry
    BY <1>3 DEF PowerOffOpens
  <2>2. retry \in 1..OffTries BY <2>1 DEF Counters
  <2> QED BY <2>1, <2>2 DEF Left, Counters
<1>4. CASE PowerOnThrows
  <2>1. at \in Dialogue /\ at' = "idle" BY <1>4 DEF PowerOnThrows, PowerOnFails
  <2>2. at # "idle" BY <2>1 DEF Dialogue, SignalStages, CheckStages
  <2> QED BY <2>1, <2>2, EndsCount
<1>5. CASE PowerOffThrows
  <2>1. at \in {"off", "offOpen"} /\ retry \in 1..OffTries
    BY <1>5 DEF PowerOffThrows, Counters
  <2>2. CASE at' = "idle" BY <2>1, <2>2, EndsCount
  <2>3. CASE retry > 1 /\ retry' = retry - 1 /\ at' = "offOpen" /\ waiting' = FALSE
    <3>1. Counters' BY <2>1, <2>3 DEF Counters, Dialogue, SignalStages, CheckStages
    <3> QED BY <2>1, <2>3, <3>1 DEF Left
  <2> QED BY <1>5, <2>2, <2>3 DEF PowerOffThrows, PowerOffDone
<1> QED BY <1>1, <1>2, <1>3, <1>4, <1>5

\* Every step of the agent within a call.
LEMMA AgentCounts == ASSUME IInv, Counters, Agent PROVE Left' < Left /\ Counters'
<1>1. TypeOK /\ Places BY DEF IInv
<1>2. CASE ReadsAnswer \/ TimesOut
  <2>1. waiting /\ \E got : Answered(got) BY <1>2, Zenon DEF ReadsAnswer, TimesOut
  <2> QED BY <1>1, <2>1, AnsweredCounts
<1> QED BY <1>1, <1>2, DialogueCounts, AttemptsCount DEF Agent

\* The modem and the network leave the call where it is.
LEMMA DeviceCounts == ASSUME Counters, Device \/ UNCHANGED vars PROVE Left' = Left /\ Counters'
<1>1. at' = at /\ signal' = signal /\ waiting' = waiting /\ retry' = retry
  BY DEF Device, ModemConfirms, ModemAnswers, ModemIgnores, LineDrops, ContextLost, callVars,
         vars
<1> QED BY <1>1 DEF Left, Counters

\* A call begins with all its attempts.
LEMMA StartsCount ==
  ASSUME IInv, PowerOnStarts \/ PowerOffStarts
  PROVE  /\ PowerOnStarts => Left' = 18 * Spell - 1
         /\ PowerOffStarts => Left' = 3 * OffTries + 2
         /\ Counters'
<1> USE TriesFacts
<1>1. CASE PowerOnStarts
  <2>1. at = "idle" /\ bPowerOff /\ at' = "open" /\ waiting' = FALSE /\ retry' = Tries
    BY <1>1 DEF PowerOnStarts, Goto
  <2>2. Left' = 17 * Spell + 2 * Tries + 1 BY <2>1 DEF Left, Ahead
  <2>3. ~PowerOffStarts BY <2>1 DEF PowerOffStarts
  <2>4. Counters' BY <2>1 DEF Counters
  <2> QED BY <2>2, <2>3, <2>4
<1>2. CASE PowerOffStarts
  <2>1. ~bPowerOff /\ at' = "offOpen" /\ waiting' = FALSE /\ retry' = OffTries
    BY <1>2 DEF PowerOffStarts
  <2>2. Left' = 3 * OffTries + 2 BY <2>1 DEF Left
  <2>3. ~PowerOnStarts BY <2>1 DEF PowerOnStarts
  <2>4. Counters' BY <2>1 DEF Counters, Dialogue, SignalStages, CheckStages
  <2> QED BY <2>2, <2>3, <2>4
<1> QED BY <1>1, <1>2

\* PowerOn takes at most 18 * Spell - 1 steps (143 with the attempts of the
\* code) and PowerOff at most 3 * OffTries + 2 (17), whatever the modem
\* answers, leaves unanswered or answers late: what CallsReturn needs besides
\* fairness.
THEOREM CallsBounded == Spec => [][CountsDown]_vars
<1>1. Init => Counters BY DEF Init, Counters, Dialogue, SignalStages, CheckStages
<1>2. IInv /\ Counters /\ [Next]_vars => Counters'
  BY AgentCounts, DeviceCounts, StartsCount DEF Next
<1>3. IInv /\ Counters => CountsDown
  <2> SUFFICES ASSUME IInv, Counters PROVE CountsDown
    OBVIOUS
  <2>1. Left \in Nat /\ (Left = 0 <=> at = "idle") BY LeftCounts DEF IInv
  <2> QED BY <2>1, AgentCounts, DeviceCounts, StartsCount DEF CountsDown
<1> QED BY <1>1, <1>2, <1>3, Invariance, PTL DEF Spec
=============================================================================
