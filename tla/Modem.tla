------------------------------- MODULE Modem -------------------------------
(***************************************************************************)
(* The satellite modem as Modem.cpp drives it: an AT dialogue over a TCP   *)
(* port that PowerOn and PowerOff open and close.  A command is written,   *)
(* WaitATResponse looks for "OK" or "ERROR:" in whatever arrives until its *)
(* timeout, and most commands are repeated.  Answers carry no name of the  *)
(* command they answer, so one that arrives after a timeout is taken for   *)
(* the answer to the next command: the module keeps commands and answers   *)
(* in transit to say what that can spoil and what it cannot.               *)
(***************************************************************************)
EXTENDS Integers, Sequences, SequencesExt

CONSTANTS
  Tries,        \* attempts at a command, and at opening the port (3)
  OffTries,     \* attempts of PowerOff, at opening and writing together (5)
  MaxLate       \* commands and answers in transit when a wait times out

ASSUME TriesAssumption ==
  /\ Tries \in Nat \ {0} /\ OffTries \in Nat \ {0} /\ MaxLate \in Nat \ {0}

VARIABLES
  bPowerOff, bModemOpen, bModemOnFirstTime,
  at,           \* where the control thread is in PowerOn or PowerOff
  signal,       \* CheckSignalLevel: "ask", "level", then "strong" or "weak"
  waiting,      \* in WaitATResponse, the command being written
  retry,
  conn,         \* UT_ATPort.bConnected
  sent, rx,     \* commands the modem has not seen, answers not read
  late,         \* on this connection a command was written before the last
                \* one was answered
  line,         \* the IP connection: "down", "up", or "dropped" by the network
  context,      \* the PDP context: "none", "set", or "lost" by the modem
  named         \* USERNAME or LOCAL_IP is configured (neither is by default)

callVars == <<bPowerOff, bModemOpen, bModemOnFirstTime, at, signal, waiting, retry>>
portVars == <<conn, sent, rx, late>>
modemVars == <<line, context, named>>
vars == <<callVars, portVars, modemVars>>

SignalStages == {"signal1", "signal2", "signal3"}
CheckStages == {"check", "recheck", "second"}
Dialogue == SignalStages \cup CheckStages \cup
              {"echo", "activate", "attach", "logon", "connect", "reset", "off"}
Commands == {"ATE0", "ISIG=1", "ISIG=0", "CGDCONT?", "IPOINT", "CGATT?", "CGDCONT=",
             "CONNECT=1", "CFUN", "CONNECT=0"}
Answers == {"OK", "context OK", "attached OK", "ERROR"}

-----------------------------------------------------------------------------
(* The order of the dialogue                                               *)

Command ==
  CASE at = "echo" -> "ATE0"
    [] at \in SignalStages -> IF signal = "ask" THEN "ISIG=1" ELSE "ISIG=0"
    [] at \in CheckStages -> "CGDCONT?"
    [] at = "activate" -> "IPOINT"
    [] at = "attach" -> "CGATT?"
    [] at = "logon" -> "CGDCONT="
    [] at = "connect" -> "CONNECT=1"
    [] at = "reset" -> "CFUN"
    [] at = "off" -> "CONNECT=0"

\* The stage of PowerOn after stage s failed; "reset" is ONERROR.
AfterFailure(s) ==
  CASE s = "check" -> "signal2"
    [] s \in {"echo", "second"} -> "signal1"
    [] OTHER -> "reset"

\* ... and after it succeeded.  A context that exists is not opened again.
AfterSuccess(s) ==
  CASE s = "echo" -> "signal1"
    [] s = "signal1" -> IF bModemOnFirstTime THEN "check" ELSE "activate"
    [] s \in {"check", "recheck"} -> "signal3"
    [] s = "signal2" -> "activate"
    [] s = "activate" -> "attach"
    [] s = "attach" -> "logon"
    [] s = "logon" -> "recheck"
    [] s \in {"signal3", "second"} -> "connect"

Init ==
  /\ bPowerOff = TRUE /\ bModemOpen = FALSE /\ bModemOnFirstTime = TRUE
  /\ at = "idle" /\ signal = "ask" /\ waiting = FALSE /\ retry = 0
  /\ conn = FALSE /\ sent = <<>> /\ rx = <<>> /\ late = FALSE
  /\ line = "down" /\ context \in {"none", "set"} /\ named \in BOOLEAN

-----------------------------------------------------------------------------
(* UT_ATPort                                                               *)

PortOpened == conn' = TRUE /\ sent' = <<>> /\ rx' = <<>> /\ late' = FALSE

\* Commands still in transit when the port is closed may be carried out.
PortClosed ==
  /\ conn' = FALSE /\ sent' = <<>> /\ rx' = <<>> /\ UNCHANGED <<late, named>>
  /\ line' \in {line} \cup (IF Contains(sent, "CONNECT=1") THEN {"up"} ELSE {})
                      \cup (IF Contains(sent, "CONNECT=0") THEN {"down"} ELSE {})
                      \cup (IF Contains(sent, "CFUN") THEN {"down"} ELSE {})
  /\ context' \in {context} \cup (IF Contains(sent, "CGDCONT=") THEN {"set"} ELSE {})
                            \cup (IF Contains(sent, "CFUN") THEN {"none"} ELSE {})

\* The next stage, with its command yet to be written.
Goto(s) == at' = s /\ signal' = "ask" /\ waiting' = FALSE /\ retry' = Tries

-----------------------------------------------------------------------------
(* PowerOn and PowerOff, called by the control thread                      *)

PowerOnStarts ==
  /\ at = "idle" /\ bPowerOff
  /\ bModemOnFirstTime' = TRUE
  /\ Goto("open")
  /\ UNCHANGED <<bPowerOff, bModemOpen, portVars, modemVars>>

\* UT_ATPort.Open succeeds: the first or the second time routine.
OpensPort ==
  /\ at = "open"
  /\ PortOpened
  /\ Goto(IF bModemOpen THEN "second" ELSE "echo")
  /\ UNCHANGED <<bPowerOff, bModemOpen, bModemOnFirstTime, modemVars>>

\* Fault: the last failure does not end the attempts.
OpensForEver ==
  /\ at = "open"
  /\ retry' = retry - 1
  /\ UNCHANGED <<bPowerOff, bModemOpen, bModemOnFirstTime, at, signal, waiting, portVars,
                 modemVars>>

OpenFails ==
  /\ at = "open"
  /\ retry' = retry - 1
  /\ at' = IF retry' = 0 THEN "idle" ELSE "open"
  /\ UNCHANGED <<bPowerOff, bModemOpen, bModemOnFirstTime, signal, waiting, portVars,
                 modemVars>>

PowerOffStarts ==
  /\ at = "idle" /\ ~bPowerOff
  /\ bPowerOff' = TRUE
  /\ at' = "offOpen" /\ retry' = OffTries /\ waiting' = FALSE
  /\ UNCHANGED <<bModemOpen, bModemOnFirstTime, signal, portVars, modemVars>>

PowerOffOpens ==
  /\ at = "offOpen"
  /\ PortOpened
  /\ at' = "off"
  /\ UNCHANGED <<bPowerOff, bModemOpen, bModemOnFirstTime, signal, waiting, retry,
                 modemVars>>

WritesCommand ==
  /\ at \in Dialogue /\ ~waiting /\ ~(at \in SignalStages /\ signal = "level")
  /\ sent' = Append(sent, Command)
  /\ late' = (late \/ sent # <<>> \/ rx # <<>>)
  /\ waiting' = TRUE
  /\ UNCHANGED <<bPowerOff, bModemOpen, bModemOnFirstTime, at, signal, retry, conn, rx,
                 modemVars>>

\* Fault: CheckContext believes any OK.
AnyContext(got) ==
  IF got \ {"ERROR"} # {} THEN "ok"
  ELSE IF at \in {"echo", "connect", "reset"} THEN "fail" ELSE "again"

\* Fault: any answer is a confirmation.
AnyAnswer(got) == IF got = {} THEN "again" ELSE "ok"

\* What the caller of WaitATResponse makes of the answers read: WaitATResponse
\* returns 1 if one is an OK.  CheckContext and AttachNet then search the
\* cache, CheckContext for the user name and the address, which are found in
\* any answer if they are empty; ConnectIP is not repeated after an ERROR, ATE0
\* and UT_Reset never.
Verdict(got) ==
  LET yes == got \ {"ERROR"} # {}
  IN CASE at \in CheckStages /\ yes -> IF named => "context OK" \in got THEN "ok" ELSE "fail"
       [] at = "attach" -> IF "attached OK" \in got THEN "ok" ELSE "again"
       [] at = "connect" /\ ~yes /\ "ERROR" \in got -> "fail"
       [] at \in {"echo", "reset"} /\ ~yes -> "fail"
       [] OTHER -> IF yes THEN "ok" ELSE "again"

\* A stage of PowerOn other than the last ones ends.
StageOK ==
  /\ Goto(AfterSuccess(at))
  /\ UNCHANGED <<bPowerOff, bModemOpen, bModemOnFirstTime>>

\* Fault: the second time routine is repeated as it was.
SecondAgain ==
  /\ Goto(IF at = "second" THEN "second" ELSE AfterFailure(at))
  /\ UNCHANGED <<bPowerOff, bModemOpen, bModemOnFirstTime>>

StageFails ==
  /\ Goto(AfterFailure(at))
  /\ bModemOpen' = (bModemOpen /\ at # "second")
  /\ bModemOnFirstTime' = (bModemOnFirstTime /\ at # "second")
  /\ UNCHANGED bPowerOff

\* ONERROR: reset, close the port, forget that the modem was open.
PowerOnFails ==
  /\ at' = "idle" /\ bModemOpen' = FALSE /\ waiting' = FALSE
  /\ PortClosed
  /\ UNCHANGED <<bPowerOff, bModemOnFirstTime, signal, retry>>

PowerOnDone ==
  /\ at' = "idle" /\ bModemOpen' = TRUE /\ bPowerOff' = FALSE /\ waiting' = FALSE
  /\ PortClosed
  /\ UNCHANGED <<bModemOnFirstTime, signal, retry>>

PowerOffDone ==
  /\ at' = "idle" /\ waiting' = FALSE
  /\ PortClosed
  /\ UNCHANGED <<bPowerOff, bModemOpen, bModemOnFirstTime, signal, retry>>

\* The wait is over with the answers got.
Answered(got) ==
  LET again == Verdict(got) = "again" /\ retry > 1
      ok == Verdict(got) = "ok"
  IN \/ /\ again
        /\ waiting' = FALSE /\ retry' = retry - 1
        /\ UNCHANGED <<bPowerOff, bModemOpen, bModemOnFirstTime, at, signal, conn, sent,
                       late, modemVars>>
     \/ /\ ok /\ at \in SignalStages /\ signal = "ask"
        /\ signal' = "level" /\ waiting' = FALSE
        /\ UNCHANGED <<bPowerOff, bModemOpen, bModemOnFirstTime, at, retry, conn, sent,
                       late, modemVars>>
     \/ /\ ok /\ at \notin {"connect", "reset", "off"} /\ signal # "weak"
        /\ at \in SignalStages => signal = "strong"
        /\ StageOK
        /\ UNCHANGED <<conn, sent, late, modemVars>>
     \/ /\ ~again /\ at \notin {"reset", "off"}
        /\ ok => signal = "weak"
        /\ StageFails
        /\ UNCHANGED <<conn, sent, late, modemVars>>
     \/ ok /\ at = "connect" /\ PowerOnDone
     \/ ~again /\ at = "reset" /\ PowerOnFails
     \/ ~again /\ at = "off" /\ PowerOffDone

\* WaitATResponse reads some answers at once, or has none in time.
ReadsAnswer ==
  /\ waiting
  /\ \E k \in 1..Len(rx) :
       /\ Answered(ToSet(SubSeq(rx, 1, k)))
       /\ rx' = IF conn' THEN SubSeq(rx, k + 1, Len(rx)) ELSE <<>>

TimesOut ==
  /\ waiting
  /\ Len(sent) + Len(rx) <= MaxLate
  /\ Answered({})
  /\ rx' = IF conn' THEN rx ELSE <<>>

\* The loop of CheckSignalLevel, which also takes late answers from the
\* port: a level reaches the minimum, or MODEM_DELAY seconds have passed.
ReadsLevel ==
  /\ at \in SignalStages /\ signal = "level"
  /\ signal' \in {"strong", "weak"}
  /\ retry' = Tries
  /\ \E k \in 0..Len(rx) : rx' = SubSeq(rx, k + 1, Len(rx))
  /\ UNCHANGED <<bPowerOff, bModemOpen, bModemOnFirstTime, at, waiting, conn, sent, late,
                 modemVars>>

\* Fault: the handler of the exception does not close the port.
ThrowsUnclosed ==
  /\ at \in Dialogue \ {"off"}
  /\ at' = "idle" /\ bModemOpen' = FALSE /\ waiting' = FALSE
  /\ UNCHANGED <<bPowerOff, bModemOnFirstTime, signal, retry, portVars, modemVars>>

\* Read or Write throws in PowerOn.
PowerOnThrows ==
  /\ at \in Dialogue \ {"off"}
  /\ PowerOnFails

\* Read or Write throws in PowerOff, or Open failed: the attempts at
\* opening and those at writing use the same counter.
PowerOffThrows ==
  /\ at \in {"off", "offOpen"}
  /\ \/ retry = 1 /\ PowerOffDone
     \/ /\ retry > 1
        /\ PortClosed
        /\ retry' = retry - 1
        /\ at' = "offOpen" /\ waiting' = FALSE
        /\ UNCHANGED <<bPowerOff, bModemOpen, bModemOnFirstTime, signal>>

-----------------------------------------------------------------------------
(* The modem                                                               *)

\* The first command in transit is carried out and confirmed ...
ModemConfirms ==
  /\ sent # <<>>
  /\ sent' = Tail(sent)
  /\ rx' = Append(rx, CASE Head(sent) = "CGDCONT?" /\ context = "set" -> "context OK"
                        [] OTHER -> "OK")
  /\ line' = CASE Head(sent) = "CONNECT=1" -> "up"
               [] Head(sent) \in {"CONNECT=0", "CFUN"} -> "down"
               [] OTHER -> line
  /\ context' \in CASE Head(sent) = "CGDCONT=" -> {"set"}
                    [] Head(sent) = "CFUN" -> {"none", context}
                    [] OTHER -> {context}
  /\ UNCHANGED <<callVars, conn, late, named>>

\* ... or reports that the network is attached, or is refused ...
ModemAnswers ==
  /\ sent # <<>>
  /\ sent' = Tail(sent)
  /\ \/ rx' = Append(rx, "ERROR")
     \/ Head(sent) = "CGATT?" /\ rx' = Append(rx, "attached OK")
  /\ UNCHANGED <<callVars, conn, late, modemVars>>

\* ... or is lost.
ModemIgnores ==
  /\ sent # <<>>
  /\ sent' = Tail(sent)
  /\ UNCHANGED <<callVars, conn, rx, late, modemVars>>

LineDrops ==
  /\ line = "up" /\ line' = "dropped"
  /\ UNCHANGED <<callVars, portVars, context, named>>

ContextLost ==
  /\ context = "set" /\ context' = "lost"
  /\ UNCHANGED <<callVars, portVars, line, named>>

-----------------------------------------------------------------------------
Agent ==
  \/ OpensPort \/ OpenFails \/ PowerOffOpens
  \/ WritesCommand \/ ReadsAnswer \/ TimesOut \/ ReadsLevel
  \/ PowerOnThrows \/ PowerOffThrows

Device == ModemConfirms \/ ModemAnswers \/ ModemIgnores \/ LineDrops \/ ContextLost

Next == PowerOnStarts \/ PowerOffStarts \/ Agent \/ Device

Spec == Init /\ [][Next]_vars

\* A call goes on; a command in transit is answered or lost.
FairSpec ==
  /\ Spec
  /\ WF_vars(Agent)
  /\ WF_vars(ModemConfirms \/ ModemAnswers \/ ModemIgnores)

-----------------------------------------------------------------------------
(* Properties                                                              *)

TypeOK ==
  /\ bPowerOff \in BOOLEAN /\ bModemOpen \in BOOLEAN /\ bModemOnFirstTime \in BOOLEAN
  /\ at \in Dialogue \cup {"idle", "open", "offOpen"}
  /\ signal \in {"ask", "level", "strong", "weak"}
  /\ waiting \in BOOLEAN
  /\ retry \in 0..Tries \/ retry \in 0..OffTries
  /\ conn \in BOOLEAN /\ late \in BOOLEAN
  /\ sent \in Seq(Commands) /\ rx \in Seq(Answers)
  /\ line \in {"down", "up", "dropped"} /\ context \in {"none", "set", "lost"}
  /\ named \in BOOLEAN

\* Every return of PowerOn and PowerOff, the exceptions included, leaves the
\* AT port closed: the next call can open it.
PortReleased == at \in {"idle", "open"} => ~conn

\* With a user name or an address configured AT_IAPPPCONNECT is written only
\* to a modem that has the registered context, or lost it by itself since:
\* CheckContext cannot be deceived by the answer to an earlier command, although
\* it waits for any "OK".  (With neither, the default, any "OK" confirms the
\* context, that of an earlier command and of a modem without one too.)
ContextConfirmed == named /\ at = "connect" => context # "none"

\* bPowerOff becomes false only after the modem connected, unless answers
\* were late on this connection: then ConnectIP may take the OK of an
\* earlier command for its own.
OnMeansConnected == [][bPowerOff /\ ~bPowerOff' => line # "down" \/ late]_vars

\* PowerOn and PowerOff return, whatever the modem answers or leaves
\* unanswered: the second time routine falls back on the first only once,
\* and the retries are bounded.
CallsReturn == at # "idle" ~> at = "idle"
=============================================================================
