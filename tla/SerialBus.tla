----------------------------- MODULE SerialBus ------------------------------
(***************************************************************************)
(* The serial line to the monitoring post and the two threads that use it. *)
(* The reader asks for the time, the condition, a reading and the status   *)
(* (RequestCurrentData, HealthCheck); the control thread relays commands   *)
(* (TransferCmd) and asks for history data (HistoryDataTransfer).  A       *)
(* request is one write, an answer is what the next read yields: nothing   *)
(* in a frame says which request it answers.                               *)
(*                                                                         *)
(* SerialPort::Lock does not order the threads, and has no action here: it *)
(* calls flock on the one descriptor that both threads use, which is held  *)
(* by the open file and granted to either thread at once.  GetMPTime,      *)
(* GetMPIntervalSecond and HealthCheck do not call it at all.              *)
(***************************************************************************)
EXTENDS Integers, Sequences, SequencesExt

CONSTANTS
  Relayed,       \* the commands that the control thread sends to the post
  Tries,         \* tries of RequestCurrentData and TransferCmd (3)
  MaxPending     \* requests that a read may leave behind unanswered

ASSUME BusAssumption ==
  /\ {"none", "empty"} \cap Relayed = {}
  /\ Tries \in Nat \ {0} /\ MaxPending \in Nat

Thread == {"reader", "control"}
Round == {"time", "condition", "data", "status"}
Kind == Round \cup Relayed \cup {"empty"}
Frame == [by : Thread, kind : Kind]

VARIABLES
  cmd,           \* the request a thread is at, "none" off the line
  phase,         \* "send", "receive", or "again": the second read of a try
  tries,         \* tries left
  reqs,          \* requests the post has not answered yet
  rx,            \* answers that no thread has read yet
  torn,          \* threads that hold a piece of a frame in strCache
  mixed          \* since the line was last quiet, a read ended before its
                 \* answer came or both threads were on the line

vars == <<cmd, phase, tries, reqs, rx, torn, mixed>>

Quiet == cmd = [t \in Thread |-> "none"] /\ reqs = <<>> /\ rx = <<>>
Reading(t) == cmd[t] # "none" /\ phase[t] \in {"receive", "again"}

\* mixed is history: no code reads it.
Note(event) == mixed' = (~Quiet' /\ (mixed \/ event))

\* main_work asks for the time up to twice before it starts the threads, and
\* does not wait for the answers.
Init ==
  /\ cmd = [t \in Thread |-> "none"]
  /\ phase = [t \in Thread |-> "send"]
  /\ tries = [t \in Thread |-> 0]
  /\ \E n \in 0..2 :
       /\ n <= MaxPending
       /\ reqs = [i \in 1..n |-> [by |-> "reader", kind |-> "time"]]
       /\ mixed = (n > 0)
  /\ rx = <<>> /\ torn = {}

-----------------------------------------------------------------------------
(* What a thread does next                                                 *)

\* Thread t turns to request k, with n tries.
Ask(t, k, n) ==
  /\ cmd' = [cmd EXCEPT ![t] = k]
  /\ phase' = [phase EXCEPT ![t] = "send"]
  /\ tries' = [tries EXCEPT ![t] = n]

\* The round of the reader: RequestCurrentData asks for the time, the
\* condition and the reading; HealthCheck follows when its time has come.
AfterRound(k) ==
  CASE k = "time" -> {"condition"}
    [] k = "condition" -> {"data"}
    [] k = "data" -> {"status", "none"}
    [] OTHER -> {"none"}

TriesOf(k) == IF k = "data" THEN Tries ELSE 1

\* The request is done with, whether it was answered or not.
Leave(t) ==
  IF t = "reader"
    THEN \E k \in AfterRound(cmd[t]) : Ask(t, k, TriesOf(k))
    ELSE Ask(t, "none", 0)

\* Fault: the tries are counted after the test.
TriesOnceMore(t) ==
  IF tries[t] > 0 THEN Ask(t, cmd[t], tries[t] - 1) ELSE Leave(t)

\* A try brought nothing: RequestCurrentData and TransferCmd ask once more.
NextTry(t) == IF tries[t] > 1 THEN Ask(t, cmd[t], tries[t] - 1) ELSE Leave(t)

\* Fault: RequestCurrentData reads only once.
ReadsOnce(t, k) == IF k = "none" THEN NextTry(t) ELSE Leave(t)

\* A call of ReceiveFrameFrom returned a frame of kind k, "none" if it is
\* empty.  GetData() is never null, so RequestCurrentData reads again unless
\* the frame is a reading; the second frame is taken whatever it is.  The
\* others take any frame, and ask again only for want of one.
Got(t, k) ==
  IF cmd[t] = "data" /\ t = "reader" /\ phase[t] = "receive" /\ k # "data"
    THEN phase' = [phase EXCEPT ![t] = "again"] /\ UNCHANGED <<cmd, tries>>
    ELSE IF k = "none" THEN NextTry(t) ELSE Leave(t)

-----------------------------------------------------------------------------
(* The threads                                                             *)

\* doReadData: either timer may have run out.
ReaderStarts ==
  /\ cmd["reader"] = "none"
  /\ \E k \in {"time", "status"} : Ask("reader", k, 1)
  /\ UNCHANGED <<reqs, rx, torn>>
  /\ Note(cmd["control"] # "none")

\* A command of the server, or an empty packet that is taken for the command
\* before (see CommandRelay); HistoryDataTransfer sends each request once.
ControlStarts ==
  /\ cmd["control"] = "none"
  /\ \E k \in Relayed \cup {"empty"}, n \in {1, Tries} : Ask("control", k, n)
  /\ UNCHANGED <<reqs, rx, torn>>
  /\ Note(cmd["reader"] # "none")

\* Fault: the request is written twice.
SendTwice(t) ==
  /\ cmd[t] # "none" /\ phase[t] = "send"
  /\ phase' = [phase EXCEPT ![t] = "receive"]
  /\ reqs' = reqs \o <<[by |-> t, kind |-> cmd[t]], [by |-> t, kind |-> cmd[t]]>>
  /\ UNCHANGED <<cmd, tries, rx, torn>>
  /\ Note(FALSE)

\* SerialPort::Write: an empty packet writes nothing.
Send(t) ==
  /\ cmd[t] # "none" /\ phase[t] = "send"
  /\ phase' = [phase EXCEPT ![t] = "receive"]
  /\ reqs' = IF cmd[t] = "empty" THEN reqs
             ELSE Append(reqs, [by |-> t, kind |-> cmd[t]])
  /\ UNCHANGED <<cmd, tries, rx, torn>>
  /\ Note(FALSE)

\* A failed write closes the port, which flushes what was received; the
\* read that follows opens it again.
WriteFails(t) ==
  /\ cmd[t] # "none" /\ phase[t] = "send"
  /\ phase' = [phase EXCEPT ![t] = "receive"]
  /\ rx' = <<>>
  /\ UNCHANGED <<cmd, tries, reqs, torn>>
  /\ Note(FALSE)

\* ReceiveFrameFrom returns the first valid frame.  Behind a piece of a frame
\* it recognises none before the line is silent, and then returns the last
\* one: what precedes it is dropped.
Take(t, i) ==
  /\ Reading(t) /\ i \in DOMAIN rx
  /\ i > 1 => t \in torn
  /\ rx' = SubSeq(rx, i + 1, Len(rx))
  /\ Got(t, rx[i].kind)
  /\ torn' = torn \ {t}
  /\ UNCHANGED reqs
  /\ Note(FALSE)

\* Both threads read bytes of the same frame: neither gets it, and either may
\* be left with a piece that begins like a frame.
Tear ==
  /\ \A t \in Thread : Reading(t)
  /\ rx # <<>>
  /\ rx' = Tail(rx)
  /\ \E S \in SUBSET Thread : torn' = torn \cup S
  /\ UNCHANGED <<cmd, phase, tries, reqs>>
  /\ Note(TRUE)

\* Read waits two timeouts in vain, and no answer is due.
Timeout(t) ==
  /\ Reading(t) /\ rx = <<>> /\ reqs = <<>>
  /\ Got(t, "none")
  /\ torn' = torn \ {t}
  /\ UNCHANGED <<reqs, rx>>
  /\ Note(FALSE)

\* An answer is due but comes too late, or during the second wait, which no
\* read follows.  timeout is shared too: one thread may set it to a second
\* while the other waits for an answer that takes ten.
LateTimeout(t) ==
  /\ Reading(t) /\ rx = <<>> /\ reqs # <<>> /\ Len(reqs) <= MaxPending
  /\ Got(t, "none")
  /\ torn' = torn \ {t}
  /\ UNCHANGED <<reqs, rx>>
  /\ Note(TRUE)

\* A failed read closes the port and returns what was received so far, which
\* is no valid frame.
ReadFails(t) ==
  /\ Reading(t) /\ Len(reqs) <= MaxPending
  /\ rx' = <<>>
  /\ Got(t, "none")
  /\ torn' = torn \ {t}
  /\ UNCHANGED reqs
  /\ Note(reqs # <<>>)

-----------------------------------------------------------------------------
(* The monitoring post                                                     *)

PostAnswers ==
  /\ reqs # <<>>
  /\ rx' = Append(rx, Head(reqs)) /\ reqs' = Tail(reqs)
  /\ UNCHANGED <<cmd, phase, tries, torn>>
  /\ Note(FALSE)

PostIgnores ==
  /\ reqs # <<>>
  /\ reqs' = Tail(reqs)
  /\ UNCHANGED <<cmd, phase, tries, rx, torn>>
  /\ Note(FALSE)

Step(t) ==
  \/ Send(t) \/ WriteFails(t) \/ Timeout(t) \/ LateTimeout(t) \/ ReadFails(t)
  \/ \E i \in 1..MaxPending + 2 : Take(t, i)

Post == PostAnswers \/ PostIgnores

Next ==
  \/ ReaderStarts \/ ControlStarts \/ Tear \/ Post
  \/ \E t \in Thread : Step(t)

Spec == Init /\ [][Next]_vars

\* The timers of the reader run out again and again, that of the readings
\* too; its calls go on, and the post deals with a request in the end.
FairSpec ==
  /\ Spec
  /\ WF_vars(ReaderStarts) /\ SF_vars(ReaderStarts /\ cmd'["reader"] = "time")
  /\ WF_vars(Step("reader")) /\ WF_vars(Post)

-----------------------------------------------------------------------------
(* Properties                                                              *)

TypeOK ==
  /\ cmd \in [Thread -> Kind \cup {"none"}]
  /\ phase \in [Thread -> {"send", "receive", "again"}]
  /\ tries \in [Thread -> 0..Tries]
  /\ \A t \in Thread : cmd[t] # "none" => tries[t] > 0
  /\ reqs \in Seq(Frame) /\ rx \in Seq(Frame)
  /\ Len(reqs) + Len(rx) <= MaxPending + 2
  /\ torn \in SUBSET Thread /\ mixed \in BOOLEAN

\* Lock, the waits and the retries are there so that every request gets its
\* own answer.  They achieve it while the threads happen to take turns and no
\* read gives up early: no retry by itself leaves an answer behind for the
\* request of a later stage, or of the other thread.
AnswersMatch ==
  [][\A t \in Thread : \A i \in DOMAIN rx :
       Take(t, i) => mixed \/ rx[i] = [by |-> t, kind |-> cmd[t]]]_vars

\* Answers left behind shift every later answer by one request.  Once
\* the control thread is silent and no read gives up early, the second read
\* of RequestCurrentData uses them up: the line is found empty at the
\* end of every later round.  This holds for MaxPending <= 2: three answers of
\* a round without health check are each taken for the answer to the same
\* request of the next round, for ever.
Resync ==
  /\ <>[](cmd["control"] = "none")
  /\ <>[][\A t \in Thread : ~LateTimeout(t) /\ ~ReadFails(t)]_vars
  => <>[](cmd["reader"] = "none" => reqs = <<>> /\ rx = <<>>)
=============================================================================
