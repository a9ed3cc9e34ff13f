------------------------------- MODULE Timers -------------------------------
(***************************************************************************)
(* The timers of the reader thread (DataTask::doReadData).  The post makes *)
(* a reading at every multiple of Interval seconds of its own clock and    *)
(* offers it until the next one.  RequestCurrentData has to ask once in    *)
(* each interval, by a local clock that drifts and that it sets itself;    *)
(* PatrolRest sleeps until the next timer, in microseconds of a 32-bit     *)
(* int.                                                                    *)
(***************************************************************************)
EXTENDS Integers

CONSTANTS
  Intervals,     \* the intervals of the post (multiples of 60), one is chosen
  Foreign,       \* the intervals assumed without an answer (120), or by the
                 \* byte of another frame (multiples of 60 up to MaxInterval)
  MaxInterval,   \* the longest interval that a byte gives (255 minutes)
  Health,        \* seconds between health checks (30)
  Tolerance,     \* the clock is set when it is further off (5)
  MaxWait,       \* the wait for the post's clock is shorter (10)
  Micro, Word,   \* 10^6, and 2^32, the values of an int
  TimeTakes, ConditionTakes, DataTakes, HealthTakes,
                 \* the times that the four exchanges may take: Read waits up to
                 \* twice the time-out, and for the rest of a damaged answer again
  DataMax, HealthMax,
                 \* no exchange takes longer: damaged answers, and the time-out
                 \* of TransferCmd in place of the exchange's own (120, 20)
  TimeOut, ConditionOut, DataOut, HealthOut,
                 \* ... nor one with whole answers or none at all, and with its
                 \* own time-out (6, 20, 12, 2)
  Ages,          \* how old the time in an answer of the post may be
  Drift,         \* the drift of the clock in one rest
  MaxOff,        \* the clock is never further off
  StartOff,      \* how far it may be at the start: main_work sets it to a time
                 \* that is as old, or not at all
  Back,          \* seconds by which main_work may have set the clock back
  MaxTime        \* horizon

ASSUME TimersAssumption ==
  /\ Intervals \subseteq 1..MaxInterval /\ Foreign \subseteq 1..MaxInterval
  /\ MaxInterval \in Nat
  /\ Health \in Nat \ {0} /\ Tolerance \in Nat /\ MaxWait \in Nat
  /\ Micro \in Nat \ {0} /\ Word \in Nat \ {0} /\ Word % 2 = 0
  /\ {DataMax, HealthMax} \subseteq Nat
  /\ TimeTakes \subseteq Nat /\ ConditionTakes \subseteq Nat
  /\ DataTakes \subseteq 0..DataMax /\ HealthTakes \subseteq 0..HealthMax
  /\ {TimeOut, ConditionOut, DataOut, HealthOut} \subseteq Nat
  /\ Drift \in Nat /\ MaxOff \in Nat \ {0} /\ Ages \subseteq 0..MaxOff
  /\ StartOff \subseteq -MaxOff..MaxOff
  /\ Back \in Nat /\ MaxTime \in Nat
  /\ HealthMax <= Health
  \* an overdue timer is no further back than an int can tell
  /\ (DataMax + HealthMax) * Micro <= Word \div 2
  \* a round that is late by the clock, or by the last answer, ends in time if
  \* no exchange takes too long
  /\ \A n \in Intervals, s \in {MaxOff, DataOut} :
       s + HealthOut + TimeOut + ConditionOut + Tolerance < n

VARIABLES
  interval,      \* seconds between the readings of the post
  pc,            \* "request", "time", "condition", "data", "health", "rest"
  now,           \* the system clock, in seconds
  off,           \* how far it is ahead of the post's clock
  tmCurrent, tmHealth, \* tmCurrentDataActive, tmHealthCheckActive
  \* history, for the properties:
  asked,         \* the reading that was asked for last
  checked,       \* the post's time of the last health check, at first the
                 \* time at which it is due
  sure,          \* this round got the post's time, so that it could wait for
                 \* tmCurrent, and its interval
  agreed,        \* the last round set tmCurrent to the time of the reading after
                 \* the one it asked for
  late           \* seconds that the exchanges since then took too long

vars == <<interval, pc, now, off, tmCurrent, tmHealth, asked, checked, sure, agreed, late>>

mpTime == now - off
Reading(t) == t \div interval

\* setReservedTime: the next multiple of n.
NextDue(t, n) == (t \div n + 1) * n

\* Assignment of a product to an int.
ToInt(x) == ((x + Word \div 2) % Word) - Word \div 2

\* The Protocol object takes the time when it is made; main_work then sets
\* the clock by the post's, back or forth.
Init ==
  /\ interval \in Intervals
  /\ pc = "request" /\ off \in StartOff
  /\ now \in 2 * MaxOff + Back + off..2 * MaxOff + Back + off + interval
  /\ \E b \in {-1, 0, Back} : tmCurrent = now + b /\ tmHealth = now + b
  /\ asked = Reading(mpTime) /\ checked = tmHealth - off
  /\ sure = FALSE /\ agreed = FALSE /\ late = 0

\* d seconds pass, too few for the clocks to drift apart.
Passes(d) == now' = now + d /\ now' < MaxTime /\ UNCHANGED off

\* How much longer d is than the exchange takes when nothing is damaged.
Excess(d, out) == IF d > out THEN d - out ELSE 0

-----------------------------------------------------------------------------
(* RequestCurrentData                                                      *)

NotDue ==
  /\ pc = "request" /\ now < tmCurrent
  /\ pc' = "health"
  /\ UNCHANGED <<interval, now, off, tmCurrent, tmHealth, asked, checked, sure, agreed, late>>

Due ==
  /\ pc = "request" /\ now >= tmCurrent
  /\ pc' = "time"
  /\ UNCHANGED <<interval, now, off, tmCurrent, tmHealth, asked, checked, sure, agreed, late>>

\* Fault: the thread sleeps until the post's clock shows tmCurrent at most.
ShortWait(mp) == IF tmCurrent - mp \in 1..MaxWait - 1 THEN tmCurrent - mp - 1 ELSE 0

\* A clock that is early waits for the post's, if that is soon.
Wait(mp) == IF tmCurrent - mp \in 1..MaxWait - 1 THEN tmCurrent - mp + 1 ELSE 0

\* Fault: the difference is added instead of subtracted.
SetsAway(d, a) ==
  /\ pc = "time" /\ now + d + Wait(mpTime + d - a) < MaxTime
  /\ LET mp == mpTime + d - a
         newOff == IF off + a \in -Tolerance..Tolerance THEN off ELSE 2 * off + a
     IN  /\ now' = mpTime + d + newOff + Wait(mp)
         /\ off' = newOff
         /\ sure' = (tmCurrent - mp < MaxWait)
  /\ late' = late + Excess(d, TimeOut) + Excess(a, TimeOut)
  /\ pc' = "condition"
  /\ UNCHANGED <<interval, tmCurrent, tmHealth, asked, checked, agreed>>

\* GetMPTime takes d seconds and yields mp, the post's time of a seconds ago:
\* the answer is read at the end of a wait, or was left on the line.  The
\* clock is set to mp, and the thread sleeps for Wait.
TimeKnown(d, a) ==
  /\ pc = "time" /\ now + d + Wait(mpTime + d - a) < MaxTime
  /\ LET mp == mpTime + d - a
         newOff == IF off + a \in -Tolerance..Tolerance THEN off ELSE -a
     IN  /\ now' = mpTime + d + newOff + Wait(mp)
         /\ off' = newOff
         /\ sure' = (tmCurrent - mp < MaxWait)
  /\ late' = late + Excess(d, TimeOut) + Excess(a, TimeOut)
  /\ pc' = "condition"
  /\ UNCHANGED <<interval, tmCurrent, tmHealth, asked, checked, agreed>>

\* It fails, or yields the answer to another request, which has no time.
TimeUnknown(d) ==
  /\ pc = "time" /\ Passes(d)
  /\ pc' = "condition" /\ sure' = FALSE /\ late' = late + Excess(d, TimeOut)
  /\ UNCHANGED <<interval, tmCurrent, tmHealth, asked, checked, agreed>>

\* GetMPIntervalSecond, and the next time to ask.
IntervalKnown(d) ==
  /\ pc = "condition" /\ Passes(d)
  /\ tmCurrent' = NextDue(now', interval)
  /\ pc' = "data" /\ late' = late + Excess(d, ConditionOut)
  /\ UNCHANGED <<interval, tmHealth, asked, checked, sure, agreed>>

\* No answer, or another frame: GetInterval reads its eighth byte all the same.
IntervalUnknown(d, n) ==
  /\ pc = "condition" /\ Passes(d)
  /\ tmCurrent' = NextDue(now', n)
  /\ pc' = "data" /\ late' = late + Excess(d, ConditionOut)
  /\ sure' = (sure /\ n = interval)
  /\ UNCHANGED <<interval, tmHealth, asked, checked, agreed>>

\* The reading is requested now; the answer takes d seconds.
Request(d) ==
  /\ pc = "data" /\ Passes(d)
  /\ asked' = Reading(mpTime)
  /\ agreed' = (tmCurrent = NextDue(mpTime, interval)) /\ late' = Excess(d, DataOut)
  /\ pc' = "health"
  /\ UNCHANGED <<interval, tmCurrent, tmHealth, checked, sure>>

-----------------------------------------------------------------------------
(* HealthCheck and PatrolRest                                              *)

\* Fault: the timer is set by the interval that was told for the readings.
HealthByInterval(d) ==
  /\ pc = "health" /\ now >= tmHealth /\ Passes(d)
  /\ tmHealth' = IF tmCurrent > now THEN tmCurrent ELSE NextDue(now, Health)
  /\ checked' = mpTime /\ late' = late + Excess(d, HealthOut)
  /\ pc' = "rest"
  /\ UNCHANGED <<interval, tmCurrent, asked, sure, agreed>>

HealthCheck(d) ==
  /\ pc = "health" /\ now >= tmHealth /\ Passes(d)
  /\ tmHealth' = NextDue(now, Health)
  /\ checked' = mpTime /\ late' = late + Excess(d, HealthOut)
  /\ pc' = "rest"
  /\ UNCHANGED <<interval, tmCurrent, asked, sure, agreed>>

HealthNotDue ==
  /\ pc = "health" /\ now < tmHealth
  /\ pc' = "rest"
  /\ UNCHANGED <<interval, now, off, tmCurrent, tmHealth, asked, checked, sure, agreed, late>>

ShorterRest(n1, n2) == IF n1 > n2 THEN n2 ELSE n1

\* Fault: a timer that is overdue is a large unsigned number.
Unsigned(t) == IF t > 0 THEN (t * Micro) % Word ELSE Word - 1

\* n1 and n2 of PatrolRest, for a timer that is due in t seconds.
Remaining(t) == IF ToInt(t * Micro) < 0 THEN 0 ELSE ToInt(t * Micro)

RestTime == ShorterRest(Remaining(tmCurrent - now), Remaining(tmHealth - now))

\* The sleep rounded up to seconds; a thread that does not sleep although
\* nothing is due goes round until a second has passed.
Slept ==
  IF RestTime = 0 /\ now < tmCurrent /\ now < tmHealth THEN 1
  ELSE (RestTime + Micro - 1) \div Micro

\* In a rest the local clock may drift from the post's by e seconds.
PatrolRest(e) ==
  /\ pc = "rest" /\ (Slept = 0 => e = 0)
  /\ now' = now + Slept + e /\ now' \in now..MaxTime - 1
  /\ off' = off + e /\ off' \in -MaxOff..MaxOff
  /\ pc' = "request"
  /\ UNCHANGED <<interval, tmCurrent, tmHealth, asked, checked, sure, agreed, late>>

Next ==
  \/ NotDue \/ Due \/ HealthNotDue
  \/ \E d \in TimeTakes : TimeUnknown(d) \/ \E a \in Ages : TimeKnown(d, a)
  \/ \E d \in ConditionTakes : IntervalKnown(d) \/ \E n \in Foreign : IntervalUnknown(d, n)
  \/ \E d \in DataTakes : Request(d)
  \/ \E d \in HealthTakes : HealthCheck(d)
  \/ \E e \in -Drift..Drift : PatrolRest(e)

Spec == Init /\ [][Next]_vars

-----------------------------------------------------------------------------
(* Properties                                                              *)

TypeOK ==
  /\ interval \in Intervals
  /\ pc \in {"request", "time", "condition", "data", "health", "rest"}
  /\ now \in Nat /\ off \in -MaxOff..MaxOff
  /\ tmCurrent \in Nat /\ tmHealth \in Nat
  /\ asked \in Int /\ checked \in Int /\ late \in Nat
  /\ sure \in BOOLEAN /\ agreed \in BOOLEAN
  /\ tmCurrent <= now + MaxInterval + Back + 2 * MaxOff

\* No reading is skipped: if the timer was set to the time of the next
\* reading, the next request asks for that reading or the same again, whatever
\* the drift of the clock and its corrections by times that are old; and the
\* timer is set so in every round that gets the post's time and interval.
\* Exchanges that take longer than the time-outs foresee cost no more readings
\* than the post makes in that time.  (A round that gets no time or a wrong
\* interval may lose readings: it asks early, or sets the timer wrongly.)
NoReadingSkipped ==
  [][pc = "data" /\ pc' = "health" /\ agreed
       => /\ asked' <= asked + 1 + (late + interval - 1) \div interval
          /\ sure /\ late = 0 => agreed']_vars

\* Seconds until the next timer.
UntilDue ==
  IF now >= tmCurrent \/ now >= tmHealth THEN 0
  ELSE IF tmHealth < tmCurrent THEN tmHealth - now ELSE tmCurrent - now

\* PatrolRest sleeps until the next timer, and when the products exceed an int
\* (intervals above 35 minutes) not longer: the thread then wakes
\* early, or spins, but misses nothing.
RestsUntilDue ==
  pc = "rest" =>
  /\ RestTime <= UntilDue * Micro
  /\ tmCurrent - now < Word \div (2 * Micro) /\ tmHealth - now < Word \div (2 * Micro)
       => RestTime = UntilDue * Micro

\* The timer of the health check goes by a clock that RequestCurrentData sets,
\* back or forth, after its own exchanges and waits, and the rest before may be
\* cut short or overflow: still no pass of the loop begins later after the last
\* health check than the period and what the clocks differ, ahead when the
\* timer is set and behind when it is due.  The check is late by the exchanges
\* of that pass only.
HealthGap ==
  pc = "request" => mpTime - checked <= Health + 2 * MaxOff
=============================================================================
