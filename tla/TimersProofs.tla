---------------------------- MODULE TimersProofs ----------------------------
(***************************************************************************)
(* Proofs about Timers, for all intervals, delays, drifts and widths of an *)
(* int that TimersAssumption admits: PatrolRest does not sleep past a      *)
(* timer, a round that knew the time and the interval of the post leads to *)
(* the next reading, damaged exchanges cost no more readings than the post *)
(* makes in that time, and no pass of the loop begins later after a health *)
(* check than the period and the difference of the clocks.                 *)
(*                                                                         *)
(* The argument is made in the post's time, which, other than the local    *)
(* clock, never goes back: at each place of the loop it is bounded by the  *)
(* time of the reading that is expected, and of the health check that was  *)
(* last made, and by how long the steps since then can have taken.         *)
(***************************************************************************)
EXTENDS Timers, TLAPS

\* How long a round may be late, by the clock or by the last answer.
Slack == IF MaxOff > DataOut THEN MaxOff ELSE DataOut

\* The post's time of the reading after the one asked for last.
Expected == (asked + 1) * interval

\* Time goes on from the start of the program; the clock is due at pc "time"
\* and a timer that was just set is not far in the past.
Clocks ==
  /\ mpTime >= MaxOff + Back
  /\ pc = "time" => now >= tmCurrent
  /\ pc = "data" => now < tmCurrent
  /\ pc = "health" => now < tmCurrent + DataMax
  /\ pc = "rest" => now < tmCurrent + DataMax + HealthMax /\ now < tmHealth + HealthMax

\* The time by which each place of the loop is reached after the timer for
\* readings was set to the expected one.
InTime ==
  agreed =>
    /\ pc # "data" => tmCurrent = Expected
    /\ pc = "health" => mpTime <= Expected + Slack + late
    /\ pc \in {"rest", "request", "time"} => mpTime <= Expected + Slack + HealthOut + late
    /\ pc = "condition" => mpTime <= Expected + Slack + HealthOut + TimeOut + late
    /\ pc = "data" =>
         mpTime <= Expected + Slack + HealthOut + TimeOut + ConditionOut + late

\* In a round that is sure both clocks have passed the expected reading, and
\* the local one is not far ahead.
Sure ==
  agreed /\ sure =>
    /\ pc \in {"condition", "data"} =>
         mpTime >= Expected /\ now >= Expected /\ off <= Tolerance
    /\ pc = "data" => tmCurrent = NextDue(now, interval)

\* How long after the last health check a rest begins, and ends.
HealthInTime ==
  /\ tmHealth <= checked + Health + MaxOff
  /\ pc \in {"rest", "request"} => mpTime <= checked + Health + 2 * MaxOff

IInv == TypeOK /\ Clocks /\ InTime /\ Sure /\ HealthInTime

-----------------------------------------------------------------------------
(* Lemmas about the constants and the arithmetic                           *)

\* The types of the constants.
LEMMA Numbers ==
  /\ Intervals \subseteq 1..MaxInterval /\ Foreign \subseteq 1..MaxInterval
  /\ MaxInterval \in Nat
  /\ Health \in Nat /\ Health > 0 /\ Tolerance \in Nat /\ MaxWait \in Nat
  /\ TimeTakes \subseteq Nat /\ ConditionTakes \subseteq Nat
  /\ DataTakes \subseteq 0..DataMax /\ HealthTakes \subseteq 0..HealthMax
  /\ DataMax \in Nat /\ HealthMax \in Nat /\ HealthMax <= Health
  /\ TimeOut \in Nat /\ ConditionOut \in Nat /\ DataOut \in Nat /\ HealthOut \in Nat
  /\ Ages \subseteq 0..MaxOff /\ StartOff \subseteq -MaxOff..MaxOff
  /\ Drift \in Nat /\ MaxOff \in Nat /\ MaxOff > 0 /\ Back \in Nat /\ MaxTime \in Nat
BY TimersAssumption

\* The longest undisturbed round fits into every interval.
LEMMA SlackFits ==
  /\ Slack \in Nat /\ MaxOff <= Slack /\ DataOut <= Slack
  /\ \A n \in Intervals :
       Slack + HealthOut + TimeOut + ConditionOut + Tolerance < n
<1>1. Slack \in {MaxOff, DataOut} BY DEF Slack
<1>2. Slack \in Nat /\ MaxOff <= Slack /\ DataOut <= Slack BY Numbers DEF Slack
<1>3. \A n \in Intervals :
        Slack + HealthOut + TimeOut + ConditionOut + Tolerance < n
  BY <1>1, TimersAssumption
<1> QED BY <1>2, <1>3

\* What an exchange takes too long.
LEMMA ExcessFacts ==
  ASSUME NEW d \in Nat, NEW o \in Nat
  PROVE  Excess(d, o) \in Nat /\ d <= o + Excess(d, o)
BY DEF Excess

\* A number lies between the multiples its quotient names.
LEMMA Quotient ==
  ASSUME NEW a \in Int, NEW n \in Nat, n > 0
  PROVE  /\ a \div n \in Int
         /\ (a \div n) * n <= a
         /\ a < (a \div n + 1) * n
         /\ (a \div n + 1) * n = (a \div n) * n + n
         /\ a >= 0 => a \div n >= 0
OBVIOUS

\* ... and the quotient is determined by them.
LEMMA QuotientIs ==
  ASSUME NEW a \in Int, NEW n \in Nat, n > 0, NEW k \in Int
  PROVE  /\ a < (k + 1) * n => a \div n <= k
         /\ k * n <= a => a \div n >= k
<1> DEFINE q == a \div n
<1>1. q \in Int /\ q * n <= a /\ a < (q + 1) * n BY Quotient
<1> HIDE DEF q
<1>2. ASSUME a < (k + 1) * n PROVE q <= k
  <2>1. q * n < (k + 1) * n BY <1>1, <1>2
  <2>2. ASSUME q > k PROVE FALSE
    <3>1. PICK j \in Nat : q = k + 1 + j
      <4>1. q - k - 1 \in Nat BY <1>1, <2>2
      <4> QED BY <1>1, <4>1
    <3>2. q * n = (k + 1) * n + j * n /\ j * n \in Nat BY <3>1
    <3> QED BY <2>1, <3>2
  <2> QED BY <1>1, <2>2
<1>3. ASSUME k * n <= a PROVE q >= k
  <2>1. k * n < (q + 1) * n BY <1>1, <1>3
  <2>2. ASSUME k > q PROVE FALSE
    <3>1. PICK j \in Nat : k = q + 1 + j
      <4>1. k - q - 1 \in Nat BY <1>1, <2>2
      <4> QED BY <1>1, <4>1
    <3>2. k * n = (q + 1) * n + j * n /\ j * n \in Nat BY <1>1, <3>1
    <3> QED BY <2>1, <3>2, <1>1
  <2> QED BY <1>1, <2>2
<1> QED BY <1>2, <1>3 DEF q

\* setReservedTime yields a time within the next n seconds.
LEMMA NextDueFacts ==
  ASSUME NEW t \in Nat, NEW n \in Nat, n > 0
  PROVE  NextDue(t, n) \in Nat /\ t < NextDue(t, n) /\ NextDue(t, n) <= t + n
<1> DEFINE q == t \div n
<1>1. q \in Int /\ q * n <= t /\ t < (q + 1) * n /\ (q + 1) * n = q * n + n /\ q >= 0
  BY Quotient
<1>2. NextDue(t, n) = (q + 1) * n BY DEF NextDue
<1> HIDE DEF q
<1>3. (q + 1) * n \in Nat BY <1>1
<1> QED BY <1>1, <1>2, <1>3

\* An int holds what fits, and a number that is too large becomes smaller.
LEMMA ToIntFacts ==
  ASSUME NEW x \in Int, x >= -(Word \div 2)
  PROVE  /\ ToInt(x) \in Int /\ ToInt(x) <= x
         /\ x < Word \div 2 => ToInt(x) = x
<1> DEFINE h == Word \div 2
<1>1. h \in Nat /\ Word = h + h /\ Word \in Nat /\ Word > 0 BY TimersAssumption
<1>2. ToInt(x) = ((x + h) % Word) - h BY DEF ToInt
<1> HIDE DEF h
<1>3. x + h \in Nat BY <1>1 DEF h
<1>4. (x + h) % Word \in Nat /\ (x + h) % Word <= x + h
      /\ (x + h < Word => (x + h) % Word = x + h)
  BY <1>1, <1>3
<1> QED BY <1>1, <1>2, <1>4 DEF h

\* What PatrolRest makes of a timer that is due in t seconds.
LEMMA RemainingFacts ==
  ASSUME NEW t \in Int, t >= -(DataMax + HealthMax)
  PROVE  /\ Remaining(t) \in Nat
         /\ t <= 0 => Remaining(t) = 0
         /\ t >= 0 => Remaining(t) <= t * Micro
         /\ t >= 0 /\ t < Word \div (2 * Micro) => Remaining(t) = t * Micro
<1> USE Numbers
<1> DEFINE h == Word \div 2 b == DataMax + HealthMax x == t * Micro
<1>1. h \in Nat /\ Word = h + h /\ Micro \in Nat /\ Micro > 0 /\ b * Micro <= h /\ b \in Nat
      /\ Word \in Nat
  BY TimersAssumption
<1>2. x \in Int /\ x >= -h /\ (t <= 0 => x <= 0) /\ (t >= 0 => x >= 0)
  <2>1. PICK j \in Nat : t = j - b
    <3>1. t + b \in Nat BY <1>1
    <3>2. t = (t + b) - b BY <1>1
    <3> QED BY <3>1, <3>2
  <2> HIDE DEF b, h
  <2>2. x = j * Micro - b * Micro /\ j * Micro \in Nat BY <1>1, <2>1
  <2>3. t <= 0 => t * Micro <= 0
    <3> SUFFICES ASSUME t <= 0 PROVE t * Micro <= 0
      OBVIOUS
    <3>1. (-t) * Micro \in Nat BY <1>1
    <3> QED BY <3>1, <1>1
  <2>4. t >= 0 => t * Micro >= 0 BY <1>1
  <2> QED BY <1>1, <2>2, <2>3, <2>4
<1>3. /\ ToInt(x) \in Int /\ ToInt(x) <= x /\ (x < h => ToInt(x) = x)
  BY <1>2, ToIntFacts
<1>4. Remaining(t) = (IF ToInt(x) < 0 THEN 0 ELSE ToInt(x)) BY DEF Remaining
<1>5. ASSUME t >= 0, t < Word \div (2 * Micro) PROVE x < h
  <2> DEFINE m == 2 * Micro q == Word \div m
  <2>1. m \in Nat /\ m > 0 /\ m = Micro + Micro BY <1>1
  <2>2. q \in Int /\ q * m <= Word BY <1>1, <2>1, Quotient
  <2>3. t + 1 <= q BY <1>5, <2>2
  <2> HIDE DEF m, q, h
  <2>4. PICK j \in Nat : q = t + 1 + j
    <3>1. q - t - 1 \in Nat BY <2>2, <2>3
    <3>2. q = t + 1 + (q - t - 1) BY <2>2
    <3> QED BY <3>1, <3>2
  <2>5. q * m = t * m + m + j * m /\ j * m \in Nat BY <2>1, <2>4
  <2>6. t * m = x + x BY <1>1, <2>1
  <2> QED BY <1>1, <1>2, <2>1, <2>2, <2>5, <2>6
<1> HIDE DEF x, h
<1>6. /\ Remaining(t) \in Nat
      /\ t <= 0 => Remaining(t) = 0
      /\ t >= 0 => Remaining(t) <= x
  BY <1>2, <1>3, <1>4
<1>7. t >= 0 /\ t < Word \div (2 * Micro) => Remaining(t) = x
  BY <1>2, <1>3, <1>4, <1>5
<1> QED BY <1>6, <1>7 DEF x

\* PatrolRest: the sleep ends with the next timer at the latest, and exactly
\* then unless the product is too large for an int.
LEMMA RestFacts ==
  ASSUME IInv, pc = "rest"
  PROVE  /\ RestTime \in Nat /\ UntilDue \in Nat
         /\ RestTime <= UntilDue * Micro
         /\ tmCurrent - now < Word \div (2 * Micro) /\ tmHealth - now < Word \div (2 * Micro)
              => RestTime = UntilDue * Micro
         /\ UntilDue = 0 \/ (UntilDue <= tmCurrent - now /\ UntilDue <= tmHealth - now)
<1> USE Numbers
<1> DEFINE c == tmCurrent - now t == tmHealth - now
<1>1. /\ now \in Nat /\ tmCurrent \in Nat /\ tmHealth \in Nat
      /\ c \in Int /\ t \in Int /\ c >= -(DataMax + HealthMax) /\ t >= -(DataMax + HealthMax)
  BY DEF IInv, TypeOK, Clocks
<1>2. Micro \in Nat /\ Micro > 0 BY TimersAssumption
<1>3. RestTime = ShorterRest(Remaining(c), Remaining(t)) BY DEF RestTime
<1>4. UntilDue = (IF c <= 0 \/ t <= 0 THEN 0 ELSE IF t < c THEN t ELSE c)
  <2>1. (now >= tmCurrent <=> c <= 0) /\ (now >= tmHealth <=> t <= 0)
        /\ (tmHealth < tmCurrent <=> t < c)
    BY <1>1
  <2> QED BY <2>1 DEF UntilDue
<1>5. /\ Remaining(c) \in Nat
      /\ c <= 0 => Remaining(c) = 0
      /\ c >= 0 => Remaining(c) <= c * Micro
      /\ c >= 0 /\ c < Word \div (2 * Micro) => Remaining(c) = c * Micro
  BY <1>1, RemainingFacts
<1>6. /\ Remaining(t) \in Nat
      /\ t <= 0 => Remaining(t) = 0
      /\ t >= 0 => Remaining(t) <= t * Micro
      /\ t >= 0 /\ t < Word \div (2 * Micro) => Remaining(t) = t * Micro
  BY <1>1, RemainingFacts
<1> DEFINE rc == Remaining(c) rt == Remaining(t) w == Word \div (2 * Micro)
<1>7. RestTime = (IF rc > rt THEN rt ELSE rc) BY <1>3 DEF ShorterRest
<1>8. c \in Int /\ t \in Int /\ rc \in Nat /\ rt \in Nat BY <1>1, <1>5, <1>6
<1> HIDE DEF c, t, rc, rt, w
<1>9. RestTime \in Nat /\ UntilDue \in Nat
      /\ (UntilDue = 0 \/ (UntilDue <= c /\ UntilDue <= t))
  BY <1>4, <1>7, <1>8
<1>10. CASE c <= 0 \/ t <= 0
  <2>1. UntilDue * Micro = 0 BY <1>2, <1>4, <1>10
  <2>2. RestTime = 0 BY <1>5, <1>6, <1>7, <1>8, <1>10 DEF rc, rt
  <2> QED BY <1>9, <2>1, <2>2 DEF c, t
<1>11. CASE c > 0 /\ t > 0 /\ t < c
  <2>1. UntilDue = t BY <1>4, <1>8, <1>11
  <2>2. t * Micro \in Nat /\ c * Micro \in Nat /\ t * Micro <= c * Micro
    <3>1. (c - t) * Micro \in Nat /\ (c - t) * Micro = c * Micro - t * Micro
      BY <1>2, <1>8, <1>11
    <3> QED BY <1>2, <1>8, <1>11, <3>1
  <2>3. RestTime <= t * Micro BY <1>6, <1>7, <1>8, <1>11, <2>2 DEF rt
  <2>4. c < w /\ t < w => RestTime = t * Micro
    BY <1>5, <1>6, <1>7, <1>8, <1>11, <2>2 DEF rc, rt, w
  <2> QED BY <1>9, <2>1, <2>3, <2>4 DEF c, t, w
<1>12. CASE c > 0 /\ t > 0 /\ ~(t < c)
  <2>1. UntilDue = c BY <1>4, <1>8, <1>12
  <2>2. t * Micro \in Nat /\ c * Micro \in Nat /\ c * Micro <= t * Micro
    <3>1. (t - c) * Micro \in Nat /\ (t - c) * Micro = t * Micro - c * Micro
      BY <1>2, <1>8, <1>12
    <3> QED BY <1>2, <1>8, <1>12, <3>1
  <2>3. RestTime <= c * Micro BY <1>5, <1>7, <1>8, <1>12, <2>2 DEF rc
  <2>4. c < w /\ t < w => RestTime = c * Micro
    BY <1>5, <1>6, <1>7, <1>8, <1>12, <2>2 DEF rc, rt, w
  <2> QED BY <1>9, <2>1, <2>3, <2>4 DEF c, t, w
<1> QED BY <1>8, <1>10, <1>11, <1>12

\* The sleep in seconds.
LEMMA SleepFacts ==
  ASSUME NEW r \in Nat, NEW u \in Nat, r <= u * Micro
  PROVE  (r + Micro - 1) \div Micro \in Nat /\ (r + Micro - 1) \div Micro <= u
<1>1. Micro \in Nat /\ Micro > 0 BY TimersAssumption
<1>2. u * Micro \in Nat /\ (u + 1) * Micro = u * Micro + Micro BY <1>1
<1>3. r + Micro - 1 \in Nat /\ r + Micro - 1 < (u + 1) * Micro BY <1>1, <1>2
<1>4. (r + Micro - 1) \div Micro \in Int /\ (r + Micro - 1) \div Micro >= 0
  BY <1>1, <1>3, Quotient
<1>5. (r + Micro - 1) \div Micro <= u BY <1>1, <1>3, QuotientIs
<1> QED BY <1>4, <1>5

-----------------------------------------------------------------------------
(* The steps                                                               *)

\* The initial state satisfies the inductive invariant.
LEMMA InitInv == Init => IInv
<1> SUFFICES ASSUME Init PROVE IInv
  OBVIOUS
<1> USE Numbers
<1>1. /\ interval \in Intervals /\ interval \in Nat /\ interval > 0
      /\ pc = "request" /\ off \in -MaxOff..MaxOff
      /\ now \in Nat /\ now >= MaxOff + Back /\ now - off >= MaxOff + Back
      /\ asked = (now - off) \div interval /\ checked = tmHealth - off
      /\ sure = FALSE /\ agreed = FALSE /\ late = 0
  BY DEF Init, Reading, mpTime
<1>2. PICK b \in {-1, 0, Back} : tmCurrent = now + b /\ tmHealth = now + b BY DEF Init
<1>3. asked \in Int BY <1>1, Quotient
<1>4. /\ tmCurrent \in Nat /\ tmHealth \in Nat /\ now <= tmHealth + 1
      /\ tmCurrent <= now + Back
  BY <1>1, <1>2
<1>5. TypeOK
  <2>1. sure \in BOOLEAN /\ agreed \in BOOLEAN BY <1>1, Zenon
  <2>2. tmCurrent <= now + MaxInterval + Back + 2 * MaxOff BY <1>1, <1>4
  <2>3. checked \in Int BY <1>1, <1>4
  <2> QED BY <1>1, <1>3, <1>4, <2>1, <2>2, <2>3 DEF TypeOK
<1>6. Clocks BY <1>1 DEF Clocks, mpTime
<1>7. InTime /\ Sure BY <1>1 DEF InTime, Sure
<1>8. HealthInTime BY <1>1, <1>4 DEF HealthInTime, mpTime
<1> QED BY <1>5, <1>6, <1>7, <1>8 DEF IInv

\* The variables as numbers.
LEMMA VarTypes ==
  ASSUME IInv
  PROVE  /\ interval \in Intervals /\ interval \in Nat /\ interval > 0
         /\ now \in Nat /\ off \in Int /\ -MaxOff <= off /\ off <= MaxOff
         /\ tmCurrent \in Nat /\ tmHealth \in Nat /\ asked \in Int /\ checked \in Int
         /\ late \in Nat /\ Expected \in Int /\ mpTime \in Int /\ mpTime = now - off
<1> USE Numbers
<1>1. /\ interval \in Intervals /\ interval \in Nat /\ interval > 0
      /\ now \in Nat /\ off \in Int /\ -MaxOff <= off /\ off <= MaxOff
      /\ tmCurrent \in Nat /\ tmHealth \in Nat /\ asked \in Int /\ checked \in Int
      /\ late \in Nat
  BY DEF IInv, TypeOK
<1> QED BY <1>1 DEF Expected, mpTime

\* Nothing is due, or the round begins.
LEMMA BranchesInv == IInv /\ (NotDue \/ Due \/ HealthNotDue) => IInv'
<1> SUFFICES ASSUME IInv, NotDue \/ Due \/ HealthNotDue PROVE IInv'
  OBVIOUS
<1>1. /\ UNCHANGED <<interval, now, off, tmCurrent, tmHealth, asked, checked, sure, agreed,
                     late>>
      /\ \/ pc = "request" /\ now < tmCurrent /\ pc' = "health"
         \/ pc = "request" /\ now >= tmCurrent /\ pc' = "time"
         \/ pc = "health" /\ now < tmHealth /\ pc' = "rest"
  BY DEF NotDue, Due, HealthNotDue
<1>2. mpTime' = mpTime /\ Expected' = Expected /\ NextDue(now, interval)' = NextDue(now, interval)
  BY <1>1 DEF mpTime, Expected, NextDue
<1> USE Numbers, VarTypes, SlackFits
<1>3. TypeOK' BY <1>1 DEF IInv, TypeOK
<1>4. Clocks' BY <1>1, <1>2 DEF IInv, Clocks
<1>5. InTime' BY <1>1, <1>2 DEF IInv, InTime
<1>6. Sure' BY <1>1, <1>2 DEF IInv, Sure
<1>7. HealthInTime' BY <1>1, <1>2 DEF IInv, HealthInTime
<1> QED BY <1>3, <1>4, <1>5, <1>6, <1>7 DEF IInv

\* GetMPTime: the post's time grows by the exchange and the wait, whatever
\* happens to the clock; the wait ends when the time that was read, which is a
\* seconds old, has passed the timer.
LEMMA TimeKnownInv ==
  ASSUME IInv, NEW d \in TimeTakes, NEW a \in Ages, TimeKnown(d, a)
  PROVE  IInv'
<1> USE Numbers, VarTypes
<1> DEFINE mp == mpTime + d - a w == Wait(mp)
           newOff == IF off + a \in -Tolerance..Tolerance THEN off ELSE -a
           ed == Excess(d, TimeOut) ea == Excess(a, TimeOut)
<1>1. /\ pc = "time" /\ pc' = "condition"
      /\ now' = mpTime + d + newOff + w /\ off' = newOff
      /\ sure' = (tmCurrent - mp < MaxWait) /\ late' = late + ed + ea
      /\ UNCHANGED <<interval, tmCurrent, tmHealth, asked, checked, agreed>>
  BY DEF TimeKnown
<1>2. d \in Nat /\ a \in Nat /\ a <= MaxOff /\ mp \in Int OBVIOUS
<1>3. /\ w \in Nat /\ (w = 0 \/ w = tmCurrent - mp + 1)
      /\ (tmCurrent - mp < MaxWait => mp + w >= tmCurrent)
  BY <1>2 DEF Wait
<1>4. /\ newOff \in Int /\ -MaxOff <= newOff /\ newOff <= MaxOff /\ newOff <= Tolerance
      /\ (newOff = off \/ newOff = -a)
  BY <1>2
<1>5. now >= tmCurrent /\ mpTime >= MaxOff + Back BY <1>1 DEF IInv, Clocks
<1>6. ed \in Nat /\ d <= TimeOut + ed /\ ea \in Nat /\ a <= TimeOut + ea
  BY <1>2, ExcessFacts
<1>7. mp = mpTime + d - a OBVIOUS
<1> HIDE DEF w, newOff, ed, ea, mp
<1>8. mpTime' = mpTime + d + w /\ mpTime' >= mpTime
  BY <1>1, <1>2, <1>3, <1>4 DEF mpTime
<1>9. now' \in Nat /\ tmCurrent <= now' + 2 * MaxOff
  BY <1>1, <1>2, <1>3, <1>4, <1>5
<1>10. Expected' = Expected BY <1>1 DEF Expected
<1>11. TypeOK'
  <2>1. sure' \in BOOLEAN BY <1>1
  <2>2. off' \in -MaxOff..MaxOff /\ late' \in Nat BY <1>1, <1>4, <1>6
  <2>3. tmCurrent' <= now' + MaxInterval + Back + 2 * MaxOff BY <1>1, <1>9
  <2> QED BY <1>1, <1>9, <2>1, <2>2, <2>3 DEF IInv, TypeOK
<1>12. Clocks' BY <1>1, <1>5, <1>8 DEF Clocks
<1>13. InTime'
  <2> SUFFICES ASSUME agreed
      PROVE  /\ tmCurrent = Expected
             /\ mpTime' <= Expected + Slack + HealthOut + TimeOut + late'
    BY <1>1, <1>10 DEF InTime
  <2>1. tmCurrent = Expected /\ mpTime <= Expected + Slack + HealthOut + late
    BY <1>1 DEF IInv, InTime
  <2>2. CASE w = 0 BY <1>1, <1>2, <1>6, <1>8, <2>1, <2>2, SlackFits
  <2>3. CASE w = tmCurrent - mp + 1
    <3>1. mpTime' = Expected + a + 1 BY <1>2, <1>7, <1>8, <2>1, <2>3
    <3> QED BY <1>1, <1>2, <1>6, <2>1, <3>1, SlackFits
  <2> QED BY <1>3, <2>2, <2>3
<1>14. Sure'
  <2> SUFFICES ASSUME agreed, tmCurrent - mp < MaxWait
      PROVE  mpTime' >= Expected /\ now' >= Expected /\ off' <= Tolerance
    BY <1>1, <1>10 DEF Sure
  <2>1. tmCurrent = Expected BY <1>1 DEF IInv, InTime
  <2>2. mp + w >= Expected BY <1>3, <2>1
  <2>3. mpTime' >= Expected BY <1>2, <1>3, <1>7, <1>8, <2>2
  <2>4. now' >= Expected
    <3>1. CASE newOff = off
      <4>1. now' = now + d + w BY <1>1, <1>2, <1>3, <3>1
      <4> QED BY <1>2, <1>3, <1>5, <2>1, <4>1
    <3>2. CASE newOff = -a
      <4>1. now' = mp + w BY <1>1, <1>2, <1>3, <1>7, <3>2
      <4> QED BY <2>2, <4>1
    <3> QED BY <1>4, <3>1, <3>2
  <2> QED BY <1>1, <1>4, <2>3, <2>4
<1>15. HealthInTime' BY <1>1 DEF IInv, HealthInTime
<1> QED BY <1>11, <1>12, <1>13, <1>14, <1>15 DEF IInv

\* GetMPTime fails: the exchange takes its time.
LEMMA TimeUnknownInv ==
  ASSUME IInv, NEW d \in TimeTakes, TimeUnknown(d)
  PROVE  IInv'
<1> USE Numbers, VarTypes
<1> DEFINE ed == Excess(d, TimeOut)
<1>1. /\ pc = "time" /\ pc' = "condition" /\ now' = now + d /\ off' = off /\ sure' = FALSE
      /\ late' = late + ed
      /\ UNCHANGED <<interval, tmCurrent, tmHealth, asked, checked, agreed>>
  BY DEF TimeUnknown, Passes
<1>2. d \in Nat /\ mpTime' = mpTime + d /\ Expected' = Expected
  BY <1>1 DEF mpTime, Expected
<1>3. ed \in Nat /\ d <= TimeOut + ed BY <1>2, ExcessFacts
<1> HIDE DEF ed
<1>4. TypeOK'
  <2>1. sure' \in BOOLEAN BY <1>1, Zenon
  <2>2. /\ now' \in Nat /\ late' \in Nat
        /\ tmCurrent' <= now' + MaxInterval + Back + 2 * MaxOff
    BY <1>1, <1>2, <1>3 DEF IInv, TypeOK
  <2> QED BY <1>1, <2>1, <2>2 DEF IInv, TypeOK
<1>5. Clocks' BY <1>1, <1>2 DEF IInv, Clocks
<1>6. InTime' BY <1>1, <1>2, <1>3, SlackFits DEF IInv, InTime
<1>7. Sure' BY <1>1 DEF Sure
<1>8. HealthInTime' BY <1>1 DEF IInv, HealthInTime
<1> QED BY <1>4, <1>5, <1>6, <1>7, <1>8 DEF IInv

\* GetMPIntervalSecond: the timer is set by the interval n of the post, or by
\* another, when the round is no longer sure unless they agree.
LEMMA IntervalInv ==
  ASSUME IInv, NEW d \in ConditionTakes, NEW n \in 1..MaxInterval,
         pc = "condition", pc' = "data", Passes(d), tmCurrent' = NextDue(now', n),
         late' = late + Excess(d, ConditionOut),
         sure' \in BOOLEAN, sure' => sure /\ n = interval,
         UNCHANGED <<interval, tmHealth, asked, checked, agreed>>
  PROVE  IInv'
<1> USE Numbers, VarTypes
<1> DEFINE ed == Excess(d, ConditionOut)
<1>1. /\ now' = now + d /\ off' = off /\ d \in Nat /\ late' = late + ed
      /\ n \in Nat /\ n > 0 /\ n <= MaxInterval
  BY DEF Passes
<1>2. mpTime' = mpTime + d /\ Expected' = Expected BY <1>1 DEF mpTime, Expected
<1>3. ed \in Nat /\ d <= ConditionOut + ed BY <1>1, ExcessFacts
<1> HIDE DEF ed
<1>4. now' \in Nat /\ late' \in Nat BY <1>1, <1>3
<1>5. tmCurrent' \in Nat /\ now' < tmCurrent' /\ tmCurrent' <= now' + n
  BY <1>1, <1>4, NextDueFacts
<1>6. TypeOK'
  <2>1. tmCurrent' <= now' + MaxInterval + Back + 2 * MaxOff BY <1>1, <1>4, <1>5
  <2> QED BY <1>1, <1>4, <1>5, <2>1 DEF IInv, TypeOK
<1>7. Clocks' BY <1>1, <1>2, <1>5 DEF IInv, Clocks
<1>8. InTime' BY <1>1, <1>2, <1>3, SlackFits DEF IInv, InTime
<1>9. Sure'
  <2> SUFFICES ASSUME agreed, sure'
      PROVE  /\ mpTime' >= Expected /\ now' >= Expected /\ off' <= Tolerance
             /\ tmCurrent' = NextDue(now', interval')
    BY <1>2 DEF Sure
  <2>1. mpTime >= Expected /\ now >= Expected /\ off <= Tolerance BY DEF IInv, Sure
  <2> QED BY <1>1, <1>2, <2>1
<1>10. HealthInTime' BY <1>1 DEF IInv, HealthInTime
<1> QED BY <1>6, <1>7, <1>8, <1>9, <1>10 DEF IInv

\* At the request the post's clock has passed no more readings after the
\* expected one than there are in the time lost, and in a sure round that lost
\* none both clocks show the expected one.
LEMMA RequestReading ==
  ASSUME IInv, pc = "data", agreed
  PROVE  /\ Reading(mpTime) <= asked + 1 + (late + interval - 1) \div interval
         /\ sure /\ late = 0 => tmCurrent = NextDue(mpTime, interval)
<1> USE Numbers, VarTypes
<1> DEFINE c == (late + interval - 1) \div interval
<1>1. Expected = (asked + 1) * interval /\ (asked + 2) * interval = Expected + interval
  BY DEF Expected
<1>2. Slack + HealthOut + TimeOut + ConditionOut + Tolerance < interval
  BY SlackFits
<1>3. mpTime + Tolerance < Expected + interval + late
  BY <1>2, SlackFits DEF IInv, InTime
<1>4. c \in Int /\ late <= c * interval
  <2>1. late + interval - 1 \in Int OBVIOUS
  <2>2. /\ c \in Int /\ late + interval - 1 < (c + 1) * interval
        /\ (c + 1) * interval = c * interval + interval
    BY <2>1, Quotient
  <2> HIDE DEF c
  <2>3. c * interval \in Int BY <2>2
  <2> QED BY <2>2, <2>3
<1> HIDE DEF c
<1>5. mpTime \div interval <= asked + 1 + c
  <2>1. ((asked + 1 + c) + 1) * interval = (asked + 2) * interval + c * interval
    BY <1>4
  <2>2. c * interval \in Int /\ (asked + 2) * interval \in Int BY <1>4
  <2>3. mpTime < ((asked + 1 + c) + 1) * interval BY <1>1, <1>3, <1>4, <2>1, <2>2
  <2>4. asked + 1 + c \in Int BY <1>4
  <2> QED BY <2>3, <2>4, QuotientIs
<1>6. ASSUME sure, late = 0 PROVE tmCurrent = NextDue(mpTime, interval)
  <2>1. /\ mpTime >= Expected /\ now >= Expected /\ off <= Tolerance
        /\ tmCurrent = NextDue(now, interval)
    BY <1>6 DEF IInv, Sure
  <2>2. now < ((asked + 1) + 1) * interval /\ mpTime < ((asked + 1) + 1) * interval
    <3>1. (asked + 1) + 1 = asked + 2 OBVIOUS
    <3>2. now <= mpTime + Tolerance BY <2>1
    <3> QED BY <1>1, <1>3, <1>6, <3>1, <3>2
  <2>3. now \div interval <= asked + 1 /\ mpTime \div interval <= asked + 1
    BY <2>2, QuotientIs
  <2>4. now \div interval >= asked + 1 /\ mpTime \div interval >= asked + 1
    BY <1>1, <2>1, QuotientIs
  <2>5. now \div interval \in Int /\ mpTime \div interval \in Int BY Quotient
  <2>6. now \div interval = mpTime \div interval BY <2>3, <2>4, <2>5
  <2> QED BY <2>1, <2>6 DEF NextDue
<1> QED BY <1>5, <1>6 DEF Reading, c

\* The request: the next reading is expected from here.
LEMMA RequestInv ==
  ASSUME IInv, NEW d \in DataTakes, Request(d)
  PROVE  IInv'
<1> USE Numbers, VarTypes
<1> DEFINE ed == Excess(d, DataOut)
<1>1. /\ pc = "data" /\ pc' = "health" /\ now' = now + d /\ off' = off
      /\ asked' = mpTime \div interval /\ late' = ed
      /\ agreed' = (tmCurrent = NextDue(mpTime, interval))
      /\ UNCHANGED <<interval, tmCurrent, tmHealth, checked, sure>>
  BY DEF Request, Passes, Reading
<1>2. d \in Nat /\ d <= DataMax /\ mpTime' = mpTime + d BY <1>1 DEF mpTime
<1>3. ed \in Nat /\ d <= DataOut + ed BY <1>2, ExcessFacts
<1> HIDE DEF ed
<1>4. asked' \in Int /\ mpTime < (asked' + 1) * interval BY <1>1, Quotient
<1>5. Expected' = (asked' + 1) * interval BY <1>1 DEF Expected
<1>6. Expected' \in Int BY <1>4, <1>5
<1>7. TypeOK'
  <2>1. agreed' \in BOOLEAN BY <1>1
  <2>2. /\ now' \in Nat /\ late' \in Nat
        /\ tmCurrent' <= now' + MaxInterval + Back + 2 * MaxOff
    BY <1>1, <1>2, <1>3 DEF IInv, TypeOK
  <2> QED BY <1>1, <1>4, <2>1, <2>2 DEF IInv, TypeOK
<1>8. Clocks' BY <1>1, <1>2 DEF IInv, Clocks
<1>9. InTime'
  <2> SUFFICES ASSUME agreed'
      PROVE  tmCurrent' = Expected' /\ mpTime' <= Expected' + Slack + late'
    BY <1>1 DEF InTime
  <2>1. tmCurrent' = Expected' BY <1>1, <1>5 DEF NextDue
  <2>2. mpTime' <= Expected' + Slack + late'
    BY <1>1, <1>2, <1>3, <1>4, <1>5, <1>6, SlackFits
  <2> QED BY <2>1, <2>2
<1>10. Sure' BY <1>1 DEF Sure
<1>11. HealthInTime' BY <1>1 DEF IInv, HealthInTime
<1> QED BY <1>7, <1>8, <1>9, <1>10, <1>11 DEF IInv

\* A health check: the timer is set by the clock, which differs from the
\* post's by MaxOff at most.
LEMMA HealthCheckInv ==
  ASSUME IInv, NEW d \in HealthTakes, HealthCheck(d)
  PROVE  IInv'
<1> USE Numbers, VarTypes
<1> DEFINE ed == Excess(d, HealthOut)
<1>1. /\ pc = "health" /\ pc' = "rest" /\ now' = now + d /\ off' = off
      /\ tmHealth' = NextDue(now, Health) /\ checked' = mpTime /\ late' = late + ed
      /\ UNCHANGED <<interval, tmCurrent, asked, sure, agreed>>
  BY DEF HealthCheck, Passes
<1>2. /\ d \in Nat /\ d <= HealthMax /\ d <= Health
      /\ mpTime' = mpTime + d /\ Expected' = Expected
  BY <1>1 DEF mpTime, Expected
<1>3. ed \in Nat /\ d <= HealthOut + ed BY <1>2, ExcessFacts
<1> HIDE DEF ed
<1>4. tmHealth' \in Nat /\ now < tmHealth' /\ tmHealth' <= now + Health
  BY <1>1, NextDueFacts
<1>5. TypeOK'
  <2>1. /\ now' \in Nat /\ late' \in Nat
        /\ tmCurrent' <= now' + MaxInterval + Back + 2 * MaxOff
    BY <1>1, <1>2, <1>3 DEF IInv, TypeOK
  <2> QED BY <1>1, <1>4, <2>1 DEF IInv, TypeOK
<1>6. Clocks' BY <1>1, <1>2, <1>4 DEF IInv, Clocks
<1>7. InTime' BY <1>1, <1>2, <1>3, SlackFits DEF IInv, InTime
<1>8. Sure' BY <1>1 DEF Sure
<1>9. HealthInTime' BY <1>1, <1>2, <1>4 DEF IInv, HealthInTime
<1> QED BY <1>5, <1>6, <1>7, <1>8, <1>9 DEF IInv

\* A rest: the post's time does not pass the next timer by more than the
\* clocks differ.
LEMMA PatrolRestInv ==
  ASSUME IInv, NEW e \in -Drift..Drift, PatrolRest(e)
  PROVE  IInv'
<1> USE Numbers, VarTypes
<1> DEFINE k == Slept
<1>1. /\ pc = "rest" /\ pc' = "request" /\ now' = now + k + e /\ now' \in now..MaxTime - 1
      /\ off' = off + e /\ off' \in -MaxOff..MaxOff
      /\ UNCHANGED <<interval, tmCurrent, tmHealth, asked, checked, sure, agreed, late>>
  BY DEF PatrolRest
<1>2. /\ RestTime \in Nat /\ UntilDue \in Nat /\ RestTime <= UntilDue * Micro
      /\ UntilDue = 0 \/ (UntilDue <= tmCurrent - now /\ UntilDue <= tmHealth - now)
  BY <1>1, RestFacts
<1>3. k \in Nat /\ k <= UntilDue
  <2>1. CASE RestTime = 0 /\ now < tmCurrent /\ now < tmHealth
    <3>1. k = 1 BY <2>1 DEF Slept
    <3>2. UntilDue >= 1 BY <2>1 DEF UntilDue
    <3> QED BY <3>1, <3>2
  <2>2. CASE ~(RestTime = 0 /\ now < tmCurrent /\ now < tmHealth)
    <3>1. k = (RestTime + Micro - 1) \div Micro BY <2>2 DEF Slept
    <3> QED BY <1>2, <3>1, SleepFacts
  <2> QED BY <2>1, <2>2
<1> HIDE DEF k
<1>4. e \in Int /\ now' \in Nat /\ now' >= now /\ mpTime' = mpTime + k /\ Expected' = Expected
  BY <1>1, <1>3 DEF mpTime, Expected
<1>5. mpTime' = mpTime \/ (mpTime' <= tmCurrent + MaxOff /\ mpTime' <= tmHealth + MaxOff)
  BY <1>2, <1>3, <1>4
<1>6. TypeOK'
  <2>1. tmCurrent' <= now' + MaxInterval + Back + 2 * MaxOff
    BY <1>1, <1>4 DEF IInv, TypeOK
  <2> QED BY <1>1, <1>4, <2>1 DEF IInv, TypeOK
<1>7. Clocks' BY <1>1, <1>3, <1>4 DEF IInv, Clocks
<1>8. InTime' BY <1>1, <1>4, <1>5, SlackFits DEF IInv, InTime
<1>9. Sure' BY <1>1 DEF Sure
<1>10. HealthInTime' BY <1>1, <1>4, <1>5 DEF IInv, HealthInTime
<1> QED BY <1>6, <1>7, <1>8, <1>9, <1>10 DEF IInv

\* Every step preserves the inductive invariant.
LEMMA NextInv == IInv /\ [Next]_vars => IInv'
<1> SUFFICES ASSUME IInv, [Next]_vars PROVE IInv'
  OBVIOUS
<1>1. ASSUME NEW d \in ConditionTakes, IntervalKnown(d) PROVE IInv'
  <2>1. interval \in 1..MaxInterval /\ sure \in BOOLEAN
    BY VarTypes, Numbers DEF IInv, TypeOK
  <2> QED BY <1>1, <2>1, IntervalInv DEF IntervalKnown
<1>2. ASSUME NEW d \in ConditionTakes, NEW n \in Foreign, IntervalUnknown(d, n) PROVE IInv'
  <2>1. sure' \in BOOLEAN BY <1>2, Zenon DEF IntervalUnknown
  <2>2. sure' => sure /\ n = interval BY <1>2 DEF IntervalUnknown
  <2>3. n \in 1..MaxInterval BY Numbers
  <2> QED BY <1>2, <2>1, <2>2, <2>3, IntervalInv DEF IntervalUnknown
<1>3. CASE UNCHANGED vars
  BY <1>3 DEF vars, IInv, TypeOK, Clocks, InTime, Sure, HealthInTime, mpTime, Expected, NextDue
<1> QED
  BY <1>1, <1>2, <1>3, BranchesInv, TimeKnownInv, TimeUnknownInv, RequestInv, HealthCheckInv,
     PatrolRestInv DEF Next

-----------------------------------------------------------------------------
\* The inductive invariant holds in every reachable state.
THEOREM Invariance == Spec => []IInv
BY InitInv, NextInv, PTL DEF Spec

\* Every variable stays in its set: in particular no correction of the clock
\* and no interval read from another frame puts the timer for readings further
\* ahead than the longest interval and what the clock was set back.
THEOREM TypeCorrect == Spec => []TypeOK
<1>1. IInv => TypeOK BY DEF IInv
<1> QED BY <1>1, Invariance, PTL

\* PatrolRest never sleeps past a timer, and sleeps exactly until the next
\* one as long as the product fits into an int.
THEOREM RestInTime == Spec => []RestsUntilDue
<1>1. IInv => RestsUntilDue BY RestFacts DEF RestsUntilDue
<1> QED BY <1>1, Invariance, PTL

\* RequestCurrentData skips no reading as long as its rounds get the time and
\* the interval of the post and no exchange takes too long, and otherwise no
\* more readings than the post makes in the time that was lost.
THEOREM NothingSkipped == Spec => NoReadingSkipped
<1> DEFINE P == pc = "data" /\ pc' = "health" /\ agreed
                  => /\ asked' <= asked + 1 + (late + interval - 1) \div interval
                     /\ sure /\ late = 0 => agreed'
<1>1. IInv /\ [Next]_vars => [P]_vars
  <2> SUFFICES ASSUME IInv, Next, pc = "data", pc' = "health", agreed
      PROVE  /\ asked' <= asked + 1 + (late + interval - 1) \div interval
             /\ sure /\ late = 0 => agreed'
    OBVIOUS
  <2>1. PICK d \in DataTakes : Request(d)
    BY DEF Next, NotDue, Due, HealthNotDue, TimeKnown, TimeUnknown, IntervalKnown,
           IntervalUnknown, HealthCheck, PatrolRest
  <2> QED BY <2>1, RequestReading DEF Request
<1> QED BY <1>1, Invariance, PTL DEF Spec, NoReadingSkipped

\* No pass of the loop begins later after the last health check than the
\* period and twice the difference of the clocks.
THEOREM HealthInterval == Spec => []HealthGap
<1>1. IInv => HealthGap BY Numbers, VarTypes DEF IInv, HealthInTime, HealthGap
<1> QED BY <1>1, Invariance, PTL
=============================================================================
