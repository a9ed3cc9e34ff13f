-------------------------- MODULE PowerCycleProofs --------------------------
(***************************************************************************)
(* Proofs about PowerCycle, for all delays that DelaysAssumption admits:   *)
(* the data thread's polls cannot miss an off period, an on period or a    *)
(* control connection.  The argument relates the sleeps of the two         *)
(* threads: while the control thread is in the sleep that precedes a       *)
(* change, what the data thread still has to sleep is bounded by what the  *)
(* control thread still has to sleep, less the margin between the two.     *)
(***************************************************************************)
EXTENDS PowerCycle, TLAPS

\* The power state at the places of the control loop.
PowerPlaces ==
  /\ cpc \in {"opening", "sleep"} => bPowerOff
  /\ cpc \in {"command", "negotiate"} => ~bPowerOff

\* No sleep of the data thread is longer than the code makes it.
SleepsBounded ==
  /\ dpc = "waitOff" => dtime <= PollOff
  /\ dpc = "waitOn" => dtime <= PollOn
  /\ dpc = "waitControl" => dtime <= 1

\* PowerOn has OpenTime - ctime of its sleeps behind it, and so has the poll.
BeforeOn == cpc = "opening" /\ dpc = "waitOff" => dtime + OpenTime <= PollOff + ctime

\* Likewise for the grace period before PowerOff.
BeforeOff ==
  cpc = "linger" /\ ~bPowerOff /\ dpc = "waitOn" => dtime + Idle <= PollOn + ctime

\* The poll for the control channel ends within a second of the last action.
BeforeReset == bControlDone /\ dpc = "waitControl" => dtime + idle <= 1

IInv == TypeOK /\ PowerPlaces /\ SleepsBounded /\ BeforeOn /\ BeforeOff /\ BeforeReset

-----------------------------------------------------------------------------
\* Idle / 2 is less than Idle: the poll while the modem is off is shorter
\* than the grace period before the control thread cuts the line.
LEMMA PollOnShort == PollOn \in Nat /\ PollOn < Idle
BY DelaysAssumption DEF PollOn

LEMMA OpenTimeLong == OpenTime \in Nat /\ PollOff < OpenTime
BY DelaysAssumption DEF OpenTime

\* The initial state satisfies the inductive invariant.
LEMMA InitInv == Init => IInv
<1> SUFFICES ASSUME Init PROVE IInv
  OBVIOUS
<1>1. TypeOK
  <2>1. bPowerOff \in BOOLEAN /\ bControlDone \in BOOLEAN /\ bExtErr \in BOOLEAN
        /\ noRoute \in BOOLEAN
    BY Zenon DEF Init
  <2>2. idle \in 0..Idle + 1
    BY DelaysAssumption DEF Init
  <2> QED
    BY <2>1, <2>2 DEF Init, TypeOK
<1>2. PowerPlaces /\ SleepsBounded /\ BeforeOn /\ BeforeOff /\ BeforeReset
  BY PollOnShort DEF Init, PowerPlaces, SleepsBounded, BeforeOn, BeforeOff, BeforeReset
<1> QED
  BY <1>1, <1>2 DEF IInv

\* What a data thread step that ends a session or a wait leaves behind.
LEMMA DataWaits ==
  ASSUME IInv, WaitForNextCycle \/ AwaitControl
  PROVE  /\ dpc' \in {"waitOn", "waitOff", "waitControl", "session"}
         /\ dtime' \in Nat
         /\ dpc' = "waitOn" => bPowerOff /\ dtime' <= PollOn
         /\ dpc' = "waitOff" => ~bPowerOff /\ dtime' <= PollOff
         /\ dpc' = "waitControl" => ~bControlDone /\ dtime' <= 1
BY DelaysAssumption, PollOnShort
   DEF WaitForNextCycle, AwaitControl, IInv, TypeOK

\* Every step of the control thread preserves the inductive invariant.
LEMMA ControlInv == IInv /\ Control => IInv'
<1> SUFFICES ASSUME IInv, Control PROVE IInv'
  OBVIOUS
<1> USE DelaysAssumption, PollOnShort, OpenTimeLong
    DEF IInv, TypeOK, PowerPlaces, SleepsBounded, BeforeOn, BeforeOff, BeforeReset,
        dataVars, timeVars
<1>1. CASE PowerOnStarts BY <1>1 DEF PowerOnStarts
<1>2. CASE PowerOnDone BY <1>2 DEF PowerOnDone
<1>3. CASE PowerOnFails BY <1>3 DEF PowerOnFails
<1>4. CASE StaysOn BY <1>4 DEF StaysOn
<1>5. CASE GetCommand BY <1>5 DEF GetCommand, Active
<1>6. CASE Unconnected BY <1>6 DEF Unconnected
<1>7. CASE Reboot
  <2>1. TypeOK'
    <3>1. bPowerOff' \in BOOLEAN /\ bControlDone' \in BOOLEAN /\ bExtErr' \in BOOLEAN
          /\ noRoute' \in BOOLEAN
      BY <1>7, Zenon DEF Reboot
    <3>2. idle' \in 0..Idle + 1
      BY <1>7 DEF Reboot
    <3> QED BY <1>7, <3>1, <3>2 DEF Reboot
  <2>2. PowerPlaces' /\ SleepsBounded' BY <1>7 DEF Reboot
  <2>3. BeforeOn' /\ BeforeOff' /\ BeforeReset' BY <1>7 DEF Reboot
  <2> QED BY <2>1, <2>2, <2>3
<1>8. CASE TryConnect BY <1>8 DEF TryConnect, Active
<1>9. CASE ControlConnected
  <2>1. TypeOK'
    <3>1. bPowerOff' \in BOOLEAN /\ bControlDone' \in BOOLEAN /\ bExtErr' \in BOOLEAN
          /\ noRoute' \in BOOLEAN
      BY <1>9, Zenon DEF ControlConnected
    <3>2. idle' \in 0..Idle + 1
      BY <1>9 DEF ControlConnected, Active
    <3> QED BY <1>9, <3>1, <3>2 DEF ControlConnected, Active
  <2>2. PowerPlaces' /\ SleepsBounded' BY <1>9 DEF ControlConnected, Active
  <2>3. BeforeOn' /\ BeforeOff' /\ BeforeReset' BY <1>9 DEF ControlConnected, Active
  <2> QED BY <2>1, <2>2, <2>3
<1>10. CASE ControlFails BY <1>10 DEF ControlFails
<1>11. CASE NoSleepYet BY <1>11 DEF NoSleepYet
<1>12. CASE StartsSleep
  <2>1. TypeOK'
    <3>1. bPowerOff' \in BOOLEAN /\ bControlDone' \in BOOLEAN /\ bExtErr' \in BOOLEAN
          /\ noRoute' \in BOOLEAN
      BY <1>12, Zenon DEF StartsSleep
    <3>2. idle' \in 0..Idle + 1
      BY <1>12 DEF StartsSleep, Active
    <3> QED BY <1>12, <3>1, <3>2 DEF StartsSleep, Active
  <2>2. PowerPlaces' /\ SleepsBounded' BY <1>12 DEF StartsSleep, Active
  <2>3. BeforeOn' /\ BeforeOff' /\ BeforeReset' BY <1>12 DEF StartsSleep, Active
  <2> QED BY <2>1, <2>2, <2>3
<1>13. CASE PowerOff BY <1>13 DEF PowerOff
<1>14. CASE Wakes BY <1>14 DEF Wakes
<1> QED
  BY <1>1, <1>2, <1>3, <1>4, <1>5, <1>6, <1>7, <1>8, <1>9, <1>10, <1>11, <1>12, <1>13,
     <1>14 DEF Control

\* So does every step of the data thread.
LEMMA DataInv == IInv /\ Data => IInv'
<1> SUFFICES ASSUME IInv, Data PROVE IInv'
  OBVIOUS
<1> USE DEF IInv, TypeOK, PowerPlaces, SleepsBounded, BeforeOn, BeforeOff, BeforeReset,
            controlVars, timeVars
<1>1. CASE PollsOff
  <2>1. WaitForNextCycle BY <1>1 DEF PollsOff
  <2> QED BY <1>1, <2>1, DataWaits DEF PollsOff
<1>2. CASE PollsOn
  <2>1. CASE bPowerOff BY <1>2, <2>1, PollOnShort DEF PollsOn
  <2>2. CASE ~bPowerOff
    <3>1. AwaitControl BY <1>2, <2>2 DEF PollsOn
    <3> QED BY <1>2, <3>1, DataWaits DEF PollsOn
  <2> QED BY <2>1, <2>2
<1>3. CASE PollsControl
  <2>1. WaitForNextCycle \/ AwaitControl BY <1>3 DEF PollsControl
  <2> QED BY <1>3, <2>1, DataWaits DEF PollsControl
<1>4. CASE SessionTraffic
  BY <1>4, DelaysAssumption DEF SessionTraffic, Active, dataVars
<1>5. CASE SessionEnds
  <2>1. WaitForNextCycle BY <1>5 DEF SessionEnds
  <2> QED BY <1>5, <2>1, DataWaits DEF SessionEnds
<1> QED
  BY <1>1, <1>2, <1>3, <1>4, <1>5 DEF Data

\* So does the passing of time: both threads sleep the same second.
LEMMA TimeInv == IInv /\ (Tick \/ SetClock \/ ClockCatchesUp) => IInv'
<1> SUFFICES ASSUME IInv, Tick \/ SetClock \/ ClockCatchesUp PROVE IInv'
  OBVIOUS
<1> USE DelaysAssumption, PollOnShort, OpenTimeLong
    DEF IInv, TypeOK, PowerPlaces, SleepsBounded, BeforeOn, BeforeOff, BeforeReset
<1>1. CASE Tick BY <1>1 DEF Tick
<1>2. CASE SetClock BY <1>2 DEF SetClock, controlVars, dataVars
<1>3. CASE ClockCatchesUp BY <1>3 DEF ClockCatchesUp, controlVars, dataVars
<1> QED
  BY <1>1, <1>2, <1>3

LEMMA StepInv == IInv /\ [Next]_vars => IInv'
<1>1. ASSUME IInv, UNCHANGED vars PROVE IInv'
  BY <1>1 DEF vars, IInv, TypeOK, PowerPlaces, SleepsBounded, BeforeOn, BeforeOff,
              BeforeReset
<1> QED
  BY <1>1, ControlInv, DataInv, TimeInv DEF Next

\* IInv is an invariant of the specification.
THEOREM Invariance == Spec => []IInv
BY InitInv, StepInv, PTL DEF Spec

-----------------------------------------------------------------------------
\* The variables have their types in every reachable state, whatever the
\* delays.
THEOREM TypeCorrect == Spec => []TypeOK
<1>1. IInv => TypeOK
  BY DEF IInv
<1> QED
  BY <1>1, Invariance, PTL

\* Only PowerOnDone, Reboot, PowerOff and StartsSleep change the two flags
\* that the data thread polls in the direction that could be missed.
LEMMA FlagSteps ==
  ASSUME IInv, [Next]_vars
  PROVE  /\ bPowerOff /\ ~bPowerOff' => PowerOnDone
         /\ ~bPowerOff /\ bPowerOff' => PowerOff \/ Reboot
         /\ bControlDone /\ ~bControlDone' => StartsSleep \/ Reboot
<1>1. CASE UNCHANGED vars
  BY <1>1 DEF vars
<1>2. CASE Control
  BY <1>2 DEF Control, PowerOnStarts, PowerOnFails, StaysOn, GetCommand, Unconnected,
              TryConnect, ControlConnected, ControlFails, NoSleepYet, StartsSleep, Wakes,
              Reboot, PowerOnDone, PowerOff
<1>3. CASE Data
  BY <1>3 DEF Data, PollsOff, PollsOn, PollsControl, SessionTraffic, SessionEnds,
              controlVars
<1>4. CASE Tick \/ SetClock \/ ClockCatchesUp
  BY <1>4 DEF Tick, SetClock, ClockCatchesUp, controlVars
<1> QED
  BY <1>1, <1>2, <1>3, <1>4 DEF Next

\* The data thread never sleeps through an off period, for all delays with
\* PollOff < LineDelay + ContextDelay + ConnectDelay: the 10 seconds of its
\* poll against the 11 that Modem::PowerOn sleeps at least.
THEOREM OffSeen == Spec => OffPeriodSeen
<1>1. IInv /\ [Next]_vars => (bPowerOff /\ ~bPowerOff' => dpc # "waitOff")
  <2> SUFFICES ASSUME IInv, [Next]_vars, bPowerOff, ~bPowerOff', dpc = "waitOff"
               PROVE  FALSE
    OBVIOUS
  <2>1. cpc = "opening" /\ ctime = 0
    BY FlagSteps DEF PowerOnDone
  <2> QED
    BY <2>1, OpenTimeLong, DelaysAssumption DEF IInv, TypeOK, BeforeOn
<1>2. IInv /\ [Next]_vars => [bPowerOff /\ ~bPowerOff' => dpc # "waitOff"]_vars
  BY <1>1
<1> QED
  BY <1>2, Invariance, PTL DEF Spec, OffPeriodSeen

\* Nor through an on period, for every idle time of two seconds or more.
THEOREM OnSeen == Spec => OnPeriodSeen
<1>1. IInv /\ [Next]_vars
        => (~bPowerOff /\ bPowerOff' => dpc' # "waitOn" \/ dtime' = 0)
  <2> SUFFICES ASSUME IInv, [Next]_vars, ~bPowerOff, bPowerOff'
               PROVE  dpc' # "waitOn" \/ dtime' = 0
    OBVIOUS
  <2>1. CASE Reboot
    BY <2>1 DEF Reboot
  <2>2. CASE PowerOff
    BY <2>2, PollOnShort, DelaysAssumption
       DEF PowerOff, dataVars, IInv, TypeOK, BeforeOff
  <2> QED
    BY <2>1, <2>2, FlagSteps
<1>2. IInv /\ [Next]_vars
        => [~bPowerOff /\ bPowerOff' => dpc' # "waitOn" \/ dtime' = 0]_vars
  BY <1>1
<1> QED
  BY <1>2, Invariance, PTL DEF Spec, OnPeriodSeen

\* Nor does NegoiateDataChannel's one-second poll miss that the control
\* channel came up, unless the system clock was set meanwhile.
THEOREM ControlNoticed == Spec => ControlSeen
<1>1. IInv /\ [Next]_vars
        => (bControlDone /\ ~bControlDone' => dpc' # "waitControl" \/ clock # "ok")
  <2> SUFFICES ASSUME IInv, [Next]_vars, bControlDone, ~bControlDone', clock = "ok"
               PROVE  dpc' # "waitControl"
    OBVIOUS
  <2>1. CASE Reboot
    BY <2>1 DEF Reboot
  <2>2. CASE StartsSleep
    BY <2>2, DelaysAssumption
       DEF StartsSleep, IsTimeForSleep, dataVars, IInv, TypeOK, SleepsBounded, BeforeReset
  <2> QED
    BY <2>1, <2>2, FlagSteps
<1>2. IInv /\ [Next]_vars
        => [bControlDone /\ ~bControlDone' => dpc' # "waitControl" \/ clock # "ok"]_vars
  BY <1>1
<1> QED
  BY <1>2, Invariance, PTL DEF Spec, ControlSeen
=============================================================================
