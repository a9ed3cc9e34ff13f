----------------------------- MODULE PowerCycle -----------------------------
(***************************************************************************)
(* The satellite line is switched on and off by the control thread         *)
(* (ControlTask::doProcess); the data thread (DataTask::doProcess) learns  *)
(* of it only by polling Modem::bPowerOff and Protocol::bControlDone       *)
(* between sleeps.  The module keeps the time, in seconds, that the two    *)
(* threads sleep: whether the data thread can sleep through an off period, *)
(* an on period or a control connection depends on those sleeps alone.     *)
(*                                                                         *)
(* The control thread may take any longer time than its sleeps, for it     *)
(* waits for the modem and the network; the data thread is scheduled       *)
(* within the second in which a sleep of it ends.                          *)
(***************************************************************************)
EXTENDS Integers

CONSTANTS
  LineDelay,     \* the first sleep of Modem::PowerOn (5)
  ContextDelay,  \* the sleep of Modem::CheckContext (1)
  ConnectDelay,  \* the sleep before Modem::ConnectIP (5)
  PollOff,       \* the data thread's sleep while the modem is on (10)
  Idle           \* nIdleTimeSetting (20)

ASSUME DelaysAssumption ==
  /\ LineDelay \in Nat /\ ContextDelay \in Nat /\ ConnectDelay \in Nat
  /\ PollOff \in Nat \ {0}
  /\ Idle \in Nat \ {0, 1}
  /\ PollOff < LineDelay + ContextDelay + ConnectDelay

VARIABLES
  bPowerOff, bControlDone,
  bExtErr,       \* bExtCommunicationError
  control,       \* srvControl: "down", "linked", or "stray": still connected
                 \* to the port negoiateChannel asked for an assignment
  noRoute,       \* srvControl.IsUnReachable()
  cpc, ctime,    \* control thread, and the seconds it sleeps at least
  dpc, dtime,    \* data thread, and the seconds it still sleeps
  idle,          \* seconds since the last action on either port
  clock          \* "ok", or the system clock was set "ahead" or "behind"
                 \* of the time stamps of the ports

vars == <<bPowerOff, bControlDone, bExtErr, control, noRoute, cpc, ctime, dpc,
          dtime, idle, clock>>
controlVars == <<bPowerOff, bControlDone, control, noRoute, cpc, ctime>>
dataVars == <<dpc, dtime>>
timeVars == <<idle, clock>>

PollOn == Idle \div 2          \* sleep(GetIdleTime()/2)

\* Fault: PowerOn does not sleep before ConnectIP.
ShortOpenTime == LineDelay + ContextDelay

\* Modem::PowerOn sleeps that long before it can succeed.
OpenTime == LineDelay + ContextDelay + ConnectDelay

-----------------------------------------------------------------------------
\* Both threads start with the modem off.
Init ==
  /\ bPowerOff = TRUE /\ bControlDone = FALSE /\ bExtErr = FALSE
  /\ control = "down" /\ noRoute = FALSE
  /\ cpc = "top" /\ ctime = 0
  /\ dpc = "waitOn" /\ dtime = 0
  /\ idle = 0 /\ clock = "ok"

\* TCPPort stamps its last action; IsTimeForSleep follows the newest stamp.
Active ==
  /\ idle' = 0
  /\ clock' = IF clock = "ahead" THEN "ok" ELSE clock

-----------------------------------------------------------------------------
(* Control thread                                                          *)

\* The top of the loop: a modem that is off is powered on.
PowerOnStarts ==
  /\ cpc = "top" /\ bPowerOff
  /\ cpc' = "opening" /\ ctime' = OpenTime
  /\ UNCHANGED <<bPowerOff, bControlDone, bExtErr, control, noRoute, dataVars, timeVars>>

PowerOnDone ==
  /\ cpc = "opening" /\ ctime = 0
  /\ bPowerOff' = FALSE
  /\ bExtErr' = FALSE
  /\ cpc' = "command"
  /\ UNCHANGED <<bControlDone, control, noRoute, ctime, dataVars, timeVars>>

\* PowerOn may give up at any point of its AT dialogue.
PowerOnFails ==
  /\ cpc = "opening"
  /\ bExtErr' = TRUE
  /\ cpc' = "rest" /\ ctime' = 1
  /\ UNCHANGED <<bPowerOff, bControlDone, control, noRoute, dataVars, timeVars>>

StaysOn ==
  /\ cpc = "top" /\ ~bPowerOff
  /\ cpc' = "command"
  /\ UNCHANGED <<bPowerOff, bControlDone, bExtErr, control, noRoute, ctime, dataVars,
                 timeVars>>

\* GetCommand on an open port: a command arrives and is carried out, the
\* port times out or fails, or the server closes it (TCPPort::Read).
GetCommand ==
  /\ cpc = "command" /\ control # "down"
  /\ \/ Active /\ UNCHANGED control
     \/ UNCHANGED <<control, timeVars>>
     \/ Active /\ control' = "down"
  /\ bExtErr' \in BOOLEAN          \* TransferCmd
  /\ cpc' = "rest" /\ ctime' = 1
  /\ UNCHANGED <<bPowerOff, bControlDone, noRoute, dataVars>>

\* GetCommand throws: the port is not connected.
Unconnected ==
  /\ cpc = "command" /\ control = "down" /\ ~noRoute
  /\ cpc' = "negotiate"
  /\ UNCHANGED <<bPowerOff, bControlDone, bExtErr, control, noRoute, ctime, dataVars,
                 timeVars>>

\* No route to the server: the modem is switched off and the unit reboots.
Reboot ==
  /\ cpc = "command" /\ control = "down" /\ noRoute
  /\ bPowerOff' = TRUE /\ bControlDone' = FALSE /\ bExtErr' = FALSE
  /\ control' = "down" /\ noRoute' = FALSE
  /\ cpc' = "top" /\ ctime' = 0
  /\ dpc' = "waitOn" /\ dtime' = 0
  /\ idle' = 0 /\ clock' = "ok"

\* A connection attempt of NegoiateControlChannel.
TryConnect ==
  /\ cpc = "negotiate"
  /\ Active
  /\ noRoute' \in BOOLEAN
  /\ UNCHANGED <<bPowerOff, bControlDone, bExtErr, control, cpc, ctime, dataVars>>

\* Fault: Connect does not stamp its success.
ConnectedUnstamped ==
  /\ cpc = "negotiate"
  /\ UNCHANGED timeVars
  /\ control' = "linked" /\ noRoute' = FALSE
  /\ bControlDone' = TRUE /\ bExtErr' = FALSE
  /\ cpc' = "rest" /\ ctime' = 1
  /\ UNCHANGED <<bPowerOff, dataVars>>

ControlConnected ==
  /\ cpc = "negotiate"
  /\ Active
  /\ control' = "linked" /\ noRoute' = FALSE
  /\ bControlDone' = TRUE /\ bExtErr' = FALSE
  /\ cpc' = "rest" /\ ctime' = 1
  /\ UNCHANGED <<bPowerOff, dataVars>>

\* The retries are used up; negoiateChannel can leave the port connected.
ControlFails ==
  /\ cpc = "negotiate"
  /\ \/ control' = "down" /\ UNCHANGED noRoute
     \/ control' = "stray" /\ noRoute' = FALSE
  /\ bExtErr' = TRUE
  /\ cpc' = "rest" /\ ctime' = 1
  /\ UNCHANGED <<bPowerOff, bControlDone, dataVars, timeVars>>

\* A clock set back makes the unsigned difference huge until it has caught up.
IsTimeForSleep == idle > Idle \/ clock # "ok"

NoSleepYet ==
  /\ cpc = "rest" /\ ctime = 0
  /\ ~IsTimeForSleep
  /\ cpc' = "top"
  /\ UNCHANGED <<bPowerOff, bControlDone, bExtErr, control, noRoute, ctime, dataVars,
                 timeVars>>

\* Fault: the line is cut without the grace period.
CutAtOnce ==
  /\ cpc = "rest" /\ ctime = 0
  /\ IsTimeForSleep
  /\ bControlDone' = FALSE
  /\ control' = "down"
  /\ Active
  /\ cpc' = "linger" /\ ctime' = 0
  /\ UNCHANGED <<bPowerOff, bExtErr, noRoute, dataVars>>

\* Fault: sleeps for the rest of the idle time, which is over.
SleepsRemainder ==
  /\ cpc = "rest" /\ ctime = 0
  /\ IsTimeForSleep
  /\ bControlDone' = FALSE
  /\ control' = "down"
  /\ Active
  /\ cpc' = "linger" /\ ctime' = Idle - idle
  /\ UNCHANGED <<bPowerOff, bExtErr, noRoute, dataVars>>

\* SetControlDone(false), Close, sleep(GetIdleTime()).
StartsSleep ==
  /\ cpc = "rest" /\ ctime = 0
  /\ IsTimeForSleep
  /\ bControlDone' = FALSE
  /\ control' = "down"
  /\ Active
  /\ cpc' = "linger" /\ ctime' = Idle
  /\ UNCHANGED <<bPowerOff, bExtErr, noRoute, dataVars>>

PowerOff ==
  /\ cpc = "linger" /\ ctime = 0
  /\ bPowerOff' = TRUE
  /\ cpc' = "sleep"
  /\ UNCHANGED <<bControlDone, bExtErr, control, noRoute, ctime, dataVars, timeVars>>

\* SleepForPowerOn ends at a multiple of the interval, however near.
Wakes ==
  /\ cpc = "sleep"
  /\ cpc' = "top"
  /\ UNCHANGED <<bPowerOff, bControlDone, bExtErr, control, noRoute, ctime, dataVars,
                 timeVars>>

-----------------------------------------------------------------------------
(* Data thread                                                             *)

\* A session, or the attempt at one, is over: wait for the next off period,
\* which may have begun.
WaitForNextCycle ==
  IF bPowerOff THEN dpc' = "waitOn"  /\ dtime' = PollOn
               ELSE dpc' = "waitOff" /\ dtime' = PollOff

\* Fault: NegoiateDataChannel does not wait for the control channel.
DoesNotWait ==
  IF bControlDone THEN dpc' = "session" /\ dtime' = 0 ELSE WaitForNextCycle

\* NegoiateDataChannel goes on when the control channel is up.
AwaitControl ==
  IF bControlDone THEN dpc' = "session" /\ dtime' = 0
                  ELSE dpc' = "waitControl" /\ dtime' = 1

PollsOff ==
  /\ dpc = "waitOff" /\ dtime = 0
  /\ WaitForNextCycle
  /\ UNCHANGED <<controlVars, bExtErr, timeVars>>

PollsOn ==
  /\ dpc = "waitOn" /\ dtime = 0
  /\ IF bPowerOff THEN dtime' = PollOn /\ UNCHANGED dpc ELSE AwaitControl
  /\ UNCHANGED <<controlVars, bExtErr, timeVars>>

PollsControl ==
  /\ dpc = "waitControl" /\ dtime = 0
  /\ IF bPowerOff THEN WaitForNextCycle ELSE AwaitControl
  /\ UNCHANGED <<controlVars, bExtErr, timeVars>>

\* Traffic on the data port, of whatever outcome.
SessionTraffic ==
  /\ dpc = "session"
  /\ Active
  /\ bExtErr' \in BOOLEAN
  /\ UNCHANGED <<controlVars, dataVars>>

\* The session is given up or done, in whichever power state.
SessionEnds ==
  /\ dpc = "session"
  /\ WaitForNextCycle
  /\ UNCHANGED <<controlVars, bExtErr, timeVars>>

-----------------------------------------------------------------------------
(* Time                                                                    *)

Tick ==
  /\ dpc # "session" => dtime > 0
  /\ dtime' = IF dtime > 0 THEN dtime - 1 ELSE 0
  /\ ctime' = IF ctime > 0 THEN ctime - 1 ELSE 0
  /\ idle' = IF idle <= Idle THEN idle + 1 ELSE idle
  /\ UNCHANGED <<bPowerOff, bControlDone, bExtErr, control, noRoute, cpc, dpc, clock>>

\* RequestCurrentData sets the clock to that of the post.
SetClock ==
  /\ clock' \in {"ahead", "behind"}
  /\ UNCHANGED <<controlVars, bExtErr, dataVars, idle>>

ClockCatchesUp ==
  /\ clock = "behind"
  /\ clock' = "ok"
  /\ UNCHANGED <<controlVars, bExtErr, dataVars, idle>>

-----------------------------------------------------------------------------
Control ==
  \/ PowerOnStarts \/ PowerOnDone \/ PowerOnFails \/ StaysOn
  \/ GetCommand \/ Unconnected \/ Reboot
  \/ TryConnect \/ ControlConnected \/ ControlFails
  \/ NoSleepYet \/ StartsSleep \/ PowerOff \/ Wakes

Data == PollsOff \/ PollsOn \/ PollsControl \/ SessionTraffic \/ SessionEnds

Next == Control \/ Data \/ Tick \/ SetClock \/ ClockCatchesUp

Spec == Init /\ [][Next]_vars

\* The data thread's sleeps and its session end, and time goes on.
Fairness ==
  /\ WF_vars(PollsOff) /\ WF_vars(PollsOn) /\ WF_vars(PollsControl)
  /\ WF_vars(SessionEnds)
  /\ WF_vars(Tick)

FairSpec == Spec /\ Fairness

-----------------------------------------------------------------------------
(* Properties                                                              *)

TypeOK ==
  /\ bPowerOff \in BOOLEAN /\ bControlDone \in BOOLEAN /\ bExtErr \in BOOLEAN
  /\ control \in {"down", "linked", "stray"} /\ noRoute \in BOOLEAN
  /\ cpc \in {"top", "opening", "command", "negotiate", "rest", "linger", "sleep"}
  /\ ctime \in Nat
  /\ dpc \in {"waitOn", "waitOff", "waitControl", "session"}
  /\ dtime \in Nat
  /\ idle \in 0..Idle + 1
  /\ clock \in {"ok", "ahead", "behind"}

\* The data thread does not sleep through an off period: when the modem
\* comes on, its loop "while (!IsPowerOff()) sleep(10)" is over.  It would
\* otherwise wait for the next off period and send nothing in this one.
OffPeriodSeen == [][bPowerOff /\ ~bPowerOff' => dpc # "waitOff"]_vars

\* Nor does it sleep through an on period in "while (IsPowerOff())
\* sleep(GetIdleTime()/2)", however soon the control thread gives up.
OnPeriodSeen == [][~bPowerOff /\ bPowerOff' => dpc' # "waitOn" \/ dtime' = 0]_vars

\* Nor does NegoiateDataChannel sleep through a control connection, unless
\* the clock was set: bControlDone is reset only after the ports were idle.
ControlSeen ==
  [][bControlDone /\ ~bControlDone' => dpc' # "waitControl" \/ clock # "ok"]_vars

\* Data sessions recur if the line is switched off and the control channel
\* comes up again and again, the clock is left alone at last and the unit
\* is not rebooted for ever: a reboot that follows a control connection
\* within half the idle time ends the on period before the data thread's
\* poll.
SessionsRecur ==
  []<>bPowerOff /\ []<>bControlDone /\ <>[](clock = "ok") /\ <>[][~Reboot]_vars
    => []<>(dpc = "session")
=============================================================================
