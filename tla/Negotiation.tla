---------------------------- MODULE Negotiation ----------------------------
(***************************************************************************)
(* How a channel to the server is set up.  negoiateChannel connects to a   *)
(* well-known port, or to the one after it, and waits for the frame that   *)
(* assigns a port; NegoiateControlChannel and NegoiateDataChannel connect  *)
(* to that one.  Every connection goes through one TCPPort, whose socket   *)
(* and flags are kept here as TCPPort.cpp keeps them.                      *)
(*                                                                         *)
(* The module follows one port through any number of negotiations.  The    *)
(* wait of NegoiateDataChannel for the control channel is in PowerCycle.   *)
(***************************************************************************)
EXTENDS Integers

CONSTANTS
  OpenTries,        \* failures in a row after which negoiateChannel gives up (6)
  SwitchAfter,      \* failures in a row after which the other port is tried (3)
  AnswerTries,      \* connections without a frame before it gives up (4)
  ConnectTries,     \* attempts at the assigned port (3)
  Assigned          \* port numbers a frame can hold, the invalid 0 among them

ASSUME NegotiationAssumption ==
  /\ SwitchAfter \in Nat \ {0} /\ OpenTries = 2 * SwitchAfter
  /\ AnswerTries \in Nat \ {0, 1} /\ ConnectTries \in Nat \ {0}
  /\ Assigned \subseteq Nat

VARIABLES
  role,             \* "control" or "data": which of the two callers, fixed
  socket,           \* TCPPort::socketID is valid
  bConnected,
  fds,              \* descriptors the process holds for this port
  remote,           \* TCPPort::nPort, <<"start", i>> or <<"assigned", n>>
  bPowerOff,        \* the modem, switched by the control thread
  pc,
  start,            \* 0: nStartPort, 1: nStartPort + 1
  retry, retry_data, retry_connect,
  tries,            \* the callers' retry
  nPort,            \* the port of the last frame, 0 if there was none
  outcome,          \* of the last call: "none", "connected", "failed", "gaveUp"
  tried, opens      \* history: ports and number of Opens of this negotiation

portVars == <<socket, bConnected, fds, remote>>
countVars == <<start, retry, retry_data, tried, opens>>
callVars == <<retry_connect, tries, nPort, outcome>>
vars == <<role, portVars, bPowerOff, pc, countVars, callVars>>

Init ==
  /\ role \in {"control", "data"}
  /\ socket = FALSE /\ bConnected = FALSE /\ fds = 0 /\ remote = <<"start", 0>>
  /\ bPowerOff = FALSE
  /\ pc = "idle"
  /\ start = 0 /\ retry = 0 /\ retry_data = 0 /\ tried = {} /\ opens = 0
  /\ retry_connect = 0 /\ tries = 0 /\ nPort = 0 /\ outcome = "none"

MaxOpens == AnswerTries * OpenTries

-----------------------------------------------------------------------------
(* TCPPort                                                                 *)

Others == fds - (IF socket THEN 1 ELSE 0)      \* descriptors but this one

Close ==
  /\ socket' = FALSE /\ fds' = Others
  /\ bConnected' = (bConnected /\ ~socket)
  /\ UNCHANGED remote

\* Fault: the socket of an earlier connection is not closed.
OpenLeaks(p, ok) ==
  /\ remote' = p
  /\ bConnected' = ok
  /\ \/ socket' = TRUE /\ fds' = fds + 1
     \/ ~ok /\ socket' = FALSE /\ fds' = fds

\* Close if there is a socket, then socket() and Connect(): a name that
\* cannot be resolved leaves the new socket open.
Open(p, ok) ==
  /\ remote' = p
  /\ bConnected' = ok
  /\ \/ socket' = TRUE /\ fds' = Others + 1
     \/ ~ok /\ socket' = FALSE /\ fds' = Others

\* Connect() to p; a failed connect() closes the socket.
Connect(p, ok) ==
  /\ remote' = p
  /\ \/ /\ ok
        /\ socket' = TRUE /\ fds' = Others + 1 /\ bConnected' = TRUE
     \/ /\ ~ok
        /\ socket' = FALSE /\ fds' = Others
        /\ UNCHANGED bConnected
     \/ ~ok /\ UNCHANGED <<socket, fds, bConnected>>

-----------------------------------------------------------------------------
(* negoiateChannel                                                         *)

Begin ==
  /\ pc' = "open"
  /\ start' = 0 /\ retry' = 0 /\ retry_data' = 0
  /\ tried' = {} /\ opens' = 0

\* The call of the control or data thread ends.
Ends(how) ==
  /\ pc' = "idle"
  /\ outcome' = how
  /\ UNCHANGED <<retry_connect, tries>>

\* negoiateChannel returns n: the callers' while (nPort && retry_connect--).
Returns(n) ==
  /\ nPort' = n
  /\ \/ /\ n # 0 /\ retry_connect > 0
        /\ pc' = "connect" /\ tries' = ConnectTries
        /\ retry_connect' = retry_connect - 1
        /\ UNCHANGED outcome
     \/ n # 0 /\ retry_connect = 0 /\ Ends("failed")
     \/ n = 0 /\ Ends("failed")

GivesUp == nPort' = 0 /\ Ends("gaveUp")

Opened ==
  /\ tried' = tried \cup {start}
  /\ opens' = IF opens > MaxOpens THEN opens ELSE opens + 1

OpenSucceeds ==
  /\ pc = "open"
  /\ Open(<<"start", start>>, TRUE)
  /\ Opened
  /\ pc' = "receive"
  /\ UNCHANGED <<role, bPowerOff, start, retry, retry_data, callVars>>

\* Fault: the other port is never tried.
OpenFailsSamePort ==
  /\ pc = "open"
  /\ Open(<<"start", start>>, FALSE)
  /\ Opened
  /\ retry' = retry + 1
  /\ IF retry' = OpenTries THEN GivesUp ELSE UNCHANGED <<pc, callVars>>
  /\ UNCHANGED <<role, bPowerOff, retry_data, start>>

\* Fault: one failure more than the code allows.
OpenFailsLate ==
  /\ pc = "open"
  /\ Open(<<"start", start>>, FALSE)
  /\ Opened
  /\ retry' = retry + 1
  /\ IF retry' > OpenTries THEN GivesUp ELSE UNCHANGED <<pc, callVars>>
  /\ start' = IF retry' % SwitchAfter = 0 THEN 1 - start ELSE start
  /\ UNCHANGED <<role, bPowerOff, retry_data>>

OpenFails ==
  /\ pc = "open"
  /\ Open(<<"start", start>>, FALSE)
  /\ Opened
  /\ retry' = retry + 1
  /\ IF retry' = OpenTries
       THEN GivesUp /\ UNCHANGED start
       ELSE /\ start' = IF retry' % SwitchAfter = 0 THEN 1 - start ELSE start
            /\ UNCHANGED <<pc, callVars>>
  /\ UNCHANGED <<role, bPowerOff, retry_data>>

\* A frame arrives, or the fragment that a reset connection left of one:
\* it is acknowledged if the port still works, and the port closed.
ReceivesPort ==
  /\ pc = "receive"
  /\ \E n \in Assigned \cup {0} : Returns(n)
  /\ Close
  /\ retry' = 0
  /\ UNCHANGED <<role, bPowerOff, start, retry_data, tried, opens>>

\* Fault: connections without a frame are not counted.
NoFrameUncounted ==
  /\ pc = "receive"
  /\ UNCHANGED portVars \/ Close
  /\ retry' = 0
  /\ start' = 1 - start /\ pc' = "open"
  /\ UNCHANGED <<role, bPowerOff, retry_data, tried, opens, callVars>>

\* No frame within 20 seconds, or the server closes: Read has closed the
\* port then.
ReceivesNothing ==
  /\ pc = "receive"
  /\ UNCHANGED portVars \/ Close
  /\ retry' = 0
  /\ retry_data' = retry_data + 1
  /\ IF retry_data' = AnswerTries
       THEN GivesUp /\ UNCHANGED start
       ELSE start' = 1 - start /\ pc' = "open" /\ UNCHANGED callVars
  /\ UNCHANGED <<role, bPowerOff, tried, opens>>

-----------------------------------------------------------------------------
(* NegoiateControlChannel and NegoiateDataChannel                          *)

\* The control thread calls it when GetCommand found the port unconnected,
\* the data thread whenever the modem is on.
Starts ==
  /\ pc = "idle"
  /\ role = "control" => ~bConnected
  /\ Begin
  /\ retry_connect' = 1 /\ tries' = ConnectTries
  /\ nPort' = 0 /\ outcome' = "none"
  /\ UNCHANGED <<role, portVars, bPowerOff>>

\* Fault: nPort is not passed to the port.
ConnectsToStart ==
  /\ pc = "connect"
  /\ Connect(remote, TRUE)
  /\ Ends("connected")
  /\ UNCHANGED <<role, bPowerOff, countVars, nPort>>

ConnectSucceeds ==
  /\ pc = "connect"
  /\ Connect(<<"assigned", nPort>>, TRUE)
  /\ Ends("connected")
  /\ UNCHANGED <<role, bPowerOff, countVars, nPort>>

\* The data thread gives up as soon as it sees the modem off; otherwise the
\* last failure makes it negotiate once more.
ConnectFails ==
  /\ pc = "connect"
  /\ Connect(<<"assigned", nPort>>, FALSE)
  /\ IF role = "data" /\ bPowerOff
       THEN Ends("failed") /\ UNCHANGED countVars
       ELSE /\ tries' = tries - 1
            /\ IF tries' = 0 THEN Begin ELSE UNCHANGED <<pc, countVars>>
            /\ UNCHANGED <<retry_connect, outcome>>
  /\ UNCHANGED <<role, bPowerOff, nPort>>

\* The port is closed by its user, or by Read when the server closed it.
UserCloses ==
  /\ pc = "idle" /\ bConnected
  /\ Close
  /\ UNCHANGED <<role, bPowerOff, pc, countVars, callVars>>

ModemSwitched ==
  /\ role = "control" => pc = "idle"
  /\ bPowerOff' = ~bPowerOff
  /\ UNCHANGED <<role, portVars, pc, countVars, callVars>>

-----------------------------------------------------------------------------
Call ==
  \/ OpenSucceeds \/ OpenFails \/ ReceivesPort \/ ReceivesNothing
  \/ ConnectSucceeds \/ ConnectFails

Next == Starts \/ Call \/ UserCloses \/ ModemSwitched

Spec == Init /\ [][Next]_vars

\* Every Connect, Read and Write returns, in time or with an error.
FairSpec == Spec /\ WF_vars(Call)

-----------------------------------------------------------------------------
(* Properties                                                              *)

TypeOK ==
  /\ role \in {"control", "data"}
  /\ socket \in BOOLEAN /\ bConnected \in BOOLEAN /\ bPowerOff \in BOOLEAN
  /\ fds \in Nat
  /\ remote \in ({"start"} \X {0, 1}) \cup ({"assigned"} \X Assigned)
  /\ pc \in {"idle", "open", "receive", "connect"}
  /\ start \in {0, 1} /\ tried \subseteq {0, 1}
  /\ retry \in 0..OpenTries /\ retry_data \in 0..AnswerTries
  /\ retry_connect \in {0, 1} /\ tries \in 0..ConnectTries
  /\ nPort \in Assigned \cup {0}
  /\ outcome \in {"none", "connected", "failed", "gaveUp"}
  /\ opens \in 0..MaxOpens + 1

\* However often connections fail, the port holds at most one descriptor,
\* and bConnected never outlives the socket it speaks of (TCPPort::Open and
\* Close, the error paths of Connect).
OneSocket == fds = (IF socket THEN 1 ELSE 0) /\ (bConnected => socket)

\* negoiateChannel gives up only after it tried both the well-known port and
\* the one after it, however failures and silent connections alternate.
BothPortsTried == outcome = "gaveUp" => tried = {0, 1}

\* A port that is connected after the call leads to the assigned port,
\* except that four silent connections in one negotiation leave the last of
\* them open.
ConnectedToAssigned ==
  pc = "idle" /\ bConnected =>
    \/ outcome = "connected" /\ nPort # 0 /\ remote = <<"assigned", nPort>>
    \/ outcome = "gaveUp" /\ retry_data = AnswerTries /\ remote = <<"start", start>>

\* One negotiation opens at most 24 connections, although every connection
\* that succeeds resets the count of failures.
OpensBounded == opens <= MaxOpens

\* A call of NegoiateControlChannel or NegoiateDataChannel ends.
CallEnds == pc # "idle" ~> pc = "idle"
=============================================================================
