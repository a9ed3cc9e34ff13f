------------------------- MODULE NegotiationProofs -------------------------
(***************************************************************************)
(* Proofs about Negotiation, for all retry limits that                     *)
(* NegotiationAssumption admits and any set of assigned ports: the port    *)
(* never holds a second descriptor, negoiateChannel gives up only after    *)
(* both ports were tried and within AnswerTries * OpenTries connections,   *)
(* and a call that ends connected is connected where the server said.  A   *)
(* call takes at most MaxSteps steps: Left counts down to its end.         *)
(***************************************************************************)
EXTENDS Negotiation, TLAPS

\* The Boolean part of TypeOK, which the provers take apart from the rest.
Flags == socket \in BOOLEAN /\ bConnected \in BOOLEAN /\ bPowerOff \in BOOLEAN

\* What holds at each place of a call.
Places ==
  /\ pc # "idle" => outcome = "none"
  /\ pc \in {"open", "receive"} => retry < OpenTries /\ retry_data < AnswerTries
  /\ pc = "receive" => bConnected /\ remote = <<"start", start>> /\ start \in tried
  /\ pc = "connect" => ~bConnected /\ nPort # 0 /\ tries # 0 /\ retry_connect = 0

\* A silent connection, or SwitchAfter failures in a row, made the port now
\* used the other of the two: that one has been tried.
OtherTried ==
  pc \in {"open", "receive"} /\ (retry_data > 0 \/ retry >= SwitchAfter) =>
    (1 - start) \in tried

\* Every silent connection accounts for at most OpenTries Opens: itself and
\* the failures since the one before.
OpensCounted ==
  /\ pc = "open" => opens <= retry_data * OpenTries + retry
  /\ pc = "receive" => opens <= retry_data * OpenTries + retry + 1
  /\ opens <= MaxOpens

IInv ==
  /\ TypeOK /\ OneSocket /\ Places /\ OtherTried /\ OpensCounted
  /\ BothPortsTried /\ ConnectedToAssigned

-----------------------------------------------------------------------------
\* The limits are numbers, and the product of the two bounds the Opens.
LEMMA LimitTypes ==
  /\ SwitchAfter \in Nat /\ SwitchAfter > 0
  /\ OpenTries \in Nat /\ OpenTries = SwitchAfter + SwitchAfter
  /\ AnswerTries \in Nat /\ AnswerTries > 1
  /\ ConnectTries \in Nat /\ ConnectTries > 0
  /\ MaxOpens \in Nat
BY NegotiationAssumption DEF MaxOpens

\* Below OpenTries, the failures that switch ports are exactly SwitchAfter.
LEMMA SwitchesOnce ==
  ASSUME NEW n \in Nat, 0 < n, n < OpenTries
  PROVE  n % SwitchAfter = 0 <=> n = SwitchAfter
<1> USE LimitTypes
<1>1. CASE n < SwitchAfter
  <2>1. n % SwitchAfter = n BY <1>1
  <2> QED BY <2>1, <1>1
<1>2. CASE n >= SwitchAfter
  <2>1. n % SwitchAfter = n - SwitchAfter BY <1>2
  <2> QED BY <2>1, <1>2
<1> QED BY <1>1, <1>2

\* A port and the other one are both of them.
LEMMA BothPorts ==
  ASSUME NEW s \in {0, 1}, NEW T \in SUBSET {0, 1}, s \in T, (1 - s) \in T
  PROVE  T = {0, 1}
<1>1. 0 \in T /\ 1 \in T
  <2>1. s = 0 => 1 - s = 1 OBVIOUS
  <2>2. s = 1 => 1 - s = 0 OBVIOUS
  <2> QED BY <2>1, <2>2
<1> QED BY <1>1

\* The Opens of one silent connection more fit under the bound.
LEMMA RoundFits ==
  ASSUME NEW d \in Nat, d < AnswerTries
  PROVE  /\ d * OpenTries \in Nat
         /\ (d + 1) * OpenTries = d * OpenTries + OpenTries
         /\ d * OpenTries + OpenTries <= MaxOpens
<1> USE LimitTypes
<1>1. d * OpenTries \in Nat /\ (d + 1) * OpenTries = d * OpenTries + OpenTries
  OBVIOUS
<1>2. PICK k \in Nat : AnswerTries = d + 1 + k
  <2>1. AnswerTries - d - 1 \in Nat OBVIOUS
  <2> QED BY <2>1
<1>3. MaxOpens = d * OpenTries + OpenTries + k * OpenTries /\ k * OpenTries \in Nat
  BY <1>2 DEF MaxOpens
<1> QED BY <1>1, <1>3

\* The initial state satisfies the inductive invariant.
LEMMA InitInv == Init => IInv
<1> SUFFICES ASSUME Init PROVE IInv
  OBVIOUS
<1> USE LimitTypes DEF Init
<1>1. TypeOK
  <2>1. Flags BY Zenon DEF Flags
  <2> QED BY <2>1 DEF TypeOK, Flags
<1>2. OneSocket /\ Places /\ OtherTried /\ BothPortsTried /\ ConnectedToAssigned
  BY DEF OneSocket, Places, OtherTried, BothPortsTried, ConnectedToAssigned
<1>3. OpensCounted BY DEF OpensCounted
<1> QED BY <1>1, <1>2, <1>3 DEF IInv

\* What Open does, whatever was open before.
LEMMA OpenPort ==
  ASSUME IInv, NEW p, NEW ok \in BOOLEAN, Open(p, ok)
  PROVE  /\ socket' \in BOOLEAN /\ bConnected' \in BOOLEAN /\ fds' \in Nat
         /\ OneSocket'
         /\ bConnected' = ok /\ remote' = p
<1>1. socket' \in BOOLEAN /\ bConnected' \in BOOLEAN /\ bConnected' = ok /\ remote' = p
  BY Zenon DEF Open
<1>2. Others = 0 BY DEF IInv, OneSocket, TypeOK, Others
<1>3. ok => socket' BY Zenon DEF Open
<1>4. fds' = (IF socket' THEN 1 ELSE 0)
  <2>1. CASE socket' = TRUE /\ fds' = Others + 1 BY <2>1, <1>2
  <2>2. CASE socket' = FALSE /\ fds' = Others BY <2>2, <1>2
  <2> QED BY <2>1, <2>2, Zenon DEF Open
<1> QED BY <1>1, <1>3, <1>4 DEF OneSocket

\* Close leaves the port closed.
LEMMA ClosePort ==
  ASSUME IInv, Close
  PROVE  /\ socket' = FALSE /\ bConnected' = FALSE /\ fds' = 0
         /\ OneSocket'
         /\ remote' = remote
<1>1. Others = 0 BY DEF IInv, OneSocket, TypeOK, Others
<1>2. socket' = FALSE /\ remote' = remote /\ fds' = 0 BY <1>1 DEF Close
<1>3. bConnected' = FALSE BY Zenon DEF Close, IInv, OneSocket
<1> QED BY <1>2, <1>3 DEF OneSocket

\* What Connect does to a port that is not connected.
LEMMA ConnectPort ==
  ASSUME IInv, ~bConnected, NEW p, NEW ok \in BOOLEAN, Connect(p, ok)
  PROVE  /\ socket' \in BOOLEAN /\ bConnected' \in BOOLEAN /\ fds' \in Nat
         /\ OneSocket'
         /\ bConnected' = ok /\ remote' = p
<1>1. Others = 0 BY DEF IInv, OneSocket, TypeOK, Others
<1>2. bConnected = FALSE BY Zenon DEF IInv, TypeOK
<1>3. remote' = p BY DEF Connect
<1>4. CASE ok /\ socket' = TRUE /\ fds' = Others + 1 /\ bConnected' = TRUE
  BY <1>1, <1>3, <1>4 DEF OneSocket
<1>5. CASE ~ok /\ socket' = FALSE /\ fds' = Others /\ UNCHANGED bConnected
  BY <1>1, <1>2, <1>3, <1>5 DEF OneSocket
<1>6. CASE ~ok /\ UNCHANGED <<socket, fds, bConnected>>
  BY <1>2, <1>3, <1>6 DEF OneSocket, IInv, TypeOK
<1> QED BY <1>4, <1>5, <1>6, Zenon DEF Connect

-----------------------------------------------------------------------------
\* Opening a well-known port that answers.
LEMMA OpenSucceedsInv == IInv /\ OpenSucceeds => IInv'
<1> SUFFICES ASSUME IInv, OpenSucceeds PROVE IInv'
  OBVIOUS
<1> USE LimitTypes DEF IInv, TypeOK, callVars
<1>1. Open(<<"start", start>>, TRUE) BY DEF OpenSucceeds
<1>2. /\ socket' \in BOOLEAN /\ bConnected' \in BOOLEAN /\ fds' \in Nat /\ OneSocket'
      /\ bConnected' = TRUE /\ remote' = <<"start", start>>
  BY <1>1, OpenPort
<1>3. retry_data * OpenTries \in Nat /\ retry_data * OpenTries + OpenTries <= MaxOpens
  BY RoundFits DEF OpenSucceeds, Places
<1>4. OpensCounted' /\ opens' \in 0..MaxOpens + 1
  BY <1>3 DEF OpenSucceeds, OpensCounted, Opened, Places
<1>5. TypeOK'
  <2>1. bPowerOff' \in BOOLEAN BY DEF OpenSucceeds
  <2>2. remote' \in ({"start"} \X {0, 1}) \cup ({"assigned"} \X Assigned) BY <1>2
  <2> QED BY <1>2, <1>4, <2>1, <2>2 DEF OpenSucceeds, Opened
<1>6. Places' BY <1>2 DEF OpenSucceeds, Places, Opened
<1>7. OtherTried' BY DEF OpenSucceeds, OtherTried, Opened
<1>8. BothPortsTried' /\ ConnectedToAssigned'
  BY DEF OpenSucceeds, Places, BothPortsTried, ConnectedToAssigned
<1> QED BY <1>2, <1>4, <1>5, <1>6, <1>7, <1>8

\* Opening one that does not: at OpenTries failures in a row both were tried.
LEMMA OpenFailsInv == IInv /\ OpenFails => IInv'
<1> SUFFICES ASSUME IInv, OpenFails PROVE IInv'
  OBVIOUS
<1> USE LimitTypes DEF IInv, TypeOK, callVars
<1>1. Open(<<"start", start>>, FALSE) BY DEF OpenFails
<1>2. /\ socket' \in BOOLEAN /\ bConnected' \in BOOLEAN /\ fds' \in Nat /\ OneSocket'
      /\ bConnected' = FALSE /\ remote' = <<"start", start>>
  BY <1>1, OpenPort
<1>3. retry_data * OpenTries \in Nat /\ retry_data * OpenTries + OpenTries <= MaxOpens
  BY RoundFits DEF OpenFails, Places
<1>4. OpensCounted' /\ opens' \in 0..MaxOpens + 1
  BY <1>3 DEF OpenFails, OpensCounted, Opened, Places, GivesUp, Ends
<1>5. /\ pc = "open" /\ outcome = "none" /\ tried' = tried \cup {start}
      /\ retry \in Nat /\ retry' = retry + 1 /\ retry' <= OpenTries /\ retry_data' = retry_data
      /\ role' = role /\ bPowerOff' = bPowerOff
  BY DEF OpenFails, Opened, Places
<1>6. remote' \in ({"start"} \X {0, 1}) \cup ({"assigned"} \X Assigned) BY <1>2
<1>7. CASE retry' = OpenTries
  <2>1. /\ pc' = "idle" /\ outcome' = "gaveUp" /\ nPort' = 0 /\ start' = start
        /\ retry_connect' = retry_connect /\ tries' = tries
    BY <1>7 DEF OpenFails, GivesUp, Ends
  <2>2. TypeOK' BY <1>2, <1>4, <1>5, <1>6, <2>1
  <2>3. (1 - start) \in tried BY <1>5, <1>7 DEF OtherTried
  <2>4. BothPortsTried'
    <3>1. start \in tried' /\ (1 - start) \in tried' /\ tried' \in SUBSET {0, 1}
      BY <1>5, <2>3
    <3> QED BY <3>1, BothPorts DEF BothPortsTried
  <2>5. Places' /\ OtherTried' /\ ConnectedToAssigned'
    BY <1>2, <2>1 DEF Places, OtherTried, ConnectedToAssigned
  <2> QED BY <1>2, <1>4, <2>2, <2>4, <2>5
<1>8. CASE retry' # OpenTries
  <2>1. /\ pc' = "open" /\ outcome' = "none" /\ nPort' = nPort
        /\ start' = (IF retry' % SwitchAfter = 0 THEN 1 - start ELSE start)
        /\ retry_connect' = retry_connect /\ tries' = tries
    BY <1>5, <1>8 DEF OpenFails
  <2>2. retry' % SwitchAfter = 0 <=> retry' = SwitchAfter
    BY <1>5, <1>8, SwitchesOnce
  <2>3. start' = (IF retry' = SwitchAfter THEN 1 - start ELSE start) /\ start' \in {0, 1}
    BY <2>1, <2>2
  <2>4. TypeOK' BY <1>2, <1>4, <1>5, <1>6, <2>1, <2>3
  <2>5. Places' BY <1>2, <1>5, <1>8, <2>1 DEF Places
  <2>6. OtherTried'
    <3>1. CASE retry' = SwitchAfter
      BY <1>5, <2>3, <3>1 DEF OtherTried
    <3>2. CASE retry' # SwitchAfter
      <4>1. start' = start BY <2>3, <3>2
      <4>2. retry' >= SwitchAfter => retry >= SwitchAfter BY <1>5, <3>2
      <4> QED BY <1>5, <4>1, <4>2 DEF OtherTried
    <3> QED BY <3>1, <3>2
  <2>7. BothPortsTried' /\ ConnectedToAssigned'
    BY <2>1 DEF BothPortsTried, ConnectedToAssigned
  <2> QED BY <1>2, <1>4, <2>4, <2>5, <2>6, <2>7
<1> QED BY <1>7, <1>8

\* A frame, or what is left of one: the port is closed before it is used.
LEMMA ReceivesPortInv == IInv /\ ReceivesPort => IInv'
<1> SUFFICES ASSUME IInv, ReceivesPort PROVE IInv'
  OBVIOUS
<1> USE LimitTypes DEF IInv, TypeOK
<1>1. /\ socket' = FALSE /\ bConnected' = FALSE /\ fds' = 0
      /\ OneSocket' /\ remote' = remote
  BY ClosePort DEF ReceivesPort
<1>2. /\ pc = "receive" /\ outcome = "none" /\ retry' = 0 /\ retry_data' = retry_data
      /\ start' = start /\ tried' = tried /\ opens' = opens
      /\ role' = role /\ bPowerOff' = bPowerOff
  BY DEF ReceivesPort, Places
<1>3. PICK n \in Assigned \cup {0} : Returns(n) BY DEF ReceivesPort
<1>4. /\ nPort' = n /\ retry_connect' \in {0, 1}
      /\ \/ /\ pc' = "connect" /\ n # 0 /\ tries' = ConnectTries /\ outcome' = outcome
            /\ retry_connect' = 0
         \/ pc' = "idle" /\ tries' = tries /\ outcome' = "failed"
  BY <1>3 DEF Returns, Ends
<1>5. TypeOK'
  <2>1. socket' \in BOOLEAN /\ bConnected' \in BOOLEAN /\ fds' \in Nat BY <1>1
  <2>2. tries' \in 0..ConnectTries BY <1>4
  <2> QED BY <1>1, <1>2, <1>4, <2>1, <2>2
<1>6. Places' BY <1>1, <1>2, <1>4 DEF Places
<1>7. OtherTried' /\ OpensCounted' BY <1>2, <1>4 DEF OtherTried, OpensCounted
<1>8. BothPortsTried' /\ ConnectedToAssigned'
  BY <1>1, <1>2, <1>4 DEF BothPortsTried, ConnectedToAssigned
<1> QED BY <1>1, <1>5, <1>6, <1>7, <1>8

\* A silent connection: after AnswerTries of them both ports were tried, and
\* the last is left open.
LEMMA ReceivesNothingInv == IInv /\ ReceivesNothing => IInv'
<1> SUFFICES ASSUME IInv, ReceivesNothing PROVE IInv'
  OBVIOUS
<1> USE LimitTypes DEF IInv, TypeOK, callVars, portVars
<1>1. /\ socket' \in BOOLEAN /\ bConnected' \in BOOLEAN /\ fds' \in Nat
      /\ OneSocket' /\ remote' = remote
  <2>1. CASE UNCHANGED portVars BY <2>1 DEF OneSocket
  <2>2. CASE Close
    <3>1. /\ socket' = FALSE /\ bConnected' = FALSE /\ fds' = 0
          /\ OneSocket' /\ remote' = remote
      BY <2>2, ClosePort
    <3> QED BY <3>1
  <2> QED BY <2>1, <2>2 DEF ReceivesNothing
<1>2. /\ pc = "receive" /\ outcome = "none" /\ retry' = 0 /\ retry_data' = retry_data + 1
      /\ retry_data \in Nat /\ retry_data' <= AnswerTries
      /\ tried' = tried /\ opens' = opens /\ role' = role /\ bPowerOff' = bPowerOff
      /\ start \in tried /\ remote = <<"start", start>>
  BY DEF ReceivesNothing, Places
<1>3. retry_data' * OpenTries = retry_data * OpenTries + OpenTries
      /\ retry_data * OpenTries \in Nat
  BY <1>2, RoundFits
<1>4. opens' <= retry_data' * OpenTries /\ opens' <= MaxOpens
  BY <1>2, <1>3 DEF OpensCounted, Places
<1>5. CASE retry_data' = AnswerTries
  <2>1. /\ pc' = "idle" /\ outcome' = "gaveUp" /\ nPort' = 0 /\ start' = start
        /\ retry_connect' = retry_connect /\ tries' = tries
    BY <1>5 DEF ReceivesNothing, GivesUp, Ends
  <2>2. TypeOK' BY <1>1, <1>2, <2>1
  <2>3. (1 - start) \in tried BY <1>2, <1>5 DEF OtherTried
  <2>4. BothPortsTried' BY <1>2, <2>3, BothPorts DEF BothPortsTried
  <2>5. Places' /\ OtherTried' BY <2>1 DEF Places, OtherTried
  <2>6. ConnectedToAssigned' BY <1>1, <1>2, <1>5, <2>1 DEF ConnectedToAssigned
  <2>7. OpensCounted' BY <1>4, <2>1 DEF OpensCounted
  <2> QED BY <1>1, <2>2, <2>4, <2>5, <2>6, <2>7
<1>6. CASE retry_data' # AnswerTries
  <2>1. /\ pc' = "open" /\ outcome' = "none" /\ nPort' = nPort /\ start' = 1 - start
        /\ retry_connect' = retry_connect /\ tries' = tries
    BY <1>2, <1>6 DEF ReceivesNothing
  <2>2. TypeOK' BY <1>1, <1>2, <2>1
  <2>3. Places' BY <1>2, <1>6, <2>1 DEF Places
  <2>4. OtherTried'
    <3>1. 1 - start' = start BY <2>1
    <3> QED BY <1>2, <3>1 DEF OtherTried
  <2>5. OpensCounted'
    <3>1. retry_data' * OpenTries \in Nat BY <1>3
    <3>2. opens' <= retry_data' * OpenTries + retry' BY <1>2, <1>4, <3>1
    <3> QED BY <1>4, <2>1, <3>2 DEF OpensCounted
  <2>6. BothPortsTried' /\ ConnectedToAssigned'
    BY <2>1 DEF BothPortsTried, ConnectedToAssigned
  <2> QED BY <1>1, <2>2, <2>3, <2>4, <2>5, <2>6
<1> QED BY <1>5, <1>6

\* A negotiation starts, from the state the last call left.
LEMMA StartsInv == IInv /\ Starts => IInv'
<1> SUFFICES ASSUME IInv, Starts PROVE IInv'
  OBVIOUS
<1> USE LimitTypes DEF IInv, TypeOK, portVars
<1>1. /\ pc' = "open" /\ start' = 0 /\ retry' = 0 /\ retry_data' = 0 /\ tried' = {}
      /\ opens' = 0 /\ retry_connect' = 1 /\ tries' = ConnectTries /\ nPort' = 0
      /\ outcome' = "none" /\ role' = role /\ bPowerOff' = bPowerOff
      /\ socket' = socket /\ bConnected' = bConnected /\ fds' = fds /\ remote' = remote
  BY DEF Starts, Begin
<1>2. TypeOK' BY <1>1
<1>3. Places' /\ OtherTried' /\ OneSocket' BY <1>1 DEF Places, OtherTried, OneSocket
<1>4. OpensCounted' BY <1>1 DEF OpensCounted
<1>5. BothPortsTried' /\ ConnectedToAssigned'
  BY <1>1 DEF BothPortsTried, ConnectedToAssigned
<1> QED BY <1>2, <1>3, <1>4, <1>5

\* The assigned port is reached.
LEMMA ConnectSucceedsInv == IInv /\ ConnectSucceeds => IInv'
<1> SUFFICES ASSUME IInv, ConnectSucceeds PROVE IInv'
  OBVIOUS
<1> USE LimitTypes DEF IInv, TypeOK, countVars
<1>1. ~bConnected /\ nPort # 0 BY DEF ConnectSucceeds, Places
<1>2. /\ socket' \in BOOLEAN /\ bConnected' \in BOOLEAN /\ fds' \in Nat
      /\ OneSocket' /\ bConnected' = TRUE /\ remote' = <<"assigned", nPort>>
  BY <1>1, ConnectPort DEF ConnectSucceeds
<1>3. /\ pc' = "idle" /\ start' = start /\ retry' = retry /\ retry_data' = retry_data
      /\ tried' = tried /\ opens' = opens /\ retry_connect' = retry_connect
      /\ tries' = tries /\ nPort' = nPort /\ outcome' = "connected" /\ role' = role
      /\ bPowerOff' = bPowerOff
  BY DEF ConnectSucceeds, Ends
<1>4. TypeOK' BY <1>1, <1>2, <1>3
<1>5. Places' /\ OtherTried' /\ OpensCounted'
  BY <1>3 DEF Places, OtherTried, OpensCounted
<1>6. BothPortsTried' /\ ConnectedToAssigned'
  BY <1>1, <1>2, <1>3 DEF BothPortsTried, ConnectedToAssigned
<1> QED BY <1>2, <1>4, <1>5, <1>6

\* It is not: the next attempt, the next negotiation, or the end of the call.
LEMMA ConnectFailsInv == IInv /\ ConnectFails => IInv'
<1> SUFFICES ASSUME IInv, ConnectFails PROVE IInv'
  OBVIOUS
<1> USE LimitTypes DEF IInv, TypeOK, countVars
<1>1. ~bConnected /\ nPort # 0 /\ tries # 0 /\ outcome = "none" /\ retry_connect = 0
  BY DEF ConnectFails, Places
<1>2. /\ socket' \in BOOLEAN /\ bConnected' \in BOOLEAN /\ fds' \in Nat
      /\ OneSocket' /\ bConnected' = FALSE /\ remote' = <<"assigned", nPort>>
  BY <1>1, ConnectPort DEF ConnectFails
<1>3. role' = role /\ bPowerOff' = bPowerOff /\ nPort' = nPort /\ pc = "connect"
      /\ retry_connect' = retry_connect
  BY DEF ConnectFails, Ends
<1>4. remote' \in ({"start"} \X {0, 1}) \cup ({"assigned"} \X Assigned)
  BY <1>1, <1>2
<1>5. CASE role = "data" /\ bPowerOff
  <2>1. /\ pc' = "idle" /\ outcome' = "failed" /\ tries' = tries /\ start' = start
        /\ retry' = retry /\ retry_data' = retry_data /\ tried' = tried /\ opens' = opens
    BY <1>5 DEF ConnectFails, Ends
  <2>2. TypeOK' BY <1>2, <1>3, <1>4, <2>1
  <2>3. Places' /\ OtherTried' /\ OpensCounted'
    BY <2>1 DEF Places, OtherTried, OpensCounted
  <2>4. BothPortsTried' /\ ConnectedToAssigned'
    BY <1>2, <2>1 DEF BothPortsTried, ConnectedToAssigned
  <2> QED BY <1>2, <2>2, <2>3, <2>4
<1>6. CASE ~(role = "data" /\ bPowerOff) /\ tries' = 0
  <2>1. /\ pc' = "open" /\ outcome' = outcome /\ start' = 0
        /\ retry' = 0 /\ retry_data' = 0 /\ tried' = {} /\ opens' = 0
    BY <1>6 DEF ConnectFails, Begin
  <2>2. TypeOK' BY <1>2, <1>3, <1>4, <1>6, <2>1
  <2>3. Places' /\ OtherTried' /\ OpensCounted'
    BY <1>1, <2>1 DEF Places, OtherTried, OpensCounted
  <2>4. BothPortsTried' /\ ConnectedToAssigned'
    BY <1>1, <2>1 DEF BothPortsTried, ConnectedToAssigned
  <2> QED BY <1>2, <2>2, <2>3, <2>4
<1>7. CASE ~(role = "data" /\ bPowerOff) /\ tries' # 0
  <2>1. /\ pc' = "connect" /\ outcome' = outcome /\ tries' = tries - 1 /\ start' = start
        /\ retry' = retry /\ retry_data' = retry_data /\ tried' = tried /\ opens' = opens
    BY <1>3, <1>7 DEF ConnectFails
  <2>2. tries' \in 0..ConnectTries BY <1>1, <2>1
  <2>3. TypeOK' BY <1>2, <1>3, <1>4, <2>1, <2>2
  <2>4. Places' /\ OtherTried' /\ OpensCounted'
    BY <1>1, <1>2, <1>3, <1>7, <2>1 DEF Places, OtherTried, OpensCounted
  <2>5. BothPortsTried' /\ ConnectedToAssigned'
    BY <1>1, <2>1 DEF BothPortsTried, ConnectedToAssigned
  <2> QED BY <1>2, <2>3, <2>4, <2>5
<1> QED BY <1>5, <1>6, <1>7

\* The user closes the port, or the control thread switches the modem.
LEMMA BetweenCallsInv == IInv /\ (UserCloses \/ ModemSwitched) => IInv'
<1> SUFFICES ASSUME IInv, UserCloses \/ ModemSwitched PROVE IInv'
  OBVIOUS
<1> USE DEF IInv, TypeOK, countVars, callVars, portVars
<1>1. CASE UserCloses
  <2>1. /\ socket' = FALSE /\ bConnected' = FALSE /\ fds' = 0
        /\ OneSocket' /\ remote' = remote
    BY <1>1, ClosePort DEF UserCloses
  <2>2. socket' \in BOOLEAN /\ bConnected' \in BOOLEAN /\ fds' \in Nat BY <2>1
  <2>3. TypeOK' BY <1>1, <2>1, <2>2 DEF UserCloses
  <2>4. Places' BY <1>1 DEF UserCloses, Places
  <2>5. OtherTried' /\ OpensCounted' /\ BothPortsTried'
    BY <1>1 DEF UserCloses, OtherTried, OpensCounted, BothPortsTried
  <2>6. ConnectedToAssigned' BY <2>1 DEF ConnectedToAssigned
  <2> QED BY <2>1, <2>3, <2>4, <2>5, <2>6
<1>2. CASE ModemSwitched
  <2>1. bPowerOff' \in BOOLEAN BY <1>2, Zenon DEF ModemSwitched
  <2>2. TypeOK' BY <1>2, <2>1 DEF ModemSwitched
  <2>3. Places' /\ OtherTried' /\ OneSocket'
    BY <1>2 DEF ModemSwitched, Places, OtherTried, OneSocket
  <2>4. OpensCounted' /\ BothPortsTried' /\ ConnectedToAssigned'
    BY <1>2 DEF ModemSwitched, OpensCounted, BothPortsTried, ConnectedToAssigned
  <2> QED BY <2>2, <2>3, <2>4
<1> QED BY <1>1, <1>2

\* A step that changes nothing.
LEMMA StutterInv == IInv /\ UNCHANGED vars => IInv'
BY DEF IInv, TypeOK, OneSocket, Places, OtherTried, OpensCounted, BothPortsTried,
       ConnectedToAssigned, MaxOpens, vars, portVars, countVars, callVars

-----------------------------------------------------------------------------
\* The inductive invariant holds in every reachable state.
THEOREM Invariance == Spec => []IInv
<1>1. IInv /\ [Next]_vars => IInv'
  BY OpenSucceedsInv, OpenFailsInv, ReceivesPortInv, ReceivesNothingInv, StartsInv,
     ConnectSucceedsInv, ConnectFailsInv, BetweenCallsInv, StutterInv
     DEF Next, Call
<1> QED BY <1>1, InitInv, PTL DEF Spec

\* Every variable stays within its bounds: the retry counters never pass the
\* limits at which negoiateChannel and its callers stop.
THEOREM TypeCorrect == Spec => []TypeOK
<1>1. IInv => TypeOK BY DEF IInv
<1> QED BY <1>1, Invariance, PTL

\* TCPPort never holds a second descriptor and never believes in a
\* connection without one, however Opens, Connects and Closes fail.
THEOREM OneDescriptor == Spec => []OneSocket
<1>1. IInv => OneSocket BY DEF IInv
<1> QED BY <1>1, Invariance, PTL

\* negoiateChannel gives up only after both well-known ports were tried.
THEOREM GivesUpAfterBoth == Spec => []BothPortsTried
<1>1. IInv => BothPortsTried BY DEF IInv
<1> QED BY <1>1, Invariance, PTL

\* A connection that outlives the call leads to the port of the last frame,
\* or is the last of AnswerTries silent ones.
THEOREM AssignedPort == Spec => []ConnectedToAssigned
<1>1. IInv => ConnectedToAssigned BY DEF IInv
<1> QED BY <1>1, Invariance, PTL

\* One negotiation opens at most AnswerTries * OpenTries connections.
THEOREM BoundedOpens == Spec => []OpensBounded
<1>1. IInv => OpensBounded BY DEF IInv, OpensCounted, OpensBounded
<1> QED BY <1>1, Invariance, PTL

-----------------------------------------------------------------------------
(* The length of a call                                                    *)

\* Steps that are left of a negotiation after d silent connections: each
\* takes up to OpenTries Opens and one wait for a frame.
LeftOfRound(d) == (AnswerTries - d) * (OpenTries + 1)
Round == AnswerTries * (OpenTries + 1)

\* Steps that are left of the call.  A caller that has not used its
\* retry_connect may yet connect ConnectTries times and negotiate again.
Left ==
  IF pc = "idle" THEN 0
  ELSE IF pc = "connect" THEN tries + Round
  ELSE (IF retry_connect = 1 THEN ConnectTries + Round ELSE 0)
         + LeftOfRound(retry_data) - retry - (IF pc = "receive" THEN 1 ELSE 0)

MaxSteps == ConnectTries + 2 * Round

\* A call begins with MaxSteps; each of its steps takes one at least, what
\* the control thread does to the modem meanwhile takes none, and it is over
\* when none is left.
CountsDown ==
  /\ Left \in Nat /\ (Left = 0 <=> pc = "idle")
  /\ Starts => Left' = MaxSteps
  /\ Call => Left' < Left
  /\ ModemSwitched \/ UserCloses => Left' = Left

\* A silent connection takes its share of the negotiation.
LEMMA RoundShrinks ==
  ASSUME NEW d \in Nat, d < AnswerTries
  PROVE  /\ LeftOfRound(d) \in Nat /\ LeftOfRound(d) >= OpenTries + 1
         /\ LeftOfRound(d + 1) = LeftOfRound(d) - (OpenTries + 1)
<1> USE LimitTypes
<1>1. PICK k \in Nat : AnswerTries - d = k + 1
  <2>1. AnswerTries - d - 1 \in Nat OBVIOUS
  <2> QED BY <2>1
<1>2. LeftOfRound(d) = k * (OpenTries + 1) + (OpenTries + 1) /\ k * (OpenTries + 1) \in Nat
  BY <1>1 DEF LeftOfRound
<1>3. AnswerTries - (d + 1) = k BY <1>1
<1>4. LeftOfRound(d + 1) = k * (OpenTries + 1) BY <1>3 DEF LeftOfRound
<1> QED BY <1>2, <1>4

\* At the beginning of a negotiation all of it is left.
LEMMA RoundStarts == LeftOfRound(0) = Round /\ Round \in Nat
BY LimitTypes DEF LeftOfRound, Round

\* Left is a number, and 0 only between two calls.
LEMMA LeftCounts == IInv => Left \in Nat /\ (Left = 0 <=> pc = "idle")
<1> SUFFICES ASSUME IInv PROVE Left \in Nat /\ (Left = 0 <=> pc = "idle")
  OBVIOUS
<1> USE LimitTypes, RoundStarts DEF IInv, TypeOK
<1>1. CASE pc = "idle" BY <1>1 DEF Left
<1>2. CASE pc = "connect" BY <1>2 DEF Left, Places
<1>3. CASE pc \in {"open", "receive"}
  <2>1. retry_data \in Nat /\ retry_data < AnswerTries /\ retry < OpenTries
    BY <1>3 DEF Places
  <2>2. LeftOfRound(retry_data) \in Nat /\ LeftOfRound(retry_data) >= OpenTries + 1
    BY <2>1, RoundShrinks
  <2> QED BY <1>3, <2>1, <2>2 DEF Left
<1> QED BY <1>1, <1>2, <1>3

\* The steps of negoiateChannel.
LEMMA RoundCountsDown ==
  IInv /\ (OpenSucceeds \/ OpenFails \/ ReceivesPort \/ ReceivesNothing) => Left' < Left
<1> SUFFICES ASSUME IInv, OpenSucceeds \/ OpenFails \/ ReceivesPort \/ ReceivesNothing
             PROVE  Left' < Left
  OBVIOUS
<1> USE LimitTypes, RoundStarts DEF IInv, TypeOK
<1>1. pc \in {"open", "receive"}
  BY DEF OpenSucceeds, OpenFails, ReceivesPort, ReceivesNothing
<1>2. retry \in Nat /\ retry_data \in Nat /\ retry_data < AnswerTries /\ retry < OpenTries
  BY <1>1 DEF Places
<1>3. /\ LeftOfRound(retry_data) \in Nat /\ LeftOfRound(retry_data) >= OpenTries + 1
      /\ LeftOfRound(retry_data + 1) = LeftOfRound(retry_data) - (OpenTries + 1)
  BY <1>2, RoundShrinks
<1>4. Left > 0 /\ Left \in Nat BY <1>1, LeftCounts
<1>5. Left' = 0 => Left' < Left BY <1>4
<1>6. CASE pc' = "idle" BY <1>5, <1>6 DEF Left
<1>7. CASE OpenSucceeds
  <2>1. /\ pc = "open" /\ pc' = "receive" /\ retry_connect' = retry_connect
        /\ retry_data' = retry_data /\ retry' = retry
    BY <1>7 DEF OpenSucceeds, callVars
  <2> QED BY <1>2, <1>3, <2>1 DEF Left
<1>8. CASE OpenFails /\ pc' # "idle"
  <2>1. /\ pc = "open" /\ pc' = "open" /\ retry_connect' = retry_connect
        /\ retry_data' = retry_data /\ retry' = retry + 1
    BY <1>8 DEF OpenFails, GivesUp, Ends, callVars
  <2> QED BY <1>2, <1>3, <2>1 DEF Left
<1>9. CASE ReceivesPort /\ pc' # "idle"
  <2>1. pc = "receive" /\ pc' = "connect" /\ tries' = ConnectTries /\ retry_connect = 1
    BY <1>9 DEF ReceivesPort, Returns, Ends
  <2> QED BY <1>2, <1>3, <2>1 DEF Left
<1>10. CASE ReceivesNothing /\ pc' # "idle"
  <2>1. /\ pc = "receive" /\ pc' = "open" /\ retry_connect' = retry_connect
        /\ retry_data' = retry_data + 1 /\ retry' = 0
    BY <1>10 DEF ReceivesNothing, GivesUp, Ends, callVars
  <2> QED BY <1>2, <1>3, <2>1 DEF Left
<1> QED BY <1>6, <1>7, <1>8, <1>9, <1>10

\* The steps of its callers: the second negotiation is the last.
LEMMA ConnectCountsDown == IInv /\ (ConnectSucceeds \/ ConnectFails) => Left' < Left
<1> SUFFICES ASSUME IInv, ConnectSucceeds \/ ConnectFails PROVE Left' < Left
  OBVIOUS
<1> USE LimitTypes, RoundStarts DEF IInv, TypeOK
<1>1. pc = "connect" /\ tries \in Nat /\ tries > 0 /\ retry_connect = 0
  <2>1. pc = "connect" BY DEF ConnectSucceeds, ConnectFails
  <2> QED BY <2>1 DEF Places
<1>2. Left = tries + Round BY <1>1 DEF Left
<1>3. CASE pc' = "idle" BY <1>1, <1>2, <1>3 DEF Left
<1>4. CASE pc' # "idle"
  <2>1. /\ retry_connect' = 0 /\ tries' = tries - 1
        /\ \/ pc' = "open" /\ retry' = 0 /\ retry_data' = 0
           \/ pc' = "connect"
    BY <1>1, <1>4 DEF ConnectSucceeds, ConnectFails, Ends, Begin
  <2> QED BY <1>1, <1>2, <2>1 DEF Left
<1> QED BY <1>3, <1>4

\* No call of NegoiateControlChannel or NegoiateDataChannel takes more than
\* MaxSteps steps (59 with the limits of the code), however failures, silent
\* connections and refusals alternate: what CallEnds needs besides fairness.
THEOREM CallsBounded == Spec => [][CountsDown]_vars
<1> USE LimitTypes, RoundStarts
<1>1. IInv /\ Starts => Left' = MaxSteps
  BY DEF Starts, Begin, Left, MaxSteps
<1>2. IInv /\ (ModemSwitched \/ UserCloses) => Left' = Left
  BY DEF ModemSwitched, UserCloses, Left, LeftOfRound, countVars, callVars
<1>3. IInv => CountsDown
  BY <1>1, <1>2, LeftCounts, RoundCountsDown, ConnectCountsDown DEF CountsDown, Call
<1> QED BY <1>3, Invariance, PTL DEF Spec
=============================================================================
