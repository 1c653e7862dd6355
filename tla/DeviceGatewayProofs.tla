-------------------------- MODULE DeviceGatewayProofs -------------------------
(***************************************************************************)
(* DeviceGateway, proved for every set of devices, sockets and requests,   *)
(* with drops, failing calls and restarts at any time.  The invariant says *)
(* that an entry of the routing table and a pending request belong to the  *)
(* socket whose handler put them there, which no later handler forgets.    *)
(***************************************************************************)
EXTENDS DeviceGateway, TLAPS

\* A socket that has sent its auth message has a device, and keeps it.
OwnerOK == \A s \in Sockets :
    step[s] \in {"auth", "online", "serve"} => owner[s] \in Devices

\* The socket on record for a device is one that authenticated as it.
RouteOK == \A d \in Devices : connected[d] # None =>
    Authed(connected[d]) /\ owner[connected[d]] = d

\* A pending request waits, on the socket of the entry.
PendingOK == \A s \in Sockets : \A r \in pending[s] :
    req[r] = "waiting" /\ via[r] = s

\* A request that was sent was sent to a device.
SentOK == \A r \in Requests :
    /\ via[r] # None => owner[via[r]] \in Devices /\ step[via[r]] \notin {"none", "first"}
    /\ req[r] = "record" => via[r] # None

\* A promise resolves to content only with the reply of a device.
OutcomeOK == \A r \in Requests :
    /\ req[r] = "record" => outcome[r] \in {"content", "error"}
    /\ req[r] = "record" /\ outcome[r] = "content" => r \in replied

Routing == OwnerOK /\ RouteOK /\ PendingOK /\ SentOK /\ OutcomeOK
IInv == TypeOK /\ Routing /\ OpenIsRouted

LEMMA InitInv == Init => IInv
BY GatewayAssumption DEF Init, IInv, TypeOK, Routing, OwnerOK, RouteOK, PendingOK,
   SentOK, OutcomeOK, OpenIsRouted, Authed

\* The handler of a connection up to the end of markDeviceOnline.
LEMMA ConnectionStep ==
  ASSUME IInv, NEW s \in Sockets,
         \/ Connect(s) \/ FirstMessage(s) \/ Register(s) \/ Refuse(s)
         \/ MarkDeviceOnline(s)
  PROVE  IInv'
<1> USE GatewayAssumption DEF IInv
<1>t. TypeOK /\ OwnerOK /\ RouteOK /\ PendingOK /\ SentOK /\ OutcomeOK /\ OpenIsRouted
  BY DEF Routing
<1>1. CASE Connect(s)
  <2>1. TypeOK'
    BY <1>1, <1>t DEF Connect, TypeOK, table, requests
  <2>2. OwnerOK' /\ RouteOK' /\ PendingOK' /\ SentOK' /\ OutcomeOK' /\ OpenIsRouted'
    BY <1>1, <1>t DEF Connect, TypeOK, OwnerOK, RouteOK, PendingOK, SentOK,
       OutcomeOK, OpenIsRouted, Authed, table, requests
  <2>3. QED
    BY <2>1, <2>2 DEF Routing
<1>2. CASE FirstMessage(s)
  <2>1. TypeOK'
    BY <1>2, <1>t DEF FirstMessage, CloseAll, TypeOK, table, requests
  <2>2. OwnerOK' /\ RouteOK' /\ PendingOK' /\ SentOK' /\ OutcomeOK' /\ OpenIsRouted'
    BY <1>2, <1>t DEF FirstMessage, CloseAll, TypeOK, OwnerOK, RouteOK, PendingOK,
       SentOK, OutcomeOK, OpenIsRouted, Authed, table, requests
  <2>3. QED
    BY <2>1, <2>2 DEF Routing
<1>3. CASE Register(s)
  <2>0. owner[s] \in Devices
    BY <1>3, <1>t DEF Register, OwnerOK
  <2>1. TypeOK'
    BY <1>3, <1>t, <2>0 DEF Register, Supersede, CloseAll, TypeOK, requests
  <2>2. OwnerOK' /\ RouteOK' /\ PendingOK' /\ SentOK' /\ OutcomeOK'
    BY <1>3, <1>t, <2>0 DEF Register, TypeOK, OwnerOK, RouteOK, PendingOK,
       SentOK, OutcomeOK, Authed, requests
  <2>3. OpenIsRouted'
    BY <1>3, <1>t, <2>0 DEF Register, Supersede, CloseAll, TypeOK, OwnerOK,
       OpenIsRouted, Authed
  <2>4. QED
    BY <2>1, <2>2, <2>3 DEF Routing
<1>4. CASE Refuse(s)
  <2>1. TypeOK'
    BY <1>4, <1>t DEF Refuse, CloseAll, TypeOK, table, requests
  <2>2. OwnerOK' /\ RouteOK' /\ PendingOK' /\ SentOK' /\ OutcomeOK' /\ OpenIsRouted'
    BY <1>4, <1>t DEF Refuse, CloseAll, TypeOK, OwnerOK, RouteOK, PendingOK,
       SentOK, OutcomeOK, OpenIsRouted, Authed, table, requests
  <2>3. QED
    BY <2>1, <2>2 DEF Routing
<1>5. CASE MarkDeviceOnline(s)
  <2>1. TypeOK'
    BY <1>5, <1>t DEF MarkDeviceOnline, Write, TypeOK, table, requests
  <2>2. OwnerOK' /\ RouteOK' /\ PendingOK' /\ SentOK' /\ OutcomeOK' /\ OpenIsRouted'
    BY <1>5, <1>t DEF MarkDeviceOnline, TypeOK, OwnerOK, RouteOK, PendingOK,
       SentOK, OutcomeOK, OpenIsRouted, Authed, table, requests
  <2>3. QED
    BY <2>1, <2>2 DEF Routing
<1>6. QED
  BY <1>1, <1>2, <1>3, <1>4, <1>5

\* The close event, and the writes nobody waits for.
LEMMA CloseStep ==
  ASSUME IInv, NEW s \in Sockets, Close(s) \/ MarkDeviceOffline(s)
  PROVE  IInv'
<1> USE GatewayAssumption DEF IInv
<1>t. TypeOK /\ OwnerOK /\ RouteOK /\ PendingOK /\ SentOK /\ OutcomeOK /\ OpenIsRouted
  BY DEF Routing
<1>1. CASE Close(s) /\ OnRecord(s)
  <2>0. owner[s] \in Devices /\ connected[owner[s]] = s /\ pending[s] \subseteq Requests
    BY <1>1, <1>t DEF OnRecord, OwnerOK, Authed, TypeOK
  <2>1. TypeOK'
    BY <1>1, <1>t, <2>0 DEF Close, ResolvePending, Resolve, TypeOK
  <2>2. OwnerOK' /\ RouteOK'
    BY <1>1, <1>t, <2>0 DEF Close, OwnerOK, RouteOK, TypeOK, Authed
  <2>3. PendingOK' /\ SentOK' /\ OutcomeOK'
    BY <1>1, <1>t, <2>0 DEF Close, ResolvePending, Resolve, PendingOK, SentOK,
       OutcomeOK, TypeOK
  <2>4. OpenIsRouted'
    BY <1>1, <1>t, <2>0 DEF Close, OpenIsRouted, OwnerOK, Authed, TypeOK
  <2>5. QED
    BY <2>1, <2>2, <2>3, <2>4 DEF Routing
<1>2. CASE Close(s) /\ ~OnRecord(s)
  <2>1. TypeOK'
    BY <1>2, <1>t DEF Close, TypeOK
  <2>2. OwnerOK' /\ RouteOK' /\ PendingOK' /\ SentOK' /\ OutcomeOK' /\ OpenIsRouted'
    BY <1>2, <1>t DEF Close, TypeOK, OwnerOK, RouteOK, PendingOK, SentOK,
       OutcomeOK, OpenIsRouted, Authed
  <2>3. QED
    BY <2>1, <2>2 DEF Routing
<1>3. CASE MarkDeviceOffline(s)
  <2>1. TypeOK'
    BY <1>3, <1>t DEF MarkDeviceOffline, Write, TypeOK, sockets, table, requests
  <2>2. OwnerOK' /\ RouteOK' /\ PendingOK' /\ SentOK' /\ OutcomeOK' /\ OpenIsRouted'
    BY <1>3, <1>t DEF MarkDeviceOffline, TypeOK, OwnerOK, RouteOK, PendingOK,
       SentOK, OutcomeOK, OpenIsRouted, Authed, sockets, table, requests
  <2>3. QED
    BY <2>1, <2>2 DEF Routing
<1>4. QED
  BY <1>1, <1>2, <1>3

\* What a request does.
LEMMA RequestStep ==
  ASSUME IInv, NEW r \in Requests,
         \/ SubmitInference(r) \/ NoDevice(r) \/ MarkDeviceBusy(r)
         \/ InferenceResponse(r) \/ Handle(r)
  PROVE  IInv'
<1> USE GatewayAssumption DEF IInv
<1>t. TypeOK /\ OwnerOK /\ RouteOK /\ PendingOK /\ SentOK /\ OutcomeOK /\ OpenIsRouted
  BY DEF Routing
<1>s. UNCHANGED <<step, up, owner, connected>>
  BY DEF SubmitInference, NoDevice, MarkDeviceBusy, InferenceResponse, Handle,
     Answer503, Timeout, RecordInferenceResult, sockets, table
<1>o. OwnerOK' /\ RouteOK' /\ OpenIsRouted'
  BY <1>t, <1>s DEF OwnerOK, RouteOK, OpenIsRouted, Authed
<1>1. CASE SubmitInference(r)
  <2>1. PICK d \in Devices : /\ connected[d] # None
                             /\ via' = [via EXCEPT ![r] = connected[d]]
                             /\ pending' = [pending EXCEPT ![connected[d]] = @ \cup {r}]
    BY <1>1 DEF SubmitInference
  <2>2. /\ connected[d] \in Sockets /\ owner[connected[d]] \in Devices
        /\ Authed(connected[d])
    BY <2>1, <1>t DEF RouteOK, TypeOK
  <2>3. TypeOK'
    BY <1>1, <1>t, <2>1, <2>2 DEF SubmitInference, TypeOK, sockets
  <2>4. PendingOK' /\ SentOK' /\ OutcomeOK'
    BY <1>1, <1>t, <1>s, <2>1, <2>2 DEF SubmitInference, TypeOK, PendingOK, SentOK,
       OutcomeOK, Authed
  <2>5. QED
    BY <1>o, <2>3, <2>4 DEF Routing
<1>2. CASE NoDevice(r)
  <2>1. TypeOK' /\ PendingOK' /\ SentOK' /\ OutcomeOK'
    BY <1>2, <1>t DEF NoDevice, TypeOK, PendingOK, SentOK, OutcomeOK, sockets,
       table
  <2>2. QED
    BY <1>o, <2>1 DEF Routing
<1>3. CASE MarkDeviceBusy(r)
  <2>1. TypeOK'
    BY <1>3, <1>t DEF MarkDeviceBusy, Write, TypeOK, sockets, table, requests
  <2>2. PendingOK' /\ SentOK' /\ OutcomeOK'
    BY <1>3, <1>t DEF MarkDeviceBusy, PendingOK, SentOK, OutcomeOK, sockets, table, requests
  <2>3. QED
    BY <1>o, <2>1, <2>2 DEF Routing
<1>4. CASE InferenceResponse(r)
  <2>1. TypeOK'
    BY <1>4, <1>t DEF InferenceResponse, Matched, Resolve, TypeOK, sockets
  <2>2. PendingOK' /\ SentOK' /\ OutcomeOK'
    BY <1>4, <1>t, <1>s DEF InferenceResponse, Matched, Resolve, TypeOK, PendingOK,
       SentOK, OutcomeOK
  <2>3. QED
    BY <1>o, <2>1, <2>2 DEF Routing
<1>5. CASE Answer503(r)
  <2>1. TypeOK'
    BY <1>5, <1>t DEF Answer503, TypeOK, sockets, table
  <2>2. PendingOK' /\ SentOK' /\ OutcomeOK'
    BY <1>5, <1>t, <1>s DEF Answer503, TypeOK, PendingOK, SentOK, OutcomeOK, table
  <2>3. QED
    BY <1>o, <2>1, <2>2 DEF Routing
<1>6. CASE Timeout(r)
  <2>1. TypeOK'
    BY <1>6, <1>t DEF Timeout, Resolve, TypeOK, sockets
  <2>2. PendingOK' /\ SentOK' /\ OutcomeOK'
    BY <1>6, <1>t, <1>s DEF Timeout, Resolve, TypeOK, PendingOK, SentOK, OutcomeOK
  <2>3. QED
    BY <1>o, <2>1, <2>2 DEF Routing
<1>7. CASE RecordInferenceResult(r)
  <2>1. TypeOK'
    BY <1>7, <1>t DEF RecordInferenceResult, Write, TypeOK, sockets, table
  <2>2. PendingOK' /\ SentOK' /\ OutcomeOK'
    BY <1>7, <1>t, <1>s DEF RecordInferenceResult, TypeOK, PendingOK, SentOK,
       OutcomeOK, table
  <2>3. QED
    BY <1>o, <2>1, <2>2 DEF Routing
<1>8. QED
  BY <1>1, <1>2, <1>3, <1>4, <1>5, <1>6, <1>7 DEF Handle

LEMMA RestartStep == IInv /\ Restart => IInv'
<1> SUFFICES ASSUME IInv, Restart PROVE IInv'
  OBVIOUS
<1>t. TypeOK /\ OwnerOK /\ RouteOK /\ PendingOK /\ SentOK /\ OutcomeOK /\ OpenIsRouted
  BY DEF IInv, Routing
<1>1. TypeOK'
  BY <1>t, GatewayAssumption DEF Restart, TypeOK
<1>2. OwnerOK' /\ RouteOK' /\ PendingOK' /\ SentOK' /\ OutcomeOK' /\ OpenIsRouted'
  BY <1>t, GatewayAssumption DEF Restart, TypeOK, OwnerOK, RouteOK, PendingOK,
     SentOK, OutcomeOK, OpenIsRouted, Authed
<1>3. QED
  BY <1>1, <1>2 DEF IInv, Routing

LEMMA StutterStep == IInv /\ UNCHANGED vars => IInv'
BY DEF IInv, TypeOK, Routing, OwnerOK, RouteOK, PendingOK, SentOK, OutcomeOK,
   OpenIsRouted, Authed, vars, sockets, table, requests

LEMMA Invariance == Safe => []IInv
<1>1. IInv /\ [Next]_vars => IInv'
  BY ConnectionStep, CloseStep, RequestStep, RestartStep, StutterStep DEF Next
<1>2. QED
  BY InitInv, <1>1, PTL DEF Safe

\* Every variable of the gateway and its registry keeps its type.
THEOREM TypeCorrect == Safe => []TypeOK
<1>1. IInv => TypeOK
  BY DEF IInv
<1>2. QED
  BY <1>1, Invariance, PTL

\* A device has one live connection at most, and it is the one that requests
\* are routed to, however often the device reconnects and old sockets close.
THEOREM OneConnection == Safe => []OpenIsRouted
<1>1. IInv => OpenIsRouted
  BY DEF IInv
<1>2. QED
  BY <1>1, Invariance, PTL

-------------------------------------------------------------------------------
(* The gateway implements InferenceBroker.                                 *)

bar == [r \in Requests |-> State(r)]

\* A step that leaves the requests where they are stutters.
LEMMA SameRequests ==
  ASSUME UNCHANGED <<req, outcome, replied>>
  PROVE  UNCHANGED <<bar, replied>>
BY DEF bar, State

\* Whatever happens to the requests of a set, their callers still wait.
LEMMA StillAsked ==
  ASSUME TypeOK, NEW S \in SUBSET Requests, NEW result,
         \A r \in S : req[r] = "waiting", Resolve(S, result)
  PROVE  bar' = bar
<1>1. ASSUME NEW r \in Requests PROVE State(r)' = State(r)
  BY <1>1 DEF TypeOK, Resolve, State
<1>2. QED
  BY <1>1 DEF bar

LEMMA BrokerStep == IInv /\ [Next]_vars => [Broker!BrokerNext]_<<bar, replied>>
<1> SUFFICES ASSUME IInv, [Next]_vars
             PROVE  [Broker!BrokerNext]_<<bar, replied>>
  OBVIOUS
<1>t. TypeOK /\ PendingOK /\ OutcomeOK
  BY DEF IInv, Routing
<1>1. CASE UNCHANGED vars
  BY <1>1, SameRequests DEF vars, requests
<1>2. ASSUME NEW s \in Sockets,
             \/ Connect(s) \/ FirstMessage(s) \/ Register(s) \/ Refuse(s)
             \/ MarkDeviceOnline(s) \/ MarkDeviceOffline(s)
      PROVE  [Broker!BrokerNext]_<<bar, replied>>
  BY <1>2, SameRequests DEF Connect, FirstMessage, Register, Refuse,
     MarkDeviceOnline, MarkDeviceOffline, requests
<1>3. ASSUME NEW s \in Sockets, Close(s)
      PROVE  [Broker!BrokerNext]_<<bar, replied>>
  <2>1. CASE OnRecord(s)
    <3>1. /\ pending[s] \in SUBSET Requests /\ \A r \in pending[s] : req[r] = "waiting"
          /\ Resolve(pending[s], "error") /\ replied' = replied
      BY <1>3, <2>1, <1>t DEF Close, ResolvePending, TypeOK, PendingOK
    <3>2. QED
      BY <3>1, <1>t, StillAsked
  <2>2. CASE ~OnRecord(s)
    BY <1>3, <2>2, SameRequests DEF Close
  <2>3. QED
    BY <2>1, <2>2
<1>4. ASSUME NEW r \in Requests, SubmitInference(r) \/ NoDevice(r)
      PROVE  Broker!Ask(r)
  <2>1. req[r] = "new" /\ req' = [req EXCEPT ![r] = "waiting"] /\ UNCHANGED <<outcome, replied>>
    BY <1>4 DEF SubmitInference, NoDevice
  <2>2. bar[r] = "new" /\ bar' = [bar EXCEPT ![r] = "asked"]
    BY <2>1, <1>t DEF bar, State, TypeOK
  <2>3. QED
    BY <2>1, <2>2 DEF Broker!Ask, bar
<1>5. ASSUME NEW r \in Requests, MarkDeviceBusy(r)
      PROVE  UNCHANGED <<bar, replied>>
  BY <1>5, SameRequests DEF MarkDeviceBusy, requests
<1>6. ASSUME NEW r \in Requests, InferenceResponse(r)
      PROVE  [Broker!BrokerNext]_<<bar, replied>>
  <2>1. /\ req[r] = "waiting"
        /\ Resolve({r}, "content") \/ Resolve({r}, "error")
    BY <1>6 DEF InferenceResponse, Matched
  <2>2. bar' = bar
    BY <2>1, <1>t, StillAsked
  <2>3. replied' = replied \/ replied' = replied \cup {r}
    BY <1>6 DEF InferenceResponse
  <2>4. bar[r] = "asked"
    BY <1>6 DEF InferenceResponse, bar, State
  <2>5. QED
    BY <2>2, <2>3, <2>4 DEF Broker!BrokerNext, Broker!Reply, bar
<1>7. ASSUME NEW r \in Requests, Timeout(r)
      PROVE  UNCHANGED <<bar, replied>>
  BY <1>7, <1>t, StillAsked DEF Timeout
<1>8. ASSUME NEW r \in Requests, Answer503(r) \/ RecordInferenceResult(r)
      PROVE  Broker!Answer(r)
  <2>1. /\ req[r] \in {"waiting", "record"} /\ req' = [req EXCEPT ![r] = "done"]
        /\ \A q \in Requests \ {r} : outcome'[q] = outcome[q]
        /\ outcome'[r] = "error" \/ (outcome'[r] = "content" /\ r \in replied)
        /\ replied' = replied
    BY <1>8, <1>t DEF Answer503, RecordInferenceResult, TypeOK, OutcomeOK
  <2>2. bar[r] = "asked" /\ bar' = [bar EXCEPT ![r] = outcome'[r]]
    BY <2>1, <1>t DEF bar, State, TypeOK
  <2>3. QED
    BY <2>1, <2>2 DEF Broker!Answer, bar
<1>9. CASE Restart
  <2>1. ASSUME NEW r \in Requests
        PROVE  State(r)' = IF State(r) = "asked" THEN "error" ELSE State(r)
    <3>1. \/ req[r] = "new" /\ req'[r] = "new"
          \/ req[r] = "done" /\ req'[r] = "done" /\ outcome'[r] = outcome[r]
          \/ req[r] \in {"waiting", "record"} /\ req'[r] = "done"
                /\ outcome'[r] = "error"
      BY <1>9, <2>1, <1>t DEF Restart, TypeOK
    <3>2. outcome[r] # "asked"
      BY <2>1, <1>t DEF TypeOK
    <3>3. QED
      BY <3>1, <3>2 DEF State
  <2>2. QED
    BY <1>9, <2>1 DEF Restart, Broker!BrokerNext, Broker!Drop, bar
<1>10. QED
  BY <1>1, <1>2, <1>3, <1>4, <1>5, <1>6, <1>7, <1>8, <1>9
     DEF Next, Handle, Broker!BrokerNext

\* Every caller of POST /infer is answered at most once, and with content only
\* when a device has replied to its request while it was waiting.
THEOREM AnswersOnce == Safe => Answers
<1>1. Init => Broker!BrokerInit
  BY DEF Init, Broker!BrokerInit, State
<1>2. QED
  BY <1>1, BrokerStep, Invariance, PTL
     DEF Safe, Answers, Broker!BrokerSafe, Broker!broker, bar
===============================================================================
