----------------------------- MODULE DeviceGateway ----------------------------
(***************************************************************************)
(* The gateway between AORMS and its inference devices                     *)
(* (device-gateway/src/index.ts, devices.ts): devices dial in over a       *)
(* WebSocket and authenticate, POST /infer hands a prompt to one of them   *)
(* and waits for its reply, and ai_devices records their health.           *)
(*                                                                         *)
(* One event loop runs it, so what lies between two awaits is one step.  A *)
(* write that is not awaited ("void mark...") is done at any later time.   *)
(* Of the row only status is kept: heartbeats, counters, latencies and the *)
(* last error are left out.                                                *)
(***************************************************************************)
EXTENDS Integers, FiniteSets

CONSTANTS
    Devices,
    Sockets,      \* bound: connections ever made, each is used once
    Requests,     \* bound: calls of POST /infer
    None,
    EarlyDrops,   \* connections may be lost before their auth_ack
    CallsFail,    \* calls to the database may fail, which supabase-js answers
                  \* with an error that nobody looks at
    MaxRestarts   \* bound: restarts of the gateway

ASSUME GatewayAssumption ==
    /\ None \notin Devices /\ None \notin Sockets
    /\ Sockets \cap Requests = {}
    /\ EarlyDrops \in BOOLEAN /\ CallsFail \in BOOLEAN
    /\ MaxRestarts \in Nat

VARIABLES
    step,         \* per socket: where its connection handler is
    up,           \* per socket: open, closing (close frame sent) or closed
    owner,        \* per socket: the device_id it authenticates as
    connected,    \* per device: the socket on record, the routing table
    pending,      \* per socket: the requests of its entry with a timer running
    req,          \* per request: where handleInfer is
    via,          \* per request: the socket it was sent on
    outcome,      \* per request: what its promise resolved to
    replied,      \* history: requests a device has answered in time
    status,       \* ai_devices.status
    later,        \* writes not awaited: requests (busy) and sockets (offline)
    restarts

sockets == <<step, up, owner>>
table == <<connected, pending>>
requests == <<req, via, outcome, replied>>
vars == <<sockets, table, requests, status, later, restarts>>

\* A variant with a longer name before a definition is a plausible mistake in
\* the same line, which the properties must tell from the code.

TypeOK ==
    /\ step \in [Sockets -> {"none", "first", "auth", "online",
                             "serve", "refused"}]
    /\ up \in [Sockets -> {"open", "closing", "closed"}]
    /\ owner \in [Sockets -> Devices \cup {None}]
    /\ connected \in [Devices -> Sockets \cup {None}]
    /\ pending \in [Sockets -> SUBSET Requests]
    /\ req \in [Requests -> {"new", "waiting", "record", "done"}]
    /\ via \in [Requests -> Sockets \cup {None}]
    /\ outcome \in [Requests -> {"none", "content", "error"}]
    /\ replied \subseteq Requests
    /\ status \in [Devices -> {"online", "busy", "offline"}]
    /\ later \subseteq Sockets \cup Requests
    /\ restarts \in 0..MaxRestarts

Init ==
    /\ step = [s \in Sockets |-> "none"]
    /\ up = [s \in Sockets |-> "closed"]
    /\ owner = [s \in Sockets |-> None]
    /\ connected = [d \in Devices |-> None]
    /\ pending = [s \in Sockets |-> {}]
    /\ req = [r \in Requests |-> "new"]
    /\ via = [r \in Requests |-> None]
    /\ outcome = [r \in Requests |-> "none"]
    /\ replied = {}
    /\ status = [d \in Devices |-> "offline"]
    /\ later = {}
    /\ restarts = 0

\* An update of ai_devices.status; nobody looks at its error.
Write(d, new) ==
    \/ status' = [status EXCEPT ![d] = new]
    \/ CallsFail /\ UNCHANGED status

-------------------------------------------------------------------------------
(* The connections of the devices.                                         *)

Authed(s) == step[s] \in {"online", "serve"}

Connect(s) ==
    /\ step[s] = "none"
    /\ step' = [step EXCEPT ![s] = "first"]
    /\ up' = [up EXCEPT ![s] = "open"]
    /\ UNCHANGED <<owner, table, requests, status, later, restarts>>

\* ws.close on an open socket sends the close frame.
CloseAll(S) == up' = [s \in Sockets |->
                        IF s \in S /\ up[s] = "open" THEN "closing" ELSE up[s]]

FirstMessage(s) ==
    /\ step[s] = "first" /\ up[s] = "open"
    /\ \/ /\ step' = [step EXCEPT ![s] = "auth"]
          /\ \E d \in Devices : owner' = [owner EXCEPT ![s] = d]
          /\ UNCHANGED up
       \/ /\ step' = [step EXCEPT ![s] = "refused"]
          /\ CloseAll({s})
          /\ UNCHANGED owner
    /\ UNCHANGED <<table, requests, status, later, restarts>>

\* authenticateDevice has returned the device: its connection supersedes the
\* one on record.
SupersedeSilently(s) == UNCHANGED up
Supersede(s) == CloseAll({connected[owner[s]]})

Register(s) ==
    /\ step[s] = "auth"
    /\ step' = [step EXCEPT ![s] = "online"]
    /\ Supersede(s)
    /\ connected' = [connected EXCEPT ![owner[s]] = s]
    /\ UNCHANGED <<owner, pending, requests, status, later, restarts>>

\* It has returned null: a wrong secret, or an error.
Refuse(s) ==
    /\ step[s] = "auth"
    /\ step' = [step EXCEPT ![s] = "refused"]
    /\ CloseAll({s})
    /\ UNCHANGED <<owner, table, requests, status, later, restarts>>

\* After markDeviceOnline come auth_ack and the listener for replies.
MarkDeviceOnline(s) ==
    /\ step[s] = "online"
    /\ step' = [step EXCEPT ![s] = "serve"]
    /\ Write(owner[s], "online")
    /\ UNCHANGED <<up, owner, table, requests, later, restarts>>

\* The promises of some requests resolve, and their timers stop.
Resolve(S, result) ==
    /\ req' = [r \in Requests |-> IF r \in S THEN "record" ELSE req[r]]
    /\ outcome' = [r \in Requests |-> IF r \in S THEN result ELSE outcome[r]]

\* The close event, whoever closed the socket and whatever its handler awaits.
OnRecord(s) == Authed(s) /\ connected[owner[s]] = s

ResolveNone(s) == UNCHANGED <<req, outcome>>
ResolveRaw(s) == Resolve(pending[s], "disconnected")
ResolvePending(s) == Resolve(pending[s], "error")

Close(s) ==
    /\ step[s] # "none" /\ up[s] # "closed"
    /\ step[s] \in {"auth", "online"} => EarlyDrops
    /\ up' = [up EXCEPT ![s] = "closed"]
    /\ IF OnRecord(s)
       THEN /\ connected' = [connected EXCEPT ![owner[s]] = None]
            /\ pending' = [pending EXCEPT ![s] = {}]
            /\ ResolvePending(s)
            /\ later' = later \cup {s}
       ELSE UNCHANGED <<connected, pending, req, outcome, later>>
    /\ UNCHANGED <<step, owner, via, replied, status, restarts>>

MarkDeviceOffline(s) ==
    /\ s \in later \cap Sockets
    /\ later' = later \ {s}
    /\ Write(owner[s], "offline")
    /\ UNCHANGED <<sockets, table, requests, restarts>>

-------------------------------------------------------------------------------
(* POST /infer.                                                            *)

\* handleInfer takes the device that is asked for, or else the first.
SubmitInference(r) ==
    /\ req[r] = "new"
    /\ \E d \in Devices :
          /\ connected[d] # None
          /\ via' = [via EXCEPT ![r] = connected[d]]
          /\ pending' = [pending EXCEPT ![connected[d]] = @ \cup {r}]
    /\ req' = [req EXCEPT ![r] = "waiting"]
    /\ later' = later \cup {r}
    /\ UNCHANGED <<sockets, connected, outcome, replied, status, restarts>>

\* No device is connected, or not the one that is asked for: 503.
NoDevice(r) ==
    /\ req[r] = "new"
    /\ \E d \in Devices : connected[d] = None
    /\ req' = [req EXCEPT ![r] = "waiting"]
    /\ UNCHANGED <<sockets, table, via, outcome, replied, status, later, restarts>>

Answer503(r) ==
    /\ req[r] = "waiting" /\ via[r] = None
    /\ req' = [req EXCEPT ![r] = "done"]
    /\ outcome' = [outcome EXCEPT ![r] = "error"]
    /\ UNCHANGED <<sockets, table, via, replied, status, later, restarts>>

MarkDeviceBusy(r) ==
    /\ r \in later \cap Requests
    /\ later' = later \ {r}
    /\ Write(owner[via[r]], "busy")
    /\ UNCHANGED <<sockets, table, requests, restarts>>

\* An inference_response, heard by the listener of the socket.  One that no
\* request waits for is ignored.
MatchedAll(s, r) == pending[s]
Matched(s, r) == {r}

InferenceResponse(r) ==
    LET s == via[r]
    IN  /\ req[r] = "waiting" /\ s # None
        /\ step[s] = "serve" /\ up[s] # "closed" /\ r \in pending[s]
        /\ pending' = [pending EXCEPT ![s] = @ \ Matched(s, r)]
        /\ \/ Resolve(Matched(s, r), "content") /\ replied' = replied \cup {r}
           \/ Resolve(Matched(s, r), "error") /\ UNCHANGED replied
        /\ UNCHANGED <<sockets, connected, via, status, later, restarts>>

Timeout(r) ==
    /\ req[r] = "waiting" /\ via[r] # None
    /\ r \in pending[via[r]]
    /\ pending' = [pending EXCEPT ![via[r]] = @ \ {r}]
    /\ Resolve({r}, "error")
    /\ UNCHANGED <<sockets, connected, via, replied, status, later, restarts>>

\* recordInferenceResult, and then the answer to the caller.
RecordInferenceResult(r) ==
    LET d == owner[via[r]]
    IN  /\ req[r] = "record"
        /\ req' = [req EXCEPT ![r] = "done"]
        /\ Write(d, "online")
        /\ UNCHANGED <<sockets, table, via, outcome, replied, later, restarts>>

-------------------------------------------------------------------------------
\* The process dies or is stopped, and all it keeps in memory is lost.
Restart ==
    /\ restarts < MaxRestarts
    /\ restarts' = restarts + 1
    /\ step' = [s \in Sockets |-> IF step[s] = "none" THEN "none" ELSE "refused"]
    /\ up' = [s \in Sockets |-> "closed"]
    /\ connected' = [d \in Devices |-> None]
    /\ pending' = [s \in Sockets |-> {}]
    /\ later' = {}
    /\ LET cut == {r \in Requests : req[r] \notin {"new", "done"}}
       IN  /\ req' = [r \in Requests |-> IF r \in cut THEN "done" ELSE req[r]]
           /\ outcome' = [r \in Requests |-> IF r \in cut THEN "error"
                                                         ELSE outcome[r]]
    /\ UNCHANGED <<owner, via, replied, status>>

Handle(r) ==
    \/ Answer503(r) \/ Timeout(r) \/ RecordInferenceResult(r)

Next ==
    \/ \E s \in Sockets :
          \/ Connect(s) \/ FirstMessage(s) \/ Register(s) \/ Refuse(s)
          \/ MarkDeviceOnline(s) \/ Close(s) \/ MarkDeviceOffline(s)
    \/ \E r \in Requests :
          \/ SubmitInference(r) \/ NoDevice(r) \/ MarkDeviceBusy(r)
          \/ InferenceResponse(r) \/ Handle(r)
    \/ Restart

Safe == Init /\ [][Next]_vars

\* Timers fire and calls to the database return; devices need not reply.
Spec == Safe /\ \A r \in Requests : WF_vars(Handle(r))

-------------------------------------------------------------------------------
(* Properties.                                                             *)

\* "One live connection per device": the authenticated sockets that are open
\* are the ones on record, so the superseding of index.ts leaves no device
\* with two of them, and the close of an old one takes no new one off.
OpenIsRouted ==
    \A s \in Sockets : Authed(s) /\ up[s] = "open" => connected[owner[s]] = s

\* handleInfer answers every caller once, and with content only when a device
\* has replied to that very request.
State(r) == IF req[r] \in {"waiting", "record"} THEN "asked"
            ELSE IF req[r] = "new" THEN "new" ELSE outcome[r]
Broker == INSTANCE InferenceBroker WITH request <- [r \in Requests |-> State(r)]
Answers == Broker!BrokerSafe
AnswersInTheEnd == Broker!BrokerSpec

\* The routing table knows "which devices are connected": no entry of it has a
\* socket that is closed.  This fails when the socket closes while
\* authenticateDevice is awaited.
RoutesAreConnected ==
    \A d \in Devices : connected[d] # None => up[connected[d]] # "closed"
===============================================================================
