---------------------------- MODULE InferenceBroker ---------------------------
(* What the device gateway promises its HTTP caller: every prompt is        *)
(* answered, once, and with content only if a device has replied to it.     *)

CONSTANT Requests

VARIABLES
    request,  \* [Requests -> {"new", "asked", "content", "error"}]
    replied   \* the requests a device has replied to with content

BrokerInit ==
    /\ request = [r \in Requests |-> "new"]
    /\ replied = {}

Ask(r) ==
    /\ request[r] = "new"
    /\ request' = [request EXCEPT ![r] = "asked"]
    /\ UNCHANGED replied

Reply(r) ==
    /\ request[r] = "asked"
    /\ replied' = replied \cup {r}
    /\ UNCHANGED request

Answer(r) ==
    /\ request[r] = "asked"
    /\ \/ r \in replied /\ request' = [request EXCEPT ![r] = "content"]
       \/ request' = [request EXCEPT ![r] = "error"]
    /\ UNCHANGED replied

\* The gateway is restarted: the callers that still wait see an error.
Drop ==
    /\ request' = [r \in Requests |-> IF request[r] = "asked" THEN "error"
                                                            ELSE request[r]]
    /\ UNCHANGED replied

BrokerNext == Drop \/ \E r \in Requests : Ask(r) \/ Reply(r) \/ Answer(r)

broker == <<request, replied>>

BrokerSafe == BrokerInit /\ [][BrokerNext]_broker
BrokerSpec == BrokerSafe /\ \A r \in Requests : WF_broker(Answer(r))
===============================================================================
