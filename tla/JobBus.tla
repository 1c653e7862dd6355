------------------------------- MODULE JobBus --------------------------------
(* What the job bus promises: a job that is queued is answered -- its       *)
(* handler has returned, or it is on the dead-letter stream -- before it    *)
(* leaves the queue, and every job leaves it in the end.                    *)
EXTENDS Integers

CONSTANT Jobs  \* the places of the stream, in order

VARIABLE job  \* [Jobs -> JobStates]

JobStates == {"none", "queued", "answered", "settled"}

BusInit == job = [j \in Jobs |-> "none"]

Become(j, from, to) == /\ job[j] = from
                       /\ job' = [job EXCEPT ![j] = to]

\* The stream grows at its end.
Queue(j) == /\ \A i \in Jobs : job[i] = "none" => j <= i
            /\ Become(j, "none", "queued")

Answer(j) == Become(j, "queued", "answered")
Settle(j) == Become(j, "answered", "settled")

BusNext == \E j \in Jobs : Queue(j) \/ Answer(j) \/ Settle(j)

BusSafe == BusInit /\ [][BusNext]_job
BusSpec == BusSafe /\ \A j \in Jobs : WF_job(Answer(j)) /\ WF_job(Settle(j))
===============================================================================
