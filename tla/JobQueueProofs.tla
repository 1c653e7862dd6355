---------------------------- MODULE JobQueueProofs ----------------------------
(***************************************************************************)
(* JobQueue, proved for every set of records, users and workers and every  *)
(* number of failures: the types, and that no job is lost.  With a single  *)
(* worker, the deployment of compose.prod.yaml, also that no record is     *)
(* stuck in PROCESSING without a job and that a READY PDF is fresh.        *)
(***************************************************************************)
EXTENDS JobQueue, SequenceTheorems, TLAPS

\* process_entry works on a job that has been delivered.
JobsOK == \A w \in Workers :
    pc[w] \notin {"reclaim", "read", "take"} => job[w] \in 1..read

TypeInv == TypeOK /\ JobsOK

LEMMA InitTypes == Init => TypeInv
BY JobQueueAssumption DEF Init, TypeInv, TypeOK, QueueTypes, RowTypes, WorkerTypes, HistoryTypes, JobsOK, Jobs, Statuses, Steps

\* A job the group has delivered keeps its place in the stream.
LEMMA StreamFacts ==
  ASSUME TypeInv
  PROVE  /\ read \in Nat /\ Len(stream) \in Nat /\ read <= Len(stream)
         /\ \A j \in 1..read : j \in Queued /\ j \in Jobs
         /\ \A j \in Queued : RecordOf(j) \in Records /\ Asked(j) \in Nat
<1>1. /\ stream \in Seq([record : Records, asked : Nat])
      /\ Len(stream) <= MaxJobs /\ read \in 0..Len(stream) /\ Len(stream) \in Nat
  BY DEF TypeInv, TypeOK, QueueTypes
<1>2. \A j \in Queued : stream[j] \in [record : Records, asked : Nat]
  BY <1>1, ElementOfSeq DEF Queued
<1>3. QED
  BY <1>1, <1>2, JobQueueAssumption DEF Queued, Jobs, RecordOf, Asked

\* The steps of the Server Actions and of time.
LEMMA OthersType ==
  ASSUME TypeInv,
         \/ \E u \in Users : Enqueue(u) \/ \E r \in Records : Ask(u, r)
         \/ \E r \in Records : Edit(r) \/ Delete(r)
         \/ \E j \in Jobs : GoIdle(j)
  PROVE  TypeInv'
<1> USE JobQueueAssumption
<1>1. ASSUME NEW u \in Users, Enqueue(u) PROVE TypeInv'
  <2>1. asking[u] \in Records /\ version[asking[u]] \in Nat
    BY <1>1 DEF TypeInv, TypeOK, QueueTypes, RowTypes, WorkerTypes, HistoryTypes, Enqueue
  <2>2. /\ stream' \in Seq([record : Records, asked : Nat])
        /\ Len(stream') <= MaxJobs /\ read \in 0..Len(stream')
    <3>1. CASE stream' = stream
      BY <3>1 DEF TypeInv, TypeOK, QueueTypes
    <3>2. CASE /\ Len(stream) < MaxJobs
               /\ stream' = Append(stream, [record |-> asking[u],
                                            asked |-> version[asking[u]]])
      BY <3>2, <2>1 DEF TypeInv, TypeOK, QueueTypes
    <3>3. QED
      BY <1>1, <3>1, <3>2 DEF Enqueue
  <2>3. QED
    BY <1>1, <2>2 DEF TypeInv, TypeOK, QueueTypes, RowTypes, WorkerTypes, HistoryTypes, JobsOK, Enqueue, worker, rows
<1>2. ASSUME NEW u \in Users, NEW r \in Records, Ask(u, r) PROVE TypeInv'
  BY <1>2 DEF TypeInv, TypeOK, QueueTypes, RowTypes, WorkerTypes, HistoryTypes, JobsOK, Ask, queue, rows, worker
<1>3. ASSUME NEW r \in Records, Edit(r) PROVE TypeInv'
  <2>1. version' \in [Records -> Nat \ {0}]
    BY <1>3 DEF TypeInv, TypeOK, QueueTypes, RowTypes, WorkerTypes, HistoryTypes, Edit
  <2>2. QED
    BY <1>3, <2>1 DEF TypeInv, TypeOK, QueueTypes, RowTypes, WorkerTypes, HistoryTypes, JobsOK, Edit, queue, worker
<1>4. ASSUME NEW r \in Records, Delete(r) PROVE TypeInv'
  BY <1>4 DEF TypeInv, TypeOK, QueueTypes, RowTypes, WorkerTypes, HistoryTypes, JobsOK, Delete, queue, worker, Statuses
<1>5. ASSUME NEW j \in Jobs, GoIdle(j) PROVE TypeInv'
  BY <1>5 DEF TypeInv, TypeOK, QueueTypes, RowTypes, WorkerTypes, HistoryTypes, JobsOK, GoIdle, rows, worker
<1>6. QED
  BY <1>1, <1>2, <1>3, <1>4, <1>5

\* The steps of the loop.
LEMMA LoopType ==
  ASSUME TypeInv, NEW w \in Workers,
         \/ Reclaim(w) \/ ReadGroup(w) \/ Take(w) \/ Ack(w) \/ Except(w)
         \/ DeadLetter(w) \/ DeadLetterAck(w) \/ Kill(w) \/ Crash(w)
  PROVE  TypeInv'
<1> USE JobQueueAssumption DEF Works, Fault, Goto, rows, queue
<1>t. QueueTypes /\ RowTypes /\ WorkerTypes /\ HistoryTypes /\ JobsOK
  BY DEF TypeInv, TypeOK
<1> USE <1>t
<1>1. CASE Reclaim(w)
  <2>1. Claimed \subseteq 1..read /\ Claimed \subseteq Jobs
    BY StreamFacts DEF Claimed, First, QueueTypes
  <2>2. count' \in [Jobs -> 0..MaxRetries]
    BY <1>1, <2>1 DEF Reclaim, Delivered, QueueTypes
  <2>a. QueueTypes'
    BY <1>1, <2>1, <2>2 DEF Reclaim, QueueTypes
  <2>b. RowTypes'
    BY <1>1 DEF Reclaim, RowTypes
  <2>c. WorkerTypes'
    BY <1>1, <2>1 DEF Reclaim, WorkerTypes, Steps
  <2>d. HistoryTypes'
    BY <1>1 DEF Reclaim, HistoryTypes
  <2>e. JobsOK'
    BY <1>1 DEF Reclaim, JobsOK, WorkerTypes
  <2>f. QED
    BY <2>a, <2>b, <2>c, <2>d, <2>e DEF TypeInv, TypeOK
<1>2. CASE ReadGroup(w)
  <2>1. CASE read < Len(stream) /\ read' = read + 1
    <3>1. /\ read + 1 \in Jobs /\ read + 1 \in 1..(read + 1)
          /\ 1..read \subseteq 1..(read + 1) /\ 0..read \subseteq 0..(read + 1)
      BY <2>1 DEF Jobs, QueueTypes
    <3>2. /\ pending' = pending \cup {read + 1} /\ UNCHANGED <<idle, dead, stream>>
          /\ count' = [count EXCEPT ![read + 1] = 1]
      BY <1>2, <2>1 DEF ReadGroup, QueueTypes
    <3>a. QueueTypes'
      <4>1. count' \in [Jobs -> 0..MaxRetries]
        BY <3>1, <3>2 DEF QueueTypes
      <4>2. pending' \subseteq 1..read' /\ idle' \subseteq pending' /\ dead' \subseteq 1..read'
        BY <2>1, <3>1, <3>2 DEF QueueTypes
      <4>3. QED
        BY <2>1, <3>2, <4>1, <4>2 DEF QueueTypes
    <3>b. RowTypes'
      BY <1>2 DEF ReadGroup, RowTypes
    <3>c. WorkerTypes'
      <4>1. \/ batch' = [batch EXCEPT ![w] = {read + 1}]
            \/ batch' = batch
        BY <1>2, <2>1 DEF ReadGroup
      <4>2. batch' \in [Workers -> SUBSET (1..(read + 1))]
        BY <3>1, <4>1 DEF WorkerTypes
      <4>3. /\ pc' \in [Workers -> Steps]
            /\ after' \in [Workers -> {"reclaim", "read"}]
        BY <1>2 DEF ReadGroup, WorkerTypes, Steps
      <4>4. job' \in [Workers -> 0..(read + 1)] /\ snap' = snap
        BY <1>2, <3>1 DEF ReadGroup, WorkerTypes
      <4>5. QED
        BY <2>1, <4>2, <4>3, <4>4 DEF WorkerTypes
    <3>d. HistoryTypes'
      BY <1>2, <2>1, <3>1 DEF ReadGroup, HistoryTypes
    <3>e. JobsOK'
      <4>1. /\ pc'[w] \in {"take", "reclaim"} /\ job' = job
            /\ \A v \in Workers : v # w => pc'[v] = pc[v]
        BY <1>2 DEF ReadGroup, WorkerTypes
      <4>2. QED
        BY <2>1, <3>1, <4>1 DEF JobsOK
    <3>f. QED
      BY <3>a, <3>b, <3>c, <3>d, <3>e DEF TypeInv, TypeOK
  <2>2. CASE read' = read
    <3>1. /\ UNCHANGED <<stream, pending, idle, count, dead, rows, asking, batch,
                         after, job, snap, done>>
          /\ pc' = [pc EXCEPT ![w] = "reclaim"] /\ faults' \in Nat
      BY <1>2, <2>2 DEF ReadGroup, QueueTypes, HistoryTypes
    <3>2. QED
      BY <2>2, <3>1 DEF TypeInv, TypeOK, QueueTypes, RowTypes, WorkerTypes,
         HistoryTypes, JobsOK, Steps
  <2>3. QED
    BY <1>2, <2>1, <2>2 DEF ReadGroup
<1>3. CASE Take(w)
  <2>1. CASE batch[w] # {}
    <3>1. PICK j \in First(batch[w], 1) :
             /\ job' = [job EXCEPT ![w] = j]
             /\ batch' = [batch EXCEPT ![w] = @ \ {j}]
      BY <1>3, <2>1 DEF Take
    <3>2. j \in 1..read /\ j \in Jobs
      BY StreamFacts DEF First, WorkerTypes
    <3>4. pc' = [pc EXCEPT ![w] = "fetch"] /\ snap' = [snap EXCEPT ![w] = 0]
      BY <1>3, <2>1 DEF Take
    <3>a. QueueTypes' /\ RowTypes'
      BY <1>3 DEF Take, QueueTypes, RowTypes
    <3>c. WorkerTypes'
      BY <1>3, <3>1, <3>2, <3>4 DEF Take, WorkerTypes, Steps, QueueTypes
    <3>d. HistoryTypes'
      BY <1>3 DEF Take, HistoryTypes
    <3>e. JobsOK'
      BY <1>3, <3>1, <3>2, <3>4 DEF Take, JobsOK, WorkerTypes
    <3>f. QED
      BY <3>a, <3>c, <3>d, <3>e DEF TypeInv, TypeOK
  <2>2. CASE batch[w] = {}
    <3>1. after[w] \in {"reclaim", "read"}
      BY DEF WorkerTypes
    <3>a. QueueTypes' /\ RowTypes'
      BY <1>3 DEF Take, QueueTypes, RowTypes
    <3>c. WorkerTypes'
      <4>1. pc' \in [Workers -> Steps]
        BY <1>3, <2>2, <3>1 DEF Take, WorkerTypes, Steps
      <4>2. UNCHANGED <<after, batch, read>> /\ job' = [job EXCEPT ![w] = 0]
        BY <1>3, <2>2 DEF Take
      <4>3. snap' \in [Workers -> Nat]
        BY <1>3 DEF Take, WorkerTypes
      <4>4. job' \in [Workers -> 0..read]
        BY <4>2, StreamFacts DEF WorkerTypes
      <4>5. QED
        BY <4>1, <4>2, <4>3, <4>4 DEF WorkerTypes
    <3>d. HistoryTypes'
      BY <1>3, <2>2 DEF Take, HistoryTypes
    <3>e. JobsOK'
      BY <1>3, <2>2, <3>1 DEF Take, JobsOK, WorkerTypes
    <3>f. QED
      BY <3>a, <3>c, <3>d, <3>e DEF TypeInv, TypeOK
  <2>3. QED
    BY <2>1, <2>2
<1>4. CASE Ack(w)
  <2>a. QueueTypes'
    BY <1>4 DEF Ack, Call, Remove, QueueTypes
  <2>b. RowTypes'
    BY <1>4 DEF Ack, Call, Remove, RowTypes
  <2>c. WorkerTypes'
    BY <1>4 DEF Ack, Call, Remove, WorkerTypes, QueueTypes, Steps
  <2>d. HistoryTypes'
    BY <1>4 DEF Ack, Call, Remove, HistoryTypes, QueueTypes
  <2>e. JobsOK'
    BY <1>4 DEF Ack, Call, Remove, JobsOK, WorkerTypes, QueueTypes
  <2>f. QED
    BY <2>a, <2>b, <2>c, <2>d, <2>e DEF TypeInv, TypeOK
<1>5. CASE Except(w)
  <2>a. QueueTypes'
    BY <1>5 DEF Except, OnFailure, QueueTypes
  <2>b. RowTypes'
    BY <1>5 DEF Except, OnFailure, RowTypes
  <2>c. WorkerTypes'
    BY <1>5 DEF Except, OnFailure, WorkerTypes, QueueTypes, Steps
  <2>d. HistoryTypes'
    BY <1>5 DEF Except, OnFailure, HistoryTypes, QueueTypes
  <2>e. JobsOK'
    BY <1>5 DEF Except, OnFailure, JobsOK, WorkerTypes, QueueTypes
  <2>f. QED
    BY <2>a, <2>b, <2>c, <2>d, <2>e DEF TypeInv, TypeOK
<1>6. CASE DeadLetter(w)
  <2>a. QueueTypes'
    BY <1>6 DEF DeadLetter, Restart, QueueTypes, JobsOK
  <2>b. RowTypes'
    BY <1>6 DEF DeadLetter, Restart, RowTypes
  <2>c. WorkerTypes'
    <3>1. CASE Restart(w)
      BY <1>6, <3>1 DEF DeadLetter, Restart, WorkerTypes, QueueTypes, Steps
    <3>2. CASE UNCHANGED <<after, batch, job, snap>>
      <4>1. pc' \in [Workers -> Steps]
        BY <1>6 DEF DeadLetter, Restart, WorkerTypes, Steps
      <4>2. QED
        BY <1>6, <3>2, <4>1 DEF DeadLetter, WorkerTypes
    <3>3. QED
      BY <1>6, <3>1, <3>2 DEF DeadLetter
  <2>d. HistoryTypes'
    BY <1>6 DEF DeadLetter, Restart, HistoryTypes, QueueTypes
  <2>e. JobsOK'
    BY <1>6 DEF DeadLetter, Restart, JobsOK, WorkerTypes, QueueTypes
  <2>f. QED
    BY <2>a, <2>b, <2>c, <2>d, <2>e DEF TypeInv, TypeOK
<1>7. CASE DeadLetterAck(w)
  <2>a. QueueTypes'
    BY <1>7 DEF DeadLetterAck, Restart, Remove, QueueTypes
  <2>b. RowTypes'
    BY <1>7 DEF DeadLetterAck, Restart, Remove, RowTypes
  <2>c. WorkerTypes'
    <3>1. CASE Restart(w)
      BY <1>7, <3>1 DEF DeadLetterAck, Restart, WorkerTypes, QueueTypes, Steps
    <3>2. CASE UNCHANGED <<after, batch, job, snap>>
      <4>1. pc' \in [Workers -> Steps]
        BY <1>7 DEF DeadLetterAck, Restart, WorkerTypes, Steps
      <4>2. QED
        BY <1>7, <3>2, <4>1 DEF DeadLetterAck, WorkerTypes
    <3>3. QED
      BY <1>7, <3>1, <3>2 DEF DeadLetterAck
  <2>d. HistoryTypes'
    BY <1>7 DEF DeadLetterAck, Restart, Remove, HistoryTypes, QueueTypes
  <2>e. JobsOK'
    BY <1>7 DEF DeadLetterAck, Restart, Remove, JobsOK, WorkerTypes, QueueTypes
  <2>f. QED
    BY <2>a, <2>b, <2>c, <2>d, <2>e DEF TypeInv, TypeOK
<1>8. CASE Kill(w)
  <2>a. QueueTypes'
    BY <1>8 DEF Kill, Restart, QueueTypes
  <2>b. RowTypes'
    BY <1>8 DEF Kill, Restart, RowTypes
  <2>c. WorkerTypes'
    BY <1>8 DEF Kill, Restart, WorkerTypes, QueueTypes, Steps
  <2>d. HistoryTypes'
    BY <1>8 DEF Kill, Restart, HistoryTypes, QueueTypes
  <2>e. JobsOK'
    BY <1>8 DEF Kill, Restart, JobsOK, WorkerTypes, QueueTypes
  <2>f. QED
    BY <2>a, <2>b, <2>c, <2>d, <2>e DEF TypeInv, TypeOK
<1>9. CASE Crash(w)
  <2>a. QueueTypes'
    BY <1>9 DEF Crash, Restart, QueueTypes
  <2>b. RowTypes'
    BY <1>9 DEF Crash, Restart, RowTypes
  <2>c. WorkerTypes'
    BY <1>9 DEF Crash, Restart, WorkerTypes, QueueTypes, Steps
  <2>d. HistoryTypes'
    BY <1>9 DEF Crash, Restart, HistoryTypes, QueueTypes
  <2>e. JobsOK'
    BY <1>9 DEF Crash, Restart, JobsOK, WorkerTypes, QueueTypes
  <2>f. QED
    BY <2>a, <2>b, <2>c, <2>d, <2>e DEF TypeInv, TypeOK
<1>10. QED
  BY <1>1, <1>2, <1>3, <1>4, <1>5, <1>6, <1>7, <1>8, <1>9

\* The steps of the handler.
LEMMA HandlerType ==
  ASSUME TypeInv, NEW w \in Workers,
         Fetch(w) \/ Mark(w) \/ Render(w) \/ WriteReady(w) \/ WriteFailed(w)
  PROVE  TypeInv'
<1> USE JobQueueAssumption DEF Works, Fault, Goto, queue
<1>t. QueueTypes /\ RowTypes /\ WorkerTypes /\ HistoryTypes /\ JobsOK
  BY DEF TypeInv, TypeOK
<1> USE <1>t
<1>1. pc[w] \notin {"reclaim", "read", "take"}
  BY DEF Fetch, Mark, Render, WriteReady, WriteFailed
<1>2. job[w] \in 1..read /\ RecordOf(job[w]) \in Records
  BY <1>1, StreamFacts DEF JobsOK
<1>3. \A s \in Statuses : SetStatus(job[w], s) => status' \in [Records -> Statuses]
  BY <1>2 DEF SetStatus, Statuses, RowTypes
<1>4. Returned(w) => done' \subseteq 1..read
  BY <1>2 DEF Returned, HistoryTypes
<1>5. CASE Fetch(w)
  <2>1. version[RecordOf(job[w])] \in Nat
    BY <1>2 DEF RowTypes
  <2>a. QueueTypes'
    BY <1>5 DEF Fetch, Fetched, rows, QueueTypes
  <2>b. RowTypes'
    BY <1>5 DEF Fetch, Fetched, rows, RowTypes
  <2>c. WorkerTypes'
    BY <1>5, <1>2, <2>1 DEF Fetch, Fetched, rows, WorkerTypes, Steps
  <2>d. HistoryTypes'
    BY <1>5, <1>4 DEF Fetch, Fetched, rows, HistoryTypes
  <2>e. JobsOK'
    BY <1>5, <1>2 DEF Fetch, Fetched, rows, JobsOK, WorkerTypes
  <2>f. QED
    BY <2>a, <2>b, <2>c, <2>d, <2>e DEF TypeInv, TypeOK
<1>6. CASE Mark(w)
  <2>1. status' \in [Records -> Statuses]
    BY <1>6, <1>3, <1>t DEF Mark, Call, Statuses, RowTypes
  <2>a. QueueTypes'
    BY <1>6 DEF Mark, Call, QueueTypes
  <2>b. RowTypes'
    BY <1>6, <2>1 DEF Mark, Call, RowTypes
  <2>c. WorkerTypes'
    BY <1>6, <1>2 DEF Mark, Call, WorkerTypes, Steps
  <2>d. HistoryTypes'
    BY <1>6, <1>4 DEF Mark, Call, HistoryTypes
  <2>e. JobsOK'
    BY <1>6, <1>2 DEF Mark, Call, JobsOK, WorkerTypes
  <2>f. QED
    BY <2>a, <2>b, <2>c, <2>d, <2>e DEF TypeInv, TypeOK
<1>7. CASE Render(w)
  <2>1. pdf' \in [Records -> Nat]
    BY <1>7, <1>2 DEF Render, Call, RowTypes, WorkerTypes
  <2>a. QueueTypes'
    BY <1>7 DEF Render, Call, QueueTypes
  <2>b. RowTypes'
    BY <1>7, <2>1 DEF Render, Call, RowTypes
  <2>c. WorkerTypes'
    BY <1>7, <1>2 DEF Render, Call, WorkerTypes, Steps
  <2>d. HistoryTypes'
    BY <1>7, <1>4 DEF Render, Call, HistoryTypes
  <2>e. JobsOK'
    BY <1>7, <1>2 DEF Render, Call, JobsOK, WorkerTypes
  <2>f. QED
    BY <2>a, <2>b, <2>c, <2>d, <2>e DEF TypeInv, TypeOK
<1>8. CASE WriteReady(w)
  <2>1. status' \in [Records -> Statuses]
    BY <1>8, <1>3, <1>t DEF WriteReady, Call, Statuses, RowTypes
  <2>a. QueueTypes'
    BY <1>8 DEF WriteReady, Call, QueueTypes
  <2>b. RowTypes'
    BY <1>8, <2>1 DEF WriteReady, Call, RowTypes
  <2>c. WorkerTypes'
    BY <1>8, <1>2 DEF WriteReady, Call, WorkerTypes, Steps
  <2>d. HistoryTypes'
    BY <1>8, <1>4 DEF WriteReady, Call, HistoryTypes
  <2>e. JobsOK'
    BY <1>8, <1>2 DEF WriteReady, Call, JobsOK, WorkerTypes
  <2>f. QED
    BY <2>a, <2>b, <2>c, <2>d, <2>e DEF TypeInv, TypeOK
<1>9. CASE WriteFailed(w)
  <2>1. status' \in [Records -> Statuses]
    BY <1>9, <1>3, <1>t DEF WriteFailed, Call, Statuses, RowTypes
  <2>a. QueueTypes'
    BY <1>9 DEF WriteFailed, Call, QueueTypes
  <2>b. RowTypes'
    BY <1>9, <2>1 DEF WriteFailed, Call, RowTypes
  <2>c. WorkerTypes'
    BY <1>9, <1>2 DEF WriteFailed, Call, WorkerTypes, Steps
  <2>d. HistoryTypes'
    BY <1>9, <1>4 DEF WriteFailed, Call, HistoryTypes
  <2>e. JobsOK'
    BY <1>9, <1>2 DEF WriteFailed, Call, JobsOK, WorkerTypes
  <2>f. QED
    BY <2>a, <2>b, <2>c, <2>d, <2>e DEF TypeInv, TypeOK
<1>10. QED
  BY <1>5, <1>6, <1>7, <1>8, <1>9

LEMMA TypeStep == TypeInv /\ [Next]_vars => TypeInv'
<1>1. ASSUME TypeInv, UNCHANGED vars PROVE TypeInv'
  BY <1>1 DEF TypeInv, TypeOK, QueueTypes, RowTypes, WorkerTypes, HistoryTypes, JobsOK, vars, queue, rows, worker
<1>2. QED
  BY <1>1, OthersType, LoopType, HandlerType DEF Next, WorkerStep

LEMMA TypeInvariant == Safe => []TypeInv
BY InitTypes, TypeStep, PTL DEF Safe

\* Every variable keeps its type.
THEOREM TypeCorrect == Safe => []TypeOK
<1>1. TypeInv => TypeOK
  BY DEF TypeInv
<1>2. QED
  BY <1>1, TypeInvariant, PTL

-------------------------------------------------------------------------------
(* No job is lost: JobQueue implements JobBus.                             *)

\* A job is acknowledged after its handler has returned, or after it has been
\* put on the dead-letter stream.
AckInv ==
    /\ \A w \in Workers : pc[w] = "ack" => job[w] \in done
    /\ \A w \in Workers : pc[w] = "deadAck" => job[w] \in dead
    /\ \A j \in 1..read : j \in pending \/ j \in done \cup dead

Delivers ==
    /\ read < Len(stream) /\ read' = read + 1 /\ pending' = pending \cup {read + 1}
    /\ UNCHANGED <<stream, done, dead>>
Answers(j) == /\ done' \cup dead' = done \cup dead \cup {j}
              /\ done \subseteq done' /\ dead \subseteq dead'
              /\ UNCHANGED <<stream, read, pending>>
Settles(j) == /\ pending' = pending \ {j} /\ j \in done \cup dead
              /\ UNCHANGED <<stream, read, done, dead>>
Keeps == UNCHANGED <<stream, read, pending, done, dead>>

\* What a step of a worker does to the queue.
LEMMA WorkerEffects ==
  ASSUME TypeInv, AckInv, NEW w \in Workers, WorkerStep(w) \/ Crash(w)
  PROVE  \/ Keeps \/ Delivers
         \/ \E j \in 1..read : Answers(j) \/ Settles(j)
<1> USE DEF Keeps, Delivers, Answers, Settles, queue
<1>j. pc[w] \notin {"reclaim", "read", "take"} => job[w] \in 1..read
  BY DEF TypeInv, JobsOK
<1>p. pc \in [Workers -> Steps]
  BY DEF TypeInv, TypeOK, WorkerTypes
<1>1. CASE Reclaim(w) \/ Take(w) \/ Except(w) \/ Kill(w) \/ Crash(w) \/ Mark(w) \/ Render(w)
  BY <1>1 DEF Reclaim, Take, Except, Kill, Crash, Mark, Render
<1>2. CASE ReadGroup(w)
  BY <1>2 DEF ReadGroup
<1>3. CASE Ack(w) \/ DeadLetterAck(w)
  <2>1. job[w] \in done \cup dead /\ job[w] \in 1..read
    BY <1>3, <1>j DEF Ack, DeadLetterAck, AckInv
  <2>2. \/ UNCHANGED pending
        \/ pending' = pending \ {job[w]}
    BY <1>3 DEF Ack, DeadLetterAck, Call, Remove
  <2>3. QED
    BY <1>3, <2>1, <2>2 DEF Ack, DeadLetterAck
<1>4. CASE DeadLetter(w)
  <2>1. job[w] \in 1..read
    BY <1>4, <1>j DEF DeadLetter
  <2>2. dead' = dead \/ dead' = dead \cup {job[w]}
    BY <1>4 DEF DeadLetter
  <2>3. QED
    BY <1>4, <2>1, <2>2 DEF DeadLetter
<1>5. CASE Fetch(w) \/ WriteReady(w) \/ WriteFailed(w)
  <2>1. job[w] \in 1..read
    BY <1>5, <1>j DEF Fetch, WriteReady, WriteFailed
  <2>2. done' = done \/ done' = done \cup {job[w]}
    BY <1>5 DEF Fetch, WriteReady, WriteFailed, Returned
  <2>3. QED
    BY <1>5, <2>1, <2>2 DEF Fetch, WriteReady, WriteFailed
<1>6. QED
  BY <1>1, <1>2, <1>3, <1>4, <1>5 DEF WorkerStep

\* A worker acknowledges what it has answered itself.
LEMMA WorkerAcks ==
  ASSUME TypeInv, AckInv, NEW w \in Workers, WorkerStep(w) \/ Crash(w)
  PROVE  /\ done \subseteq done' /\ dead \subseteq dead'
         /\ \A v \in Workers : v # w => pc'[v] = pc[v] /\ job'[v] = job[v]
         /\ pc'[w] = "ack" => job'[w] \in done'
         /\ pc'[w] = "deadAck" => job'[w] \in dead'
<1> USE DEF Goto, Restart, queue
<1>p. /\ pc \in [Workers -> Steps] /\ job \in [Workers -> 0..read]
      /\ after[w] \in {"reclaim", "read"}
  BY DEF TypeInv, TypeOK, WorkerTypes
<1>1. CASE Reclaim(w) \/ ReadGroup(w)
  BY <1>1, <1>p DEF Reclaim, ReadGroup
<1>2. CASE Take(w)
  BY <1>2, <1>p DEF Take
<1>3. CASE Ack(w) \/ Except(w) \/ Kill(w) \/ Crash(w)
  BY <1>3, <1>p DEF Ack, Except, Kill, Crash, Call, OnFailure
<1>4. CASE DeadLetter(w)
  BY <1>4, <1>p DEF DeadLetter
<1>5. CASE DeadLetterAck(w)
  BY <1>5, <1>p DEF DeadLetterAck
<1>6. CASE Mark(w) \/ Render(w)
  BY <1>6, <1>p DEF Mark, Render, Call
<1>7. CASE Fetch(w)
  BY <1>7, <1>p DEF Fetch, Returned
<1>8. CASE WriteReady(w) \/ WriteFailed(w)
  BY <1>8, <1>p DEF WriteReady, WriteFailed, Returned, Call
<1>9. QED
  BY <1>1, <1>2, <1>3, <1>4, <1>5, <1>6, <1>7, <1>8 DEF WorkerStep

LEMMA AckStep == TypeInv /\ AckInv /\ [Next]_vars => AckInv'
<1> SUFFICES ASSUME TypeInv, AckInv, [Next]_vars PROVE AckInv'
  OBVIOUS
<1>1. CASE UNCHANGED <<read, pending, done, dead, pc, job>>
  BY <1>1 DEF AckInv
<1>2. ASSUME NEW w \in Workers, WorkerStep(w) \/ Crash(w) PROVE AckInv'
  <2>1. \A j \in 1..read' : j \in pending' \/ j \in done' \cup dead'
    BY <1>2, WorkerEffects, StreamFacts DEF AckInv, Keeps, Delivers, Answers, Settles
  <2>2. QED
    BY <1>2, <2>1, WorkerAcks DEF AckInv
<1>3. QED
  BY <1>1, <1>2 DEF Next, vars, queue, worker, Enqueue, Ask, Edit, Delete, GoIdle

LEMMA AckInvariant == Safe => []AckInv
<1>1. Init => AckInv
  BY DEF Init, AckInv
<1>2. QED
  BY <1>1, AckStep, TypeInvariant, PTL DEF Safe

bus == [j \in Jobs |-> JobState(j)]

\* Every step of the queue is one of the bus, or none.
LEMMA BusStep == TypeInv /\ AckInv /\ [Next]_vars => [Bus!BusNext]_bus
<1> SUFFICES ASSUME TypeInv, AckInv, [Next]_vars
             PROVE  Bus!BusNext \/ bus' = bus
  BY DEF bus
<1>1. CASE Keeps
  BY <1>1 DEF Keeps, bus, JobState
<1>2. CASE Delivers
  <2>1. read + 1 \notin done \cup dead /\ read + 1 \notin 1..read /\ pending \subseteq 1..read
    BY StreamFacts DEF TypeInv, TypeOK, QueueTypes, HistoryTypes
  <2>2. ASSUME NEW i \in Jobs PROVE JobState(i)' = JobState(i)
    <3>1. i \in Int
      BY JobQueueAssumption DEF Jobs
    <3>2. CASE i = read + 1
      <4>1. JobState(i) = "queued"
        BY <1>2, <2>1, <3>2, StreamFacts DEF Delivers, JobState
      <4>2. JobState(i)' = "queued"
        BY <1>2, <2>1, <3>2, StreamFacts DEF Delivers, JobState
      <4>3. QED
        BY <4>1, <4>2
    <3>3. CASE i # read + 1
      BY <1>2, <3>1, <3>3, StreamFacts DEF Delivers, JobState
    <3>4. QED
      BY <3>2, <3>3
  <2>3. QED
    BY <2>2 DEF bus
<1>3. ASSUME NEW j \in 1..read, Answers(j) PROVE Bus!BusNext \/ bus' = bus
  <2>1. j \in Jobs
    BY StreamFacts
  <2>2. \A i \in Jobs : i # j => JobState(i)' = JobState(i)
    BY <1>3 DEF Answers, JobState
  <2>3. \/ JobState(j)' = JobState(j)
        \/ JobState(j) = "queued" /\ JobState(j)' = "answered"
    BY <1>3 DEF Answers, JobState
  <2>4. CASE JobState(j)' = JobState(j)
    BY <2>2, <2>4 DEF bus
  <2>5. CASE JobState(j) = "queued" /\ JobState(j)' = "answered"
    <3>1. bus' = [bus EXCEPT ![j] = "answered"] /\ bus[j] = "queued"
      BY <2>1, <2>2, <2>5 DEF bus
    <3>2. QED
      BY <2>1, <3>1 DEF bus, Bus!BusNext, Bus!Answer, Bus!Become
  <2>6. QED
    BY <2>3, <2>4, <2>5
<1>4. ASSUME NEW j \in 1..read, Settles(j) PROVE Bus!BusNext \/ bus' = bus
  <2>1. j \in Jobs /\ j <= read /\ ~(j > Len(stream))
    BY StreamFacts DEF Queued
  <2>2. \A i \in Jobs : i # j => JobState(i)' = JobState(i)
    BY <1>4 DEF Settles, JobState
  <2>3. \/ JobState(j)' = JobState(j)
        \/ JobState(j) = "answered" /\ JobState(j)' = "settled"
    BY <1>4, <2>1 DEF Settles, JobState
  <2>4. CASE JobState(j)' = JobState(j)
    BY <2>2, <2>4 DEF bus
  <2>5. CASE JobState(j) = "answered" /\ JobState(j)' = "settled"
    <3>1. bus' = [bus EXCEPT ![j] = "settled"] /\ bus[j] = "answered"
      BY <2>1, <2>2, <2>5 DEF bus
    <3>2. QED
      BY <2>1, <3>1 DEF bus, Bus!BusNext, Bus!Settle, Bus!Become
  <2>6. QED
    BY <2>3, <2>4, <2>5
<1>5. ASSUME NEW u \in Users, Enqueue(u) PROVE Bus!BusNext \/ bus' = bus
  <2>1. CASE stream' = stream
    BY <1>5, <2>1 DEF Enqueue, bus, JobState
  <2>2. CASE /\ Len(stream) < MaxJobs
             /\ stream' = Append(stream, [record |-> asking[u],
                                          asked |-> version[asking[u]]])
    <3>0. PICK j \in Nat : j = Len(stream) + 1
      BY StreamFacts
    <3>1. /\ asking[u] \in Records /\ version[asking[u]] \in Nat
          /\ stream \in Seq([record : Records, asked : Nat])
      BY <1>5 DEF Enqueue, TypeInv, TypeOK, RowTypes, QueueTypes
    <3>2. Len(stream') = j
      BY <2>2, <3>0, <3>1, AppendProperties
    <3>3. j \in Jobs /\ \A i \in Jobs : (i > Len(stream) <=> i >= j) /\ (i > j <=> i > Len(stream) /\ i # j)
      BY <2>2, <3>0, StreamFacts, JobQueueAssumption DEF Jobs
    <3>4. UNCHANGED <<read, pending, done, dead>>
      BY <1>5 DEF Enqueue
    <3>5. \A i \in Jobs : i # j => JobState(i)' = JobState(i)
      BY <3>2, <3>3, <3>4 DEF JobState
    <3>6. JobState(j) = "none"
      BY <3>0, <3>3 DEF JobState
    <3>7. JobState(j)' = "queued"
      <4>1. ~(j > j) /\ ~(j <= read) /\ j \notin done \cup dead
        BY <3>0, StreamFacts DEF TypeInv, TypeOK, QueueTypes, HistoryTypes
      <4>2. QED
        BY <3>2, <3>4, <4>1 DEF JobState
    <3>8. bus' = [bus EXCEPT ![j] = "queued"] /\ bus[j] = "none"
      BY <3>3, <3>5, <3>6, <3>7 DEF bus
    <3>9. \A i \in Jobs : bus[i] = "none" => j <= i
      BY <3>0, <3>3 DEF bus, JobState
    <3>10. QED
      BY <3>3, <3>8, <3>9 DEF bus, Bus!BusNext, Bus!Queue, Bus!Become
  <2>3. QED
    BY <1>5, <2>1, <2>2 DEF Enqueue
<1>6. QED
  BY <1>1, <1>2, <1>3, <1>4, <1>5, WorkerEffects
     DEF Next, vars, queue, worker, Ask, Edit, Delete, GoIdle, Keeps

\* No job is lost: one that has left the queue was answered first, its handler
\* having returned or the job being on the dead-letter stream.
THEOREM NoJobLost == Safe => AtLeastOnce
<1>1. Init => Bus!BusInit
  BY JobQueueAssumption DEF Init, Bus!BusInit, JobState, Jobs
<1>2. QED
  BY <1>1, BusStep, TypeInvariant, AckInvariant, PTL
     DEF Safe, AtLeastOnce, Bus!BusSafe, bus

-------------------------------------------------------------------------------
(* With one worker nobody else acknowledges its jobs or writes a status.   *)

SingleWorker == \A v, w \in Workers : v = w

Handling == {"fetch", "mark", "render", "ready", "failed"}

\* What the worker has claimed stays pending until it acknowledges it, and it
\* acknowledges a job only after taking its record out of PROCESSING.
ClaimInv ==
    /\ \A w \in Workers : pc[w] \in {"reclaim", "read"} => job[w] = 0
    /\ \A w \in Workers : batch[w] \subseteq pending /\ job[w] \notin batch[w]
    /\ \A w \in Workers : pc[w] \in Handling => job[w] \in pending
    /\ \A w \in Workers : pc[w] = "ack" => status[RecordOf(job[w])] # "PROCESSING"
    /\ ProcessingHasJob

\* The stream only grows.
LEMMA StreamGrows ==
  ASSUME TypeInv, [Next]_vars
  PROVE  \A j \in Queued : j \in Queued' /\ stream'[j] = stream[j]
<1>1. CASE stream' = stream
  BY <1>1 DEF Queued
<1>2. ASSUME NEW u \in Users,
             stream' = Append(stream, [record |-> asking[u],
                                       asked |-> version[asking[u]]]),
             Enqueue(u)
      PROVE  \A j \in Queued : j \in Queued' /\ stream'[j] = stream[j]
  <2>1. /\ stream \in Seq([record : Records, asked : Nat])
        /\ asking[u] \in Records /\ version[asking[u]] \in Nat
    BY <1>2 DEF Enqueue, TypeInv, TypeOK, QueueTypes, RowTypes
  <2>2. /\ Len(stream') = Len(stream) + 1
        /\ \A j \in 1..Len(stream) : stream'[j] = stream[j]
    BY <1>2, <2>1, AppendProperties
  <2>3. QED
    BY <2>2, StreamFacts DEF Queued
<1>3. ASSUME NEW w \in Workers, WorkerStep(w) \/ Crash(w) PROVE stream' = stream
  <2>1. CASE Reclaim(w) \/ ReadGroup(w) \/ Take(w) \/ Ack(w) \/ Except(w)
    BY <2>1 DEF Reclaim, ReadGroup, Take, Ack, Except, queue
  <2>2. CASE DeadLetter(w) \/ DeadLetterAck(w) \/ Kill(w) \/ Crash(w)
    BY <2>2 DEF DeadLetter, DeadLetterAck, Kill, Crash, queue
  <2>3. CASE Fetch(w) \/ Mark(w) \/ Render(w) \/ WriteReady(w) \/ WriteFailed(w)
    BY <2>3 DEF Fetch, Mark, Render, WriteReady, WriteFailed, queue
  <2>4. QED
    BY <1>3, <2>1, <2>2, <2>3 DEF WorkerStep
<1>4. QED
  BY <1>1, <1>2, <1>3 DEF Next, vars, queue, Ask, Edit, Delete, GoIdle, Enqueue

\* The steps of the others leave the claims alone.
LEMMA ClaimOthers ==
  ASSUME TypeInv, ClaimInv, [Next]_vars,
         \/ UNCHANGED vars
         \/ \E u \in Users : Enqueue(u) \/ \E r \in Records : Ask(u, r)
         \/ \E r \in Records : Edit(r) \/ Delete(r)
         \/ \E j \in Jobs : GoIdle(j)
  PROVE  ClaimInv'
<1>1. /\ UNCHANGED <<read, pending, dead, pc, batch, job>>
      /\ \A r \in Records : status'[r] \in {status[r], "DELETED"}
  BY DEF vars, Enqueue, Ask, Edit, Delete, GoIdle, queue, rows, worker,
     TypeInv, TypeOK, RowTypes
<1>2. \A w \in Workers : pc[w] = "ack" => job[w] \in Queued
  BY StreamFacts DEF TypeInv, JobsOK
<1>3. \A w \in Workers : pc'[w] = "ack" => status'[RecordOf(job[w])'] # "PROCESSING"
  BY <1>1, <1>2, StreamGrows, StreamFacts DEF ClaimInv, RecordOf
<1>4. ProcessingHasJob'
  <2>1. ASSUME NEW r \in Records, status'[r] = "PROCESSING"
        PROVE  \E j \in Queued' : RecordOf(j)' = r /\ (Unfinished(j)' \/ j \in dead')
    <3>1. status[r] = "PROCESSING"
      BY <1>1, <2>1
    <3>2. PICK j \in Queued : RecordOf(j) = r /\ (Unfinished(j) \/ j \in dead)
      BY <3>1 DEF ClaimInv, ProcessingHasJob
    <3>3. j \in Queued' /\ RecordOf(j)' = r
      BY <3>2, StreamGrows DEF RecordOf
    <3>4. QED
      BY <1>1, <3>2, <3>3 DEF Unfinished
  <2>2. QED
    BY <2>1 DEF ProcessingHasJob
<1>5. QED
  BY <1>1, <1>3, <1>4 DEF ClaimInv

\* What a step of the worker does to its claims.
LEMMA ClaimWorker ==
  ASSUME TypeInv, AckInv, ClaimInv, SingleWorker,
         NEW w \in Workers, WorkerStep(w) \/ Crash(w)
  PROVE  ClaimInv'
<1> USE DEF Goto, queue, rows
<1>p. /\ pc \in [Workers -> Steps] /\ job \in [Workers -> 0..read]
      /\ batch \in [Workers -> SUBSET (1..read)] /\ after \in [Workers -> {"reclaim", "read"}]
      /\ status \in [Records -> Statuses]
      /\ idle \subseteq pending /\ pending \subseteq 1..read /\ read \in Nat
  BY StreamFacts DEF TypeInv, TypeOK, WorkerTypes, RowTypes, QueueTypes
<1>w. \A v \in Workers : v = w
  BY DEF SingleWorker
<1>c. /\ pc[w] \in {"reclaim", "read"} => job[w] = 0
      /\ batch[w] \subseteq pending /\ job[w] \notin batch[w]
      /\ pc[w] \in Handling => job[w] \in pending
      /\ pc[w] = "ack" => status[RecordOf(job[w])] # "PROCESSING"
  BY DEF ClaimInv
<1>k. ASSUME UNCHANGED <<stream, status>>,
             \A j \in Queued : Unfinished(j) \/ j \in dead => Unfinished(j)' \/ j \in dead'
      PROVE  ProcessingHasJob'
  BY <1>k DEF ClaimInv, ProcessingHasJob, Queued, RecordOf
<1>s. ASSUME UNCHANGED <<stream, read, pending, dead>>, NEW s \in Statuses,
             status' = status \/ SetStatus(job[w], s),
             s # "PROCESSING" \/ job[w] \in pending, pc[w] \in Handling
      PROVE  /\ ProcessingHasJob'
             /\ SetStatus(job[w], s) /\ s # "PROCESSING"
                  => status'[RecordOf(job[w])] # "PROCESSING"
  <2>1. job[w] \in Queued /\ RecordOf(job[w]) \in Records
    BY <1>s, StreamFacts DEF TypeInv, JobsOK, Handling
  <2>2. ASSUME NEW r \in Records, status'[r] = "PROCESSING"
        PROVE  \/ status[r] = "PROCESSING"
               \/ r = RecordOf(job[w]) /\ s = "PROCESSING"
    BY <1>s, <1>p, <2>1, <2>2 DEF SetStatus
  <2>3. ProcessingHasJob'
    BY <1>s, <2>1, <2>2 DEF ClaimInv, ProcessingHasJob, Queued, RecordOf, Unfinished
  <2>4. QED
    BY <1>p, <2>1, <2>3 DEF SetStatus
<1>q. ASSUME ProcessingHasJob',
             pc'[w] \in {"reclaim", "read"} => job'[w] = 0,
             batch'[w] \subseteq pending', job'[w] \notin batch'[w],
             pc'[w] \in Handling => job'[w] \in pending',
             pc'[w] = "ack" => status'[RecordOf(job[w])'] # "PROCESSING"
      PROVE  ClaimInv'
  BY <1>q, <1>w DEF ClaimInv
<1>1. CASE Reclaim(w)
  <2>1. Claimed \subseteq pending
    BY <1>p DEF Claimed, First
  <2>2. ProcessingHasJob'
    BY <1>1, <1>k DEF Reclaim, Unfinished
  <2>3. QED
    BY <1>1, <1>p, <1>c, <1>q, <2>1, <2>2 DEF Reclaim, Handling
<1>2. CASE ReadGroup(w)
  <2>1. job' = job /\ job[w] = 0 /\ UNCHANGED <<stream, status, dead>>
    BY <1>2, <1>c DEF ReadGroup
  <2>2. CASE UNCHANGED <<read, pending, batch>> /\ pc' = [pc EXCEPT ![w] = "reclaim"]
    <3>1. ProcessingHasJob'
      BY <1>k, <2>1, <2>2 DEF Unfinished
    <3>2. QED
      BY <1>p, <1>c, <1>q, <2>1, <2>2, <3>1 DEF Handling
  <2>3. CASE read' = read + 1 /\ pending' = pending \cup {read + 1}
    <3>1. ASSUME NEW j \in Queued, Unfinished(j) PROVE Unfinished(j)'
      BY <2>3, <3>1, <1>p, StreamFacts DEF Unfinished, Queued
    <3>2. ProcessingHasJob'
      BY <1>k, <2>1, <3>1
    <3>3. \/ batch' = batch /\ pc' = [pc EXCEPT ![w] = "reclaim"]
          \/ batch' = [batch EXCEPT ![w] = {read + 1}] /\ pc' = [pc EXCEPT ![w] = "take"]
      BY <1>2, <2>3, <1>p DEF ReadGroup
    <3>4. pc'[w] \in {"take", "reclaim"} /\ batch'[w] \subseteq pending'
      BY <1>p, <1>c, <2>3, <3>3
    <3>5. job'[w] \notin batch'[w]
      BY <1>p, <1>c, <2>1, <3>3
    <3>6. QED
      BY <1>q, <2>1, <3>2, <3>4, <3>5 DEF Handling
  <2>4. QED
    BY <1>2, <2>2, <2>3 DEF ReadGroup
<1>3. CASE Take(w)
  <2>1. ProcessingHasJob'
    BY <1>3, <1>k DEF Take, Unfinished
  <2>2. CASE batch[w] # {}
    <3>1. PICK j \in First(batch[w], 1) : /\ job' = [job EXCEPT ![w] = j]
                                          /\ batch' = [batch EXCEPT ![w] = @ \ {j}]
      BY <1>3, <2>2 DEF Take
    <3>2. j \in batch[w]
      BY <3>1 DEF First
    <3>3. QED
      BY <1>3, <1>p, <1>c, <1>q, <2>1, <2>2, <3>1, <3>2 DEF Take, Handling
  <2>3. CASE batch[w] = {}
    BY <1>3, <1>p, <1>c, <1>q, <2>1, <2>3 DEF Take, Handling
  <2>4. QED
    BY <2>2, <2>3
<1>4. CASE Ack(w)
  <2>1. job[w] \in Queued /\ pending' \in {pending, pending \ {job[w]}}
    BY <1>4, StreamFacts DEF Ack, Call, Remove, TypeInv, JobsOK
  <2>2. ProcessingHasJob'
    BY <1>4, <1>c, <2>1 DEF Ack, ClaimInv, ProcessingHasJob, Queued, RecordOf, Unfinished
  <2>3. pc'[w] \in {"take", "except"}
    BY <1>4, <1>p DEF Ack, Call
  <2>4. QED
    BY <1>4, <1>p, <1>c, <1>q, <2>1, <2>2, <2>3 DEF Ack, Handling
<1>5. CASE Except(w)
  <2>1. ProcessingHasJob'
    BY <1>5, <1>k DEF Except, Unfinished
  <2>2. pc'[w] \in {"take", "dead"}
    BY <1>5, <1>p DEF Except, OnFailure
  <2>3. QED
    BY <1>5, <1>p, <1>c, <1>q, <2>1, <2>2 DEF Except, Handling
<1>6. CASE DeadLetter(w)
  <2>1. ProcessingHasJob'
    BY <1>6, <1>k DEF DeadLetter, Unfinished
  <2>2. QED
    BY <1>6, <1>p, <1>c, <1>q, <2>1 DEF DeadLetter, Restart, Handling
<1>7. CASE DeadLetterAck(w)
  <2>1. job[w] \in dead /\ pending' \in {pending, pending \ {job[w]}}
    BY <1>7 DEF DeadLetterAck, Remove, AckInv
  <2>2. ProcessingHasJob'
    BY <1>7, <1>k, <2>1 DEF DeadLetterAck, Unfinished
  <2>3. \/ Restart(w)
        \/ pc'[w] = "take" /\ UNCHANGED <<batch, job>>
    BY <1>7, <1>p DEF DeadLetterAck
  <2>4. QED
    BY <1>7, <1>p, <1>c, <1>q, <2>1, <2>2, <2>3 DEF DeadLetterAck, Restart, Handling
<1>8. CASE Kill(w) \/ Crash(w)
  <2>1. ProcessingHasJob'
    BY <1>8, <1>k DEF Kill, Crash, Unfinished
  <2>2. QED
    BY <1>8, <1>p, <1>c, <1>q, <2>1 DEF Kill, Crash, Restart, Handling
<1>9. CASE Fetch(w)
  <2>1. ProcessingHasJob'
    BY <1>9, <1>k DEF Fetch, Unfinished
  <2>2. pc'[w] = "ack" => status[RecordOf(job[w])] # "PROCESSING"
    BY <1>9, <1>p DEF Fetch, AlreadyReady
  <2>3. QED
    BY <1>9, <1>p, <1>c, <1>q, <2>1, <2>2 DEF Fetch, Handling, RecordOf
<1>10. CASE Mark(w)
  <2>1. ProcessingHasJob'
    BY <1>10, <1>c, <1>s DEF Mark, Call, Statuses, Handling
  <2>2. pc'[w] \in {"render", "except"}
    BY <1>10, <1>p DEF Mark, Call
  <2>3. QED
    BY <1>10, <1>p, <1>c, <1>q, <2>1, <2>2 DEF Mark, Handling
<1>11. CASE Render(w)
  <2>1. ProcessingHasJob'
    BY <1>11, <1>k DEF Render, Unfinished
  <2>2. pc'[w] \in {"ready", "failed"}
    BY <1>11, <1>p DEF Render, Call
  <2>3. QED
    BY <1>11, <1>p, <1>c, <1>q, <2>1, <2>2 DEF Render, Handling
<1>12. CASE WriteReady(w)
  <2>1. /\ ProcessingHasJob'
        /\ SetStatus(job[w], "READY") => status'[RecordOf(job[w])] # "PROCESSING"
    BY <1>12, <1>c, <1>s DEF WriteReady, Call, Statuses, Handling
  <2>2. /\ pc'[w] \in {"ack", "failed"}
        /\ pc'[w] = "ack" => SetStatus(job[w], "READY")
    BY <1>12, <1>p DEF WriteReady, Call
  <2>3. QED
    BY <1>12, <1>p, <1>c, <1>q, <2>1, <2>2 DEF WriteReady, Handling, RecordOf
<1>13. CASE WriteFailed(w)
  <2>1. /\ ProcessingHasJob'
        /\ SetStatus(job[w], "FAILED") => status'[RecordOf(job[w])] # "PROCESSING"
    BY <1>13, <1>c, <1>s DEF WriteFailed, Call, Statuses, Handling
  <2>2. /\ pc'[w] \in {"ack", "except"}
        /\ pc'[w] = "ack" => SetStatus(job[w], "FAILED")
    BY <1>13, <1>p DEF WriteFailed, Call
  <2>3. QED
    BY <1>13, <1>p, <1>c, <1>q, <2>1, <2>2 DEF WriteFailed, Handling, RecordOf
<1>14. QED
  BY <1>1, <1>2, <1>3, <1>4, <1>5, <1>6, <1>7, <1>8, <1>9, <1>10, <1>11, <1>12,
     <1>13 DEF WorkerStep

LEMMA ClaimInvariant == SingleWorker /\ Safe => []ClaimInv
<1>1. Init => ClaimInv
  BY DEF Init, ClaimInv, ProcessingHasJob, Handling
<1>2. TypeInv /\ AckInv /\ ClaimInv /\ SingleWorker /\ [Next]_vars => ClaimInv'
  BY ClaimOthers, ClaimWorker DEF Next
<1>3. CASE SingleWorker
  <2>1. TypeInv /\ AckInv /\ ClaimInv /\ [Next]_vars => ClaimInv'
    BY <1>2, <1>3
  <2>2. QED
    BY <1>1, <2>1, TypeInvariant, AckInvariant, PTL DEF Safe
<1>4. CASE ~SingleWorker
  BY <1>4
<1>5. QED
  BY <1>3, <1>4

\* With one worker a record that says PROCESSING has a job that is still to be
\* done, or one on the dead-letter stream.
THEOREM NotStuck == SingleWorker /\ Safe => []ProcessingHasJob
<1>1. ClaimInv => ProcessingHasJob
  BY DEF ClaimInv
<1>2. QED
  BY <1>1, ClaimInvariant, PTL

-------------------------------------------------------------------------------
(***************************************************************************)
(* With one worker the PDF of a READY record is as new as what was asked   *)
(* for.  The argument: the worker fetches a version that no job asked for  *)
(* later than (VersionsOK), nobody else overwrites the object or answers a *)
(* job before it has stored that version (SnapOK), and so the status and   *)
(* the object it writes agree (StoredOK).                                  *)
(***************************************************************************)

\* What was asked for is at most as new as the record; snapshots are not edited.
VersionsOK ==
    /\ \A j \in Queued : Asked(j) <= version[RecordOf(j)]
    /\ \A r \in Frozen : version[r] = 1

\* A version fetched is not older than what was asked for in the jobs that have
\* returned and in the job at hand.
SnapOK == \A w \in Workers : pc[w] \in {"mark", "render", "ready"} =>
    /\ snap[w] >= 1
    /\ \A j \in done \cup {job[w]} :
          RecordOf(j) = RecordOf(job[w]) => Asked(j) <= snap[w]

StoredOK == \A w \in Workers : pc[w] = "ready" => pdf[RecordOf(job[w])] = snap[w]

ReadyHasPdf == \A r \in Records : status[r] = "READY" => pdf[r] >= 1

FreshInv == VersionsOK /\ SnapOK /\ StoredOK /\ ReadyHasPdf /\ FreshPdf

\* Jobs that have returned, or are worked on, are in the stream.
LEMMA PlacesKnown ==
  ASSUME TypeInv
  PROVE  /\ done \subseteq Queued
         /\ \A w \in Workers :
              pc[w] \notin {"reclaim", "read", "take"} => job[w] \in Queued
BY StreamFacts DEF TypeInv, TypeOK, HistoryTypes, JobsOK

\* The steps of the users and of time: versions grow, rows may be deleted.
LEMMA FreshOthers ==
  ASSUME TypeInv, FreshInv, [Next]_vars,
         \/ UNCHANGED vars
         \/ \E u \in Users : Enqueue(u) \/ \E r \in Records : Ask(u, r)
         \/ \E r \in Records : Edit(r) \/ Delete(r)
         \/ \E j \in Jobs : GoIdle(j)
  PROVE  FreshInv'
<1>1. /\ UNCHANGED <<pdf, pc, job, snap, done>>
      /\ \A r \in Records : status'[r] \in {status[r], "DELETED"}
      /\ \A r \in Records : version'[r] \in Nat /\ version'[r] >= version[r]
      /\ \A r \in Frozen : version'[r] = version[r]
  <2>1. /\ status \in [Records -> Statuses] /\ version \in [Records -> Nat \ {0}]
        /\ Frozen \subseteq Records
    BY JobQueueAssumption DEF TypeInv, TypeOK, RowTypes
  <2>2. UNCHANGED <<pdf, pc, job, snap, done>>
    BY DEF vars, Enqueue, Ask, Edit, Delete, GoIdle, queue, rows, worker
  <2>3. CASE \E r \in Records : Edit(r)
    BY <2>1, <2>2, <2>3 DEF Edit
  <2>4. CASE \E r \in Records : Delete(r)
    BY <2>1, <2>2, <2>4 DEF Delete
  <2>5. CASE UNCHANGED rows
    BY <2>1, <2>2, <2>5 DEF rows
  <2>6. QED
    BY <2>3, <2>4, <2>5 DEF vars, Enqueue, Ask, GoIdle
<1>2. \A j \in Queued : /\ j \in Queued' /\ RecordOf(j)' = RecordOf(j)
                        /\ Asked(j)' = Asked(j)
  BY StreamGrows DEF RecordOf, Asked
<1>3. VersionsOK'
  <2>1. ASSUME NEW j \in Queued PROVE Asked(j)' <= version'[RecordOf(j)']
    BY <1>1, <1>2, StreamFacts DEF FreshInv, VersionsOK, TypeInv, TypeOK, RowTypes
  <2>2. ASSUME NEW j \in Queued', j \notin Queued
        PROVE  Asked(j)' <= version'[RecordOf(j)']
    <3>1. CASE stream' = stream
      BY <2>2, <3>1 DEF Queued
    <3>2. ASSUME NEW u \in Users, Enqueue(u),
                 stream' = Append(stream, [record |-> asking[u],
                                           asked |-> version[asking[u]]])
          PROVE  Asked(j)' <= version'[RecordOf(j)']
      <4>1. /\ stream \in Seq([record : Records, asked : Nat])
            /\ asking[u] \in Records /\ version[asking[u]] \in Nat
        BY <3>2 DEF Enqueue, TypeInv, TypeOK, QueueTypes, RowTypes
      <4>2. /\ Len(stream') = Len(stream) + 1
            /\ stream'[Len(stream) + 1] = [record |-> asking[u],
                                           asked |-> version[asking[u]]]
        BY <3>2, <4>1, AppendProperties
      <4>3. j = Len(stream) + 1
        BY <2>2, <4>2, StreamFacts DEF Queued
      <4>4. QED
        BY <3>2, <4>1, <4>2, <4>3 DEF Enqueue, rows, Asked, RecordOf
    <3>3. QED
      BY <3>1, <3>2 DEF vars, Enqueue, Ask, Edit, Delete, GoIdle, queue
  <2>3. QED
    BY <1>1, <2>1, <2>2 DEF VersionsOK, FreshInv
<1>4. SnapOK'
  BY <1>1, <1>2, PlacesKnown DEF FreshInv, SnapOK
<1>5. StoredOK'
  BY <1>1, <1>2, PlacesKnown DEF FreshInv, StoredOK
<1>6. ReadyHasPdf'
  BY <1>1 DEF FreshInv, ReadyHasPdf
<1>7. FreshPdf'
  <2>1. ASSUME NEW j \in done, status'[RecordOf(j)'] = "READY"
        PROVE  pdf'[RecordOf(j)'] >= Asked(j)'
    <3>1. j \in Queued /\ RecordOf(j) \in Records
      BY PlacesKnown, StreamFacts
    <3>2. status[RecordOf(j)] = "READY"
      BY <1>1, <1>2, <2>1, <3>1
    <3>3. QED
      BY <1>1, <1>2, <3>1, <3>2 DEF FreshInv, FreshPdf
  <2>2. QED
    BY <1>1, <2>1 DEF FreshPdf
<1>8. QED
  BY <1>3, <1>4, <1>5, <1>6, <1>7 DEF FreshInv

\* The steps of the worker.
LEMMA FreshWorker ==
  ASSUME TypeInv, FreshInv, SingleWorker,
         NEW w \in Workers, WorkerStep(w) \/ Crash(w)
  PROVE  FreshInv'
<1> USE DEF Goto
<1>t. /\ pc \in [Workers -> Steps] /\ job \in [Workers -> 0..read]
      /\ snap \in [Workers -> Nat] /\ done \subseteq Queued
      /\ status \in [Records -> Statuses] /\ pdf \in [Records -> Nat]
      /\ version \in [Records -> Nat \ {0}]
      /\ \A j \in Queued : RecordOf(j) \in Records /\ Asked(j) \in Nat
  BY StreamFacts, PlacesKnown DEF TypeInv, TypeOK, WorkerTypes, RowTypes
<1>f. FreshPdf /\ VersionsOK /\ SnapOK /\ StoredOK /\ ReadyHasPdf
  BY DEF FreshInv
<1>w. \A v \in Workers : v = w
  BY DEF SingleWorker
<1>v. UNCHANGED <<stream, version>>
  BY DEF WorkerStep, Crash, Reclaim, ReadGroup, Take, Ack, Except, DeadLetter,
     DeadLetterAck, Kill, Fetch, Mark, Render, WriteReady, WriteFailed, queue, rows
<1>1. VersionsOK'
  BY <1>v, <1>f DEF VersionsOK, Queued, Asked, RecordOf
\* A step that leaves rows and history alone and ends nowhere near the handler.
<1>q. ASSUME UNCHANGED <<status, pdf, done>>, pc'[w] \notin {"mark", "render", "ready"}
      PROVE  FreshInv'
  BY <1>q, <1>1, <1>v, <1>w, <1>f
     DEF FreshInv, SnapOK, StoredOK, ReadyHasPdf, FreshPdf, RecordOf, Asked
<1>2. CASE \/ Reclaim(w) \/ ReadGroup(w) \/ Take(w) \/ Ack(w) \/ Except(w)
           \/ DeadLetter(w) \/ DeadLetterAck(w) \/ Kill(w) \/ Crash(w)
  <2>1. UNCHANGED <<status, pdf, done>>
    BY <1>2 DEF Reclaim, ReadGroup, Take, Ack, Except, DeadLetter, DeadLetterAck,
       Kill, Crash, rows
  <2>2. pc'[w] \notin {"mark", "render", "ready"}
    <3>1. CASE Take(w)
      BY <3>1, <1>t DEF Take, TypeInv, TypeOK, WorkerTypes
    <3>2. CASE Ack(w) \/ Except(w)
      BY <3>2, <1>t DEF Ack, Except, Call, OnFailure
    <3>3. CASE DeadLetter(w) \/ DeadLetterAck(w) \/ Kill(w) \/ Crash(w)
      BY <3>3, <1>t DEF DeadLetter, DeadLetterAck, Kill, Crash, Restart
    <3>4. CASE Reclaim(w) \/ ReadGroup(w)
      BY <3>4, <1>t DEF Reclaim, ReadGroup
    <3>5. QED
      BY <1>2, <3>1, <3>2, <3>3, <3>4
  <2>3. QED
    BY <1>q, <2>1, <2>2
<1>j. CASE pc[w] \in Handling
  <2>j. job[w] \in Queued /\ RecordOf(job[w]) \in Records
    BY <1>j, <1>t, PlacesKnown DEF Handling
  \* A step of the handler in which the job may return.
  <2>r. ASSUME UNCHANGED <<pdf, job>>, done' \in {done, done \cup {job[w]}},
               pc'[w] \notin {"mark", "render", "ready"},
               NEW s \in Statuses, status' = status \/ SetStatus(job[w], s),
               s = "READY" => pdf[RecordOf(job[w])] >= 1,
               s = "READY" => \A j \in done \cup {job[w]} :
                  RecordOf(j) = RecordOf(job[w]) => pdf[RecordOf(j)] >= Asked(j),
               \/ done' = done
               \/ status'[RecordOf(job[w])] = "READY" =>
                      pdf[RecordOf(job[w])] >= Asked(job[w])
        PROVE  FreshInv'
    <3>1. \A r \in Records : status'[r] = "READY" =>
             \/ status[r] = "READY"
             \/ r = RecordOf(job[w]) /\ s = "READY"
      BY <2>r, <2>j, <1>t DEF SetStatus
    <3>2. ReadyHasPdf'
      BY <2>r, <3>1, <1>f DEF ReadyHasPdf
    <3>3. FreshPdf'
      BY <2>r, <2>j, <3>1, <1>f, <1>t, <1>v DEF FreshPdf, RecordOf, Asked
    <3>4. SnapOK' /\ StoredOK'
      BY <2>r, <1>w DEF SnapOK, StoredOK
    <3>5. QED
      BY <1>1, <3>2, <3>3, <3>4 DEF FreshInv
  <2>1. CASE Fetch(w)
    <3>1. CASE pc'[w] = "mark"
      <4>1. /\ UNCHANGED <<job, done, status, pdf>>
            /\ snap'[w] = version[RecordOf(job[w])]
        BY <2>1, <3>1, <1>t DEF Fetch, Returned, Fetched, rows
      <4>2. SnapOK'
        BY <3>1, <4>1, <2>j, <1>t, <1>w, <1>v, <1>f
           DEF SnapOK, VersionsOK, RecordOf, Asked
      <4>3. StoredOK' /\ ReadyHasPdf' /\ FreshPdf'
        BY <3>1, <4>1, <1>w, <1>v, <1>f
           DEF StoredOK, ReadyHasPdf, FreshPdf, RecordOf, Asked
      <4>4. QED
        BY <1>1, <4>2, <4>3 DEF FreshInv
    <3>2. CASE pc'[w] = "except"
      BY <2>1, <3>2, <1>q DEF Fetch, Returned, rows
    <3>3. CASE pc'[w] = "ack"
      <4>1. /\ UNCHANGED <<job, status, pdf>> /\ done' = done \cup {job[w]}
            /\ \/ status[RecordOf(job[w])] = "DELETED"
               \/ AlreadyReady(RecordOf(job[w]))
        BY <2>1, <3>3, <1>t DEF Fetch, Returned, rows
      <4>2. status[RecordOf(job[w])] = "READY" =>
               pdf[RecordOf(job[w])] >= Asked(job[w])
        BY <4>1, <2>j, <1>t, <1>f DEF AlreadyReady, VersionsOK, ReadyHasPdf
      <4>3. "FAILED" \in Statuses
        BY DEF Statuses
      <4>4. QED
        BY <2>r, <3>3, <4>1, <4>2, <4>3
    <3>4. QED
      BY <2>1, <3>1, <3>2, <3>3, <1>t DEF Fetch
  <2>2. CASE Mark(w)
    <3>1. /\ UNCHANGED <<pdf, job, done, snap>> /\ pc'[w] \in {"render", "except"}
          /\ pc[w] = "mark"
          /\ status' = status \/ SetStatus(job[w], "PROCESSING")
      BY <2>2, <1>t DEF Mark, Call
    <3>2. SnapOK' /\ StoredOK'
      BY <3>1, <1>w, <1>v, <1>f DEF SnapOK, StoredOK, RecordOf, Asked
    <3>3. \A r \in Records : status'[r] = "READY" => status[r] = "READY"
      BY <3>1, <2>j, <1>t DEF SetStatus
    <3>4. ReadyHasPdf' /\ FreshPdf'
      BY <3>1, <3>3, <1>t, <1>v, <1>f DEF ReadyHasPdf, FreshPdf, RecordOf, Asked
    <3>5. QED
      BY <1>1, <3>2, <3>4 DEF FreshInv
  <2>3. CASE Render(w)
    <3>1. /\ UNCHANGED <<status, job, done, snap>> /\ pc'[w] \in {"ready", "failed"}
          /\ pc[w] = "render"
          /\ pc'[w] = "ready" => pdf' = [pdf EXCEPT ![RecordOf(job[w])] = snap[w]]
          /\ pdf' = pdf \/ pdf' = [pdf EXCEPT ![RecordOf(job[w])] = snap[w]]
      BY <2>3, <1>t DEF Render, Call
    <3>2. /\ snap[w] >= 1
          /\ \A j \in done \cup {job[w]} :
                RecordOf(j) = RecordOf(job[w]) => Asked(j) <= snap[w]
      BY <3>1, <1>f DEF SnapOK
    <3>3. SnapOK'
      BY <3>1, <3>2, <1>w, <1>v DEF SnapOK, RecordOf, Asked
    <3>4. StoredOK'
      BY <3>1, <2>j, <1>w, <1>v, <1>t DEF StoredOK, RecordOf
    <3>5. ReadyHasPdf'
      BY <3>1, <3>2, <2>j, <1>t, <1>f DEF ReadyHasPdf
    <3>6. FreshPdf'
      BY <3>1, <3>2, <2>j, <1>t, <1>v, <1>f DEF FreshPdf, RecordOf, Asked
    <3>7. QED
      BY <1>1, <3>3, <3>4, <3>5, <3>6 DEF FreshInv
  <2>4. CASE WriteReady(w)
    <3>1. /\ UNCHANGED <<pdf, job>> /\ pc'[w] \in {"ack", "failed"}
          /\ pc[w] = "ready" /\ done' \in {done, done \cup {job[w]}}
          /\ status' = status \/ SetStatus(job[w], "READY")
      BY <2>4, <1>t DEF WriteReady, Call, Returned
    <3>2. /\ pdf[RecordOf(job[w])] >= 1
          /\ \A j \in done \cup {job[w]} :
                RecordOf(j) = RecordOf(job[w]) => pdf[RecordOf(j)] >= Asked(j)
      BY <3>1, <1>f, <1>t, <2>j DEF SnapOK, StoredOK
    <3>3. "READY" \in Statuses
      BY DEF Statuses
    <3>4. pdf[RecordOf(job[w])] >= Asked(job[w])
      BY <3>2
    <3>5. QED
      BY <2>r, <3>1, <3>2, <3>3, <3>4
  <2>5. CASE WriteFailed(w)
    <3>1. /\ UNCHANGED <<pdf, job>> /\ pc'[w] \in {"ack", "except"}
          /\ done' \in {done, done \cup {job[w]}}
          /\ status' = status \/ SetStatus(job[w], "FAILED")
          /\ pc'[w] = "except" \/ SetStatus(job[w], "FAILED")
          /\ pc'[w] = "except" => done' = done
      BY <2>5, <1>t DEF WriteFailed, Call, Returned
    <3>2. done' = done \/ status'[RecordOf(job[w])] # "READY"
      BY <3>1, <2>j, <1>t DEF SetStatus
    <3>3. "FAILED" \in Statuses
      BY DEF Statuses
    <3>4. QED
      BY <2>r, <3>1, <3>2, <3>3
  <2>6. QED
    BY <1>2, <2>1, <2>2, <2>3, <2>4, <2>5 DEF WorkerStep
<1>n. CASE pc[w] \notin Handling
  BY <1>2, <1>n DEF WorkerStep, Fetch, Mark, Render, WriteReady, WriteFailed, Handling
<1>3. QED
  BY <1>j, <1>n

\* With one worker no record is READY with a PDF older than the record was when
\* a job that has returned was asked for, whatever fails, crashes or is retried.
THEOREM PdfIsFresh == SingleWorker /\ Safe => []FreshPdf
<1>1. Init => FreshInv
  BY JobQueueAssumption
     DEF Init, FreshInv, VersionsOK, SnapOK, StoredOK, ReadyHasPdf, FreshPdf, Queued
<1>2. FreshInv => FreshPdf
  BY DEF FreshInv
<1>3. CASE SingleWorker
  <2>1. TypeInv /\ FreshInv /\ [Next]_vars => FreshInv'
    BY <1>3, FreshOthers, FreshWorker DEF Next
  <2>2. QED
    BY <1>1, <1>2, <2>1, TypeInvariant, PTL DEF Safe
<1>4. CASE ~SingleWorker
  BY <1>4
<1>5. QED
  BY <1>3, <1>4
===============================================================================
