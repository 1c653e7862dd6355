------------------------------- MODULE JobQueue -------------------------------
(***************************************************************************)
(* The job pipeline of AORMS: a Server Action asks for the PDF of a record *)
(* (lib/jobs/generate-pdf.ts), the gateway appends a job to a Redis stream *)
(* and the Python worker takes it from a consumer group, renders the PDF   *)
(* and writes pdf_status back (esti_worker/main.py, jobs/pdf.py).          *)
(*                                                                         *)
(* Every call to Redis, to the database or to the object store is one step *)
(* of a worker.  It works, or it fails, or it is done and its answer is    *)
(* lost; and the process may die between any two steps.                    *)
(***************************************************************************)
EXTENDS Integers, Sequences, FiniteSets

CONSTANTS
    Records,     \* rows with a pdf_status: invoices, letters, RA bills, ...
    Frozen,      \* those whose fetch selects pdf_status and pdf_key: feasibility
                 \* reports, snapshots that nobody edits
    Killers,     \* records whose rendering kills the worker process
    Users,       \* concurrent calls of generatePdfForTarget
    None,
    Workers,
    MaxRetries,  \* worker_max_retries
    BatchSize,   \* count of the XAUTOCLAIM
    Faults,      \* which failures happen, see FaultKinds
    MaxFaults,   \* bound: how many failures a behaviour has
    MaxJobs,     \* bound: the length of the stream
    MaxVersion   \* bound: how often a record is edited

FaultKinds == {"call", "reply", "crash"}

\* A variant with a longer name before a definition is a plausible mistake in
\* the same line, which the properties must tell from the code.

ASSUME JobQueueAssumption ==
    /\ None \notin Records
    /\ Frozen \subseteq Records /\ Killers \subseteq Records
    /\ MaxRetries \in Nat \ {0} /\ BatchSize \in Nat \ {0}
    /\ Faults \subseteq FaultKinds
    /\ MaxFaults \in Nat /\ MaxJobs \in Nat /\ MaxVersion \in Nat

VARIABLES
    stream,   \* esti:jobs: the record of each job, its version when asked for
    read,     \* the last job the group has delivered
    pending,  \* the pending entries list of the group
    idle,     \* pending jobs untouched for worker_reclaim_idle_ms
    count,    \* times_delivered of each job
    dead,     \* jobs on esti:jobs:dead
    status,   \* pdf_status
    version,  \* the content of the record
    pdf,      \* the version the stored PDF shows, 0 for none
    asking,   \* per user: the record whose status it has just read
    pc,       \* per worker: its next step
    after,    \* per worker: its step after the batch
    batch,    \* per worker: claimed jobs it has not come to yet
    job,      \* per worker: the job in process_entry
    snap,     \* per worker: the version fetched
    done,     \* history: jobs whose handler has returned
    faults    \* failures so far

queue == <<stream, read, pending, idle, count, dead>>
rows == <<status, version, pdf>>
worker == <<pc, after, batch, job, snap>>
vars == <<queue, rows, asking, worker, done, faults>>

Jobs == 1..MaxJobs
Queued == 1..Len(stream)
Steps == {"reclaim", "read", "take", "fetch", "mark", "render", "ready",
          "failed", "ack", "except", "dead", "deadAck"}
Statuses == {"NONE", "PROCESSING", "READY", "FAILED", "DELETED"}

RecordOf(j) == stream[j].record
Asked(j) == stream[j].asked

QueueTypes ==
    /\ stream \in Seq([record : Records, asked : Nat])
    /\ Len(stream) <= MaxJobs
    /\ read \in 0..Len(stream)
    /\ pending \subseteq 1..read
    /\ idle \subseteq pending
    /\ count \in [Jobs -> 0..MaxRetries]
    /\ dead \subseteq 1..read

RowTypes ==
    /\ status \in [Records -> Statuses]
    /\ version \in [Records -> Nat \ {0}]
    /\ pdf \in [Records -> Nat]
    /\ asking \in [Users -> Records \cup {None}]

WorkerTypes ==
    /\ pc \in [Workers -> Steps]
    /\ after \in [Workers -> {"reclaim", "read"}]
    /\ batch \in [Workers -> SUBSET (1..read)]
    /\ job \in [Workers -> 0..read]
    /\ snap \in [Workers -> Nat]

HistoryTypes ==
    /\ done \subseteq 1..read
    /\ faults \in Nat

TypeOK == QueueTypes /\ RowTypes /\ WorkerTypes /\ HistoryTypes

Init ==
    /\ stream = <<>> /\ read = 0
    /\ pending = {} /\ idle = {} /\ dead = {}
    /\ count = [j \in Jobs |-> 0]
    /\ status = [r \in Records |-> "NONE"]
    /\ version = [r \in Records |-> 1]
    /\ pdf = [r \in Records |-> 0]
    /\ asking = [u \in Users |-> None]
    /\ pc = [w \in Workers |-> "reclaim"]
    /\ after = [w \in Workers |-> "read"]
    /\ batch = [w \in Workers |-> {}]
    /\ job = [w \in Workers |-> 0]
    /\ snap = [w \in Workers |-> 0]
    /\ done = {}
    /\ faults = 0

-------------------------------------------------------------------------------
(* The Server Actions, which also edit and delete records.                 *)

\* generatePdfForTarget reads pdf_status and refuses while it is PROCESSING.
Ask(u, r) ==
    /\ asking[u] = None
    /\ status[r] \notin {"PROCESSING", "DELETED"}
    /\ asking' = [asking EXCEPT ![u] = r]
    /\ UNCHANGED <<queue, rows, worker, done, faults>>

\* XADD by the gateway, unless it cannot be reached or the firm is not found.
Enqueue(u) ==
    /\ asking[u] # None
    /\ \/ /\ Len(stream) < MaxJobs
          /\ stream' = Append(stream, [record |-> asking[u],
                                       asked |-> version[asking[u]]])
       \/ UNCHANGED stream
    /\ asking' = [asking EXCEPT ![u] = None]
    /\ UNCHANGED <<read, pending, idle, count, dead, rows, worker,
                   done, faults>>

Edit(r) ==
    /\ r \notin Frozen /\ version[r] < MaxVersion
    /\ version' = [version EXCEPT ![r] = @ + 1]
    /\ UNCHANGED <<queue, status, pdf, asking, worker, done, faults>>

Delete(r) ==
    /\ status' = [status EXCEPT ![r] = "DELETED"]
    /\ UNCHANGED <<queue, version, pdf, asking, worker, done, faults>>

\* Time passes: a pending job has been idle for worker_reclaim_idle_ms.
GoIdle(j) ==
    /\ j \in pending \ idle
    /\ idle' = idle \cup {j}
    /\ UNCHANGED <<stream, read, pending, count, dead, rows, asking, worker,
                   done, faults>>

-------------------------------------------------------------------------------
(* The loop of the worker: reclaim_stale, then XREADGROUP, and             *)
(* process_entry for what each of them returned.                           *)

Works == UNCHANGED faults
Fault(kind) == /\ kind \in Faults
               /\ faults < MaxFaults
               /\ faults' = faults + 1

Goto(w, step) == pc' = [pc EXCEPT ![w] = step]

\* A call works, or it raises: it was not carried out, or its answer is lost.
Call(w, effect, nothing, next, onError) ==
    \/ Works /\ effect /\ Goto(w, next)
    \/ Fault("call") /\ nothing /\ Goto(w, onError)
    \/ Fault("reply") /\ effect /\ Goto(w, onError)

\* The process starts again; what it had claimed stays pending.
Restart(w) ==
    /\ Goto(w, "reclaim")
    /\ after' = [after EXCEPT ![w] = "read"]
    /\ batch' = [batch EXCEPT ![w] = {}]
    /\ job' = [job EXCEPT ![w] = 0]
    /\ snap' = [snap EXCEPT ![w] = 0]

\* times_delivered, counted up to the only value it is compared with.
Delivered(j) == IF count[j] < MaxRetries THEN count[j] + 1 ELSE count[j]

First(jobs, n) == {j \in jobs : Cardinality({i \in jobs : i < j}) < n}

ClaimedUnlessTried == First({j \in idle : count[j] < MaxRetries}, BatchSize)
Claimed == First(idle, BatchSize)

\* XAUTOCLAIM from 0-0: the oldest idle jobs are delivered again.  When its
\* answer is lost they count as delivered and wait to be idle once more.
Reclaim(w) ==
    LET claimed == Claimed
    IN  /\ pc[w] = "reclaim"
        /\ \/ /\ idle' = idle \ claimed
              /\ count' = [j \in Jobs |-> IF j \in claimed THEN Delivered(j)
                                                           ELSE count[j]]
              /\ \/ /\ Works /\ Goto(w, "take")
                    /\ batch' = [batch EXCEPT ![w] = claimed]
                    /\ after' = [after EXCEPT ![w] = "read"]
                 \/ Fault("reply") /\ Goto(w, "read") /\ UNCHANGED <<batch, after>>
           \/ /\ Fault("call") /\ Goto(w, "read")
              /\ UNCHANGED <<idle, count, batch, after>>
        /\ UNCHANGED <<stream, read, pending, dead, rows, asking, job, snap,
                       done>>

\* XREADGROUP of one job.  When its answer is lost the job is pending all the
\* same; an error and an elapsed BLOCK both lead back to reclaim_stale.
ReadGroup(w) ==
    /\ pc[w] = "read"
    /\ \/ /\ read < Len(stream)
          /\ read' = read + 1
          /\ pending' = pending \cup {read + 1}
          /\ count' = [count EXCEPT ![read + 1] = 1]
          /\ \/ /\ Works /\ Goto(w, "take")
                /\ batch' = [batch EXCEPT ![w] = {read + 1}]
                /\ after' = [after EXCEPT ![w] = "reclaim"]
             \/ Fault("reply") /\ Goto(w, "reclaim") /\ UNCHANGED <<batch, after>>
       \/ /\ (read = Len(stream) /\ Works) \/ Fault("call")
          /\ Goto(w, "reclaim")
          /\ UNCHANGED <<read, pending, count, batch, after>>
    /\ UNCHANGED <<stream, idle, dead, rows, asking, job, snap, done>>

\* process_entry of the next job of the batch.
Take(w) ==
    /\ pc[w] = "take"
    /\ \/ /\ batch[w] # {}
          /\ Goto(w, "fetch")
          /\ \E j \in First(batch[w], 1) :
                /\ job' = [job EXCEPT ![w] = j]
                /\ batch' = [batch EXCEPT ![w] = @ \ {j}]
       \/ /\ batch[w] = {}
          /\ Goto(w, after[w])
          /\ job' = [job EXCEPT ![w] = 0]
          /\ UNCHANGED batch
    /\ snap' = [snap EXCEPT ![w] = 0]
    /\ UNCHANGED <<queue, rows, asking, after, done, faults>>

\* XACK
RemoveFromPending(w) == pending' = pending \ {job[w]} /\ UNCHANGED idle
Remove(w) == /\ pending' = pending \ {job[w]}
             /\ idle' = idle \ {job[w]}

\* The handler has returned, whatever it returned.
Ack(w) ==
    /\ pc[w] = "ack"
    /\ Call(w, Remove(w), UNCHANGED <<pending, idle>>, "take", "except")
    /\ UNCHANGED <<stream, read, count, dead, rows, asking, after, batch, job,
                   snap, done>>

\* _delivery_count says 1 when it fails or finds nothing pending.
OnFailureDrop(attempts) == IF attempts >= MaxRetries THEN "deadAck" ELSE "take"
OnFailure(attempts) == IF attempts >= MaxRetries THEN "dead" ELSE "take"

Except(w) ==
    /\ pc[w] = "except"
    /\ \/ /\ Works
          /\ Goto(w, OnFailure(IF job[w] \in pending THEN count[job[w]] ELSE 1))
       \/ Fault("call") /\ Goto(w, OnFailure(1))
    /\ UNCHANGED <<queue, rows, asking, after, batch, job, snap, done>>

\* _dead_letter: XADD, then XACK.  What they raise ends the process.
DeadLetter(w) ==
    /\ pc[w] = "dead"
    /\ \/ /\ Works /\ Goto(w, "deadAck")
          /\ dead' = dead \cup {job[w]}
          /\ UNCHANGED <<after, batch, job, snap>>
       \/ Fault("call") /\ Restart(w) /\ UNCHANGED dead
       \/ Fault("reply") /\ Restart(w) /\ dead' = dead \cup {job[w]}
    /\ UNCHANGED <<stream, read, pending, idle, count, rows, asking,
                   done>>

DeadLetterAck(w) ==
    /\ pc[w] = "deadAck"
    /\ \/ /\ Works /\ Goto(w, "take") /\ Remove(w)
          /\ UNCHANGED <<after, batch, job, snap>>
       \/ Fault("call") /\ Restart(w) /\ UNCHANGED <<pending, idle>>
       \/ Fault("reply") /\ Restart(w) /\ Remove(w)
    /\ UNCHANGED <<stream, read, count, dead, rows, asking, done>>

Crash(w) ==
    /\ Fault("crash")
    /\ Restart(w)
    /\ UNCHANGED <<queue, rows, asking, done>>

-------------------------------------------------------------------------------
(* The handler, render_pdf.                                                *)

\* PATCH of pdf_status; a deleted row matches nothing, and that is no error.
SetStatus(j, s) ==
    status' = [status EXCEPT ![RecordOf(j)] = IF @ = "DELETED" THEN @ ELSE s]

Returned(w) == done' = IF pc'[w] = "ack" THEN done \cup {job[w]} ELSE done

AlreadyReady(r) == r \in Frozen /\ status[r] = "READY"

FetchedAsAsked(j) == Asked(j)
Fetched(j) == version[RecordOf(j)]

Fetch(w) ==
    LET r == RecordOf(job[w])
        skip == status[r] = "DELETED" \/ AlreadyReady(r)
    IN  /\ pc[w] = "fetch"
        /\ \/ Works /\ skip /\ Goto(w, "ack") /\ UNCHANGED snap
           \/ Works /\ ~ skip /\ Goto(w, "mark")
                    /\ snap' = [snap EXCEPT ![w] = Fetched(job[w])]
           \/ Fault("call") /\ Goto(w, "except") /\ UNCHANGED snap
        /\ Returned(w)
        /\ UNCHANGED <<queue, rows, asking, after, batch, job>>

Mark(w) ==
    /\ pc[w] = "mark"
    /\ Call(w, SetStatus(job[w], "PROCESSING"), UNCHANGED status,
            "render", "except")
    /\ UNCHANGED <<queue, version, pdf, asking, after, batch, job, snap,
                   done>>

\* Rendering, and put_bytes under a key that is the same every time.
Render(w) ==
    LET r == RecordOf(job[w])
    IN  /\ pc[w] = "render" /\ r \notin Killers
        /\ Call(w, pdf' = [pdf EXCEPT ![r] = snap[w]], UNCHANGED pdf,
                "ready", "failed")
        /\ UNCHANGED <<queue, status, version, asking, after, batch, job, snap,
                       done>>

Kill(w) ==
    /\ pc[w] = "render" /\ RecordOf(job[w]) \in Killers
    /\ Restart(w)
    /\ UNCHANGED <<queue, rows, asking, done, faults>>

WriteReady(w) ==
    /\ pc[w] = "ready"
    /\ Call(w, SetStatus(job[w], "READY"), UNCHANGED status, "ack", "failed")
    /\ Returned(w)
    /\ UNCHANGED <<queue, version, pdf, asking, after, batch, job, snap>>

\* An error of the rendering is answered, one of this write is raised.
WriteFailed(w) ==
    /\ pc[w] = "failed"
    /\ Call(w, SetStatus(job[w], "FAILED"), UNCHANGED status, "ack", "except")
    /\ Returned(w)
    /\ UNCHANGED <<queue, version, pdf, asking, after, batch, job, snap>>

-------------------------------------------------------------------------------
WorkerStep(w) ==
    \/ Reclaim(w) \/ ReadGroup(w) \/ Take(w) \/ Ack(w) \/ Except(w)
    \/ DeadLetter(w) \/ DeadLetterAck(w) \/ Kill(w)
    \/ Fetch(w) \/ Mark(w) \/ Render(w) \/ WriteReady(w) \/ WriteFailed(w)

Next ==
    \/ \E u \in Users : Enqueue(u) \/ \E r \in Records : Ask(u, r)
    \/ \E r \in Records : Edit(r) \/ Delete(r)
    \/ \E j \in Jobs : GoIdle(j)
    \/ \E w \in Workers : WorkerStep(w) \/ Crash(w)

Safe == Init /\ [][Next]_vars

\* The worker keeps running (restart: always) and time keeps passing.
Spec == /\ Safe
        /\ \A w \in Workers : WF_vars(WorkerStep(w))
        /\ \A j \in Jobs : WF_vars(GoIdle(j))

-------------------------------------------------------------------------------
(* Properties.                                                             *)

\* A job leaves the pending list of main.py only when its handler has returned
\* or it is on the dead-letter stream, and in the end every job leaves it.
JobState(j) ==
    IF j > Len(stream) THEN "none"
    ELSE IF j <= read /\ j \notin pending THEN "settled"
    ELSE IF j \in done \cup dead THEN "answered" ELSE "queued"

Bus == INSTANCE JobBus WITH job <- [j \in Jobs |-> JobState(j)]
AtLeastOnce == Bus!BusSafe
SettledInTheEnd == Bus!BusSpec

\* While a record says PROCESSING, and generatePdfForTarget refuses to render
\* it again, a job for it is still to be done or is on the dead-letter stream.
Unfinished(j) == j > read \/ j \in pending
ProcessingHasJob ==
    \A r \in Records : status[r] = "PROCESSING" =>
        \E j \in Queued : RecordOf(j) = r /\ (Unfinished(j) \/ j \in dead)

\* The PDF of a READY record is as new as the record was when any of the jobs
\* that have returned was asked for.
FreshPdf ==
    \A j \in done : status[RecordOf(j)] = "READY" => pdf[RecordOf(j)] >= Asked(j)

\* main.py: a failed job "is reclaimed and retried once it has been idle", so
\* it does not stay pending because of a job that crashes its consumer.  This
\* fails when the crashing job is the older one: both are claimed in one batch.
OthersSettle ==
    \A j \in Jobs : (j \in pending /\ RecordOf(j) \notin Killers)
                       ~> j \notin pending
===============================================================================
