------------------------------- MODULE Reconcile -------------------------------
(***************************************************************************)
(* Bank reconciliation (web/lib/actions/reconcile.ts, lib/reconcile/       *)
(* match.ts, migration 0087).  A statement is uploaded and its receipts    *)
(* are matched to the open invoices; settling the batch applies each       *)
(* matched receipt to its invoice.  Matching is a Server Action with       *)
(* separate calls to the database.  Settling is one transaction, READ      *)
(* COMMITTED: it takes the row lock of each invoice it comes to and keeps  *)
(* them until it commits; nobody else sees its writes before.              *)
(***************************************************************************)
EXTENDS Integers, Sequences, FiniteSets

CONSTANTS
    Invoices,
    Net,         \* net_receivable_paise of each
    Grand,       \* grand_total_paise of each
    Batches,     \* uploads of a statement
    Statement,   \* per batch: its receipts, [amount, names]: the invoices
                 \* whose reference is found in the description
    Staff,       \* requests that can be under way at the same time
    None,
    MaxRequests  \* bound: requests a behaviour has

ASSUME ReconcileAssumption ==
    /\ None \notin Invoices
    /\ Batches # {}
    /\ Net \in [Invoices -> Nat] /\ Grand \in [Invoices -> Nat]
    /\ Statement \in [Batches -> Seq([amount : Nat \ {0},
                                      names : SUBSET Invoices])]
    /\ MaxRequests \in Nat

VARIABLES
    status,   \* invoices.status
    paid,     \* invoices.paid_paise
    audit,    \* audit_log: the RECONCILE_SETTLE entries of each invoice
    state,    \* reconcile.status, "NONE" before the row
    lines,    \* reconcile.lines: the invoice of each receipt, and settledAt
    forms,    \* the statuses a page of the batch has shown so far: a tab left
              \* open still offers the form of that status
    pc,       \* per request: its next step
    batch,    \* per request: its batch
    open,     \* per request: the open invoices it has read
    work,     \* per request: v_new_lines
    at,       \* per request: the last line it has dealt with
    held,     \* per request: the invoices it has locked
    mine,     \* per request: status and paid of those, as it sees them
    entries,  \* per request: the audit entries it has inserted for each
    requests  \* requests so far

invoices == <<status, paid, audit>>
rows == <<state, lines, forms>>
transaction == <<work, at, held, mine, entries>>
reconcileVars == <<invoices, rows, pc, batch, open, transaction, requests>>

Entries == [batch : Batches, row : Nat, amount : Nat, before : Nat, after : Nat]
Lines == Seq([invoice : Invoices \cup {None}, settled : BOOLEAN])
Seen == [status : {"DRAFT", "ISSUED", "PAID"}, paid : Nat]

ReconcileTypeOK ==
    /\ status \in [Invoices -> {"DRAFT", "ISSUED", "PAID"}]
    /\ paid \in [Invoices -> Nat]
    /\ audit \in [Invoices -> Seq(Entries)]
    /\ state \in [Batches -> {"NONE", "PENDING", "READY", "FAILED"}]
    /\ lines \in [Batches -> Lines]
    /\ forms \in [Batches -> SUBSET {"READY", "FAILED"}]
    /\ pc \in [Staff -> {"idle", "read", "write", "settle"}]
    /\ batch \in [Staff -> Batches]
    /\ open \in [Staff -> SUBSET Invoices]
    /\ work \in [Staff -> Lines]
    /\ at \in [Staff -> Nat]
    /\ held \in [Staff -> SUBSET Invoices]
    /\ mine \in [Staff -> [Invoices -> Seen]]
    /\ entries \in [Staff -> [Invoices -> Seq(Entries)]]
    /\ requests \in Nat

AnyBatch == CHOOSE b \in Batches : TRUE
Unread == [i \in Invoices |-> [status |-> "DRAFT", paid |-> 0]]
NoEntries == [i \in Invoices |-> <<>>]

ReconcileInit ==
    /\ status \in [Invoices -> {"DRAFT", "ISSUED"}]
    /\ paid = [i \in Invoices |-> 0]
    /\ audit = NoEntries
    /\ state = [b \in Batches |-> "NONE"]
    /\ lines = [b \in Batches |-> <<>>]
    /\ forms = [b \in Batches |-> {}]
    /\ pc = [s \in Staff |-> "idle"]
    /\ batch = [s \in Staff |-> AnyBatch]
    /\ open = [s \in Staff |-> {}]
    /\ work = [s \in Staff |-> <<>>]
    /\ at = [s \in Staff |-> 0]
    /\ held = [s \in Staff |-> {}]
    /\ mine = [s \in Staff |-> Unread]
    /\ entries = [s \in Staff |-> NoEntries]
    /\ requests = 0

\* A variant with a longer name before a definition is a plausible mistake in
\* the same lines, which the properties must tell from the code.

-------------------------------------------------------------------------------
(* Uploading and matching.                                                  *)

Request(s) ==
    /\ pc[s] = "idle"
    /\ requests < MaxRequests
    /\ requests' = requests + 1

\* Server Actions check nothing that the page did not: a form that was offered
\* once can be sent at any time.
Start(s, b, step) ==
    /\ Request(s)
    /\ pc' = [pc EXCEPT ![s] = step]
    /\ batch' = [batch EXCEPT ![s] = b]

Upload(s, b) ==
    /\ state[b] = "NONE"
    /\ Start(s, b, "read")
    /\ state' = [state EXCEPT ![b] = "PENDING"]
    /\ UNCHANGED <<invoices, lines, forms, open, transaction>>

Remap(s, b) ==
    /\ "FAILED" \in forms[b]
    /\ Start(s, b, "read")
    /\ UNCHANGED <<invoices, rows, open, transaction>>

ReadOpen(s) ==
    /\ pc[s] = "read"
    /\ open' = [open EXCEPT ![s] = {i \in Invoices : status[i] = "ISSUED"}]
    /\ pc' = [pc EXCEPT ![s] = "write"]
    /\ UNCHANGED <<invoices, rows, batch, transaction, requests>>

\* The request is over: by its last call, or because its process died.
Forget(s) ==
    /\ pc' = [pc EXCEPT ![s] = "idle"]
    /\ batch' = [batch EXCEPT ![s] = AnyBatch]
    /\ open' = [open EXCEPT ![s] = {}]
    /\ work' = [work EXCEPT ![s] = <<>>]
    /\ at' = [at EXCEPT ![s] = 0]
    /\ held' = [held EXCEPT ![s] = {}]
    /\ mine' = [mine EXCEPT ![s] = Unread]
    /\ entries' = [entries EXCEPT ![s] = NoEntries]
    /\ UNCHANGED requests

\* The page of a READY batch offers to settle it only if something matched.
SetState(b, st, offers) ==
    /\ state' = [state EXCEPT ![b] = st]
    /\ forms' = [forms EXCEPT ![b] = IF offers THEN @ \cup {st} ELSE @]

\* A new batch whose invoices cannot be read is marked; a remap just ends.
ReadFails(s) ==
    /\ pc[s] = "read"
    /\ IF state[batch[s]] = "PENDING" THEN SetState(batch[s], "FAILED", TRUE)
                                      ELSE UNCHANGED <<state, forms>>
    /\ Forget(s)
    /\ UNCHANGED <<invoices, lines>>

\* matchLine: a reference that was found wins; otherwise exactly one invoice
\* must have the amount.
Hits(receipt, s) ==
    LET same == {i \in open[s] : receipt.amount \in {Grand[i], Net[i]}}
    IN  IF receipt.names \cap open[s] # {} THEN receipt.names \cap open[s]
        ELSE IF Cardinality(same) = 1 THEN same ELSE {None}

Matches(s) ==
    LET receipts == Statement[batch[s]]
    IN  {q \in [DOMAIN receipts -> [invoice : Invoices \cup {None},
                                    settled : {FALSE}]] :
            \A k \in DOMAIN receipts : q[k].invoice \in Hits(receipts[k], s)}

WriteLines(s) ==
    /\ pc[s] = "write"
    /\ \E q \in Matches(s) :
          /\ lines' = [lines EXCEPT ![batch[s]] = q]
          /\ SetState(batch[s], "READY", \E k \in DOMAIN q : q[k].invoice # None)
    /\ Forget(s)
    /\ UNCHANGED invoices

\* No column of the file is the amount, by its name or by the mapping.
NoAmountColumn(s) ==
    /\ pc[s] = "write"
    /\ SetState(batch[s], "FAILED", TRUE)
    /\ Forget(s)
    /\ UNCHANGED <<invoices, lines>>

-------------------------------------------------------------------------------
(* settle_reconcile_batch                                                   *)

\* The batch is read without a lock.
Settle(s, b) ==
    /\ "READY" \in forms[b]
    /\ Start(s, b, "settle")
    /\ work' = [work EXCEPT ![s] = lines[b]]
    /\ UNCHANGED <<invoices, rows, open, at, held, mine, entries>>

Todo(s) == {k \in DOMAIN work[s] :
               k > at[s] /\ ~work[s][k].settled /\ work[s][k].invoice # None}

NextLine(s, k) == k \in Todo(s) /\ \A l \in Todo(s) : k <= l

NeverLocked(s, i) == FALSE
Locked(s, i) == \E t \in Staff \ {s} : i \in held[t]

\* What the transaction sees of an invoice: its own writes, or what is stored
\* when it gets the lock.
Sees(s, i) ==
    IF i \in held[s] THEN mine[s][i] ELSE [status |-> status[i], paid |-> paid[i]]

Lock(s, k) ==
    LET i == work[s][k].invoice
    IN  /\ pc[s] = "settle"
        /\ NextLine(s, k)
        /\ ~Locked(s, i)
        /\ at' = [at EXCEPT ![s] = k]
        /\ held' = [held EXCEPT ![s] = @ \cup {i}]
        /\ UNCHANGED <<invoices, rows, pc, batch, open, requests>>

StatusAtPast(i, p) == IF p > Net[i] THEN "PAID" ELSE "ISSUED"
StatusAtPart(i, p) == IF p >= Net[i] THEN "PAID" ELSE "PARTIAL"
StatusAt(i, p) == IF p >= Net[i] THEN "PAID" ELSE "ISSUED"

Apply(s, k) ==
    LET i == work[s][k].invoice
        b == batch[s]
        amount == Statement[b][k].amount
        was == Sees(s, i).paid
    IN  /\ Lock(s, k)
        /\ Sees(s, i).status = "ISSUED"
        /\ mine' = [mine EXCEPT ![s][i] =
                       [status |-> StatusAt(i, was + amount), paid |-> was + amount]]
        /\ entries' = [entries EXCEPT ![s][i] =
                          Append(@, [batch |-> b, row |-> k, amount |-> amount,
                                     before |-> was, after |-> was + amount])]
        /\ work' = [work EXCEPT ![s][k].settled = TRUE]

SkipSettled(s, k) ==
    LET i == work[s][k].invoice
    IN  /\ Lock(s, k)
        /\ Sees(s, i).status # "ISSUED"
        /\ mine' = [mine EXCEPT ![s][i] = Sees(s, i)]
        /\ work' = [work EXCEPT ![s][k].settled = TRUE]
        /\ UNCHANGED entries

\* The invoice is not open any more: the line stays unsettled, and the
\* invoice locked.
Skip(s, k) ==
    LET i == work[s][k].invoice
    IN  /\ Lock(s, k)
        /\ Sees(s, i).status # "ISSUED"
        /\ mine' = [mine EXCEPT ![s][i] = Sees(s, i)]
        /\ UNCHANGED <<work, entries>>

Commit(s) ==
    /\ pc[s] = "settle"
    /\ Todo(s) = {}
    /\ status' = [i \in Invoices |-> IF i \in held[s] THEN mine[s][i].status
                                                      ELSE status[i]]
    /\ paid' = [i \in Invoices |-> IF i \in held[s] THEN mine[s][i].paid
                                                    ELSE paid[i]]
    /\ audit' = [i \in Invoices |-> audit[i] \o entries[s][i]]
    /\ lines' = [lines EXCEPT ![batch[s]] = work[s]]
    /\ Forget(s)
    /\ UNCHANGED <<state, forms>>

\* s waits for a row lock of t.
WaitsFor(s, t) ==
    /\ pc[s] = "settle" /\ t # s
    /\ \E k \in Todo(s) : NextLine(s, k) /\ work[s][k].invoice \in held[t]

DeadlockUnseen(s) == FALSE /\ Forget(s) /\ UNCHANGED <<invoices, rows>>

\* The database finds a cycle of waits and rolls one of its transactions back.
Deadlock(s) ==
    /\ \E cycle \in SUBSET Staff :
          /\ s \in cycle
          /\ \A t \in cycle : /\ \E u \in cycle : WaitsFor(t, u)
                              /\ \E u \in cycle : WaitsFor(u, t)
    /\ Forget(s)
    /\ UNCHANGED <<invoices, rows>>

\* The server process, or its connection, is gone; a transaction it had is
\* rolled back.
Die(s) ==
    /\ pc[s] # "idle"
    /\ Forget(s)
    /\ UNCHANGED <<invoices, rows>>

\* Nothing in web issues an invoice.
Issue(i) ==
    /\ status[i] = "DRAFT"
    /\ status' = [status EXCEPT ![i] = "ISSUED"]
    /\ UNCHANGED <<paid, audit, rows, pc, batch, open, transaction, requests>>

SettleStep(s) ==
    \/ \E k \in DOMAIN work[s] : Apply(s, k) \/ Skip(s, k)
    \/ Commit(s)
    \/ Deadlock(s)

ReconcileNext ==
    \/ \E s \in Staff, b \in Batches : Upload(s, b) \/ Remap(s, b) \/ Settle(s, b)
    \/ \E s \in Staff : ReadOpen(s) \/ ReadFails(s) \/ WriteLines(s)
                        \/ NoAmountColumn(s) \/ Die(s)
    \/ \E s \in Staff : SettleStep(s)
    \/ \E i \in Invoices : Issue(i)

ReconcileSpec == ReconcileInit /\ [][ReconcileNext]_reconcileVars

\* The database serves the waiters of a row lock in their order and looks for
\* cycles of waits after deadlock_timeout.
ReconcileFairness == \A s \in Staff : WF_reconcileVars(SettleStep(s))

-------------------------------------------------------------------------------
(* Properties.                                                              *)

\* Something was received, and it covers what is receivable.  An invoice for
\* nothing (invoices.ts:56-58 accepts 0) stays ISSUED until a receipt names it.
Covered(i, amount) == amount > 0 /\ amount >= Net[i]

Follows(q) == \A k \in 1..Len(q) - 1 : q[k + 1].before = q[k].after

\* Of an invoice, the audit log replays to the amount paid: every entry starts
\* where the one before ended, whichever batches were settled at the same time
\* or rolled back, and no receipt was added to an invoice already covered.
AuditReplays ==
    \A i \in Invoices :
        LET q == audit[i]
        IN  /\ Follows(q)
            /\ IF q = <<>> THEN paid[i] = 0
               ELSE q[1].before = 0 /\ q[Len(q)].after = paid[i]
            /\ \A k \in DOMAIN q : /\ q[k].after = q[k].before + q[k].amount
                                   /\ ~Covered(i, q[k].before)

\* An invoice is PAID exactly when what was received covers what is receivable.
PaidWhenCovered == \A i \in Invoices : status[i] = "PAID" <=> Covered(i, paid[i])

\* A line that shows as settled was applied: the audit log of its invoice has
\* it.  Settling twice at the same time, or remapping meanwhile, rewrites lines.
SettledIsApplied ==
    \A b \in Batches : \A k \in DOMAIN lines[b] :
        lines[b][k].settled =>
            \E e \in DOMAIN audit[lines[b][k].invoice] :
                LET entry == audit[lines[b][k].invoice][e]
                IN  entry.batch = b /\ entry.row = k

\* No receipt is applied twice: "marks the line itself settled so a re-run of
\* this same batch never double-applies it" (0087_reconcile.sql:58).
AppliedOnce ==
    \A i \in Invoices : \A k, l \in DOMAIN audit[i] :
        k # l => \/ audit[i][k].batch # audit[i][l].batch
                 \/ audit[i][k].row # audit[i][l].row

\* A settling that has begun ends, though settlings can wait for each other's
\* invoices in a circle.
SettleEnds == \A s \in Staff : pc[s] = "settle" ~> pc[s] = "idle"
===============================================================================
