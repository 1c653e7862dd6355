------------------------------- MODULE AqcStore --------------------------------
(***************************************************************************)
(* The row store of one AQC project (migrations 0105 and 0111, the routes  *)
(* of app/api/aqc/v1 and lib/aqc/auth.ts).  Desktop clients sign in, adopt *)
(* the project, push batches of rows under an edit lease and catch up by   *)
(* sequence number.                                                        *)
(*                                                                         *)
(* A request is several calls to the database, and other requests run in   *)
(* between; a function of migration 0105 is one transaction, in which only *)
(* the lock on the row of aqc_projects holds others back.  The clients are *)
(* not part of the repository: they send what the contract allows.         *)
(***************************************************************************)
EXTENDS Integers, FiniteSets

CONSTANTS
    Clients,    \* desktop clients, one request at a time each
    AccountOf,  \* [Clients -> Accounts], who is signed in there
    AppOf,      \* [Clients -> Apps], aqc or aad
    Accounts, Apps,
    Rows,       \* the (section, row_id) of the project
    None,
    Batch,      \* ROW_BATCH, and the most rows of a push
    Page,       \* PAGE, which PostgREST's max_rows does not cut
    MaxSeq      \* bound: a push that would exceed it fails

ASSUME AqcAssumption ==
    /\ AccountOf \in [Clients -> Accounts] /\ AppOf \in [Clients -> Apps]
    /\ None \notin Clients /\ None \notin Accounts
    /\ IsFiniteSet(Rows)
    /\ Batch \in Nat \ {0} /\ Page \in Nat \ {0} /\ MaxSeq \in Nat

\* A variant with a longer name before a definition is a plausible mistake in
\* the same line, which the properties must tell from the code.

VARIABLES
    session,    \* aqc_sessions: the client whose session is the current one
    bound,      \* whether the project has its row in aqc_projects
    head,       \* head_seq
    holder,     \* lease_holder
    live,       \* now() <= lease_expires_at
    seq,        \* aqc_rows: the seq of each row, 0 for none
    writer,     \* updated_by, the client too
    lock,       \* the client whose transaction has locked the project
    pc,         \* per client: the next step of its request
    todo,       \* per client: rows its request still has to push
    late,       \* clients whose transaction began after lease_expires_at
    base,       \* per client: head_seq as its transaction has read it
    page,       \* per client: the answer to a catch-up, under way
    cursor,     \* per client: nextSince of its last catch-up
    copy,       \* per client: the seq of each row it was sent, 0 for none
    caught      \* history: clients that have caught up under the lease, which
                \* no other account has had since

project == <<bound, head, holder, live>>
rows == <<seq, writer>>
replica == <<page, cursor, copy>>
vars == <<session, project, rows, lock, pc, todo, late, base, replica, caught>>

Steps == {"idle", "bind", "lease", "push", "write",
          "read", "page"}
Seat(c) == <<AccountOf[c], AppOf[c]>>
Seats == Accounts \X Apps
NoPage == [rows |-> {}, store |-> [r \in Rows |-> 0], head |-> 0,
           next |-> 0, more |-> FALSE]

TypeOK ==
    /\ session \in [Seats -> Clients \cup {None}]
    /\ bound \in BOOLEAN
    /\ head \in Nat
    /\ holder \in Accounts \cup {None}
    /\ live \in BOOLEAN
    /\ seq \in [Rows -> Nat]
    /\ writer \in [Rows -> Clients \cup {None}]
    /\ lock \in Clients \cup {None}
    /\ pc \in [Clients -> Steps]
    /\ todo \in [Clients -> SUBSET Rows]
    /\ late \subseteq Clients
    /\ base \in [Clients -> Nat]
    /\ page \in [Clients -> [rows : SUBSET Rows, store : [Rows -> Nat],
                             head : Nat, next : Nat, more : BOOLEAN]]
    /\ cursor \in [Clients -> Nat]
    /\ copy \in [Clients -> [Rows -> Nat]]
    /\ caught \subseteq Clients

Init ==
    /\ session = [s \in Seats |-> None]
    /\ bound = FALSE /\ head = 0 /\ holder = None /\ live = FALSE
    /\ seq = [r \in Rows |-> 0] /\ writer = [r \in Rows |-> None]
    /\ lock = None
    /\ pc = [c \in Clients |-> "idle"]
    /\ todo = [c \in Clients |-> {}]
    /\ late = {}
    /\ base = [c \in Clients |-> 0]
    /\ page = [c \in Clients |-> NoPage]
    /\ cursor = [c \in Clients |-> 0]
    /\ copy = [c \in Clients |-> [r \in Rows |-> 0]]
    /\ caught = {}

-------------------------------------------------------------------------------
(* Signing in and asking.                                                  *)

Goto(c, step) == pc' = [pc EXCEPT ![c] = step]

\* aqc_start_session_v2: the session replaces the one of the same seat.
SignIn(c) ==
    /\ session' = [session EXCEPT ![Seat(c)] = c]
    /\ UNCHANGED <<project, rows, lock, pc, todo, late, base, replica, caught>>

\* authenticateAqc, which every route calls first: the session is checked by
\* a call of its own, and a replaced one is answered 409.  The transaction that
\* follows begins here and may have to wait.
Ask(c, step, S) ==
    /\ pc[c] = "idle"
    /\ session[Seat(c)] = c
    /\ Goto(c, step)
    /\ todo' = [todo EXCEPT ![c] = S]
    /\ late' = IF live THEN late ELSE late \cup {c}
    /\ UNCHANGED <<session, project, rows, lock, base, replica, caught>>

AskProject(c) == \E S \in SUBSET Rows : Ask(c, "bind", S)

\* The others name the project by the id of its row, which is never deleted.
AskLease(c) == bound /\ Ask(c, "lease", {})
AskPush(c) == /\ bound
              /\ \E S \in SUBSET Rows : /\ Cardinality(S) \in 1..Batch
                                        /\ Ask(c, "push", S)
AskRows(c) == bound /\ Ask(c, "read", {})

\* The request ends, with an answer or an error that leave nothing behind:
\* a transaction that has not committed is rolled back.
Stop(c) == /\ Goto(c, "idle")
           /\ todo' = [todo EXCEPT ![c] = {}]
           /\ base' = [base EXCEPT ![c] = 0]
End(c) == Stop(c) /\ late' = late \ {c}

\* A call fails, or the client no longer listens.
Fail(c) ==
    /\ pc[c] # "idle"
    /\ End(c)
    /\ lock' = IF lock = c THEN None ELSE lock
    /\ page' = [page EXCEPT ![c] = NoPage]
    /\ caught' = IF pc[c] = "page" THEN caught \ {c} ELSE caught
    /\ UNCHANGED <<session, project, rows, cursor, copy>>

-------------------------------------------------------------------------------
(* The edit lease.                                                         *)

HolderIsClient(c) == c
HolderOf(c) == AccountOf[c]

\* Two more minutes.  now() is the time at which a transaction began, so one
\* that has waited for the lock compares an older time with lease_expires_at.
Renew == live' = TRUE /\ late' = {}

Grant(c) ==
    /\ holder' = HolderOf(c)
    /\ Renew
    /\ caught' = {d \in caught : AccountOf[d] = AccountOf[c]}

Expire ==
    /\ live /\ live' = FALSE
    /\ UNCHANGED <<session, bound, head, holder, rows, lock, pc, todo, late,
                   base, replica, caught>>

\* aqc_bind_project: once, whoever comes first, and the lease with it.
BindProject(c) ==
    /\ pc[c] = "bind"
    /\ ~ bound
    /\ bound' = TRUE
    /\ Grant(c)
    /\ Goto(c, IF todo[c] = {} THEN "idle" ELSE "push")
    /\ UNCHANGED <<session, head, rows, lock, todo, base, replica>>

RefuseBind(c) ==
    /\ pc[c] = "bind"
    /\ bound
    /\ End(c)
    /\ UNCHANGED <<session, project, rows, lock, replica, caught>>

\* aqc_acquire_lease: one conditional update, which waits for the lock.
UnlockedAlways == TRUE
Unlocked == lock = None

LeaseFree(c) == holder = AccountOf[c] \/ c \in late

AcquireLease(c) ==
    /\ pc[c] = "lease" /\ bound /\ Unlocked
    /\ \/ LeaseFree(c) /\ Grant(c) /\ Stop(c)
       \/ ~ LeaseFree(c) /\ End(c) /\ UNCHANGED <<holder, live, caught>>
    /\ UNCHANGED <<session, bound, head, rows, lock, replica>>

-------------------------------------------------------------------------------
(* aqc_push_rows: SELECT ... FOR UPDATE of the project, the lease check, an *)
(* upsert per row, and the new head_seq.                                   *)

LeaseHeldBySomebody(c) == holder # None /\ c \notin late
LeaseHeld(c) == holder = AccountOf[c] /\ c \notin late

LockProject(c) ==
    /\ pc[c] = "push" /\ bound /\ Unlocked
    /\ LeaseHeld(c)
    /\ lock' = c
    /\ base' = [base EXCEPT ![c] = head]
    /\ Goto(c, "write")
    /\ UNCHANGED <<session, project, rows, todo, late, replica, caught>>

LeaseRequired(c) ==
    /\ pc[c] = "push" /\ Unlocked
    /\ ~ LeaseHeld(c)
    /\ End(c)
    /\ UNCHANGED <<session, project, rows, lock, replica, caught>>

\* A batch: all that is left, or ROW_BATCH rows of it.
IsBatch(S, left) == \/ S = left /\ Cardinality(S) <= Batch
                    \/ S \subseteq left /\ Cardinality(S) = Batch

\* place is the order of the rows in the batch.
Places(S) == {place \in [S -> 1..Cardinality(S)] :
                \A q, r \in S : place[q] = place[r] => q = r}

CommitRows(c) ==
    /\ pc[c] = "write"
    /\ \E S \in SUBSET todo[c] :
          /\ S # {} /\ IsBatch(S, todo[c])
          /\ base[c] + Cardinality(S) <= MaxSeq
          /\ \E place \in Places(S) :
                seq' = [r \in Rows |-> IF r \in S THEN base[c] + place[r]
                                                  ELSE seq[r]]
          /\ writer' = [r \in Rows |-> IF r \in S THEN c ELSE writer[r]]
          /\ head' = base[c] + Cardinality(S)
          /\ todo' = [todo EXCEPT ![c] = @ \ S]
          /\ Goto(c, IF S = todo[c] THEN "idle" ELSE "push")
    /\ Renew
    /\ lock' = None
    /\ base' = [base EXCEPT ![c] = 0]
    /\ UNCHANGED <<session, bound, holder, replica, caught>>

-------------------------------------------------------------------------------
(* GET rows?since=cursor: the rows after it, in the order of their seq, at *)
(* most Page of them.                                                      *)

After(c) == {r \in Rows : seq[r] > cursor[c]}

IsPage(S, rest) ==
    /\ Cardinality(S) <= Page
    /\ \A r \in S, q \in rest : seq[q] < seq[r] => q \in S
    /\ Cardinality(S) < Page => S = rest

\* nextSince: the seq of the last row, or since.
IsNext(n, S, since) ==
    \/ S = {} /\ n = since
    \/ \E r \in S : n = seq[r] /\ \A q \in S : seq[q] <= n

MoreIfOver(S) == Cardinality(S) > Page
More(S) == Cardinality(S) >= Page

ReadRows(c) ==
    /\ pc[c] = "read" /\ bound
    /\ \E S \in SUBSET After(c), n \in {cursor[c]} \cup {seq[r] : r \in Rows} :
          /\ IsPage(S, After(c))
          /\ IsNext(n, S, cursor[c])
          /\ page' = [page EXCEPT ![c] = [rows |-> S, store |-> seq,
                        head |-> head, next |-> n, more |-> More(S)]]
          /\ caught' = IF ~ More(S) /\ holder = AccountOf[c] THEN caught \cup {c}
                                                            ELSE caught
    /\ Goto(c, "page")
    /\ UNCHANGED <<session, project, rows, lock, todo, late, base,
                   cursor, copy>>

\* What the client has once it has taken the page in.
Merged(c) == [r \in Rows |-> IF r \in page[c].rows THEN page[c].store[r]
                                                   ELSE copy[c][r]]

TakePage(c) ==
    /\ pc[c] = "page"
    /\ copy' = [copy EXCEPT ![c] = Merged(c)]
    /\ cursor' = [cursor EXCEPT ![c] = page[c].next]
    /\ page' = [page EXCEPT ![c] = NoPage]
    /\ End(c)
    /\ UNCHANGED <<session, project, rows, lock, caught>>

-------------------------------------------------------------------------------
ClientStep(c) ==
    \/ SignIn(c) \/ AskProject(c) \/ AskLease(c) \/ AskPush(c) \/ AskRows(c)
    \/ BindProject(c) \/ RefuseBind(c)
    \/ AcquireLease(c) \/ LockProject(c) \/ LeaseRequired(c) \/ CommitRows(c)
    \/ ReadRows(c) \/ TakePage(c) \/ Fail(c)

Next == Expire \/ \E c \in Clients : ClientStep(c)

Spec == Init /\ [][Next]_vars

-------------------------------------------------------------------------------
(* Properties.                                                             *)

\* A client that asks for what comes after its cursor misses nothing: of the
\* rows up to its cursor it has what the store has.  So the numbers must come
\* to be seen in their order, whatever transactions run at the same time.
CopyIsCurrent ==
    \A c \in Clients, r \in Rows : seq[r] <= cursor[c] => copy[c][r] = seq[r]

\* The page that says more = false makes the copy of the client all of the
\* store as it was at that moment, although the pages before it were read at
\* other moments.
LastPageCompletes ==
    \A c \in Clients : pc[c] = "page" /\ ~ page[c].more
                          => Merged(c) = page[c].store

\* The lease is what AQC has instead of merging: a client that has caught up
\* since its account got the lease, and is the only one of its account,
\* overwrites no row that it has not seen, however long it then waits.
Alone(c) == \A d \in Clients : AccountOf[d] = AccountOf[c] => d = c
Seen(c, r) == copy[c][r] = seq[r] \/ writer[r] = c
NoLostUpdate ==
    [][\A c \in caught : Alone(c) /\ pc[c] = "write" =>
          \A r \in Rows : seq'[r] # seq[r] => Seen(c, r)]_vars
===============================================================================
