---------------------------- MODULE AqcStoreProofs -----------------------------
(***************************************************************************)
(* AqcStore, proved for every set of clients, accounts and rows and every  *)
(* page size.  Two facts carry the proofs: while a transaction holds the   *)
(* lock, head_seq is what it has read and the lease is its own; and a page *)
(* under way shows the rows as they still are, or as they were before they *)
(* got a seq beyond everything the page can speak of.                      *)
(***************************************************************************)
EXTENDS AqcStore, FiniteSetTheorems, TLAPS

\* Who is between SELECT ... FOR UPDATE and COMMIT has the lock and the lease.
LockOK == \A c \in Clients : pc[c] = "write" =>
    lock = c /\ bound /\ base[c] = head /\ holder = AccountOf[c]

\* No two rows have the same seq, and none is beyond head_seq.
SeqOK == /\ \A r \in Rows : seq[r] <= head
         /\ \A q, r \in Rows : seq[q] = seq[r] /\ seq[q] # 0 => q = r

\* A page holds the rows after the cursor and up to its nextSince.
PageOf(c, p) ==
    /\ cursor[c] <= p.next /\ p.next <= p.head /\ p.head <= head
    /\ \A r \in Rows :
          /\ p.store[r] <= p.head
          /\ seq[r] = p.store[r] \/ seq[r] > p.head
          /\ p.store[r] <= cursor[c] => copy[c][r] = p.store[r]
          /\ p.store[r] > cursor[c] /\ p.store[r] <= p.next => r \in p.rows
          /\ p.store[r] > cursor[c] /\ ~ p.more => r \in p.rows
          /\ r \in p.rows => p.store[r] > cursor[c]

PageOK == \A c \in Clients : pc[c] = "page" => PageOf(c, page[c])

CursorOK == \A c \in Clients : cursor[c] <= head

\* Only the account of a client that has caught up has had the lease since,
\* so what a page shows is still so when it arrives.
UpToDate(c) ==
    Alone(c) => \A r \in Rows :
        IF pc[c] = "page"
        THEN /\ seq[r] = page[c].store[r]
             /\ page[c].more => Seen(c, r)
        ELSE Seen(c, r)

CaughtOK == \A c \in caught : AccountOf[c] = holder /\ bound /\ UpToDate(c)

Sync == LockOK /\ SeqOK /\ PageOK /\ CursorOK /\ CopyIsCurrent
IInv == TypeOK /\ Sync
SInv == IInv /\ CaughtOK

LEMMA RowsFinite ==
  ASSUME NEW S \in SUBSET Rows
  PROVE  IsFiniteSet(S) /\ Cardinality(S) \in Nat
BY AqcAssumption, FS_Subset, FS_CardinalityType

LEMMA InitInv == Init => SInv
<1> SUFFICES ASSUME Init PROVE SInv
  OBVIOUS
<1>1. TypeOK
  BY AqcAssumption DEF Init, TypeOK, NoPage, Steps
<1>2. Sync
  BY AqcAssumption DEF Init, Sync, LockOK, SeqOK, PageOK, CursorOK, CopyIsCurrent
<1>3. CaughtOK
  BY DEF Init, CaughtOK
<1>4. QED
  BY <1>1, <1>2, <1>3 DEF SInv, IInv

-------------------------------------------------------------------------------
(* The types.                                                              *)

\* The steps that move no row and no page.
LEMMA AskTypes ==
  ASSUME TypeOK, NEW c \in Clients, NEW step \in Steps, NEW S \in SUBSET Rows,
         Ask(c, step, S)
  PROVE  TypeOK'
BY DEF Ask, Goto, TypeOK, project, rows, replica

LEMMA RequestTypes ==
  ASSUME TypeOK, NEW c \in Clients,
         \/ SignIn(c) \/ AskProject(c) \/ AskLease(c) \/ AskPush(c) \/ AskRows(c)
  PROVE  TypeOK'
<1>1. CASE SignIn(c)
  <2>1. Seat(c) \in Seats
    BY AqcAssumption DEF Seat, Seats
  <2>2. session' \in [Seats -> Clients \cup {None}]
    BY <1>1, <2>1 DEF SignIn, TypeOK
  <2>3. QED
    BY <1>1, <2>2 DEF SignIn, TypeOK, project, rows, replica
<1>2. CASE AskProject(c) \/ AskLease(c) \/ AskPush(c) \/ AskRows(c)
  BY <1>2, AskTypes DEF AskProject, AskLease, AskPush, AskRows, Steps
<1>3. QED
  BY <1>1, <1>2

LEMMA LeaseTypes ==
  ASSUME TypeOK, NEW c \in Clients,
         \/ BindProject(c) \/ RefuseBind(c) \/ AcquireLease(c)
         \/ LockProject(c) \/ LeaseRequired(c) \/ Fail(c)
  PROVE  TypeOK'
<1> USE AqcAssumption
<1>1. CASE BindProject(c)
  <2>1. bound' \in BOOLEAN /\ live' \in BOOLEAN
    BY <1>1 DEF BindProject, Grant, Renew
  <2>2. pc' \in [Clients -> Steps]
    BY <1>1 DEF BindProject, Goto, TypeOK, Steps
  <2>3. holder' \in Accounts \cup {None} /\ late' \subseteq Clients
        /\ caught' \subseteq Clients
    BY <1>1 DEF BindProject, Grant, Renew, HolderOf, TypeOK
  <2>4. QED
    BY <1>1, <2>1, <2>2, <2>3 DEF BindProject, TypeOK, rows, replica
<1>2. CASE RefuseBind(c)
  BY <1>2 DEF RefuseBind, End, Stop, Goto, TypeOK, project, rows, replica, Steps
<1>3. CASE AcquireLease(c)
  <2>0. Stop(c)
    BY <1>3 DEF AcquireLease, End
  <2>1. live' \in BOOLEAN
    BY <1>3 DEF AcquireLease, Grant, Renew, TypeOK
  <2>2. /\ pc' \in [Clients -> Steps] /\ todo' \in [Clients -> SUBSET Rows]
        /\ base' \in [Clients -> Nat]
    BY <2>0 DEF Stop, Goto, TypeOK, Steps
  <2>3. holder' \in Accounts \cup {None} /\ late' \subseteq Clients
        /\ caught' \subseteq Clients
    BY <1>3 DEF AcquireLease, End, Grant, Renew, HolderOf, TypeOK
  <2>4. QED
    BY <1>3, <2>1, <2>2, <2>3 DEF AcquireLease, TypeOK, rows, replica
<1>4. CASE LockProject(c)
  BY <1>4 DEF LockProject, Goto, TypeOK, project, rows, replica, Steps
<1>5. CASE LeaseRequired(c)
  BY <1>5 DEF LeaseRequired, End, Stop, Goto, TypeOK, project, rows, replica, Steps
<1>6. CASE Fail(c)
  <2>1. NoPage \in [rows : SUBSET Rows, store : [Rows -> Nat],
                    head : Nat, next : Nat, more : BOOLEAN]
    BY DEF NoPage
  <2>2. QED
    BY <1>6, <2>1 DEF Fail, End, Stop, Goto, TypeOK, project, rows, Steps
<1>7. QED
  BY <1>1, <1>2, <1>3, <1>4, <1>5, <1>6

LEMMA CommitTypes ==
  ASSUME TypeOK, NEW c \in Clients, CommitRows(c)
  PROVE  TypeOK'
<1> USE AqcAssumption
<1>1. PICK S \in SUBSET todo[c] :
        /\ \E place \in Places(S) :
              seq' = [r \in Rows |-> IF r \in S THEN base[c] + place[r] ELSE seq[r]]
        /\ writer' = [r \in Rows |-> IF r \in S THEN c ELSE writer[r]]
        /\ head' = base[c] + Cardinality(S)
        /\ todo' = [todo EXCEPT ![c] = @ \ S]
        /\ pc' = [pc EXCEPT ![c] = IF S = todo[c] THEN "idle" ELSE "push"]
  BY DEF CommitRows, Goto
<1>2. S \in SUBSET Rows
  BY <1>1 DEF TypeOK
<1>3. Cardinality(S) \in Nat
  BY <1>2, RowsFinite
<1>4. PICK place \in Places(S) :
        seq' = [r \in Rows |-> IF r \in S THEN base[c] + place[r] ELSE seq[r]]
  BY <1>1
<1>5. place \in [S -> 1..Cardinality(S)]
  BY <1>4 DEF Places
<1>6. seq' \in [Rows -> Nat]
  BY <1>2, <1>3, <1>4, <1>5 DEF TypeOK
<1>7. QED
  BY <1>1, <1>3, <1>6 DEF CommitRows, Renew, TypeOK, replica, Steps

LEMMA PullTypes ==
  ASSUME TypeOK, NEW c \in Clients, ReadRows(c) \/ TakePage(c)
  PROVE  TypeOK'
<1> USE AqcAssumption
<1>1. CASE ReadRows(c)
  <2>1. PICK S \in SUBSET After(c),
             n \in {cursor[c]} \cup {seq[r] : r \in Rows} :
          /\ page' = [page EXCEPT ![c] = [rows |-> S, store |-> seq,
                        head |-> head, next |-> n, more |-> More(S)]]
          /\ caught' = IF ~ More(S) /\ holder = AccountOf[c] THEN caught \cup {c}
                                                            ELSE caught
    BY <1>1 DEF ReadRows
  <2>2. S \in SUBSET Rows /\ n \in Nat /\ More(S) \in BOOLEAN
    BY <2>1 DEF After, More, TypeOK
  <2>3. page' \in [Clients -> [rows : SUBSET Rows, store : [Rows -> Nat],
                               head : Nat, next : Nat, more : BOOLEAN]]
    BY <2>1, <2>2 DEF TypeOK
  <2>4. caught' \subseteq Clients
    BY <2>1 DEF TypeOK
  <2>5. QED
    BY <1>1, <2>3, <2>4 DEF ReadRows, Goto, TypeOK, project, rows, Steps
<1>2. CASE TakePage(c)
  <2>1. NoPage \in [rows : SUBSET Rows, store : [Rows -> Nat],
                    head : Nat, next : Nat, more : BOOLEAN]
    BY DEF NoPage
  <2>2. Merged(c) \in [Rows -> Nat] /\ page[c].next \in Nat
    BY DEF Merged, TypeOK
  <2>3. QED
    BY <1>2, <2>1, <2>2 DEF TakePage, End, Stop, Goto, TypeOK, project, rows, Steps
<1>3. QED
  BY <1>1, <1>2

LEMMA TypeStep == TypeOK /\ [Next]_vars => TypeOK'
<1> SUFFICES ASSUME TypeOK, [Next]_vars PROVE TypeOK'
  OBVIOUS
<1>1. CASE UNCHANGED vars
  BY <1>1 DEF vars, TypeOK, project, rows, replica
<1>2. CASE Expire
  BY <1>2 DEF Expire, TypeOK, rows, replica
<1>3. CASE \E c \in Clients : ClientStep(c)
  <2>1. PICK c \in Clients : ClientStep(c)
    BY <1>3
  <2>2. QED
    BY <2>1, RequestTypes, LeaseTypes, CommitTypes, PullTypes DEF ClientStep
<1>4. QED
  BY <1>1, <1>2, <1>3 DEF Next

\* THEOREM TypeCorrect: the types of the store, its clients and the requests
\* under way, whatever they ask for and whichever calls fail.
THEOREM TypeCorrect == Spec => []TypeOK
<1>1. Init => TypeOK
  BY InitInv DEF SInv, IInv
<1>2. QED
  BY <1>1, TypeStep, PTL DEF Spec

-------------------------------------------------------------------------------
(* The store and the copies.                                               *)

\* Nothing that a client is up to date with has moved.
LEMMA StaysUpToDate ==
  ASSUME NEW d \in Clients, UpToDate(d), UNCHANGED <<seq, writer, copy>>,
         page'[d] = page[d], (pc'[d] = "page") <=> (pc[d] = "page")
  PROVE  UpToDate(d)'
BY DEF UpToDate, Seen, Alone

\* A request that begins, waits or ends, but neither locks nor reads, moves
\* nothing the invariant speaks of.
LEMMA QuietStep ==
  ASSUME SInv, NEW c \in Clients, NEW step \in Steps \ {"write", "page"},
         pc[c] # "page", Goto(c, step),
         \A d \in Clients : d # c => base'[d] = base[d],
         caught' \subseteq caught,
         UNCHANGED <<bound, head, holder, rows, lock, replica>>
  PROVE  Sync' /\ CaughtOK'
<1> USE DEF SInv, IInv
<1>0. /\ pc'[c] = step
      /\ \A d \in Clients : d # c => pc'[d] = pc[d]
  BY DEF Goto, TypeOK
<1>1. LockOK'
  BY <1>0 DEF Sync, LockOK
<1>2. SeqOK' /\ CursorOK' /\ CopyIsCurrent'
  BY DEF Sync, SeqOK, CursorOK, CopyIsCurrent, rows, replica
<1>3. PageOK'
  BY <1>0 DEF Sync, PageOK, PageOf, rows, replica
<1>4. ASSUME NEW d \in caught'
      PROVE  AccountOf[d] = holder' /\ bound' /\ UpToDate(d)'
  <2>1. d \in caught /\ d \in Clients /\ AccountOf[d] = holder /\ bound
        /\ UpToDate(d)
    BY DEF CaughtOK, TypeOK
  <2>2. (pc'[d] = "page") <=> (pc[d] = "page")
    BY <1>0, <2>1
  <2>3. UpToDate(d)'
    BY <2>1, <2>2, StaysUpToDate DEF rows, replica
  <2>4. QED
    BY <2>1, <2>3
<1>5. QED
  BY <1>1, <1>2, <1>3, <1>4 DEF Sync, CaughtOK

\* Nobody writes while the project is not locked.
LEMMA NoWriter ==
  ASSUME LockOK, None \notin Clients, Unlocked
  PROVE  \A c \in Clients : pc[c] # "write"
BY DEF LockOK, Unlocked

\* What holds of a page, the copies and the order is still so when only the
\* lease, the lock or a request that does not read has changed.
LEMMA RowsStay ==
  ASSUME Sync, UNCHANGED <<head, rows, replica>>,
         \A c \in Clients : pc'[c] = "page" => pc[c] = "page"
  PROVE  SeqOK' /\ CursorOK' /\ CopyIsCurrent' /\ PageOK'
BY DEF Sync, SeqOK, CursorOK, CopyIsCurrent, PageOK, PageOf, rows, replica

LEMMA RequestStep ==
  ASSUME SInv, NEW c \in Clients,
         \/ SignIn(c) \/ AskProject(c) \/ AskLease(c) \/ AskPush(c) \/ AskRows(c)
         \/ RefuseBind(c) \/ LeaseRequired(c)
  PROVE  Sync' /\ CaughtOK'
<1>1. CASE SignIn(c)
  BY <1>1 DEF SignIn, SInv, IInv, Sync, LockOK, SeqOK, PageOK, PageOf, CursorOK,
     CopyIsCurrent, CaughtOK, UpToDate, Seen, Alone, project, rows, replica
<1>2. ASSUME NEW step \in Steps \ {"write", "page"}, NEW S \in SUBSET Rows,
             Ask(c, step, S)
      PROVE  Sync' /\ CaughtOK'
  BY <1>2, QuietStep DEF Ask, project
<1>3. CASE AskProject(c) \/ AskLease(c) \/ AskPush(c) \/ AskRows(c)
  BY <1>2, <1>3 DEF AskProject, AskLease, AskPush, AskRows, Steps
<1>4. CASE RefuseBind(c) \/ LeaseRequired(c)
  <2>1. /\ pc[c] # "page" /\ Goto(c, "idle") /\ UNCHANGED caught
        /\ UNCHANGED <<bound, head, holder, rows, lock, replica>>
    BY <1>4 DEF RefuseBind, LeaseRequired, End, Stop, project
  <2>2. \A d \in Clients : d # c => base'[d] = base[d]
    BY <1>4 DEF RefuseBind, LeaseRequired, End, Stop, SInv, IInv, TypeOK
  <2>3. QED
    BY <2>1, <2>2, QuietStep DEF Steps
<1>5. QED
  BY <1>1, <1>3, <1>4

LEMMA FailStep ==
  ASSUME SInv, NEW c \in Clients, Fail(c)
  PROVE  Sync' /\ CaughtOK'
<1> USE DEF SInv, IInv
<1>0. /\ pc'[c] = "idle" /\ page'[c] = NoPage
      /\ \A d \in Clients : d # c => /\ pc'[d] = pc[d]
                                     /\ base'[d] = base[d]
                                     /\ page'[d] = page[d]
      /\ UNCHANGED <<bound, head, holder, seq, writer, cursor, copy>>
  BY DEF Fail, End, Stop, Goto, TypeOK, project, rows
<1>1. LockOK'
  BY <1>0 DEF Fail, Sync, LockOK
<1>2. SeqOK' /\ CursorOK' /\ CopyIsCurrent'
  BY <1>0 DEF Sync, SeqOK, CursorOK, CopyIsCurrent
<1>3. PageOK'
  BY <1>0 DEF Sync, PageOK, PageOf
<1>4. ASSUME NEW d \in caught'
      PROVE  AccountOf[d] = holder' /\ bound' /\ UpToDate(d)'
  <2>1. d \in caught /\ d \in Clients /\ AccountOf[d] = holder /\ bound
        /\ UpToDate(d)
    BY DEF Fail, CaughtOK, TypeOK
  <2>2. CASE d = c
    <3>1. pc[d] # "page"
      BY <2>2 DEF Fail
    <3>2. QED
      BY <1>0, <2>1, <2>2, <3>1 DEF UpToDate, Seen, Alone
  <2>3. CASE d # c
    BY <1>0, <2>1, <2>3, StaysUpToDate
  <2>4. QED
    BY <1>0, <2>1, <2>2, <2>3
<1>5. QED
  BY <1>1, <1>2, <1>3, <1>4 DEF Sync, CaughtOK

\* The lease goes to another account only while nobody writes, and then the
\* clients of the others are no longer caught up.
LEMMA GrantStep ==
  ASSUME SInv, NEW c \in Clients, BindProject(c) \/ AcquireLease(c)
  PROVE  Sync' /\ CaughtOK'
<1> USE AqcAssumption DEF SInv, IInv
<1>1. CASE BindProject(c)
  <2>0. /\ pc[c] = "bind" /\ pc'[c] \in {"idle", "push"}
        /\ \A d \in Clients : d # c => pc'[d] = pc[d]
    BY <1>1 DEF BindProject, Goto, TypeOK
  <2>1. \A d \in Clients : pc[d] # "write"
    BY <1>1 DEF BindProject, Sync, LockOK
  <2>2. LockOK'
    BY <2>0, <2>1 DEF LockOK
  <2>3. caught' = {}
    BY <1>1 DEF BindProject, Grant, Renew, CaughtOK
  <2>4. SeqOK' /\ CursorOK' /\ CopyIsCurrent' /\ PageOK'
    BY <1>1, <2>0, RowsStay DEF BindProject
  <2>5. QED
    BY <2>2, <2>3, <2>4 DEF Sync, CaughtOK
<1>2. CASE AcquireLease(c)
  <2>0. /\ pc[c] = "lease" /\ pc'[c] = "idle"
        /\ \A d \in Clients : d # c => pc'[d] = pc[d]
        /\ UNCHANGED <<bound, head, rows, lock, replica>>
        /\ bound
    BY <1>2 DEF AcquireLease, End, Stop, Goto, TypeOK
  <2>1. \A d \in Clients : pc[d] # "write"
    BY <1>2, NoWriter DEF AcquireLease, Sync
  <2>2. LockOK'
    BY <2>0, <2>1 DEF LockOK
  <2>3. SeqOK' /\ CursorOK' /\ CopyIsCurrent' /\ PageOK'
    BY <2>0, RowsStay
  <2>4. caught' \subseteq caught /\ \A d \in caught' : AccountOf[d] = holder'
    BY <1>2 DEF AcquireLease, Grant, HolderOf, CaughtOK
  <2>5. \A d \in caught' : bound' /\ UpToDate(d)'
    <3>1. TAKE d \in caught'
    <3>2. d \in caught /\ d \in Clients /\ UpToDate(d)
      BY <2>4 DEF CaughtOK, TypeOK
    <3>3. QED
      BY <2>0, <3>2, StaysUpToDate DEF rows, replica
  <2>6. QED
    BY <2>2, <2>3, <2>4, <2>5 DEF Sync, CaughtOK
<1>3. QED
  BY <1>1, <1>2

LEMMA LockStep ==
  ASSUME SInv, NEW c \in Clients, LockProject(c)
  PROVE  Sync' /\ CaughtOK'
<1> USE AqcAssumption DEF SInv, IInv
<1>0. /\ pc[c] = "push" /\ pc'[c] = "write"
      /\ base'[c] = head /\ lock' = c /\ bound /\ holder = AccountOf[c]
      /\ \A d \in Clients : d # c => pc'[d] = pc[d]
      /\ UNCHANGED <<bound, head, holder, rows, replica, caught>>
  BY DEF LockProject, LeaseHeld, Goto, TypeOK, project
<1>1. \A d \in Clients : pc[d] # "write"
  BY NoWriter DEF LockProject, Sync
<1>2. LockOK'
  BY <1>0, <1>1 DEF LockOK
<1>3. SeqOK' /\ CursorOK' /\ CopyIsCurrent' /\ PageOK'
  BY <1>0, RowsStay
<1>4. \A d \in caught' : d \in caught /\ UpToDate(d)'
  <2>1. TAKE d \in caught'
  <2>2. d \in caught /\ d \in Clients /\ UpToDate(d)
    BY <1>0 DEF CaughtOK, TypeOK
  <2>3. QED
    BY <1>0, <2>2, StaysUpToDate DEF rows, replica
<1>5. QED
  BY <1>0, <1>2, <1>3, <1>4 DEF Sync, CaughtOK
\* The rows of a push get numbers beyond all that anyone has read, and in the
\* order in which transactions commit, since the lock is held until then.
LEMMA CommitStep ==
  ASSUME SInv, NEW c \in Clients, CommitRows(c)
  PROVE  Sync' /\ CaughtOK'
<1> USE AqcAssumption DEF SInv, IInv
<1>1. PICK S \in SUBSET todo[c] :
        /\ S # {}
        /\ \E place \in Places(S) :
              seq' = [r \in Rows |-> IF r \in S THEN base[c] + place[r] ELSE seq[r]]
        /\ writer' = [r \in Rows |-> IF r \in S THEN c ELSE writer[r]]
        /\ head' = base[c] + Cardinality(S)
        /\ pc' = [pc EXCEPT ![c] = IF S = todo[c] THEN "idle" ELSE "push"]
  BY DEF CommitRows, Goto
<1>2. PICK place \in Places(S) :
        seq' = [r \in Rows |-> IF r \in S THEN base[c] + place[r] ELSE seq[r]]
  BY <1>1
<1>3. /\ S \in SUBSET Rows /\ Cardinality(S) \in Nat
      /\ place \in [S -> 1..Cardinality(S)]
      /\ \A q, r \in S : place[q] = place[r] => q = r
  BY <1>1, RowsFinite DEF TypeOK, Places
<1>4. /\ pc[c] = "write" /\ lock = c /\ bound /\ base[c] = head
      /\ holder = AccountOf[c] /\ holder' = AccountOf[c]
      /\ UNCHANGED <<bound, page, cursor, copy>>
      /\ UNCHANGED caught
  BY DEF CommitRows, Sync, LockOK, replica
<1>5. /\ pc'[c] \in {"idle", "push"}
      /\ \A d \in Clients : d # c => pc'[d] = pc[d] /\ pc[d] # "write"
  BY <1>1, <1>4 DEF TypeOK, Sync, LockOK
<1>6. /\ head \in Nat /\ head' \in Nat /\ head <= head'
      /\ \A r \in S : seq'[r] = head + place[r] /\ seq'[r] > head /\ seq'[r] <= head'
      /\ \A r \in Rows \ S : seq'[r] = seq[r]
      /\ \A r \in Rows : seq[r] \in Nat /\ seq'[r] \in Nat /\ seq[r] <= head
  BY <1>1, <1>2, <1>3, <1>4 DEF TypeOK, Sync, SeqOK
<1>7. LockOK'
  BY <1>5 DEF LockOK
<1>8. SeqOK'
  <2>1. \A r \in Rows : seq'[r] <= head'
    BY <1>6
  <2>2. ASSUME NEW q \in Rows, NEW r \in Rows, seq'[q] = seq'[r], seq'[q] # 0
        PROVE  q = r
    <3>1. CASE q \in S /\ r \in S
      <4>1. place[q] \in Nat /\ place[r] \in Nat
        BY <1>3, <3>1
      <4>2. place[q] = place[r]
        BY <1>6, <2>2, <3>1, <4>1
      <4>3. QED
        BY <1>3, <3>1, <4>2
    <3>2. CASE q \notin S /\ r \notin S
      BY <1>6, <2>2, <3>2 DEF Sync, SeqOK
    <3>3. CASE ~ (q \in S <=> r \in S)
      BY <1>6, <2>2, <3>3
    <3>4. QED
      BY <3>1, <3>2, <3>3
  <2>3. QED
    BY <2>1, <2>2 DEF SeqOK
<1>9. CursorOK' /\ CopyIsCurrent'
  <2>1. \A d \in Clients : cursor[d] \in Nat /\ cursor[d] <= head
    BY DEF TypeOK, Sync, CursorOK
  <2>2. CursorOK'
    BY <1>4, <1>6, <2>1 DEF CursorOK
  <2>3. CopyIsCurrent'
    BY <1>3, <1>4, <1>6, <2>1 DEF Sync, CopyIsCurrent
  <2>4. QED
    BY <2>2, <2>3
<1>10. PageOK'
  <2>1. SUFFICES ASSUME NEW d \in Clients, pc'[d] = "page"
                 PROVE  PageOf(d, page[d])'
    BY DEF PageOK
  <2>2. PageOf(d, page[d])
    BY <1>5, <2>1 DEF Sync, PageOK
  <2>3. page[d].head \in Nat
    BY DEF TypeOK
  <2>4. QED
    BY <1>3, <1>4, <1>6, <2>2, <2>3 DEF PageOf
<1>11. CaughtOK'
  <2>1. SUFFICES ASSUME NEW d \in caught' PROVE UpToDate(d)'
    BY <1>4 DEF CaughtOK
  <2>2. d \in caught /\ AccountOf[d] = AccountOf[c] /\ UpToDate(d)
    BY <1>4 DEF CaughtOK
  <2>3. SUFFICES ASSUME Alone(d) PROVE UpToDate(d)'
    BY DEF UpToDate, Alone
  <2>4. d = c
    BY <2>2, <2>3 DEF Alone
  <2>5. \A r \in Rows : Seen(c, r)
    BY <1>4, <2>2, <2>3, <2>4 DEF UpToDate
  <2>6. \A r \in Rows : Seen(c, r)'
    BY <1>1, <1>4, <1>6, <2>5 DEF Seen
  <2>7. pc'[d] # "page"
    BY <1>5, <2>4
  <2>8. QED
    BY <2>4, <2>6, <2>7 DEF UpToDate
<1>12. QED
  BY <1>7, <1>8, <1>9, <1>10, <1>11 DEF Sync

\* A read returns the rows after the cursor in their order, so what it leaves
\* out lies beyond its nextSince.
LEMMA ReadStep ==
  ASSUME SInv, NEW c \in Clients, ReadRows(c)
  PROVE  Sync' /\ CaughtOK'
<1> USE AqcAssumption DEF SInv, IInv
<1>1. PICK S \in SUBSET After(c),
           n \in {cursor[c]} \cup {seq[r] : r \in Rows} :
        /\ IsPage(S, After(c))
        /\ IsNext(n, S, cursor[c])
        /\ page' = [page EXCEPT ![c] = [rows |-> S, store |-> seq,
                      head |-> head, next |-> n, more |-> More(S)]]
        /\ caught' = IF ~ More(S) /\ holder = AccountOf[c] THEN caught \cup {c}
                                                          ELSE caught
  BY DEF ReadRows
<1>2. /\ page'[c] = [rows |-> S, store |-> seq, head |-> head, next |-> n,
                     more |-> More(S)]
      /\ pc[c] = "read" /\ pc'[c] = "page" /\ bound
      /\ \A d \in Clients : d # c => pc'[d] = pc[d] /\ page'[d] = page[d]
      /\ UNCHANGED <<bound, head, holder, seq, writer, lock, base, cursor, copy>>
  BY <1>1 DEF ReadRows, Goto, TypeOK, project, rows
<1>3. /\ head \in Nat /\ cursor[c] \in Nat /\ n \in Nat
      /\ \A r \in Rows : seq[r] \in Nat /\ seq[r] <= head
      /\ \A q, r \in Rows : seq[q] = seq[r] /\ seq[q] # 0 => q = r
      /\ cursor[c] <= head
      /\ \A r \in Rows : seq[r] <= cursor[c] => copy[c][r] = seq[r]
  BY <1>1 DEF TypeOK, Sync, SeqOK, CursorOK, CopyIsCurrent
<1>4. /\ S \in SUBSET Rows /\ \A r \in S : seq[r] > cursor[c]
      /\ Cardinality(S) \in Nat
      /\ ~ More(S) => \A r \in Rows : seq[r] > cursor[c] => r \in S
  <2>1. S \in SUBSET Rows /\ \A r \in S : seq[r] > cursor[c]
    BY <1>1 DEF After
  <2>2. Cardinality(S) \in Nat
    BY <2>1, RowsFinite
  <2>3. ~ More(S) => S = After(c)
    BY <1>1, <2>2 DEF IsPage, More
  <2>4. QED
    BY <2>1, <2>2, <2>3 DEF After
<1>5. cursor[c] <= n /\ n <= head
  BY <1>1, <1>3, <1>4 DEF IsNext
<1>6. ASSUME NEW r \in Rows, seq[r] > cursor[c], seq[r] <= n
      PROVE  r \in S
  <2>1. PICK q \in S : n = seq[q]
    BY <1>1, <1>3, <1>6 DEF IsNext
  <2>2. CASE seq[r] = n
    BY <1>3, <1>4, <1>6, <2>1, <2>2
  <2>3. CASE seq[r] < n
    BY <1>1, <1>6, <2>1, <2>3 DEF IsPage, After
  <2>4. QED
    BY <1>3, <1>6, <2>2, <2>3
<1>7. PageOf(c, page[c])'
  <2>1. /\ page'[c].rows = S /\ page'[c].store = seq /\ page'[c].head = head
        /\ page'[c].next = n /\ (page'[c].more <=> More(S))
    BY <1>2
  <2>2. QED
    BY <1>2, <1>3, <1>4, <1>5, <1>6, <2>1 DEF PageOf
<1>8. PageOK'
  <2>1. ASSUME NEW d \in Clients, d # c, pc'[d] = "page"
        PROVE  PageOf(d, page[d])'
    BY <1>2, <2>1 DEF Sync, PageOK, PageOf
  <2>2. QED
    BY <1>7, <2>1 DEF PageOK
<1>9. LockOK' /\ SeqOK' /\ CursorOK' /\ CopyIsCurrent'
  BY <1>2 DEF Sync, LockOK, SeqOK, CursorOK, CopyIsCurrent
<1>10. ASSUME NEW d \in caught'
       PROVE  AccountOf[d] = holder' /\ bound' /\ UpToDate(d)'
  <2>1. CASE d = c
    <3>1. /\ AccountOf[c] = holder
          /\ ~ More(S) \/ c \in caught
      BY <1>1, <2>1 DEF CaughtOK
    <3>2. CASE ~ More(S)
      BY <1>2, <2>1, <3>1, <3>2 DEF UpToDate
    <3>3. CASE c \in caught
      <4>1. Alone(c) => \A r \in Rows : Seen(c, r)
        BY <1>2, <3>3 DEF CaughtOK, UpToDate
      <4>2. QED
        BY <1>2, <2>1, <3>1, <4>1 DEF UpToDate, Seen, Alone
    <3>4. QED
      BY <3>1, <3>2, <3>3
  <2>2. CASE d # c
    <3>1. d \in caught /\ d \in Clients
      BY <1>1, <2>2 DEF TypeOK
    <3>2. AccountOf[d] = holder /\ bound /\ UpToDate(d)
      BY <3>1 DEF CaughtOK
    <3>3. UpToDate(d)'
      BY <1>2, <2>2, <3>1, <3>2, StaysUpToDate
    <3>4. QED
      BY <1>2, <3>2, <3>3
  <2>3. QED
    BY <2>1, <2>2
<1>11. QED
  BY <1>8, <1>9, <1>10 DEF Sync, CaughtOK

\* What a page holds and what the client had already make up the store as the
\* page saw it: up to nextSince, and all of it when nothing more follows.
LEMMA Merging ==
  ASSUME TypeOK, NEW c \in Clients, PageOf(c, page[c]), NEW r \in Rows
  PROVE  /\ page[c].store[r] <= page[c].next => Merged(c)[r] = page[c].store[r]
         /\ ~ page[c].more => Merged(c)[r] = page[c].store[r]
<1>1. page[c].store[r] \in Nat /\ cursor[c] \in Nat
  BY DEF TypeOK
<1>2. Merged(c)[r] = IF r \in page[c].rows THEN page[c].store[r] ELSE copy[c][r]
  BY DEF Merged
<1>3. CASE page[c].store[r] <= cursor[c]
  BY <1>2, <1>3 DEF PageOf
<1>4. CASE page[c].store[r] > cursor[c]
  BY <1>2, <1>4 DEF PageOf
<1>5. QED
  BY <1>1, <1>3, <1>4

LEMMA TakeStep ==
  ASSUME SInv, NEW c \in Clients, TakePage(c)
  PROVE  Sync' /\ CaughtOK'
<1> USE AqcAssumption DEF SInv, IInv
<1>1. /\ pc[c] = "page" /\ pc'[c] = "idle"
      /\ copy'[c] = Merged(c) /\ cursor'[c] = page[c].next
      /\ \A d \in Clients : d # c => /\ pc'[d] = pc[d] /\ base'[d] = base[d]
                                     /\ page'[d] = page[d]
                                     /\ copy'[d] = copy[d]
                                     /\ cursor'[d] = cursor[d]
      /\ UNCHANGED <<bound, head, holder, seq, writer, lock, caught>>
  BY DEF TakePage, End, Stop, Goto, TypeOK, project, rows
<1>2. PageOf(c, page[c])
  BY <1>1 DEF Sync, PageOK
<1>3. /\ page[c].next \in Nat /\ page[c].head \in Nat /\ head \in Nat
      /\ page[c].next <= page[c].head /\ page[c].head <= head
      /\ \A r \in Rows : /\ seq[r] \in Nat /\ page[c].store[r] \in Nat
                         /\ seq[r] = page[c].store[r] \/ seq[r] > page[c].head
  BY <1>2 DEF TypeOK, PageOf
<1>4. LockOK' /\ SeqOK'
  BY <1>1 DEF Sync, LockOK, SeqOK
<1>5. CursorOK'
  BY <1>1, <1>3 DEF Sync, CursorOK
<1>6. CopyIsCurrent'
  <2>1. \A r \in Rows : seq[r] <= page[c].next => Merged(c)[r] = seq[r]
    <3>1. TAKE r \in Rows
    <3>2. SUFFICES ASSUME seq[r] <= page[c].next PROVE Merged(c)[r] = seq[r]
      OBVIOUS
    <3>3. seq[r] = page[c].store[r]
      BY <1>3, <3>2
    <3>4. QED
      BY <1>2, <3>2, <3>3, Merging
  <2>2. QED
    BY <1>1, <2>1 DEF Sync, CopyIsCurrent
<1>7. PageOK'
  BY <1>1 DEF Sync, PageOK, PageOf
<1>8. ASSUME NEW d \in caught'
      PROVE  AccountOf[d] = holder' /\ bound' /\ UpToDate(d)'
  <2>1. d \in caught /\ d \in Clients /\ AccountOf[d] = holder /\ bound
        /\ UpToDate(d)
    BY <1>1 DEF CaughtOK, TypeOK
  <2>2. CASE d = c
    <3>1. SUFFICES ASSUME Alone(c), NEW r \in Rows PROVE Seen(c, r)'
      BY <1>1, <2>1, <2>2 DEF UpToDate, Alone
    <3>2. seq[r] = page[c].store[r] /\ (page[c].more => Seen(c, r))
      BY <1>1, <2>1, <2>2, <3>1 DEF UpToDate
    <3>3. CASE ~ page[c].more
      <4>1. Merged(c)[r] = seq[r]
        BY <1>2, <3>2, <3>3, Merging
      <4>2. QED
        BY <1>1, <4>1 DEF Seen
    <3>4. CASE page[c].more
      <4>1. Merged(c)[r] = seq[r] \/ writer[r] = c
        BY <3>2, <3>4 DEF Merged, Seen
      <4>2. QED
        BY <1>1, <4>1 DEF Seen
    <3>5. QED
      BY <3>3, <3>4
  <2>3. CASE d # c
    <3>1. (pc'[d] = "page") <=> (pc[d] = "page")
      BY <1>1, <2>1, <2>3
    <3>2. CASE Alone(d)
      BY <1>1, <2>1, <2>3, <3>1 DEF UpToDate, Seen, Alone
    <3>3. CASE ~ Alone(d)
      BY <1>1, <2>1, <3>3 DEF UpToDate, Alone
    <3>4. QED
      BY <3>2, <3>3
  <2>4. QED
    BY <1>1, <2>1, <2>2, <2>3
<1>9. QED
  BY <1>4, <1>5, <1>6, <1>7, <1>8 DEF Sync, CaughtOK

LEMMA SyncStep == SInv /\ [Next]_vars => SInv'
<1> SUFFICES ASSUME SInv, [Next]_vars PROVE SInv'
  OBVIOUS
<1>1. TypeOK'
  BY TypeStep DEF SInv, IInv
<1>2. CASE UNCHANGED vars
  BY <1>2 DEF vars, SInv, IInv, Sync, LockOK, SeqOK, PageOK, PageOf, CursorOK,
     CopyIsCurrent, CaughtOK, UpToDate, Seen, Alone, project, rows, replica, TypeOK
<1>3. CASE Expire
  BY <1>3 DEF Expire, SInv, IInv, Sync, LockOK, SeqOK, PageOK, PageOf, CursorOK,
     CopyIsCurrent, CaughtOK, UpToDate, Seen, Alone, rows, replica, TypeOK
<1>4. CASE \E c \in Clients : ClientStep(c)
  <2>1. PICK c \in Clients : ClientStep(c)
    BY <1>4
  <2>2. CASE \/ SignIn(c) \/ AskProject(c) \/ AskLease(c) \/ AskPush(c) \/ AskRows(c)
             \/ RefuseBind(c) \/ LeaseRequired(c)
    BY <2>2, <1>1, RequestStep DEF SInv, IInv
  <2>3. CASE BindProject(c) \/ AcquireLease(c)
    BY <2>3, <1>1, GrantStep DEF SInv, IInv
  <2>4. CASE LockProject(c) \/ CommitRows(c)
    BY <2>4, <1>1, LockStep, CommitStep DEF SInv, IInv
  <2>5. CASE ReadRows(c) \/ TakePage(c) \/ Fail(c)
    BY <2>5, <1>1, ReadStep, TakeStep, FailStep DEF SInv, IInv
  <2>6. QED
    BY <2>1, <2>2, <2>3, <2>4, <2>5 DEF ClientStep
<1>5. QED
  BY <1>2, <1>3, <1>4 DEF Next

LEMMA Invariant == Spec => []SInv
BY InitInv, SyncStep, PTL DEF Spec

\* THEOREM NothingMissed: of the rows up to its cursor a client has what the
\* store has, whatever is pushed, taken over or fails at the same time.
THEOREM NothingMissed == Spec => []CopyIsCurrent
<1>1. SInv => CopyIsCurrent
  BY DEF SInv, IInv, Sync
<1>2. QED
  BY <1>1, Invariant, PTL

\* THEOREM LastPage: a page with more = false makes the copy of the client all
\* of the store as that page saw it.
THEOREM LastPage == Spec => []LastPageCompletes
<1>1. SInv => LastPageCompletes
  <2>1. SUFFICES ASSUME SInv, NEW c \in Clients, pc[c] = "page", ~ page[c].more
                 PROVE  Merged(c) = page[c].store
    BY DEF LastPageCompletes
  <2>2. TypeOK /\ PageOf(c, page[c])
    BY <2>1 DEF SInv, IInv, Sync, PageOK
  <2>3. \A r \in Rows : Merged(c)[r] = page[c].store[r]
    BY <2>1, <2>2, Merging
  <2>4. page[c].store \in [Rows -> Nat] /\ Merged(c) = [r \in Rows |-> Merged(c)[r]]
    BY <2>2 DEF TypeOK, Merged
  <2>5. QED
    BY <2>3, <2>4
<1>2. QED
  BY <1>1, Invariant, PTL

\* THEOREM NoUpdateLost: a client that has caught up since its account got the
\* lease, and is the only one of its account, overwrites nothing unseen.
THEOREM NoUpdateLost == Spec => NoLostUpdate
<1>1. SInv => \A c \in caught : Alone(c) /\ pc[c] = "write" =>
                 \A r \in Rows : seq'[r] # seq[r] => Seen(c, r)
  BY DEF SInv, CaughtOK, UpToDate
<1>2. QED
  BY <1>1, Invariant, PTL DEF NoLostUpdate
===============================================================================
