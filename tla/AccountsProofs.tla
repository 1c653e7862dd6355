---------------------------- MODULE AccountsProofs ----------------------------
(***************************************************************************)
(* Accounts, proved for every set of invoices, statements and requests:    *)
(* what settling leaves in the ledger, and what an activation relies on.   *)
(***************************************************************************)
EXTENDS Accounts, TLAPS

-------------------------------------------------------------------------------
(* The invariant of the ledger.                                             *)

\* The entries lead an invoice from one amount paid to another.
Replays(i, q, start, end) ==
    /\ q \in Seq(Entries)
    /\ Follows(q)
    /\ IF q = <<>> THEN end = start ELSE q[1].before = start /\ q[Len(q)].after = end
    /\ \A k \in DOMAIN q : /\ q[k].after = q[k].before + q[k].amount
                           /\ ~Covered(i, q[k].before)
Has(q, b, k) == \E e \in DOMAIN q : q[e].batch = b /\ q[e].row = k

Exclusive == \A s, t \in Staff : s # t => held[s] \cap held[t] = {}
\* What a transaction has not committed yet continues what is stored.
Uncommitted == \A s \in Staff : \A i \in Invoices :
    IF i \in held[s]
    THEN /\ Replays(i, entries[s][i], paid[i], mine[s][i].paid)
         /\ paid[i] <= mine[s][i].paid
         /\ mine[s][i].status = "PAID" <=> Covered(i, mine[s][i].paid)
    ELSE entries[s][i] = <<>>
\* Only a settling has lines in hand, and they are those of its batch.
InHand == \A s \in Staff :
    /\ pc[s] # "settle" => work[s] = <<>>
    /\ DOMAIN work[s] \subseteq DOMAIN Statement[batch[s]]
    /\ \A k \in DOMAIN work[s] : work[s][k].settled =>
          /\ work[s][k].invoice \in Invoices
          /\ \/ Has(audit[work[s][k].invoice], batch[s], k)
             \/ Has(entries[s][work[s][k].invoice], batch[s], k)
Stored == \A b \in Batches :
    /\ DOMAIN lines[b] \subseteq DOMAIN Statement[b]
    /\ \A k \in DOMAIN lines[b] : lines[b][k].settled =>
          /\ lines[b][k].invoice \in Invoices
          /\ Has(audit[lines[b][k].invoice], b, k)
AuditRuns == \A i \in Invoices : Replays(i, audit[i], 0, paid[i])
LedgerInv ==
    /\ ReconcileTypeOK /\ Exclusive /\ Uncommitted /\ InHand /\ Stored
    /\ AuditRuns /\ PaidWhenCovered

LEMMA EmptyReplays ==
  ASSUME NEW i, NEW a
  PROVE  Replays(i, <<>>, a, a) /\ \A b, k : ~Has(<<>>, b, k)
BY DEF Replays, Follows, Has

LEMMA AppendFacts ==
  ASSUME NEW S, NEW q \in Seq(S), NEW e \in S, NEW n, n = Len(q)
  PROVE  /\ Append(q, e) \in Seq(S) /\ Append(q, e) # <<>>
         /\ n \in Nat /\ DOMAIN q = 1..n
         /\ Len(Append(q, e)) = n + 1
         /\ DOMAIN Append(q, e) = 1..n + 1
         /\ \A k \in 1..n : Append(q, e)[k] = q[k]
         /\ Append(q, e)[n + 1] = e
<1>1. /\ Append(q, e) \in Seq(S) /\ n \in Nat /\ DOMAIN q = 1..n
      /\ Len(Append(q, e)) = n + 1
      /\ DOMAIN Append(q, e) = 1..n + 1
      /\ \A k \in 1..n : Append(q, e)[k] = q[k]
      /\ Append(q, e)[n + 1] = e
  OBVIOUS
<1>2. Len(Append(q, e)) # 0
  BY <1>1
<1>3. QED
  BY <1>1, <1>2

LEMMA ConcatFacts ==
  ASSUME NEW S, NEW q \in Seq(S), NEW r \in Seq(S), NEW n, n = Len(q), NEW m, m = Len(r)
  PROVE  /\ q \o r \in Seq(S) /\ n \in Nat /\ m \in Nat
         /\ DOMAIN q = 1..n /\ DOMAIN r = 1..m
         /\ Len(q \o r) = n + m /\ DOMAIN (q \o r) = 1..n + m
         /\ \A k \in 1..n : (q \o r)[k] = q[k]
         /\ \A k \in 1..m : (q \o r)[n + k] = r[k]
OBVIOUS

LEMMA AppendReplays ==
  ASSUME NEW i \in Invoices, NEW q, NEW a \in Nat, NEW c \in Nat, Replays(i, q, a, c),
         ~Covered(i, c), NEW amount \in Nat, NEW b \in Batches, NEW row \in Nat
  PROVE  LET e == [batch |-> b, row |-> row, amount |-> amount, before |-> c,
                   after |-> c + amount]
         IN  /\ Replays(i, Append(q, e), a, c + amount)
             /\ Has(Append(q, e), b, row)
             /\ \A d, k : Has(q, d, k) => Has(Append(q, e), d, k)
<1> DEFINE e == [batch |-> b, row |-> row, amount |-> amount, before |-> c,
                 after |-> c + amount]
           p == Append(q, e)
<1>0. PICK n : n = Len(q)
  OBVIOUS
<1>1. /\ e \in Entries /\ e.before = c /\ e.after = c + amount /\ e.amount = amount
      /\ e.batch = b /\ e.row = row
  BY DEF Entries
<1> HIDE DEF e
<1>2. /\ q \in Seq(Entries) /\ n \in Nat /\ DOMAIN q = 1..n /\ n = Len(q)
      /\ p \in Seq(Entries) /\ Len(p) = n + 1 /\ DOMAIN p = 1..n + 1 /\ p # <<>>
      /\ \A k \in 1..n : p[k] = q[k]
      /\ p[n + 1] = e
  <2>1. q \in Seq(Entries)
    BY DEF Replays
  <2>2. QED
    BY <1>0, <1>1, <2>1, AppendFacts
<1> HIDE DEF p
<1>3. Follows(p)
  <2>1. ASSUME NEW k \in 1..n PROVE p[k + 1].before = p[k].after
    <3>1. CASE k = n
      <4>1. q # <<>> /\ q[n].after = c
        BY <1>2, <3>1 DEF Replays
      <4>2. QED
        BY <1>1, <1>2, <3>1, <4>1
    <3>2. CASE k < n
      <4>1. q[k + 1].before = q[k].after
        BY <1>2, <3>2 DEF Replays, Follows
      <4>2. QED
        BY <1>2, <3>2, <4>1
    <3>3. k = n \/ k < n
      <4>1. n \in Nat
        BY <1>2
      <4>2. QED
        BY <2>1, <4>1
    <3>4. QED
      BY <3>1, <3>2, <3>3
  <2>2. QED
    BY <1>2, <2>1 DEF Follows
<1>4. p[1].before = a /\ p[Len(p)].after = c + amount
  <2>1. CASE q = <<>>
    BY <1>1, <1>2, <2>1 DEF Replays
  <2>2. CASE q # <<>>
    BY <1>1, <1>2, <2>2 DEF Replays
  <2>3. QED
    BY <2>1, <2>2
<1>5. \A k \in DOMAIN p : p[k].after = p[k].before + p[k].amount /\ ~Covered(i, p[k].before)
  <2>1. \A k \in DOMAIN p : k \in 1..n \/ k = n + 1
    BY <1>2
  <2>2. QED
    BY <1>1, <1>2, <2>1 DEF Replays
<1>6. Replays(i, p, a, c + amount)
  BY <1>2, <1>3, <1>4, <1>5 DEF Replays
<1>7. Has(p, b, row) /\ \A d, k : Has(q, d, k) => Has(p, d, k)
  BY <1>1, <1>2 DEF Has
<1>8. QED
  BY <1>6, <1>7 DEF p, e

LEMMA ConcatReplays ==
  ASSUME NEW i \in Invoices, NEW q, NEW r, NEW a, NEW c, NEW d,
         Replays(i, q, a, c), Replays(i, r, c, d)
  PROVE  /\ Replays(i, q \o r, a, d)
         /\ \A b, k : Has(q, b, k) \/ Has(r, b, k) => Has(q \o r, b, k)
<1> DEFINE p == q \o r
<1>0. PICK n, m : n = Len(q) /\ m = Len(r)
  OBVIOUS
<1>1. /\ q \in Seq(Entries) /\ n \in Nat /\ DOMAIN q = 1..n /\ n = Len(q)
      /\ r \in Seq(Entries) /\ m \in Nat /\ DOMAIN r = 1..m /\ m = Len(r)
      /\ p \in Seq(Entries) /\ Len(p) = n + m /\ DOMAIN p = 1..n + m
      /\ \A k \in 1..n : p[k] = q[k]
      /\ \A k \in 1..m : p[n + k] = r[k]
  <2>1. q \in Seq(Entries) /\ r \in Seq(Entries)
    BY DEF Replays
  <2>2. QED
    BY <1>0, <2>1, ConcatFacts
<1> HIDE DEF p
<1>2. \A k \in 1..n + m : k \in 1..n \/ \E l \in 1..m : k = n + l
  <2>1. ASSUME NEW k \in 1..n + m, k \notin 1..n PROVE k - n \in 1..m /\ k = n + (k - n)
    BY <1>1, <2>1
  <2>2. QED
    BY <2>1
<1>3. CASE q = <<>>
  <2>1. n = 0 /\ c = a
    BY <1>1, <1>3 DEF Replays
  <2>2. p = r
    BY <1>1, <2>1
  <2>3. QED
    BY <1>1, <1>3, <2>1, <2>2 DEF Has, p
<1>4. CASE r = <<>>
  <2>1. m = 0 /\ c = d
    BY <1>1, <1>4 DEF Replays
  <2>2. p = q
    BY <1>1, <2>1
  <2>3. QED
    BY <1>1, <1>4, <2>1, <2>2 DEF Has, p
<1>5. CASE q # <<>> /\ r # <<>>
  <2>1. /\ n > 0 /\ m > 0 /\ p # <<>>
        /\ q[1].before = a /\ q[n].after = c /\ r[1].before = c /\ r[m].after = d
    BY <1>1, <1>5 DEF Replays
  <2>2. p[1].before = a /\ p[Len(p)].after = d
    BY <1>1, <2>1
  <2>3. Follows(p)
    <3>1. ASSUME NEW k \in 1..n + m - 1 PROVE p[k + 1].before = p[k].after
      <4>1. CASE k < n
        <5>1. q[k + 1].before = q[k].after
          BY <1>1, <4>1 DEF Replays, Follows
        <5>2. QED
          BY <1>1, <4>1, <5>1
      <4>2. CASE k = n
        BY <1>1, <2>1, <4>2
      <4>3. CASE k > n
        <5>1. PICK l \in 1..m - 1 : k = n + l /\ k + 1 = n + (l + 1)
          <6>1. k - n \in 1..m - 1 /\ k = n + (k - n) /\ k + 1 = n + ((k - n) + 1)
            BY <1>1, <4>3
          <6>2. QED
            BY <6>1
        <5>2. r[l + 1].before = r[l].after
          BY <1>1, <5>1 DEF Replays, Follows
        <5>3. p[n + l] = r[l] /\ p[n + (l + 1)] = r[l + 1]
          BY <1>1, <5>1
        <5>4. QED
          BY <5>1, <5>2, <5>3
      <4>4. k < n \/ k = n \/ k > n
        <5>1. n \in Nat /\ m \in Nat
          BY <1>1
        <5>2. QED
          BY <3>1, <5>1
      <4>5. QED
        BY <4>1, <4>2, <4>3, <4>4
    <3>2. QED
      BY <1>1, <3>1 DEF Follows
  <2>4. \A k \in DOMAIN p : p[k].after = p[k].before + p[k].amount /\ ~Covered(i, p[k].before)
    <3>1. /\ \A k \in 1..n : q[k].after = q[k].before + q[k].amount /\ ~Covered(i, q[k].before)
          /\ \A k \in 1..m : r[k].after = r[k].before + r[k].amount /\ ~Covered(i, r[k].before)
      BY <1>1 DEF Replays
    <3>2. ASSUME NEW k \in DOMAIN p
          PROVE  p[k].after = p[k].before + p[k].amount /\ ~Covered(i, p[k].before)
      <4>1. CASE k \in 1..n
        BY <1>1, <3>1, <4>1
      <4>2. CASE \E l \in 1..m : k = n + l
        <5>1. PICK l \in 1..m : k = n + l
          BY <4>2
        <5>2. p[k] = r[l]
          BY <1>1, <5>1
        <5>3. QED
          BY <3>1, <5>2
      <4>3. QED
        BY <1>1, <1>2, <4>1, <4>2
    <3>3. QED
      BY <3>2
  <2>5. Replays(i, p, a, d)
    BY <1>1, <2>1, <2>2, <2>3, <2>4 DEF Replays
  <2>6. ASSUME NEW b, NEW k, Has(q, b, k) \/ Has(r, b, k) PROVE Has(p, b, k)
    <3>1. \A e \in 1..n : e \in 1..n + m
      BY <1>1
    <3>2. \A e \in 1..m : n + e \in 1..n + m
      BY <1>1
    <3>3. QED
      BY <1>1, <2>6, <3>1, <3>2 DEF Has
  <2>7. QED
    BY <2>5, <2>6 DEF p
<1>6. QED
  BY <1>3, <1>4, <1>5
-------------------------------------------------------------------------------
(* The steps of reconciliation.                                             *)

Steps == {"idle", "read", "write", "settle"}
Line == [invoice : Invoices \cup {None}, settled : BOOLEAN]

LEMMA TableIsSeq ==
  ASSUME NEW S, NEW n \in Nat, NEW q \in [1..n -> S]
  PROVE  q \in Seq(S)
OBVIOUS

LEMMA Elements ==
  ASSUME NEW S, NEW q \in Seq(S), NEW k \in DOMAIN q
  PROVE  k \in Nat /\ q[k] \in S
OBVIOUS

LEMMA LedgerInitial == ReconcileInit => LedgerInv
<1> SUFFICES ASSUME ReconcileInit PROVE LedgerInv
  OBVIOUS
<1> USE ReconcileAssumption DEF ReconcileInit
<1>1. AnyBatch \in Batches
  BY DEF AnyBatch
<1>2. \A i \in Invoices : /\ NoEntries[i] = <<>> /\ NoEntries[i] \in Seq(Entries)
                          /\ Unread[i] \in Seen
  BY DEF NoEntries, Unread, Seen
<1>3. <<>> \in Lines /\ DOMAIN (<<>>) = {}
  BY DEF Lines
<1>4. NoEntries \in [Invoices -> Seq(Entries)] /\ Unread \in [Invoices -> Seen]
  BY <1>2 DEF NoEntries, Unread
<1>5. ReconcileTypeOK
  BY <1>1, <1>3, <1>4 DEF ReconcileTypeOK
<1>6. Exclusive /\ Uncommitted /\ InHand /\ Stored
  BY <1>2, <1>3 DEF Exclusive, Uncommitted, InHand, Stored
<1>7. AuditRuns
  <2>1. \A i \in Invoices : audit[i] = <<>> /\ paid[i] = 0
    BY <1>2
  <2>2. \A i \in Invoices : Replays(i, <<>>, 0, 0)
    BY EmptyReplays
  <2>3. QED
    BY <2>1, <2>2 DEF AuditRuns
<1>8. PaidWhenCovered
  <2>1. \A i \in Invoices : status[i] # "PAID" /\ paid[i] = 0
    OBVIOUS
  <2>2. \A i \in Invoices : ~Covered(i, paid[i])
    BY <2>1 DEF Covered
  <2>3. QED
    BY <2>1, <2>2 DEF PaidWhenCovered
<1>9. QED
  BY <1>5, <1>6, <1>7, <1>8 DEF LedgerInv

LEMMA Forgetting ==
  ASSUME ReconcileTypeOK, NEW s \in Staff, Forget(s)
  PROVE  /\ pc' \in [Staff -> Steps] /\ batch' \in [Staff -> Batches]
         /\ open' \in [Staff -> SUBSET Invoices] /\ work' \in [Staff -> Lines]
         /\ at' \in [Staff -> Nat] /\ held' \in [Staff -> SUBSET Invoices]
         /\ mine' \in [Staff -> [Invoices -> Seen]]
         /\ entries' \in [Staff -> [Invoices -> Seq(Entries)]] /\ requests' = requests
         /\ pc'[s] = "idle" /\ work'[s] = <<>> /\ held'[s] = {} /\ entries'[s] = NoEntries
         /\ \A t \in Staff \ {s} :
               /\ pc'[t] = pc[t] /\ batch'[t] = batch[t] /\ work'[t] = work[t]
               /\ held'[t] = held[t] /\ mine'[t] = mine[t] /\ entries'[t] = entries[t]
<1>1. AnyBatch \in Batches
  BY ReconcileAssumption DEF AnyBatch
<1>2. <<>> \in Lines
  BY DEF Lines
<1>3. NoEntries \in [Invoices -> Seq(Entries)] /\ Unread \in [Invoices -> Seen]
  BY DEF NoEntries, Unread, Seen
<1>4. QED
  BY <1>1, <1>2, <1>3 DEF Forget, ReconcileTypeOK, Steps

\* Nothing is committed, and whoever is not forgotten stays as it is.
LEMMA NothingCommitted ==
  ASSUME LedgerInv, ReconcileTypeOK', UNCHANGED <<paid, audit>>, PaidWhenCovered', Stored',
         \A t \in Staff :
            \/ work'[t] = <<>> /\ held'[t] = {} /\ entries'[t] = NoEntries
            \/ /\ held'[t] = held[t] /\ mine'[t] = mine[t] /\ entries'[t] = entries[t]
               /\ work'[t] = work[t]
               /\ \/ work[t] = <<>>
                  \/ pc'[t] = pc[t] /\ batch'[t] = batch[t]
  PROVE  LedgerInv'
<1>1. Exclusive'
  BY DEF LedgerInv, Exclusive
<1>2. Uncommitted'
  <2>1. \A i \in Invoices : NoEntries[i] = <<>>
    BY DEF NoEntries
  <2>2. QED
    BY <2>1 DEF LedgerInv, Uncommitted, Replays
<1>3. InHand'
  <2>1. DOMAIN (<<>>) = {}
    OBVIOUS
  <2>2. ASSUME NEW t \in Staff, work'[t] # <<>>
        PROVE  /\ held'[t] = held[t] /\ entries'[t] = entries[t] /\ work'[t] = work[t]
               /\ pc'[t] = pc[t] /\ batch'[t] = batch[t]
    BY <2>2
  <2>3. QED
    BY <2>1, <2>2 DEF LedgerInv, InHand, Has
<1>4. AuditRuns'
  BY DEF LedgerInv, AuditRuns, Replays
<1>5. QED
  BY <1>1, <1>2, <1>3, <1>4 DEF LedgerInv

LEMMA MatchingKeeps ==
  ASSUME LedgerInv, NEW s \in Staff,
         \/ \E b \in Batches : Upload(s, b) \/ Remap(s, b)
         \/ ReadOpen(s)
  PROVE  LedgerInv'
<1>1. ReconcileTypeOK'
  <2>1. ReconcileTypeOK
    BY DEF LedgerInv
  <2>2. ASSUME NEW b \in Batches, Upload(s, b) PROVE ReconcileTypeOK'
    BY <2>1, <2>2 DEF ReconcileTypeOK, Upload, Start, Request, invoices, transaction
  <2>3. ASSUME NEW b \in Batches, Remap(s, b) PROVE ReconcileTypeOK'
    BY <2>1, <2>3 DEF ReconcileTypeOK, Remap, Start, Request, invoices, rows, transaction
  <2>4. CASE ReadOpen(s)
    <3>1. open' \in [Staff -> SUBSET Invoices]
      BY <2>1, <2>4 DEF ReconcileTypeOK, ReadOpen
    <3>2. QED
      BY <2>1, <2>4, <3>1 DEF ReconcileTypeOK, ReadOpen, invoices, rows, transaction
  <2>5. QED
    BY <2>2, <2>3, <2>4
<1>2. UNCHANGED <<status, paid, audit, lines, transaction>>
  BY DEF Upload, Remap, ReadOpen, invoices, rows
<1>3. \A t \in Staff : \/ work[t] = <<>>
                       \/ pc'[t] = pc[t] /\ batch'[t] = batch[t]
  BY DEF LedgerInv, ReconcileTypeOK, InHand, Upload, Remap, ReadOpen, Start, Request
<1>4. PaidWhenCovered' /\ Stored'
  BY <1>2 DEF LedgerInv, PaidWhenCovered, Stored, Has
<1>5. QED
  BY <1>1, <1>2, <1>3, <1>4, NothingCommitted DEF transaction

LEMMA IssueKeeps ==
  ASSUME LedgerInv, NEW i \in Invoices, Issue(i)
  PROVE  LedgerInv'
<1>1. ReconcileTypeOK'
  BY DEF LedgerInv, ReconcileTypeOK, Issue, rows, transaction
<1>2. UNCHANGED <<paid, audit, lines, transaction, pc, batch>>
  BY DEF Issue, rows
<1>3. PaidWhenCovered'
  BY DEF LedgerInv, ReconcileTypeOK, PaidWhenCovered, Issue
<1>4. Stored'
  BY <1>2 DEF LedgerInv, Stored, Has
<1>5. QED
  BY <1>1, <1>2, <1>3, <1>4, NothingCommitted DEF transaction

LEMMA EndingKeeps ==
  ASSUME LedgerInv, NEW s \in Staff,
         ReadFails(s) \/ WriteLines(s) \/ NoAmountColumn(s) \/ Die(s) \/ Deadlock(s)
  PROVE  LedgerInv'
<1> USE DEF ReadFails, WriteLines, NoAmountColumn, Die, Deadlock
<1>1. ReconcileTypeOK /\ Forget(s) /\ UNCHANGED <<status, paid, audit>>
  BY DEF LedgerInv, invoices
<1>2. /\ lines' \in [Batches -> Lines] /\ Stored'
  <2>1. CASE lines' = lines
    BY <1>1, <2>1 DEF LedgerInv, ReconcileTypeOK, Stored, Has
  <2>2. ASSUME NEW q \in Matches(s), lines' = [lines EXCEPT ![batch[s]] = q]
        PROVE  lines' \in [Batches -> Lines] /\ Stored'
    <3> DEFINE b == batch[s]
    <3>1. b \in Batches /\ Statement[b] \in Seq([amount : Nat \ {0}, names : SUBSET Invoices])
      BY <1>1, ReconcileAssumption DEF ReconcileTypeOK
    <3>2. /\ q \in [DOMAIN Statement[b] -> [invoice : Invoices \cup {None}, settled : {FALSE}]]
          /\ Statement[b] \in Seq([amount : Nat \ {0}, names : SUBSET Invoices])
      BY <2>2, <3>1 DEF Matches
    <3>3. q \in Lines /\ DOMAIN q = DOMAIN Statement[b] /\ \A k \in DOMAIN q : ~q[k].settled
      <4>1. \A k \in DOMAIN q : q[k] \in [invoice : Invoices \cup {None}, settled : BOOLEAN]
                                /\ ~q[k].settled
        BY <3>2
      <4>2. DOMAIN q = 1..Len(Statement[b]) /\ Len(Statement[b]) \in Nat
        BY <3>2
      <4>3. q \in Seq([invoice : Invoices \cup {None}, settled : BOOLEAN])
        <5>1. q \in [1..Len(Statement[b]) -> [invoice : Invoices \cup {None}, settled : BOOLEAN]]
          BY <3>2, <4>1, <4>2
        <5>2. QED
          BY <4>2, <5>1, TableIsSeq
      <4>4. QED
        BY <3>2, <4>1, <4>3 DEF Lines
    <3>4. lines'[b] = q /\ \A c \in Batches \ {b} : lines'[c] = lines[c]
      BY <1>1, <2>2, <3>1 DEF ReconcileTypeOK
    <3>5. lines' \in [Batches -> Lines]
      BY <1>1, <2>2, <3>3 DEF ReconcileTypeOK
    <3>6. Stored'
      <4>1. \A c \in Batches \ {b} : /\ DOMAIN lines'[c] \subseteq DOMAIN Statement[c]
                                     /\ \A k \in DOMAIN lines'[c] : lines'[c][k].settled =>
                                           /\ lines'[c][k].invoice \in Invoices
                                           /\ Has(audit[lines'[c][k].invoice], c, k)
        BY <3>4 DEF LedgerInv, Stored
      <4>2. QED
        BY <1>1, <3>3, <3>4, <4>1 DEF Stored, Has
    <3>7. QED
      BY <3>5, <3>6
  <2>3. QED
    BY <2>1, <2>2 DEF rows
<1>3. state' \in [Batches -> {"NONE", "PENDING", "READY", "FAILED"}]
      /\ forms' \in [Batches -> SUBSET {"READY", "FAILED"}]
  <2>1. CASE UNCHANGED <<state, forms>>
    BY <1>1, <2>1 DEF ReconcileTypeOK
  <2>2. ASSUME NEW b \in Batches, NEW st \in {"READY", "FAILED"}, NEW offers,
               SetState(b, st, offers)
        PROVE  /\ state' \in [Batches -> {"NONE", "PENDING", "READY", "FAILED"}]
               /\ forms' \in [Batches -> SUBSET {"READY", "FAILED"}]
    <3>1. forms[b] \cup {st} \subseteq {"READY", "FAILED"} /\ forms[b] \subseteq {"READY", "FAILED"}
      BY <1>1, <2>2 DEF ReconcileTypeOK
    <3>2. \/ forms' = [forms EXCEPT ![b] = forms[b] \cup {st}]
          \/ forms' = [forms EXCEPT ![b] = forms[b]]
      BY <2>2 DEF SetState
    <3>3. QED
      BY <1>1, <2>2, <3>1, <3>2 DEF ReconcileTypeOK, SetState
  <2>3. batch[s] \in Batches
    BY <1>1 DEF ReconcileTypeOK
  <2>4. \/ UNCHANGED <<state, forms>>
        \/ SetState(batch[s], "FAILED", TRUE)
        \/ \E q \in Matches(s) : SetState(batch[s], "READY", \E k \in DOMAIN q : q[k].invoice # None)
    BY DEF rows
  <2>5. QED
    BY <2>1, <2>2, <2>3, <2>4
<1>4. ReconcileTypeOK'
  BY <1>1, <1>2, <1>3, Forgetting DEF ReconcileTypeOK, Steps
<1>5. PaidWhenCovered'
  BY <1>1 DEF LedgerInv, PaidWhenCovered
<1>6. QED
  BY <1>1, <1>2, <1>4, <1>5, Forgetting, NothingCommitted

LEMMA SettleKeeps ==
  ASSUME LedgerInv, NEW s \in Staff, NEW b \in Batches, Settle(s, b)
  PROVE  LedgerInv'
<1>1. ReconcileTypeOK
  BY DEF LedgerInv
<1>2. /\ pc[s] = "idle" /\ pc' \in [Staff -> Steps] /\ pc'[s] = "settle"
      /\ batch' \in [Staff -> Batches] /\ batch'[s] = b
      /\ work' \in [Staff -> Lines] /\ work'[s] = lines[b]
      /\ \A t \in Staff \ {s} : /\ pc'[t] = pc[t] /\ batch'[t] = batch[t]
                                /\ work'[t] = work[t]
      /\ UNCHANGED <<invoices, rows, open, at, held, mine, entries>>
  BY <1>1 DEF ReconcileTypeOK, Settle, Start, Request, Steps
<1>3. ReconcileTypeOK'
  BY <1>1, <1>2 DEF ReconcileTypeOK, Settle, Start, Request, Steps, invoices, rows
<1>4. Exclusive' /\ Uncommitted' /\ AuditRuns' /\ PaidWhenCovered' /\ Stored'
  BY <1>2 DEF LedgerInv, Exclusive, Uncommitted, AuditRuns, PaidWhenCovered, Stored, Has, Replays, invoices, rows
<1>5. InHand'
  <2>1. \A t \in Staff \ {s} : /\ pc'[t] # "settle" => work'[t] = <<>>
                               /\ DOMAIN work'[t] \subseteq DOMAIN Statement[batch'[t]]
    BY <1>2 DEF LedgerInv, InHand
  <2>2. \A t \in Staff \ {s} : \A k \in DOMAIN work'[t] : work'[t][k].settled =>
           /\ work'[t][k].invoice \in Invoices
           /\ \/ Has(audit[work'[t][k].invoice], batch'[t], k)
              \/ Has(entries[t][work'[t][k].invoice], batch'[t], k)
    BY <1>2 DEF LedgerInv, InHand
  <2>3. /\ DOMAIN work'[s] \subseteq DOMAIN Statement[batch'[s]]
        /\ \A k \in DOMAIN work'[s] : work'[s][k].settled =>
              /\ work'[s][k].invoice \in Invoices
              /\ Has(audit[work'[s][k].invoice], batch'[s], k)
    BY <1>2 DEF LedgerInv, Stored
  <2>4. audit' = audit /\ entries' = entries
    BY <1>2 DEF invoices
  <2>5. QED
    BY <1>2, <2>1, <2>2, <2>3, <2>4 DEF InHand, Has
<1>6. QED
  BY <1>3, <1>4, <1>5 DEF LedgerInv

\* What a settling sees of the invoice of its next line: its own entries lead
\* there, and it is PAID exactly when it is covered.
LEMMA SeesCovered ==
  ASSUME LedgerInv, NEW s \in Staff, NEW i \in Invoices
  PROVE  /\ Sees(s, i) \in Seen
         /\ Replays(i, entries[s][i], paid[i], Sees(s, i).paid)
         /\ paid[i] \in Nat /\ paid[i] <= Sees(s, i).paid
         /\ Sees(s, i).status = "PAID" <=> Covered(i, Sees(s, i).paid)
<1>1. CASE i \in held[s]
  BY <1>1 DEF LedgerInv, ReconcileTypeOK, Uncommitted, Sees
<1>2. CASE i \notin held[s]
  <2>1. entries[s][i] = <<>> /\ Sees(s, i) = [status |-> status[i], paid |-> paid[i]]
    BY <1>2 DEF LedgerInv, Uncommitted, Sees
  <2>2. status[i] \in {"DRAFT", "ISSUED", "PAID"} /\ paid[i] \in Nat
        /\ (status[i] = "PAID" <=> Covered(i, paid[i]))
    BY DEF LedgerInv, ReconcileTypeOK, PaidWhenCovered
  <2>3. Replays(i, <<>>, paid[i], paid[i])
    BY EmptyReplays
  <2>4. QED
    BY <2>1, <2>2, <2>3 DEF Seen
<1>3. QED
  BY <1>1, <1>2

\* A line that is dealt with locks its invoice, which nobody else has.
LEMMA Locking ==
  ASSUME LedgerInv, NEW s \in Staff, NEW k \in DOMAIN work[s], Lock(s, k)
  PROVE  LET i == work[s][k].invoice
         IN  /\ i \in Invoices /\ k \in Nat /\ k \in DOMAIN Statement[batch[s]]
             /\ Statement[batch[s]][k].amount \in Nat \ {0} /\ batch[s] \in Batches
             /\ work[s] \in Lines /\ ~work[s][k].settled /\ pc[s] = "settle"
             /\ \A t \in Staff \ {s} : i \notin held[t]
             /\ held' \in [Staff -> SUBSET Invoices] /\ held'[s] = held[s] \cup {i}
             /\ \A t \in Staff \ {s} : held'[t] = held[t]
             /\ at' \in [Staff -> Nat]
             /\ UNCHANGED <<invoices, rows, pc, batch, open, requests>>
             /\ Exclusive'
<1> DEFINE i == work[s][k].invoice
<1>1. ReconcileTypeOK /\ Exclusive
  BY DEF LedgerInv
<1>2. /\ work[s] \in Lines /\ batch[s] \in Batches
      /\ Statement[batch[s]] \in Seq([amount : Nat \ {0}, names : SUBSET Invoices])
      /\ k \in DOMAIN Statement[batch[s]]
  BY <1>1, ReconcileAssumption DEF ReconcileTypeOK, LedgerInv, InHand
<1>3. k \in Nat /\ work[s][k] \in Line
  BY <1>2, Elements DEF Lines, Line
<1>4. Statement[batch[s]][k].amount \in Nat \ {0}
  <2>1. Statement[batch[s]][k] \in [amount : Nat \ {0}, names : SUBSET Invoices]
    BY <1>2, Elements
  <2>2. QED
    BY <2>1
<1>5. ~work[s][k].settled /\ i # None /\ i \in Invoices /\ pc[s] = "settle"
  BY <1>3 DEF Lock, NextLine, Todo, Line
<1>6. \A t \in Staff \ {s} : i \notin held[t]
  BY DEF Lock, Locked
<1>7. /\ held' \in [Staff -> SUBSET Invoices] /\ held'[s] = held[s] \cup {i}
      /\ \A t \in Staff \ {s} : held'[t] = held[t]
  BY <1>1, <1>5 DEF Lock, ReconcileTypeOK
<1>8. at' \in [Staff -> Nat]
  BY <1>1, <1>3 DEF Lock, ReconcileTypeOK
<1>9. Exclusive'
  BY <1>1, <1>6, <1>7 DEF Exclusive
<1>10. QED
  BY <1>2, <1>3, <1>4, <1>5, <1>6, <1>7, <1>8, <1>9 DEF Lock

LEMMA ApplyKeeps ==
  ASSUME LedgerInv, NEW s \in Staff, NEW k \in DOMAIN work[s], Apply(s, k)
  PROVE  LedgerInv'
<1> DEFINE i == work[s][k].invoice
           b == batch[s]
           amount == Statement[b][k].amount
           was == Sees(s, i).paid
           line == [work[s][k] EXCEPT !.settled = TRUE]
           now == [status |-> StatusAt(i, was + amount), paid |-> was + amount]
           e == [batch |-> b, row |-> k, amount |-> amount, before |-> was,
                 after |-> was + amount]
<1>1. ReconcileTypeOK /\ Lock(s, k)
  BY DEF LedgerInv, Apply
<1>2. /\ i \in Invoices /\ k \in Nat /\ amount \in Nat \ {0} /\ b \in Batches
      /\ work[s] \in Lines /\ pc[s] = "settle" /\ k \in DOMAIN Statement[b]
      /\ \A t \in Staff \ {s} : i \notin held[t]
      /\ held' \in [Staff -> SUBSET Invoices] /\ held'[s] = held[s] \cup {i}
      /\ \A t \in Staff \ {s} : held'[t] = held[t]
      /\ at' \in [Staff -> Nat] /\ Exclusive'
      /\ UNCHANGED <<invoices, rows, pc, batch, open, requests>>
  BY <1>1, Locking
<1>3. /\ was \in Nat /\ paid[i] \in Nat /\ paid[i] <= was /\ ~Covered(i, was) /\ Net[i] \in Nat
      /\ Replays(i, entries[s][i], paid[i], was)
  <2>1. /\ Sees(s, i) \in Seen /\ Sees(s, i).status = "ISSUED"
        /\ paid[i] \in Nat /\ paid[i] <= was
        /\ Replays(i, entries[s][i], paid[i], was)
        /\ ~Covered(i, was)
    BY <1>2, SeesCovered DEF Apply
  <2>2. was \in Nat /\ Net[i] \in Nat
    BY <1>2, <2>1, ReconcileAssumption DEF Seen
  <2>3. QED
    BY <2>1, <2>2
<1>4. /\ mine' = [mine EXCEPT ![s][i] = now]
      /\ entries' = [entries EXCEPT ![s][i] = Append(entries[s][i], e)]
      /\ work' = [work EXCEPT ![s] = [work[s] EXCEPT ![k] = line]]
  BY DEF Apply
<1>5. /\ Replays(i, Append(entries[s][i], e), paid[i], was + amount)
      /\ Has(Append(entries[s][i], e), b, k)
      /\ \A d, l : Has(entries[s][i], d, l) => Has(Append(entries[s][i], e), d, l)
  BY <1>2, <1>3, AppendReplays
<1>6. /\ now \in Seen /\ now.paid = was + amount /\ now.paid >= paid[i]
      /\ now.status = "PAID" <=> Covered(i, now.paid)
  BY <1>2, <1>3 DEF Seen, StatusAt, Covered
<1>7. /\ line \in Line /\ line.invoice = i /\ line.settled
      /\ work[s] \in Seq(Line)
  <2>1. work[s] \in Seq(Line)
    BY <1>2 DEF Lines, Line
  <2>2. work[s][k] \in Line
    BY <2>1, Elements
  <2>3. QED
    BY <2>1, <2>2 DEF Line
<1> DEFINE new == Append(entries[s][i], e)
<1> HIDE DEF now, e, line, was, amount, b
<1>8. /\ mine' \in [Staff -> [Invoices -> Seen]] /\ mine'[s][i] = now
      /\ \A t \in Staff, j \in Invoices : t # s \/ j # i => mine'[t][j] = mine[t][j]
  BY <1>1, <1>2, <1>4, <1>6 DEF ReconcileTypeOK
<1>9. new \in Seq(Entries)
  BY <1>5 DEF Replays
<1> HIDE DEF new
<1>10. /\ entries' = [entries EXCEPT ![s][i] = new]
       /\ Replays(i, new, paid[i], was + amount) /\ Has(new, b, k)
       /\ \A d, l : Has(entries[s][i], d, l) => Has(new, d, l)
  BY <1>4, <1>5 DEF new
<1>11. /\ entries' \in [Staff -> [Invoices -> Seq(Entries)]] /\ entries'[s][i] = new
       /\ \A t \in Staff, j \in Invoices : t # s \/ j # i => entries'[t][j] = entries[t][j]
  BY <1>1, <1>2, <1>9, <1>10 DEF ReconcileTypeOK
<1>12. /\ work' \in [Staff -> Lines] /\ DOMAIN work'[s] = DOMAIN work[s] /\ work'[s][k] = line
       /\ \A l \in DOMAIN work[s] : l # k => work'[s][l] = work[s][l]
       /\ \A t \in Staff \ {s} : work'[t] = work[t]
  <2> DEFINE w == [work[s] EXCEPT ![k] = line]
  <2>1. /\ w \in Seq(Line) /\ DOMAIN w = DOMAIN work[s] /\ w[k] = line
        /\ \A l \in DOMAIN work[s] : l # k => w[l] = work[s][l]
    BY <1>7
  <2> HIDE DEF w
  <2>2. work' = [work EXCEPT ![s] = w] /\ Lines = Seq(Line)
    BY <1>4 DEF w, Lines, Line
  <2>3. QED
    BY <1>1, <2>1, <2>2 DEF ReconcileTypeOK
<1>13. ReconcileTypeOK'
  BY <1>1, <1>2, <1>8, <1>11, <1>12 DEF ReconcileTypeOK, invoices, rows
<1>14. Uncommitted'
  <2>1. ASSUME NEW t \in Staff, NEW j \in Invoices, t # s \/ j # i
        PROVE  IF j \in held'[t]
               THEN /\ Replays(j, entries'[t][j], paid[j], mine'[t][j].paid)
                    /\ paid[j] <= mine'[t][j].paid
                    /\ mine'[t][j].status = "PAID" <=> Covered(j, mine'[t][j].paid)
               ELSE entries'[t][j] = <<>>
    <3>1. /\ j \in held'[t] <=> j \in held[t]
          /\ entries'[t][j] = entries[t][j] /\ mine'[t][j] = mine[t][j]
      BY <1>2, <1>8, <1>11, <2>1
    <3>2. QED
      BY <3>1 DEF LedgerInv, Uncommitted
  <2>2. /\ Replays(i, entries'[s][i], paid[i], mine'[s][i].paid)
        /\ paid[i] <= mine'[s][i].paid
        /\ mine'[s][i].status = "PAID" <=> Covered(i, mine'[s][i].paid)
    BY <1>2, <1>3, <1>6, <1>8, <1>10, <1>11
  <2>3. paid' = paid
    BY <1>2 DEF invoices
  <2>4. QED
    BY <1>2, <2>1, <2>2, <2>3 DEF Uncommitted
<1>15. InHand'
  <2>1. UNCHANGED <<pc, batch, audit>>
    BY <1>2 DEF invoices
  <2>2. ASSUME NEW t \in Staff \ {s}
        PROVE  /\ pc'[t] # "settle" => work'[t] = <<>>
               /\ DOMAIN work'[t] \subseteq DOMAIN Statement[batch'[t]]
               /\ \A l \in DOMAIN work'[t] : work'[t][l].settled =>
                     /\ work'[t][l].invoice \in Invoices
                     /\ \/ Has(audit[work'[t][l].invoice], batch'[t], l)
                        \/ Has(entries'[t][work'[t][l].invoice], batch'[t], l)
    <3>1. work'[t] = work[t] /\ pc'[t] = pc[t] /\ batch'[t] = batch[t]
          /\ \A j \in Invoices : entries'[t][j] = entries[t][j]
      BY <1>11, <1>12, <2>1
    <3>2. /\ pc[t] # "settle" => work[t] = <<>>
          /\ DOMAIN work[t] \subseteq DOMAIN Statement[batch[t]]
          /\ \A l \in DOMAIN work[t] : work[t][l].settled =>
                /\ work[t][l].invoice \in Invoices
                /\ \/ Has(audit[work[t][l].invoice], batch[t], l)
                   \/ Has(entries[t][work[t][l].invoice], batch[t], l)
      BY DEF LedgerInv, InHand
    <3>3. QED
      BY <3>1, <3>2
  <2>3. ASSUME NEW l \in DOMAIN work'[s], work'[s][l].settled
        PROVE  /\ work'[s][l].invoice \in Invoices
               /\ \/ Has(audit[work'[s][l].invoice], b, l)
                  \/ Has(entries'[s][work'[s][l].invoice], b, l)
    <3>1. CASE l = k
      BY <1>2, <1>7, <1>10, <1>11, <1>12, <3>1
    <3>2. CASE l # k
      <4> DEFINE j == work[s][l].invoice
      <4>1. /\ work'[s][l] = work[s][l] /\ j \in Invoices
            /\ Has(audit[j], b, l) \/ Has(entries[s][j], b, l)
        BY <1>12, <2>3, <3>2 DEF LedgerInv, InHand, b
      <4>2. Has(entries[s][j], b, l) => Has(entries'[s][j], b, l)
        BY <1>10, <1>11, <4>1
      <4>3. QED
        BY <4>1, <4>2
    <3>3. QED
      BY <3>1, <3>2
  <2>4. pc'[s] = "settle" /\ batch'[s] = b /\ DOMAIN work'[s] \subseteq DOMAIN Statement[b]
    BY <1>2, <1>12, <2>1 DEF LedgerInv, InHand, b
  <2>5. QED
    BY <2>1, <2>2, <2>3, <2>4 DEF InHand, Has
<1>16. AuditRuns' /\ PaidWhenCovered' /\ Stored'
  BY <1>2 DEF LedgerInv, AuditRuns, PaidWhenCovered, Stored, Has, Replays, invoices, rows
<1>17. QED
  BY <1>2, <1>13, <1>14, <1>15, <1>16 DEF LedgerInv

LEMMA SkipKeeps ==
  ASSUME LedgerInv, NEW s \in Staff, NEW k \in DOMAIN work[s], Skip(s, k)
  PROVE  LedgerInv'
<1> DEFINE i == work[s][k].invoice
<1>1. ReconcileTypeOK /\ Lock(s, k) /\ UNCHANGED <<work, entries>>
  BY DEF LedgerInv, Skip
<1>2. /\ i \in Invoices
      /\ held' \in [Staff -> SUBSET Invoices] /\ held'[s] = held[s] \cup {i}
      /\ \A t \in Staff \ {s} : held'[t] = held[t]
      /\ at' \in [Staff -> Nat] /\ Exclusive'
      /\ UNCHANGED <<invoices, rows, pc, batch, open, requests>>
  BY <1>1, Locking
<1>3. /\ Sees(s, i) \in Seen
      /\ Replays(i, entries[s][i], paid[i], Sees(s, i).paid)
      /\ paid[i] <= Sees(s, i).paid
      /\ Sees(s, i).status = "PAID" <=> Covered(i, Sees(s, i).paid)
  BY <1>2, SeesCovered
<1>4. /\ mine' \in [Staff -> [Invoices -> Seen]] /\ mine'[s][i] = Sees(s, i)
      /\ \A t \in Staff, j \in Invoices : t # s \/ j # i => mine'[t][j] = mine[t][j]
  BY <1>1, <1>2, <1>3 DEF Skip, ReconcileTypeOK
<1>5. ReconcileTypeOK'
  BY <1>1, <1>2, <1>4 DEF ReconcileTypeOK, invoices, rows
<1>6. Uncommitted'
  <2>1. ASSUME NEW t \in Staff, NEW j \in Invoices, t # s \/ j # i
        PROVE  IF j \in held'[t]
               THEN /\ Replays(j, entries[t][j], paid[j], mine'[t][j].paid)
                    /\ paid[j] <= mine'[t][j].paid
                    /\ mine'[t][j].status = "PAID" <=> Covered(j, mine'[t][j].paid)
               ELSE entries[t][j] = <<>>
    <3>1. (j \in held'[t] <=> j \in held[t]) /\ mine'[t][j] = mine[t][j]
      BY <1>2, <1>4, <2>1
    <3>2. QED
      BY <3>1 DEF LedgerInv, Uncommitted
  <2>2. /\ Replays(i, entries[s][i], paid[i], mine'[s][i].paid)
        /\ paid[i] <= mine'[s][i].paid
        /\ mine'[s][i].status = "PAID" <=> Covered(i, mine'[s][i].paid)
    BY <1>3, <1>4
  <2>3. UNCHANGED <<paid, entries>>
    BY <1>1, <1>2 DEF invoices
  <2>4. QED
    BY <1>2, <2>1, <2>2, <2>3 DEF Uncommitted
<1>7. InHand' /\ AuditRuns' /\ PaidWhenCovered' /\ Stored'
  BY <1>1, <1>2 DEF LedgerInv, InHand, AuditRuns, PaidWhenCovered, Stored, Has, invoices, rows
<1>8. QED
  BY <1>2, <1>5, <1>6, <1>7 DEF LedgerInv

\* What a commit stores of every invoice continues what was stored before.
LEMMA Committing ==
  ASSUME LedgerInv, NEW s \in Staff, Commit(s), NEW i \in Invoices
  PROVE  /\ paid'[i] \in Nat /\ paid[i] <= paid'[i]
         /\ status'[i] \in {"DRAFT", "ISSUED", "PAID"}
         /\ status'[i] = "PAID" <=> Covered(i, paid'[i])
         /\ audit'[i] \in Seq(Entries) /\ Replays(i, audit'[i], 0, paid'[i])
         /\ \A b, k : Has(audit[i], b, k) \/ Has(entries[s][i], b, k) => Has(audit'[i], b, k)
         /\ i \notin held[s] => paid'[i] = paid[i]
<1>1. /\ paid'[i] = IF i \in held[s] THEN mine[s][i].paid ELSE paid[i]
      /\ status'[i] = IF i \in held[s] THEN mine[s][i].status ELSE status[i]
      /\ audit'[i] = audit[i] \o entries[s][i]
  BY DEF Commit
<1>2. /\ paid[i] \in Nat /\ status[i] \in {"DRAFT", "ISSUED", "PAID"}
      /\ mine[s][i].paid \in Nat /\ mine[s][i].status \in {"DRAFT", "ISSUED", "PAID"}
      /\ status[i] = "PAID" <=> Covered(i, paid[i])
      /\ Replays(i, audit[i], 0, paid[i])
  <2>1. mine[s][i] \in Seen
    BY DEF LedgerInv, ReconcileTypeOK
  <2>2. QED
    BY <2>1 DEF LedgerInv, ReconcileTypeOK, PaidWhenCovered, AuditRuns, Seen
<1>3. /\ Replays(i, entries[s][i], paid[i], paid'[i])
      /\ paid'[i] \in Nat /\ paid[i] <= paid'[i]
      /\ status'[i] \in {"DRAFT", "ISSUED", "PAID"}
      /\ status'[i] = "PAID" <=> Covered(i, paid'[i])
  <2>1. CASE i \in held[s]
    <3>1. /\ Replays(i, entries[s][i], paid[i], mine[s][i].paid)
          /\ paid[i] <= mine[s][i].paid
          /\ mine[s][i].status = "PAID" <=> Covered(i, mine[s][i].paid)
      BY <2>1 DEF LedgerInv, Uncommitted
    <3>2. QED
      BY <1>1, <1>2, <2>1, <3>1
  <2>2. CASE i \notin held[s]
    <3>1. entries[s][i] = <<>> /\ Replays(i, <<>>, paid[i], paid[i])
      BY <2>2, EmptyReplays DEF LedgerInv, Uncommitted
    <3>2. QED
      BY <1>1, <1>2, <2>2, <3>1
  <2>3. QED
    BY <2>1, <2>2
<1>4. /\ Replays(i, audit'[i], 0, paid'[i])
      /\ \A b, k : Has(audit[i], b, k) \/ Has(entries[s][i], b, k) => Has(audit'[i], b, k)
  <2>1. /\ Replays(i, audit[i] \o entries[s][i], 0, paid'[i])
        /\ \A b, k : Has(audit[i], b, k) \/ Has(entries[s][i], b, k)
                       => Has(audit[i] \o entries[s][i], b, k)
    BY <1>2, <1>3, ConcatReplays
  <2>2. QED
    BY <1>1, <2>1
<1>5. audit'[i] \in Seq(Entries)
  BY <1>4 DEF Replays
<1>6. QED
  BY <1>1, <1>3, <1>4, <1>5

LEMMA CommitKeeps ==
  ASSUME LedgerInv, NEW s \in Staff, Commit(s)
  PROVE  LedgerInv'
<1> DEFINE b == batch[s]
<1>1. /\ ReconcileTypeOK /\ Forget(s) /\ UNCHANGED <<state, forms>>
      /\ lines' = [lines EXCEPT ![b] = work[s]] /\ b \in Batches /\ work[s] \in Lines
  BY DEF LedgerInv, Commit, ReconcileTypeOK
<1>2. /\ lines' \in [Batches -> Lines] /\ lines'[b] = work[s]
      /\ \A c \in Batches \ {b} : lines'[c] = lines[c]
  BY <1>1 DEF ReconcileTypeOK
<1>3. ReconcileTypeOK'
  <2>1. /\ status' \in [Invoices -> {"DRAFT", "ISSUED", "PAID"}]
        /\ paid' \in [Invoices -> Nat] /\ audit' \in [Invoices -> Seq(Entries)]
    <3>1. /\ status' = [i \in Invoices |-> status'[i]]
          /\ paid' = [i \in Invoices |-> paid'[i]]
          /\ audit' = [i \in Invoices |-> audit'[i]]
      BY DEF Commit
    <3>2. QED
      BY <3>1, Committing
  <2>2. QED
    BY <1>1, <1>2, <2>1, Forgetting DEF ReconcileTypeOK, Steps
<1>4. Exclusive'
  BY <1>1, Forgetting DEF LedgerInv, Exclusive
<1>5. Uncommitted'
  <2>1. ASSUME NEW i \in Invoices PROVE entries'[s][i] = <<>> /\ i \notin held'[s]
    BY <1>1, Forgetting DEF NoEntries
  <2>2. ASSUME NEW t \in Staff \ {s}, NEW i \in Invoices
        PROVE  IF i \in held'[t]
               THEN /\ Replays(i, entries'[t][i], paid'[i], mine'[t][i].paid)
                    /\ paid'[i] <= mine'[t][i].paid
                    /\ mine'[t][i].status = "PAID" <=> Covered(i, mine'[t][i].paid)
               ELSE entries'[t][i] = <<>>
    <3>1. held'[t] = held[t] /\ mine'[t] = mine[t] /\ entries'[t] = entries[t]
      BY <1>1, Forgetting
    <3>2. i \in held[t] => paid'[i] = paid[i]
      BY Committing DEF LedgerInv, Exclusive
    <3>3. QED
      BY <3>1, <3>2 DEF LedgerInv, Uncommitted
  <2>3. QED
    BY <2>1, <2>2 DEF Uncommitted
<1>6. InHand'
  <2>1. /\ DOMAIN (<<>>) = {} /\ work'[s] = <<>>
    BY <1>1, Forgetting
  <2>2. ASSUME NEW t \in Staff \ {s}
        PROVE  /\ pc'[t] # "settle" => work'[t] = <<>>
               /\ DOMAIN work'[t] \subseteq DOMAIN Statement[batch'[t]]
               /\ \A k \in DOMAIN work'[t] : work'[t][k].settled =>
                     /\ work'[t][k].invoice \in Invoices
                     /\ \/ Has(audit'[work'[t][k].invoice], batch'[t], k)
                        \/ Has(entries'[t][work'[t][k].invoice], batch'[t], k)
    <3>1. /\ pc'[t] = pc[t] /\ batch'[t] = batch[t] /\ work'[t] = work[t]
          /\ entries'[t] = entries[t]
      BY <1>1, Forgetting
    <3>2. /\ pc[t] # "settle" => work[t] = <<>>
          /\ DOMAIN work[t] \subseteq DOMAIN Statement[batch[t]]
          /\ \A k \in DOMAIN work[t] : work[t][k].settled =>
                /\ work[t][k].invoice \in Invoices
                /\ \/ Has(audit[work[t][k].invoice], batch[t], k)
                   \/ Has(entries[t][work[t][k].invoice], batch[t], k)
      BY DEF LedgerInv, InHand
    <3>3. \A i \in Invoices : \A c, k : Has(audit[i], c, k) => Has(audit'[i], c, k)
      BY Committing
    <3>4. QED
      BY <3>1, <3>2, <3>3
  <2>3. QED
    BY <2>1, <2>2 DEF InHand
<1>7. Stored'
  <2>1. \A i \in Invoices : \A c, k : Has(audit[i], c, k) \/ Has(entries[s][i], c, k)
                                         => Has(audit'[i], c, k)
    BY Committing
  <2>2. ASSUME NEW c \in Batches \ {b}
        PROVE  /\ DOMAIN lines'[c] \subseteq DOMAIN Statement[c]
               /\ \A k \in DOMAIN lines'[c] : lines'[c][k].settled =>
                     /\ lines'[c][k].invoice \in Invoices
                     /\ Has(audit'[lines'[c][k].invoice], c, k)
    <3>1. lines'[c] = lines[c]
      BY <1>2
    <3>2. /\ DOMAIN lines[c] \subseteq DOMAIN Statement[c]
          /\ \A k \in DOMAIN lines[c] : lines[c][k].settled =>
                /\ lines[c][k].invoice \in Invoices
                /\ Has(audit[lines[c][k].invoice], c, k)
      BY DEF LedgerInv, Stored
    <3>3. QED
      BY <2>1, <3>1, <3>2
  <2>3. /\ DOMAIN lines'[b] \subseteq DOMAIN Statement[b]
        /\ \A k \in DOMAIN lines'[b] : lines'[b][k].settled =>
              /\ lines'[b][k].invoice \in Invoices
              /\ Has(audit'[lines'[b][k].invoice], b, k)
    <3>1. /\ DOMAIN work[s] \subseteq DOMAIN Statement[b]
          /\ \A k \in DOMAIN work[s] : work[s][k].settled =>
                /\ work[s][k].invoice \in Invoices
                /\ \/ Has(audit[work[s][k].invoice], b, k)
                   \/ Has(entries[s][work[s][k].invoice], b, k)
      BY DEF LedgerInv, InHand
    <3>2. QED
      BY <1>2, <2>1, <3>1
  <2>4. QED
    BY <2>2, <2>3 DEF Stored
<1>8. AuditRuns' /\ PaidWhenCovered'
  BY Committing DEF AuditRuns, PaidWhenCovered
<1>9. QED
  BY <1>3, <1>4, <1>5, <1>6, <1>7, <1>8 DEF LedgerInv

LEMMA LedgerStep ==
  ASSUME LedgerInv, [ReconcileNext]_reconcileVars
  PROVE  LedgerInv'
<1>1. CASE UNCHANGED reconcileVars
  <2>1. ReconcileTypeOK' /\ PaidWhenCovered' /\ Stored'
    BY <1>1 DEF LedgerInv, ReconcileTypeOK, PaidWhenCovered, Stored, Has, reconcileVars, invoices, rows, transaction
  <2>2. QED
    BY <1>1, <2>1, NothingCommitted DEF reconcileVars, invoices, transaction
<1>2. CASE ReconcileNext
  BY <1>2, MatchingKeeps, IssueKeeps, EndingKeeps, SettleKeeps, ApplyKeeps, SkipKeeps, CommitKeeps DEF ReconcileNext, SettleStep
<1>3. QED
  BY <1>1, <1>2

\* The office leaves the ledger alone, but for counting its own requests.
LEMMA OfficeFrame ==
  ASSUME LedgerInv, OfficeNext
  PROVE  LedgerInv' /\ paid' = paid
<1>1. /\ UNCHANGED <<invoices, rows, pc, batch, open, transaction>>
      /\ requests' = requests \/ requests' = requests + 1
  BY DEF OfficeNext, Move, Activate, MoveTo, Blocked, ActivateNow, OfficeDies, Check, Capture, Reopen, OfficeStart, OfficeEnd, reconcileVars
<1>2. ReconcileTypeOK' /\ PaidWhenCovered' /\ Stored'
  BY <1>1 DEF LedgerInv, ReconcileTypeOK, PaidWhenCovered, Stored, Has, invoices, rows, transaction
<1>3. QED
  BY <1>1, <1>2, NothingCommitted DEF invoices, transaction

\* The ledger's invariant holds in every run of the requests, whoever settles,
\* is rolled back or dies in between.
THEOREM LedgerInductive == Spec => []LedgerInv
<1>1. Init => LedgerInv
  BY LedgerInitial DEF Init
<1>2. LedgerInv /\ [Next]_vars => LedgerInv'
  BY LedgerStep, OfficeFrame DEF Next, vars
<1>3. QED
  BY <1>1, <1>2, PTL DEF Spec

\* The audit log of every invoice replays to the amount paid.
THEOREM LedgerReplays == Spec => []AuditReplays
<1>1. LedgerInv => AuditReplays
  BY DEF LedgerInv, AuditRuns, Replays, AuditReplays
<1>2. QED
  BY <1>1, LedgerInductive, PTL

\* An invoice is PAID exactly when what was received covers it.
THEOREM PaidIsCovered == Spec => []PaidWhenCovered
<1>1. LedgerInv => PaidWhenCovered
  BY DEF LedgerInv
<1>2. QED
  BY <1>1, LedgerInductive, PTL

\* Whatever shows as settled is in the audit log of its invoice.
THEOREM SettledApplied == Spec => []SettledIsApplied
<1>1. LedgerInv => SettledIsApplied
  BY DEF LedgerInv, Stored, Has, SettledIsApplied
<1>2. QED
  BY <1>1, LedgerInductive, PTL

-------------------------------------------------------------------------------
(* The gate of an activation.                                               *)

\* Who has found a check true can rely on what the check will never lose.
Found == \A m \in Managers :
    /\ doing[m] = "idle" => checked[m] = {}
    /\ doing[m] \in {"gate", "activate"} => target[m] \in Projects
    /\ doing[m] = "move" => target[m] \in Projects /\ to[m] \in Stages
    /\ doing[m] \in {"gate", "activate"} =>
          /\ "advance" \in checked[m] => \E i \in Advance[target[m]] : Covered(i, paid[i])
          /\ Kept \cap checked[m] \subseteq facts[target[m]]
    /\ doing[m] = "activate" => checked[m] = Checks
OfficeInv == OfficeTypeOK /\ Found

LEMMA PaidGrows ==
  ASSUME LedgerInv, [ReconcileNext]_reconcileVars
  PROVE  \A i \in Invoices : paid[i] \in Nat /\ paid'[i] \in Nat /\ paid[i] <= paid'[i]
<1>1. CASE paid' = paid
  BY <1>1 DEF LedgerInv, ReconcileTypeOK
<1>2. CASE \E s \in Staff : Commit(s)
  BY <1>2, Committing DEF LedgerInv, ReconcileTypeOK
<1>3. QED
  BY <1>1, <1>2 DEF reconcileVars, invoices, ReconcileNext, SettleStep, Upload, Remap, Settle, ReadOpen, ReadFails, WriteLines, NoAmountColumn, Die, Deadlock, Issue, Apply, Skip, Lock

LEMMA OfficeIdle ==
  ASSUME LedgerInv, OfficeInv, UNCHANGED officeVars,
         \A i \in Invoices : paid[i] \in Nat /\ paid'[i] \in Nat /\ paid[i] <= paid'[i]
  PROVE  OfficeInv'
<1>1. OfficeTypeOK'
  BY DEF OfficeInv, OfficeTypeOK, officeVars
<1>2. ASSUME NEW p \in Projects, NEW i \in Advance[p], Covered(i, paid[i])
      PROVE  Covered(i, paid'[i])
  <2>1. i \in Invoices /\ Net[i] \in Nat
    BY ReconcileAssumption, AccountsAssumption
  <2>2. QED
    BY <1>2, <2>1 DEF Covered
<1>3. Found'
  BY <1>2 DEF OfficeInv, Found, officeVars
<1>4. QED
  BY <1>1, <1>3 DEF OfficeInv

\* The requests that a step does not touch keep what they have found, as long
\* as the records they looked for stay.
LEMMA OthersFound ==
  ASSUME OfficeInv, OfficeTypeOK', paid' = paid, NEW m \in Managers,
         \A n \in Managers \ {m} :
            /\ doing'[n] = doing[n] /\ target'[n] = target[n] /\ to'[n] = to[n]
            /\ checked'[n] = checked[n],
         \A p \in Projects : Kept \cap facts[p] \subseteq facts'[p],
         doing'[m] \in {"idle", "move", "gate"}, checked'[m] = {},
         doing'[m] \in {"move", "gate"} => target'[m] \in Projects,
         doing'[m] = "move" => to'[m] \in Stages
  PROVE  OfficeInv'
<1>1. ASSUME NEW n \in Managers \ {m}
      PROVE  /\ doing'[n] = "idle" => checked'[n] = {}
             /\ doing'[n] \in {"gate", "activate"} => target'[n] \in Projects
             /\ doing'[n] = "move" => target'[n] \in Projects /\ to'[n] \in Stages
             /\ doing'[n] \in {"gate", "activate"} =>
                   /\ "advance" \in checked'[n] =>
                         \E i \in Advance[target'[n]] : Covered(i, paid'[i])
                   /\ Kept \cap checked'[n] \subseteq facts'[target'[n]]
             /\ doing'[n] = "activate" => checked'[n] = Checks
  BY <1>1 DEF OfficeInv, Found
<1>2. QED
  BY <1>1 DEF OfficeInv, Found

LEMMA OfficeStep ==
  ASSUME OfficeInv, PaidWhenCovered, OfficeNext, paid' = paid
  PROVE  OfficeInv'
<1>1. OfficeTypeOK /\ Found
  BY DEF OfficeInv
<1>2. ASSUME NEW m \in Managers, NEW p \in Projects, NEW new \in Stages, Move(m, p, new)
      PROVE  OfficeInv'
  <2>1. OfficeTypeOK'
    BY <1>1, <1>2 DEF OfficeTypeOK, Move, OfficeStart
  <2>2. QED
    BY <1>1, <1>2, <2>1, OthersFound DEF OfficeTypeOK, Found, Move, OfficeStart
<1>3. ASSUME NEW m \in Managers, MoveTo(m) \/ Blocked(m) \/ ActivateNow(m) \/ OfficeDies(m)
      PROVE  OfficeInv'
  <2>1. OfficeEnd(m) /\ facts' = facts /\ doing[m] # "idle"
    BY <1>3 DEF MoveTo, Blocked, ActivateNow, OfficeDies
  <2>2. stage' \in [Projects -> Stages]
    BY <1>1, <1>3 DEF OfficeTypeOK, Found, Stages, MoveTo, Blocked, ActivateNow, OfficeDies
  <2>3. OfficeTypeOK'
    BY <1>1, <2>1, <2>2 DEF OfficeTypeOK, OfficeEnd
  <2>4. QED
    BY <1>1, <2>1, <2>3, OthersFound DEF OfficeTypeOK, OfficeEnd
<1>4. ASSUME NEW m \in Managers, NEW p \in Projects, Activate(m, p) PROVE OfficeInv'
  <2>1. OfficeTypeOK'
    BY <1>1, <1>4 DEF OfficeTypeOK, Activate, OfficeStart
  <2>2. QED
    BY <1>1, <1>4, <2>1, OthersFound DEF OfficeTypeOK, Found, Activate, OfficeStart
<1>5. ASSUME NEW m \in Managers, NEW check \in Checks, Check(m, check)
      PROVE  OfficeInv'
  <2>1. /\ target[m] \in Projects /\ doing[m] = "gate"
        /\ UNCHANGED <<stage, facts, target, from, to>>
    BY <1>1, <1>5 DEF Check, Found
  <2>2. /\ checked' \in [Managers -> SUBSET Checks] /\ checked'[m] = checked[m] \cup {check}
        /\ \A n \in Managers \ {m} : checked'[n] = checked[n]
    BY <1>1, <1>5 DEF OfficeTypeOK, Check
  <2>3. /\ doing' \in [Managers -> {"idle", "move", "gate", "activate"}]
        /\ doing'[m] \in {"gate", "activate"}
        /\ doing'[m] = "activate" => checked'[m] = Checks
        /\ \A n \in Managers \ {m} : doing'[n] = doing[n]
    BY <1>1, <1>5 DEF OfficeTypeOK, Check
  <2>4. "advance" \in checked'[m] => \E i \in Advance[target[m]] : Covered(i, paid[i])
    <3>1. CASE check = "advance"
      <4>1. PICK i \in Advance[target[m]] : status[i] = "PAID"
        BY <1>5, <3>1 DEF Check, Holds
      <4>2. i \in Invoices
        BY <2>1, AccountsAssumption
      <4>3. QED
        BY <4>1, <4>2 DEF PaidWhenCovered
    <3>2. CASE check # "advance"
      BY <1>1, <2>1, <2>2, <3>2 DEF Found
    <3>3. QED
      BY <3>1, <3>2
  <2>5. Kept \cap checked'[m] \subseteq facts[target[m]]
    <3>1. check \in Kept => check \in facts[target[m]]
      BY <1>5, AccountsAssumption DEF Check, Holds
    <3>2. QED
      BY <1>1, <2>1, <2>2, <3>1 DEF Found
  <2>6. Found'
    <3>1. ASSUME NEW n \in Managers \ {m}
          PROVE  /\ doing'[n] = "idle" => checked'[n] = {}
                 /\ doing'[n] \in {"gate", "activate"} => target[n] \in Projects
                 /\ doing'[n] = "move" => target[n] \in Projects /\ to[n] \in Stages
                 /\ doing'[n] \in {"gate", "activate"} =>
                       /\ "advance" \in checked'[n] =>
                             \E i \in Advance[target[n]] : Covered(i, paid[i])
                       /\ Kept \cap checked'[n] \subseteq facts[target[n]]
                 /\ doing'[n] = "activate" => checked'[n] = Checks
      BY <1>1, <2>2, <2>3, <3>1 DEF Found
    <3>2. QED
      BY <2>1, <2>2, <2>3, <2>4, <2>5, <3>1 DEF Found
  <2>7. QED
    BY <1>1, <2>1, <2>2, <2>3, <2>6 DEF OfficeInv, OfficeTypeOK
<1>6. ASSUME NEW p \in Projects,
             (\E fact \in Facts : Capture(p, fact)) \/ Reopen(p)
      PROVE  OfficeInv'
  <2>1. /\ facts' \in [Projects -> SUBSET Facts]
        /\ \A q \in Projects : Kept \cap facts[q] \subseteq facts'[q]
        /\ UNCHANGED <<stage, officeRequest>>
    BY <1>1, <1>6, AccountsAssumption DEF OfficeTypeOK, Capture, Reopen
  <2>2. Found'
    BY <1>1, <2>1 DEF Found, officeRequest
  <2>3. QED
    BY <1>1, <2>1, <2>2 DEF OfficeInv, OfficeTypeOK, officeRequest
<1>7. QED
  BY <1>2, <1>3, <1>4, <1>5, <1>6 DEF OfficeNext

\* So does the invariant of the activations, over the ledger they read.
THEOREM OfficeInductive == Spec => [](LedgerInv /\ OfficeInv)
<1>1. Init => OfficeInv
  BY DEF Init, OfficeInv, OfficeTypeOK, Found, Stages
<1>2. LedgerInv /\ OfficeInv /\ [Next]_vars => OfficeInv'
  <2> SUFFICES ASSUME LedgerInv, OfficeInv, [Next]_vars PROVE OfficeInv'
    OBVIOUS
  <2>1. CASE [ReconcileNext]_reconcileVars /\ UNCHANGED officeVars
    BY <2>1, PaidGrows, OfficeIdle
  <2>2. CASE OfficeNext
    BY <2>2, OfficeFrame, OfficeStep DEF LedgerInv
  <2>3. QED
    BY <2>1, <2>2 DEF Next, vars
<1>3. QED
  BY <1>1, <1>2, LedgerInductive, PTL DEF Spec

THEOREM TypeCorrect == Spec => []TypeOK
<1>1. LedgerInv /\ OfficeInv => TypeOK
  BY DEF LedgerInv, OfficeInv, TypeOK
<1>2. QED
  BY <1>1, OfficeInductive, PTL

\* A request about to make a project ACTIVE has seen what nothing takes back.
THEOREM ActivationRests == Spec => []ActivationCovered
<1>1. LedgerInv /\ OfficeInv => ActivationCovered
  BY DEF OfficeInv, Found, ActivationCovered, Checks, Facts
<1>2. QED
  BY <1>1, OfficeInductive, PTL

===============================================================================
