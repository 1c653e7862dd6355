---------------------------- MODULE RecordsProofs ----------------------------
(***************************************************************************)
(* Records, proved for every set of requests and whatever they are about.  *)
(* Each part has an inductive invariant of its own, which the steps of the *)
(* others leave alone; what they need of sums is in FoldLemmas.            *)
(***************************************************************************)
EXTENDS Records, FoldLemmas, FiniteSetTheorems, SequenceTheorems, TLAPS

-------------------------------------------------------------------------------
(* Rate books.                                                              *)

Claimed(r) == pricing[r] = "commit" /\ r \in Activators \cup Activating
Working(r) == pricing[r] \in {"others", "deactivate", "own", "claim", "commit"}

\* A row has one holder, and requests hold rows only while they work.
LocksExclusive == \A r, t \in Pricers : r # t => locked[r] \cap locked[t] = {}
LocksHeld ==
    /\ \A r \in Pricers : ~Working(r) => locked[r] = {}
    /\ \A r \in Pricers : pricing[r] \in {"claim", "commit"} => BookOf[r] \in locked[r]
    /\ \A p \in Publishers \ Activating :
          /\ pricing[p] \notin {"others", "deactivate", "own", "claim"}
          /\ locked[p] \subseteq {BookOf[p]}
    /\ \A r \in Pricers : BookOf[r] \notin found[r]

\* The request about to commit a book as active is the only one, and leaves no
\* other active; the others, when they commit, make no book active.
OneActive == \A b, c \in ActiveBooks : b = c
OneClaim == \A r, t \in Pricers : Claimed(r) /\ Claimed(t) => r = t
ClaimHolds == \A r \in Pricers : Claimed(r) =>
    /\ draft[r][BookOf[r]].active
    /\ \A c \in Books \ {BookOf[r]} : ~SeesBook(r, c).active
DraftActive == \A r \in Pricers : ~Claimed(r) => \A c \in locked[r] :
    IF c = BookOf[r] THEN draft[r][c].active = library[c].active
                     ELSE ~draft[r][c].active

\* The hash tells what the items are, and a revision never changes them.
HashTells ==
    /\ \A b \in Books : library[b].hash = library[b].items
    /\ \A r \in Pricers : \A c \in locked[r] : draft[r][c].hash = draft[r][c].items
DraftRevision == \A r \in Pricers : \A c \in locked[r] :
    \/ draft[r][c].revision > library[c].revision
    \/ /\ draft[r][c].revision = library[c].revision
       /\ draft[r][c].items = library[c].items
Published(p) == \* p has written its book, not committed
    /\ BookOf[p] \in locked[p]
    /\ draft[p][BookOf[p]].revision = revision[p]
    /\ draft[p][BookOf[p]].items = Items[p]
Existing == \* only a book that has been published is, or becomes, active
    /\ \A b \in Books : library[b].active => library[b].revision > 0
    /\ \A r \in Pricers : \A c \in locked[r] : draft[r][c].active => draft[r][c].revision > 0
    /\ \A p \in Publishers : Working(p) => revision[p] > 0
    /\ \A a \in Activators : Working(a) => library[BookOf[a]].revision > 0
PublishedOK == \A p \in Publishers : Working(p) => Published(p)
Answered == \A p \in Publishers : pricing[p] = "done" =>
    /\ library[BookOf[p]].revision >= revision[p]
    /\ library[BookOf[p]].revision = revision[p] => library[BookOf[p]].items = Items[p]

Locks == LocksExclusive /\ LocksHeld
Actives == OneActive /\ OneClaim /\ ClaimHolds /\ DraftActive
Revisions == HashTells /\ DraftRevision /\ Existing /\ PublishedOK /\ Answered
RatesInv == RatesTypeOK /\ Locks /\ Actives /\ Revisions

\* Removing what is not sent and writing over the rest leaves what is sent.
LEMMA MergedIsNew ==
  ASSUME NEW old, NEW new
  PROVE  Merged(old, new) = new
BY DEF Merged

LEMMA RatesInitial == RatesInit => RatesInv
<1> SUFFICES ASSUME RatesInit PROVE RatesInv
  OBVIOUS
<1> USE RateBooksAssumption DEF RatesInit
<1>1. RatesTypeOK
  BY DEF RatesTypeOK, BookRow, Unpublished, Pricers
<1>2. Locks
  BY DEF Locks, LocksExclusive, LocksHeld, Working, Pricers
<1>3. Actives
  BY DEF Actives, OneActive, OneClaim, ClaimHolds, DraftActive, Claimed, ActiveBooks, Unpublished, Pricers
<1>4. Revisions
  BY DEF Revisions, HashTells, DraftRevision, Existing, PublishedOK, Answered, Working, Unpublished, Pricers
<1>5. QED
  BY <1>1, <1>2, <1>3, <1>4 DEF RatesInv

\* A transaction that ends without a commit, or a step that is about to write
\* nothing, keeps everything.
LEMMA FailsKeeps ==
  ASSUME RatesInv, NEW r \in Pricers, PriceFails(r)
  PROVE  RatesInv'
<1> USE RateBooksAssumption DEF PriceFails, PriceGoto, Pricers
<1>1. RatesTypeOK'
  BY DEF RatesInv, RatesTypeOK
<1>2. /\ \A t \in Pricers : t # r => pricing'[t] = pricing[t] /\ locked'[t] = locked[t]
      /\ pricing'[r] = "failed" /\ locked'[r] = {}
  BY DEF RatesInv, RatesTypeOK
<1>3. /\ library' = library /\ draft' = draft /\ revision' = revision
  OBVIOUS
<1>4. Locks'
  BY <1>2, <1>3 DEF RatesInv, Locks, LocksExclusive, LocksHeld, Working
<1>5. Actives'
  BY <1>2, <1>3 DEF RatesInv, Actives, OneActive, OneClaim, ClaimHolds, DraftActive, ActiveBooks, Claimed, SeesBook
<1>6. Revisions'
  BY <1>2, <1>3 DEF RatesInv, Revisions, HashTells, DraftRevision, Existing, PublishedOK, Answered, Published, Working
<1>7. QED
  BY <1>1, <1>4, <1>5, <1>6 DEF RatesInv

LEMMA GoesOn ==
  ASSUME RatesInv, NEW r \in Pricers,
         NEW step \in {"insert", "others", "deactivate", "own"}, PriceGoto(r, step),
         UNCHANGED <<library, locked, draft, revision>>,
         found' \in [Pricers -> SUBSET Books],
         \A t \in Pricers : BookOf[t] \notin found'[t],
         \/ ~Working(r) /\ step = "insert"
         \/ /\ ~Working(r) /\ step = "others" /\ r \in Activators
            /\ library[BookOf[r]].revision > 0
         \/ Working(r) /\ ~Claimed(r) /\ step # "insert" /\ r \in Activators \cup Activating
  PROVE  RatesInv'
<1> USE RateBooksAssumption DEF PriceGoto, Pricers
<1>1. RatesTypeOK'
  BY DEF RatesInv, RatesTypeOK
<1>2. /\ \A t \in Pricers : t # r => pricing'[t] = pricing[t]
      /\ pricing'[r] = step
  BY DEF RatesInv, RatesTypeOK
<1>3. Locks'
  BY <1>2 DEF RatesInv, Locks, LocksExclusive, LocksHeld, Working, Claimed
<1>4. Actives'
  <2>1. ~Claimed(r)
    BY DEF Claimed, Working
  <2>2. QED
    BY <1>2, <2>1 DEF RatesInv, Actives, OneActive, OneClaim, ClaimHolds, DraftActive, ActiveBooks, Claimed, SeesBook
<1>5. Revisions'
  BY <1>2 DEF RatesInv, Revisions, HashTells, DraftRevision, Existing, PublishedOK, Answered, Published, Working
<1>6. QED
  BY <1>1, <1>3, <1>4, <1>5 DEF RatesInv

\* r takes a row: its draft of it is the row with some changes that commit
\* nothing as active and keep hash and items together.
LEMMA HoldKeeps ==
  ASSUME RatesInv, NEW r \in Pricers, NEW b \in Books, NEW row \in BookRow,
         Hold(r, b, row), UNCHANGED <<library, found>>,
         NEW step \in {"others", "deactivate", "claim", "commit"}, PriceGoto(r, step),
         revision' \in [Publishers -> Nat],
         \A p \in Publishers \ {r} : revision'[p] = revision[p],
         ~Claimed(r), ~Claimed(r)', pricing[r] # "done",
         row.hash = row.items,
         \/ row.revision > library[b].revision
         \/ row.revision = library[b].revision /\ row.items = library[b].items,
         IF b = BookOf[r] THEN row.active = library[b].active ELSE ~row.active,
         row.active => row.revision > 0,
         r \in Publishers => Published(r)' /\ revision'[r] > 0,
         r \in Activators => library[BookOf[r]].revision > 0,
         step \in {"claim", "commit"} => BookOf[r] \in locked'[r],
         r \in Publishers \ Activating => step = "commit" /\ b = BookOf[r]
  PROVE  RatesInv'
<1> USE RateBooksAssumption DEF PriceGoto, Pricers
<1>1. RatesTypeOK'
  BY DEF RatesInv, RatesTypeOK, Hold
<1>2. /\ \A t \in Pricers : t # r => /\ pricing'[t] = pricing[t]
                                      /\ locked'[t] = locked[t]
                                      /\ draft'[t] = draft[t]
      /\ pricing'[r] = step
      /\ locked'[r] = locked[r] \cup {b}
      /\ draft'[r][b] = row
      /\ \A c \in Books \ {b} : draft'[r][c] = draft[r][c]
      /\ locked[r] \subseteq Books
  BY DEF RatesInv, RatesTypeOK, Hold
<1>3. Locks'
  <2>1. \A t \in Pricers \ {r} : b \notin locked[t]
    BY DEF Hold, Free
  <2>2. LocksExclusive'
    BY <1>2, <2>1 DEF RatesInv, Locks, LocksExclusive
  <2>3. LocksHeld'
    BY <1>2 DEF RatesInv, Locks, LocksHeld, Working
  <2>4. QED
    BY <2>2, <2>3 DEF Locks
<1>4. Actives'
  <2>1. OneActive' /\ OneClaim'
    BY <1>2 DEF RatesInv, Actives, OneActive, OneClaim, Claimed, ActiveBooks
  <2>2. ClaimHolds'
    BY <1>2 DEF RatesInv, Actives, ClaimHolds, Claimed, SeesBook
  <2>3. DraftActive'
    BY <1>2 DEF RatesInv, Actives, DraftActive, Claimed
  <2>4. QED
    BY <2>1, <2>2, <2>3 DEF Actives
<1>5. Revisions'
  <2>1. HashTells'
    BY <1>2 DEF RatesInv, Revisions, HashTells
  <2>2. DraftRevision'
    BY <1>2 DEF RatesInv, Revisions, DraftRevision
  <2>3. PublishedOK'
    BY <1>2 DEF RatesInv, Revisions, PublishedOK, Published, Working
  <2>4. Answered'
    BY <1>2 DEF RatesInv, Revisions, Answered
  <2>5. Existing'
    BY <1>2 DEF RatesInv, Revisions, Existing, Working
  <2>6. QED
    BY <2>1, <2>2, <2>3, <2>4, <2>5 DEF Revisions
<1>6. QED
  BY <1>1, <1>3, <1>4, <1>5 DEF RatesInv

\* Of the rows that r has locked nobody else has a draft, and none but a claimed
\* transaction changes which book is active.
LEMMA CommitKeeps ==
  ASSUME RatesInv, NEW r \in Pricers, CommitBooks(r)
  PROVE  /\ RatesInv'
         /\ Claimed(r) => ActiveBooks' = {BookOf[r]}
         /\ ~Claimed(r) => ActiveBooks' = ActiveBooks
<1> USE RateBooksAssumption DEF CommitBooks, PriceGoto, Pricers
<1>1. RatesTypeOK'
  BY DEF RatesInv, RatesTypeOK, SeesBook
<1>2. /\ \A t \in Pricers : t # r => pricing'[t] = pricing[t] /\ locked'[t] = locked[t]
      /\ pricing'[r] = "done" /\ locked'[r] = {}
      /\ \A c \in Books : library'[c] = IF c \in locked[r] THEN draft[r][c] ELSE library[c]
      /\ draft' = draft /\ revision' = revision
      /\ BookOf[r] \in locked[r] /\ Working(r)
      /\ \A t \in Pricers \ {r} : locked[t] \subseteq Books /\ locked[t] \cap locked[r] = {}
  BY DEF RatesInv, RatesTypeOK, SeesBook, Locks, LocksHeld, LocksExclusive, Working
<1>3. Locks'
  BY <1>2 DEF RatesInv, Locks, LocksExclusive, LocksHeld, Working
<1>4. Claimed(r) => ActiveBooks' = {BookOf[r]}
  BY <1>2 DEF RatesInv, Actives, ClaimHolds, SeesBook, ActiveBooks
<1>5. ~Claimed(r) => \A c \in Books : library'[c].active = library[c].active
  <2>1. ~Claimed(r) => locked[r] \subseteq {BookOf[r]}
    BY DEF RatesInv, Locks, LocksHeld, Claimed
  <2>2. QED
    BY <1>2, <2>1 DEF RatesInv, Actives, DraftActive
<1>6. Actives'
  <2>1. OneActive'
    BY <1>4, <1>5 DEF RatesInv, Actives, OneActive, ActiveBooks
  <2>2. OneClaim'
    BY <1>2 DEF RatesInv, Actives, OneClaim, Claimed
  <2>3. ClaimHolds'
    <3>1. ASSUME NEW t \in Pricers, Claimed(t)' PROVE t # r /\ Claimed(t) /\ ~Claimed(r)
      BY <1>2, <3>1 DEF RatesInv, Actives, OneClaim, Claimed
    <3>2. QED
      BY <1>2, <1>5, <3>1 DEF RatesInv, Actives, ClaimHolds, SeesBook
  <2>4. DraftActive'
    BY <1>2 DEF RatesInv, Actives, DraftActive, Claimed
  <2>5. QED
    BY <2>1, <2>2, <2>3, <2>4 DEF Actives
<1>7. Revisions'
  <2>1. HashTells'
    BY <1>2 DEF RatesInv, Revisions, HashTells
  <2>2. DraftRevision'
    BY <1>2 DEF RatesInv, Revisions, DraftRevision
  <2>3. PublishedOK'
    BY <1>2 DEF RatesInv, Revisions, PublishedOK, Published, Working
  <2> DEFINE Grows(c) == /\ library[c].revision \in Nat /\ library'[c].revision \in Nat
                         /\ library'[c].revision >= library[c].revision
                         /\ library'[c].revision = library[c].revision =>
                               library'[c].items = library[c].items
  <2>6. ASSUME NEW c \in Books PROVE Grows(c)
    <3>1. library[c] \in BookRow /\ library'[c] \in BookRow
      BY <1>1 DEF RatesInv, RatesTypeOK
    <3>2. CASE c \in locked[r]
      BY <1>2, <3>1, <3>2 DEF BookRow, RatesInv, Revisions, DraftRevision
    <3>3. CASE c \notin locked[r]
      BY <1>2, <3>1, <3>3 DEF BookRow
    <3>4. QED
      BY <3>2, <3>3
  <2>7. Existing'
    <3>1. \A c \in Books : library'[c].active => library'[c].revision > 0
      BY <1>2 DEF RatesInv, Revisions, Existing
    <3>2. \A t \in Pricers \ {r} : Working(t)' => Working(t)
      BY <1>2 DEF Working
    <3>3. ~Working(r)'
      BY <1>2 DEF Working
    <3>4. QED
      BY <1>2, <2>6, <3>1, <3>2, <3>3 DEF RatesInv, Revisions, Existing
  <2>4. Answered'
    <3>1. \A c \in Books : Grows(c)
      BY <2>6
    <3>2. r \in Publishers => Published(r)
      BY <1>2 DEF RatesInv, Revisions, PublishedOK
    <3>3. \A p \in Publishers : revision[p] \in Nat
      BY DEF RatesInv, RatesTypeOK
    <3>4. ASSUME NEW p \in Publishers, pricing'[p] = "done", p # r
          PROVE  /\ library'[BookOf[p]].revision >= revision[p]
                 /\ library'[BookOf[p]].revision = revision[p] =>
                       library'[BookOf[p]].items = Items[p]
      BY <1>2, <3>1, <3>3, <3>4 DEF RatesInv, Revisions, Answered
    <3>5. ASSUME r \in Publishers
          PROVE  /\ library'[BookOf[r]].revision >= revision[r]
                 /\ library'[BookOf[r]].revision = revision[r] =>
                       library'[BookOf[r]].items = Items[r]
      BY <1>2, <3>1, <3>2, <3>3, <3>5 DEF Published
    <3>6. QED
      BY <1>2, <3>4, <3>5 DEF Answered
  <2>5. QED
    BY <2>1, <2>2, <2>3, <2>4, <2>7 DEF Revisions
<1>8. QED
  BY <1>1, <1>3, <1>4, <1>5, <1>6, <1>7 DEF RatesInv, ActiveBooks

\* The index lets a second transaction claim only when no other has.
LEMMA ClaimKeeps ==
  ASSUME RatesInv, NEW r \in Pricers, ClaimActive(r)
  PROVE  RatesInv'
<1> USE RateBooksAssumption DEF ClaimActive, PriceGoto, Pricers
<1>1. RatesTypeOK'
  <2>1. draft[r][BookOf[r]] \in BookRow /\ BookOf[r] \in Books
    BY DEF RatesInv, RatesTypeOK
  <2>2. [draft[r][BookOf[r]] EXCEPT !.active = TRUE] \in BookRow
    BY <2>1 DEF BookRow
  <2>3. draft' \in [Pricers -> [Books -> BookRow]]
    BY <2>1, <2>2 DEF RatesInv, RatesTypeOK
  <2>4. QED
    BY <2>3 DEF RatesInv, RatesTypeOK
<1>2. /\ \A t \in Pricers : t # r => pricing'[t] = pricing[t] /\ draft'[t] = draft[t]
      /\ pricing'[r] = "commit"
      /\ \A c \in Books \ {BookOf[r]} : draft'[r][c] = draft[r][c]
      /\ draft'[r][BookOf[r]] = [draft[r][BookOf[r]] EXCEPT !.active = TRUE]
      /\ draft[r][BookOf[r]] \in BookRow
      /\ BookOf[r] \in locked[r] /\ BookOf[r] \in Books
      /\ r \in Activators \cup Activating
      /\ \A t \in Pricers : locked[t] \subseteq Books
  <2>1. /\ BookOf[r] \in locked[r] /\ BookOf[r] \in Books
        /\ r \in Activators \cup Activating
        /\ \A t \in Pricers : locked[t] \subseteq Books
    BY DEF RatesInv, RatesTypeOK, Locks, LocksHeld
  <2>2. draft \in [Pricers -> [Books -> BookRow]]
    BY DEF RatesInv, RatesTypeOK
  <2>3. \A t \in Pricers : t # r => pricing'[t] = pricing[t] /\ draft'[t] = draft[t]
    BY <2>2 DEF RatesInv, RatesTypeOK
  <2>4. /\ \A c \in Books \ {BookOf[r]} : draft'[r][c] = draft[r][c]
        /\ draft'[r][BookOf[r]] = [draft[r][BookOf[r]] EXCEPT !.active = TRUE]
        /\ draft[r][BookOf[r]] \in BookRow
    <3> DEFINE row == [draft[r][BookOf[r]] EXCEPT !.active = TRUE]
    <3>1. draft' = [draft EXCEPT ![r] = [draft[r] EXCEPT ![BookOf[r]] = row]]
      BY <2>2
    <3> HIDE DEF row
    <3>2. draft'[r] = [draft[r] EXCEPT ![BookOf[r]] = row] /\ draft[r] \in [Books -> BookRow]
      BY <2>2, <3>1
    <3>3. draft'[r][BookOf[r]] = row /\ \A c \in Books \ {BookOf[r]} : draft'[r][c] = draft[r][c]
      BY <2>1, <3>2
    <3>4. QED
      BY <2>1, <3>2, <3>3 DEF row
  <2>5. pricing'[r] = "commit"
    BY DEF RatesInv, RatesTypeOK
  <2>6. QED
    BY <2>1, <2>3, <2>4, <2>5
<1>3. /\ draft'[r][BookOf[r]].active
      /\ draft'[r][BookOf[r]].hash = draft[r][BookOf[r]].hash
      /\ draft'[r][BookOf[r]].items = draft[r][BookOf[r]].items
      /\ draft'[r][BookOf[r]].revision = draft[r][BookOf[r]].revision
  BY <1>2 DEF BookRow
<1>4. Locks'
  BY <1>2 DEF RatesInv, Locks, LocksExclusive, LocksHeld, Working
<1>5. Actives'
  <2>1. ASSUME NEW t \in Pricers, t # r, Claimed(t) PROVE FALSE
    <3>1. /\ BookOf[t] \in locked[t] /\ draft[t][BookOf[t]].active
          /\ BookOf[t] # BookOf[r] /\ BookOf[t] \notin locked[r]
      BY <1>2, <2>1 DEF RatesInv, Locks, LocksHeld, LocksExclusive, Actives, ClaimHolds, Claimed
    <3>2. draft[t][BookOf[t]] = library[BookOf[t]]
      BY <2>1, <3>1 DEF IndexFree
    <3>3. SeesBook(r, BookOf[t]).active
      BY <3>1, <3>2 DEF SeesBook
    <3>4. QED
      BY <3>1, <3>3
  <2>2. OneActive'
    BY DEF RatesInv, Actives, OneActive, ActiveBooks
  <2>3. OneClaim'
    BY <1>2, <2>1 DEF OneClaim, Claimed
  <2>4. ClaimHolds'
    <3>1. \A c \in Books \ {BookOf[r]} : ~SeesBook(r, c)'.active
      BY <1>2 DEF SeesBook
    <3>2. QED
      BY <1>2, <1>3, <2>1, <3>1 DEF ClaimHolds, Claimed
  <2>5. DraftActive'
    <3>1. ASSUME NEW t \in Pricers, ~Claimed(t)'
          PROVE  t # r /\ ~Claimed(t) /\ draft'[t] = draft[t]
      BY <1>2, <3>1 DEF Claimed
    <3>2. QED
      BY <3>1 DEF RatesInv, Actives, DraftActive
  <2>6. QED
    BY <2>2, <2>3, <2>4, <2>5 DEF Actives
<1>6. Revisions'
  <2>1. HashTells'
    BY <1>2, <1>3 DEF RatesInv, Revisions, HashTells
  <2>2. DraftRevision'
    BY <1>2, <1>3 DEF RatesInv, Revisions, DraftRevision
  <2>3. PublishedOK'
    BY <1>2, <1>3 DEF RatesInv, Revisions, PublishedOK, Published, Working
  <2>4. Answered'
    BY <1>2 DEF RatesInv, Revisions, Answered
  <2>5. Existing'
    <3>1. draft[r][BookOf[r]].revision > 0
      BY <1>2 DEF RatesInv, RatesTypeOK, BookRow, Revisions, Existing, DraftRevision, PublishedOK, Published, Working
    <3>2. QED
      BY <1>2, <1>3, <3>1 DEF RatesInv, Revisions, Existing, Working
  <2>6. QED
    BY <2>1, <2>2, <2>3, <2>4, <2>5 DEF Revisions
<1>7. QED
  BY <1>1, <1>4, <1>5, <1>6 DEF RatesInv

LEMMA RatesStep ==
  ASSUME RatesInv, RatesNext
  PROVE  RatesInv'
<1> USE RateBooksAssumption DEF Pricers
<1>1. ASSUME NEW p \in Publishers, LockBook(p) PROVE RatesInv'
  <2> DEFINE b == BookOf[p]
             row == IF library[b].hash = Items[p] THEN library[b]
                    ELSE [library[b] EXCEPT !.revision = @ + 1, !.hash = Items[p],
                                            !.items = Merged(@, Items[p])]
  <2>1. b \in Books /\ library[b] \in BookRow /\ Items[p] \subseteq Item
    BY DEF RatesInv, RatesTypeOK
  <2>2. /\ row \in BookRow /\ row.hash = row.items /\ row.items = Items[p]
        /\ \/ row.revision > library[b].revision
           \/ row.revision = library[b].revision /\ row.items = library[b].items
        /\ row.active = library[b].active /\ row.revision > 0
    <3>1. library[b].revision \in Nat /\ library[b].revision > 0
      BY <1>1, <2>1 DEF BookRow, LockBook
    <3>2. Merged(library[b].items, Items[p]) = Items[p]
      BY MergedIsNew
    <3>3. CASE library[b].hash = Items[p]
      BY <2>1, <3>1, <3>3 DEF BookRow, RatesInv, Revisions, HashTells
    <3>4. CASE library[b].hash # Items[p]
      <4>1. row = [library[b] EXCEPT !.revision = @ + 1, !.hash = Items[p],
                                     !.items = Merged(@, Items[p])]
        BY <3>4
      <4>2. row = [library[b] EXCEPT !.revision = library[b].revision + 1,
                                     !.hash = Items[p], !.items = Items[p]]
        BY <2>1, <3>2, <4>1 DEF BookRow
      <4> HIDE DEF row
      <4>3. /\ row.revision = library[b].revision + 1 /\ row.hash = Items[p]
            /\ row.items = Items[p] /\ row.active = library[b].active
        BY <2>1, <4>2 DEF BookRow
      <4>4. row \in BookRow
        <5>1. row = [revision |-> library[b].revision + 1, hash |-> Items[p],
                     items |-> Items[p], active |-> library[b].active]
          BY <2>1, <4>2 DEF BookRow
        <5>2. Items[p] \in SUBSET Item /\ library[b].active \in BOOLEAN
          BY <2>1 DEF BookRow
        <5>3. QED
          BY <3>1, <5>1, <5>2 DEF BookRow
      <4>5. QED
        BY <3>1, <4>3, <4>4
    <3>5. QED
      BY <3>3, <3>4
  <2>3. /\ Hold(p, b, row) /\ UNCHANGED <<library, found>>
        /\ revision' = [revision EXCEPT ![p] = draft'[p][b].revision]
    BY <1>1 DEF LockBook
  <2>4. draft'[p][b] = row /\ b \in locked'[p]
    BY <2>1, <2>3 DEF Hold, RatesInv, RatesTypeOK
  <2>5. /\ revision' \in [Publishers -> Nat] /\ revision'[p] = row.revision
        /\ \A q \in Publishers \ {p} : revision'[q] = revision[q]
    BY <2>2, <2>3, <2>4 DEF RatesInv, RatesTypeOK, BookRow
  <2> DEFINE step == IF p \in Activating THEN "others" ELSE "commit"
  <2>6. PriceGoto(p, step) /\ pricing[p] = "start" /\ ~Claimed(p)
    BY <1>1 DEF LockBook, Written, Claimed
  <2>7. ~Claimed(p)'
    BY <2>6 DEF Claimed, PriceGoto, RatesInv, RatesTypeOK
  <2>8. Published(p)'
    BY <2>2, <2>4, <2>5 DEF Published
  <2> HIDE DEF row, step
  <2>9. step \in {"others", "commit"} /\ (p \notin Activating => step = "commit")
    BY DEF step
  <2>10. QED
    BY <2>1, <2>2, <2>3, <2>4, <2>5, <2>6, <2>7, <2>8, <2>9, HoldKeeps
<1>2. ASSUME NEW p \in Publishers, NoBook(p) PROVE RatesInv'
  BY <1>2, GoesOn DEF NoBook, Working, RatesInv, RatesTypeOK, Locks, LocksHeld
<1>3. ASSUME NEW p \in Publishers, InsertBook(p) PROVE RatesInv'
  <2> DEFINE b == BookOf[p]
             row == [revision |-> 1, hash |-> Items[p], items |-> Items[p], active |-> FALSE]
  <2>1. b \in Books /\ library[b] \in BookRow /\ Items[p] \subseteq Item
    BY DEF RatesInv, RatesTypeOK
  <2>2. /\ row \in BookRow /\ row.hash = row.items /\ row.items = Items[p]
        /\ row.revision = 1 /\ library[b].revision = 0
        /\ ~row.active
    BY <1>3, <2>1 DEF BookRow, InsertBook
  <2>3. /\ Hold(p, b, row) /\ UNCHANGED <<library, found>>
        /\ revision' = [revision EXCEPT ![p] = 1]
    BY <1>3 DEF InsertBook
  <2>4. draft'[p][b] = row /\ b \in locked'[p]
    BY <2>1, <2>3 DEF Hold, RatesInv, RatesTypeOK
  <2>5. /\ revision' \in [Publishers -> Nat] /\ revision'[p] = 1
        /\ \A q \in Publishers \ {p} : revision'[q] = revision[q]
    BY <2>3 DEF RatesInv, RatesTypeOK
  <2> DEFINE step == IF p \in Activating THEN "others" ELSE "commit"
  <2>6. PriceGoto(p, step) /\ pricing[p] = "insert" /\ ~Claimed(p)
    BY <1>3 DEF InsertBook, Written, Claimed
  <2>7. ~Claimed(p)'
    BY <2>6 DEF Claimed, PriceGoto, RatesInv, RatesTypeOK
  <2>8. Published(p)'
    BY <2>2, <2>4, <2>5 DEF Published
  <2>9. step \in {"others", "commit"} /\ (p \notin Activating => step = "commit")
    BY DEF step
  <2>10. row.active = library[b].active
    <3>1. ~library[b].active /\ library[b].active \in BOOLEAN
      BY <2>1, <2>2 DEF RatesInv, Revisions, Existing, BookRow
    <3>2. QED
      BY <3>1
  <2> HIDE DEF row, step
  <2>11. QED
    BY <2>1, <2>2, <2>3, <2>4, <2>5, <2>6, <2>7, <2>8, <2>9, <2>10, HoldKeeps
<1>4. ASSUME NEW p \in Publishers, DuplicateBook(p) PROVE RatesInv'
  BY <1>4, FailsKeeps DEF DuplicateBook
<1>5. ASSUME NEW a \in Activators, BookExists(a) PROVE RatesInv'
  BY <1>5, GoesOn DEF BookExists, Working, RatesInv, RatesTypeOK, Locks, LocksHeld
<1>6. ASSUME NEW r \in Pricers, FindOthers(r) PROVE RatesInv'
  BY <1>6, GoesOn DEF FindOthers, Working, Claimed, RatesInv, RatesTypeOK, Locks, LocksHeld
<1>7. ASSUME NEW r \in Pricers, OthersDone(r) PROVE RatesInv'
  BY <1>7, GoesOn DEF OthersDone, Working, Claimed, RatesInv, RatesTypeOK, Locks, LocksHeld
<1>8. ASSUME NEW r \in Pricers, NEW c \in Books, Deactivate(r, c) PROVE RatesInv'
  <2> DEFINE row == [library[c] EXCEPT !.active = FALSE]
  <2>1. library[c] \in BookRow
    BY DEF RatesInv, RatesTypeOK
  <2>2. /\ row \in BookRow /\ row.hash = row.items /\ ~row.active
        /\ row.revision = library[c].revision /\ row.items = library[c].items
    BY <2>1 DEF BookRow, RatesInv, Revisions, HashTells
  <2>3. c # BookOf[r]
    BY <1>8 DEF Deactivate, RatesInv, Locks, LocksHeld
  <2>4. /\ Hold(r, c, row) /\ UNCHANGED <<library, found, revision, pricing>>
        /\ pricing[r] = "deactivate"
    BY <1>8 DEF Deactivate
  <2>5. /\ PriceGoto(r, "deactivate") /\ ~Claimed(r) /\ ~Claimed(r)' /\ Working(r)
        /\ r \in Activators \cup Activating
    BY <2>4 DEF PriceGoto, Claimed, Working, RatesInv, RatesTypeOK, Locks, LocksHeld
  <2>6. r \in Publishers => Published(r)' /\ revision'[r] > 0
    <3>1. \A b \in Books \ {c} : draft'[r][b] = draft[r][b]
      BY <2>4 DEF Hold, RatesInv, RatesTypeOK
    <3>2. locked[r] \subseteq locked'[r]
      BY <2>4 DEF Hold, RatesInv, RatesTypeOK
    <3>3. BookOf[r] \in Books
      OBVIOUS
    <3>4. QED
      BY <2>3, <2>4, <2>5, <3>1, <3>2, <3>3 DEF RatesInv, Revisions, PublishedOK, Published, Existing
  <2>7. r \in Activators => library[BookOf[r]].revision > 0
    BY <2>5 DEF RatesInv, Revisions, Existing
  <2>8. revision' \in [Publishers -> Nat]
    BY <2>4 DEF RatesInv, RatesTypeOK
  <2> HIDE DEF row
  <2>9. QED
    BY <2>1, <2>2, <2>3, <2>4, <2>5, <2>6, <2>7, <2>8, HoldKeeps
<1>9. ASSUME NEW r \in Pricers, LockOwn(r) PROVE RatesInv'
  <2> DEFINE b == BookOf[r]
             row == SeesBook(r, b)
  <2>1. b \in Books /\ library[b] \in BookRow /\ draft[r][b] \in BookRow
    BY DEF RatesInv, RatesTypeOK
  <2>2. /\ Hold(r, b, row) /\ UNCHANGED <<library, found, revision>>
        /\ pricing[r] = "own" /\ PriceGoto(r, "claim")
    BY <1>9 DEF LockOwn
  <2>3. /\ ~Claimed(r) /\ ~Claimed(r)' /\ Working(r)
        /\ r \in Activators \cup Activating
    BY <2>2 DEF PriceGoto, Claimed, Working, RatesInv, RatesTypeOK, Locks, LocksHeld
  <2>4. /\ row \in BookRow /\ row.hash = row.items
        /\ \/ row.revision > library[b].revision
           \/ row.revision = library[b].revision /\ row.items = library[b].items
        /\ row.active = library[b].active
        /\ row.active => row.revision > 0
    <3>1. CASE b \in locked[r]
      BY <2>1, <2>3, <3>1 DEF SeesBook, RatesInv, Revisions, HashTells, DraftRevision, Existing, Actives, DraftActive
    <3>2. CASE b \notin locked[r]
      BY <2>1, <3>2 DEF SeesBook, RatesInv, Revisions, HashTells, Existing
    <3>3. QED
      BY <3>1, <3>2
  <2>5. draft'[r][b] = row /\ b \in locked'[r]
    BY <2>1, <2>2 DEF Hold, RatesInv, RatesTypeOK
  <2>6. r \in Publishers => Published(r)' /\ revision'[r] > 0
    BY <2>2, <2>3, <2>5 DEF SeesBook, RatesInv, Revisions, PublishedOK, Published, Existing
  <2>7. r \in Activators => library[BookOf[r]].revision > 0
    BY <2>3 DEF RatesInv, Revisions, Existing
  <2>8. revision' \in [Publishers -> Nat]
    BY <2>2 DEF RatesInv, RatesTypeOK
  <2> HIDE DEF row
  <2>9. QED
    BY <2>1, <2>2, <2>3, <2>4, <2>5, <2>6, <2>7, <2>8, HoldKeeps
<1>10. ASSUME NEW r \in Pricers, ActiveTaken(r) \/ Rollback(r) PROVE RatesInv'
  BY <1>10, FailsKeeps DEF ActiveTaken, Rollback
<1>11. QED
  BY <1>1, <1>2, <1>3, <1>4, <1>5, <1>6, <1>7, <1>8, <1>9, <1>10, ClaimKeeps, CommitKeeps
     DEF RatesNext

\* Once a book is active there is always exactly one: what publishing and
\* activating promise the desktop, which prices from the active book.
LEMMA ActiveStep ==
  ASSUME RatesInv, [RatesNext]_ratesVars
  PROVE  Cardinality(ActiveBooks') = 1 \/ (ActiveBooks = {} /\ ActiveBooks' = {})
<1>1. ActiveBooks = {} \/ \E b \in Books : ActiveBooks = {b}
  BY DEF RatesInv, Actives, OneActive, ActiveBooks
<1>2. \/ ActiveBooks' = ActiveBooks
      \/ \E b \in Books : ActiveBooks' = {b}
  <2>1. CASE \E r \in Pricers : CommitBooks(r)
    BY <2>1, CommitKeeps, RateBooksAssumption
  <2>2. CASE library' = library
    BY <2>2 DEF ActiveBooks
  <2>3. ASSUME RatesNext, ~\E r \in Pricers : CommitBooks(r) PROVE library' = library
    BY <2>3 DEF RatesNext, LockBook, NoBook, InsertBook, DuplicateBook, PriceFails, BookExists, FindOthers, Deactivate, OthersDone, LockOwn, ClaimActive, ActiveTaken, Rollback
  <2>4. QED
    BY <2>1, <2>2, <2>3 DEF ratesVars
<1>3. ActiveBooks' = {} \/ \E b \in Books : ActiveBooks' = {b}
  BY <1>1, <1>2
<1>4. \A b \in Books : Cardinality({b}) = 1
  BY FS_Singleton
<1>5. QED
  BY <1>1, <1>2, <1>3, <1>4

LEMMA RatesIdle ==
  ASSUME RatesInv, UNCHANGED ratesVars
  PROVE  RatesInv'
<1> USE DEF ratesVars
<1>1. RatesTypeOK' /\ Locks'
  BY DEF RatesInv, RatesTypeOK, Locks, LocksExclusive, LocksHeld, Working
<1>2. Actives'
  BY DEF RatesInv, Actives, OneActive, OneClaim, ClaimHolds, DraftActive, ActiveBooks, Claimed, SeesBook
<1>3. Revisions'
  BY DEF RatesInv, Revisions, HashTells, DraftRevision, Existing, PublishedOK, Answered, Published, Working
<1>4. QED
  BY <1>1, <1>2, <1>3 DEF RatesInv

\* A step of the firm is one of the rate books or leaves them alone.
LEMMA RatesPart ==
  ASSUME [Next]_vars
  PROVE  [RatesNext]_ratesVars
BY DEF Next, vars, ratesVars

\* The locks, drafts and hashes of the rate books stay as commits rely on.
THEOREM RatesInductive == Spec => []RatesInv
<1>1. Init => RatesInv
  BY RatesInitial DEF Init
<1>2. RatesInv /\ [Next]_vars => RatesInv'
  BY RatesPart, RatesStep, RatesIdle
<1>3. QED
  BY <1>1, <1>2, PTL DEF Spec

\* Publishing and activating at the same time, failing or being rolled back,
\* never leave two active books and never take the last one away.
THEOREM OneBookActive == Spec => ActiveStays
<1>1. RatesInv /\ [Next]_vars =>
        [Cardinality(ActiveBooks') = 1 \/ (ActiveBooks = {} /\ ActiveBooks' = {})]_ratesVars
  BY RatesPart, ActiveStep
<1>2. QED
  BY <1>1, RatesInductive, PTL DEF Spec, ActiveStays

\* A revision that a publisher was answered stands for what it sent.
THEOREM AnswersStored == Spec => []AnsweredIsStored
<1>1. RatesInv => AnsweredIsStored
  BY DEF RatesInv, Revisions, Answered, AnsweredIsStored
<1>2. QED
  BY <1>1, RatesInductive, PTL

-------------------------------------------------------------------------------
(* The measurement book.                                                     *)

\* The book is finite, whatever the transactions that may still come.
MeasuringOK == EstimatesTypeOK /\ IsFiniteSet(book)
\* The item is locked by the transaction that is about to commit.
HolderCommits == \A m \in Measurements : measuring[m] = "commit" <=> holder = m
\* Who holds the item of a frozen estimate has either checked it again, or is the
\* only one that had before.
LateOnce ==
    /\ late <= 1
    /\ estimate \notin Editable =>
          \A m \in Measurements : holder = m /\ vQty[m] # quantity => late = 0
SumsRight == \A m \in Measurements :
    measuring[m] \in {"item", "commit"} /\ m \notin overtaken => vQty[m] = SumOf(Changed(m))
BookInv == MeasuringOK /\ HolderCommits /\ LateOnce /\ SumsRight /\ QuantityOfMeasurements

LEMMA BookSum ==
  ASSUME NEW ms \in SUBSET Measurements, IsFiniteSet(ms)
  PROVE  SumOf(ms) \in Int
<1>1. SumOf(ms) = SumOver(Measured, ms)
  BY DEF SumOf, MapThenSumSet, MapThenFoldSet, SumOver, PartSums, SumsUp, SumStep, Pick
<1>2. \A m \in ms : Measured[m] \in Int
  BY EstimatesAssumption
<1>3. QED
  BY <1>1, <1>2, SumType

LEMMA BookChanged ==
  ASSUME MeasuringOK, NEW m \in Measurements
  PROVE  Changed(m) \in SUBSET Measurements /\ IsFiniteSet(Changed(m))
<1>1. book \in SUBSET Measurements /\ IsFiniteSet(book)
  BY DEF MeasuringOK, EstimatesTypeOK
<1>2. IsFiniteSet(book \ {m}) /\ IsFiniteSet(book \cup {m})
  BY <1>1, FS_RemoveElement, FS_AddElement
<1>3. QED
  BY <1>1, <1>2 DEF Changed

LEMMA BookInitial == EstimatesInit => BookInv
<1> SUFFICES ASSUME EstimatesInit PROVE BookInv
  OBVIOUS
<1>1. book \in SUBSET Measurements /\ IsFiniteSet(book)
  BY EstimatesAssumption DEF EstimatesInit
<1>2. quantity \in Int
  BY <1>1, EstimatesAssumption, BookSum DEF EstimatesInit
<1>3. MeasuringOK
  <2>1. /\ measuring \in [Measurements -> {"check", "sum", "item", "commit", "done", "refused"}]
        /\ vQty \in [Measurements -> Int]
    BY DEF EstimatesInit
  <2>2. outdated \in BOOLEAN /\ overtaken = {} /\ late = 0 /\ holder = Nobody
        /\ estimate \in Editable
    BY DEF EstimatesInit, Editable
  <2>3. QED
    BY <1>1, <1>2, <2>1, <2>2 DEF MeasuringOK, EstimatesTypeOK
<1>4. QuantityOfMeasurements
  <2>1. Unmeasured <=> book = {}
    BY DEF EstimatesInit, Unmeasured
  <2>2. quantity = IF book = {} THEN Entered ELSE SumOf(book)
    BY DEF EstimatesInit
  <2>3. QED
    BY <2>1, <2>2 DEF QuantityOfMeasurements
<1>5. QED
  BY <1>3, <1>4, EstimatesAssumption DEF EstimatesInit, BookInv, HolderCommits, LateOnce, SumsRight, Editable

LEMMA BookStep ==
  ASSUME BookInv, [EstimatesNext]_estimatesVars
  PROVE  BookInv'
<1> USE EstimatesAssumption
<1> USE DEF MeasuringOK, EstimatesTypeOK
<1>1. MeasuringOK'
  <2>1. vQty' \in [Measurements -> Int]
    <3>1. CASE vQty' = vQty
      BY <3>1 DEF BookInv
    <3>2. ASSUME NEW m \in Measurements, Sum(m) PROVE vQty' \in [Measurements -> Int]
      <4>1. SumOf(Changed(m)) \in Int
        BY BookChanged, BookSum DEF BookInv
      <4>2. QED
        BY <3>2, <4>1 DEF BookInv, Sum
    <3>3. QED
      BY <3>1, <3>2 DEF EstimatesNext, estimatesVars, CheckEditable, NotEditable, Refuse, LockItem, FrozenMeanwhile, CommitMeasurement, MeasurementLost, SetEstimate
  <2>2. book' \in SUBSET Measurements /\ IsFiniteSet(book')
    <3>1. CASE UNCHANGED book
      BY <3>1 DEF BookInv
    <3>2. ASSUME NEW m \in Measurements, CommitMeasurement(m)
          PROVE  book' \in SUBSET Measurements /\ IsFiniteSet(book')
      <4>1. book' = Changed(m)
        BY <3>2 DEF CommitMeasurement
      <4>2. QED
        BY <4>1, BookChanged DEF BookInv
    <3>3. QED
      BY <3>1, <3>2 DEF EstimatesNext, estimatesVars, CheckEditable, NotEditable, Refuse, Sum, LockItem, FrozenMeanwhile, MeasurementLost, SetEstimate
  <2>3. estimate' \in Editable \cup {"APPROVED", "CANCELLED"}
    BY DEF BookInv, Editable, EstimatesNext, estimatesVars, CheckEditable, NotEditable, Refuse, Sum, LockItem, FrozenMeanwhile, CommitMeasurement, MeasurementLost, SetEstimate, MeasureGoto
  <2>4. measuring' \in [Measurements -> {"check", "sum", "item", "commit", "done", "refused"}]
    BY DEF BookInv, EstimatesNext, estimatesVars, CheckEditable, NotEditable, Refuse, Sum, LockItem, FrozenMeanwhile, CommitMeasurement, MeasurementLost, SetEstimate, MeasureGoto
  <2>5. outdated' \in BOOLEAN
    <3>1. outdated' = outdated \/ \E m \in Measurements : CommitMeasurement(m)
      BY DEF EstimatesNext, estimatesVars, CheckEditable, NotEditable, Refuse, Sum, LockItem, FrozenMeanwhile, MeasurementLost, SetEstimate
    <3>2. ASSUME NEW m \in Measurements, CommitMeasurement(m) PROVE outdated' \in BOOLEAN
      <4>1. outdated' = (m \in overtaken)
        BY <3>2 DEF CommitMeasurement
      <4>2. (m \in overtaken) \in BOOLEAN
        OBVIOUS
      <4>3. QED
        BY <4>1, <4>2
    <3>3. QED
      BY <3>1, <3>2 DEF BookInv
  <2>6. overtaken' \subseteq Measurements /\ late' \in Nat
    BY DEF BookInv, EstimatesNext, estimatesVars, CheckEditable, NotEditable, Refuse, Sum, LockItem, FrozenMeanwhile, CommitMeasurement, MeasurementLost, SetEstimate, MeasureGoto
  <2>7. quantity' \in Int
    <3>1. quantity' = quantity \/ \E m \in Measurements : quantity' = vQty[m]
      BY DEF EstimatesNext, estimatesVars, CheckEditable, NotEditable, Refuse, Sum, LockItem, FrozenMeanwhile, CommitMeasurement, MeasurementLost, SetEstimate
    <3>2. QED
      BY <3>1 DEF BookInv
  <2>8. holder' \in Measurements \cup {Nobody}
    BY DEF BookInv, EstimatesNext, estimatesVars, CheckEditable, NotEditable, Refuse, Sum, LockItem, FrozenMeanwhile, CommitMeasurement, MeasurementLost, SetEstimate, MeasureGoto
  <2>9. QED
    BY <2>1, <2>2, <2>3, <2>4, <2>5, <2>6, <2>7, <2>8
<1>2. HolderCommits'
  BY DEF BookInv, MeasuringOK, HolderCommits, EstimatesNext, estimatesVars, CheckEditable, NotEditable, Refuse, Sum, LockItem, FrozenMeanwhile, CommitMeasurement, MeasurementLost, SetEstimate, MeasureGoto
<1>3. LateOnce'
  <2>1. ASSUME NEW m \in Measurements, Sum(m) PROVE LateOnce'
    <3>1. \A w \in Measurements : holder = w => w # m /\ vQty'[w] = vQty[w]
      BY <2>1 DEF BookInv, MeasuringOK, HolderCommits, Sum
    <3>2. QED
      BY <2>1, <3>1 DEF BookInv, LateOnce, Sum
  <2>2. ASSUME NEW m \in Measurements, LockItem(m) PROVE LateOnce'
    BY <2>2 DEF BookInv, LateOnce, LockItem
  <2>3. ASSUME NEW m \in Measurements, CommitMeasurement(m) PROVE LateOnce'
    BY <2>3 DEF BookInv, MeasuringOK, HolderCommits, LateOnce, CommitMeasurement
  <2>4. ASSUME NEW st, SetEstimate(st) PROVE LateOnce'
    BY <2>4 DEF BookInv, LateOnce, SetEstimate
  <2>5. ASSUME NEW m \in Measurements, CheckEditable(m) \/ NotEditable(m)
                                       \/ FrozenMeanwhile(m) \/ MeasurementLost(m)
        PROVE LateOnce'
    BY <2>5 DEF BookInv, MeasuringOK, LateOnce, CheckEditable, NotEditable, Refuse, FrozenMeanwhile, MeasurementLost
  <2>6. CASE UNCHANGED estimatesVars
    BY <2>6 DEF BookInv, LateOnce, estimatesVars
  <2>7. QED
    BY <2>1, <2>2, <2>3, <2>4, <2>5, <2>6 DEF EstimatesNext
<1>4. SumsRight'
  <2>1. \A m \in Measurements : book' = book => Changed(m)' = Changed(m)
    BY DEF Changed
  <2>2. QED
    BY <2>1 DEF BookInv, MeasuringOK, HolderCommits, SumsRight, EstimatesNext, estimatesVars, CheckEditable, NotEditable, Refuse, Sum, LockItem, FrozenMeanwhile, CommitMeasurement, MeasurementLost, SetEstimate, MeasureGoto
<1>5. QuantityOfMeasurements'
  <2>1. ASSUME NEW m \in Measurements, CommitMeasurement(m) PROVE QuantityOfMeasurements'
    <3>1. measuring'[m] = "done"
      BY <2>1 DEF BookInv, CommitMeasurement, MeasureGoto
    <3>2. ~Unmeasured'
      BY <3>1 DEF Unmeasured
    <3>3. outdated' \/ quantity' = SumOf(book)'
      BY <2>1 DEF BookInv, SumsRight, CommitMeasurement
    <3>4. QED
      BY <3>2, <3>3 DEF QuantityOfMeasurements
  <2>2. CASE /\ UNCHANGED <<book, quantity, outdated>>
             /\ \A m \in Measurements : measuring'[m] = "done" <=> measuring[m] = "done"
    <3>1. Unmeasured' <=> Unmeasured
      BY <2>2 DEF Unmeasured
    <3>2. SumOf(book)' = SumOf(book)
      BY <2>2
    <3>3. QuantityOfMeasurements
      BY DEF BookInv
    <3>4. outdated' = outdated /\ quantity' = quantity
      BY <2>2
    <3>5. CASE Unmeasured
      BY <3>1, <3>3, <3>4, <3>5 DEF QuantityOfMeasurements
    <3>6. CASE ~Unmeasured /\ outdated
      BY <3>1, <3>4, <3>6 DEF QuantityOfMeasurements
    <3>7. CASE ~Unmeasured /\ ~outdated
      <4>1. quantity' = SumOf(book)'
        BY <3>2, <3>3, <3>4, <3>7 DEF QuantityOfMeasurements
      <4>2. QED
        BY <3>1, <3>7, <4>1 DEF QuantityOfMeasurements
    <3>8. QED
      BY <3>5, <3>6, <3>7
  <2>3. \/ \E m \in Measurements : CommitMeasurement(m)
        \/ /\ UNCHANGED <<book, quantity, outdated>>
           /\ \A m \in Measurements : measuring'[m] = "done" <=> measuring[m] = "done"
    BY DEF BookInv, EstimatesNext, estimatesVars, CheckEditable, NotEditable, Refuse, Sum, LockItem, FrozenMeanwhile, MeasurementLost, SetEstimate, MeasureGoto
  <2>4. QED
    BY <2>1, <2>2, <2>3
<1>6. QED
  BY <1>1, <1>2, <1>3, <1>4, <1>5 DEF BookInv

\* The steps of the others leave the measurement book alone.
LEMMA BookPart ==
  ASSUME [Next]_vars
  PROVE  [EstimatesNext]_estimatesVars
BY DEF Next, vars, estimatesVars

\* The transaction that commits holds the item, and at most one late change can
\* follow the freezing of the estimate.
THEOREM BookInductive == Spec => []BookInv
<1>1. Init => BookInv
  BY BookInitial DEF Init
<1>2. BookInv /\ [Next]_vars => BookInv'
  BY BookPart, BookStep
<1>3. QED
  BY <1>1, <1>2, PTL DEF Spec

\* The quantity of an item is the one typed in until it is measured, then the sum
\* of its measurements, unless the last transaction to write it had summed before
\* another one committed.
THEOREM QuantityRight == Spec => []QuantityOfMeasurements
<1>1. BookInv => QuantityOfMeasurements
  BY DEF BookInv
<1>2. QED
  BY <1>1, BookInductive, PTL

\* At most one change of the quantity lands after the estimate is frozen.
THEOREM FrozenAfterOne == Spec => []OneLateChange
<1>1. BookInv => OneLateChange
  BY DEF BookInv, LateOnce, OneLateChange
<1>2. QED
  BY <1>1, BookInductive, PTL

-------------------------------------------------------------------------------
(* The reference numbers.                                                    *)

LEMMA Minting ==
  ASSUME NumberingTypeOK, NEW s \in Scopes, NextRef(s)
  PROVE  /\ NumberingTypeOK'
         /\ last'[s] = last[s] + 1
         /\ \A t \in Scopes \ {s} : last'[t] = last[t]
BY DEF NumberingTypeOK, NextRef

LEMMA AppendFacts ==
  ASSUME NEW S, NEW q \in Seq(S), NEW e \in S
  PROVE  /\ Append(q, e) \in Seq(S)
         /\ Len(q) \in Nat /\ DOMAIN q = 1..Len(q)
         /\ Len(Append(q, e)) = Len(q) + 1
         /\ DOMAIN Append(q, e) = 1..Len(q) + 1
         /\ \A k \in 1..Len(q) : Append(q, e)[k] = q[k]
         /\ Append(q, e)[Len(q) + 1] = e
OBVIOUS

-------------------------------------------------------------------------------
(* Running account bills: their references and the versions of a             *)
(* certification.                                                            *)

\* A version is the next one, unless somebody has taken it since.
NextFree == \A r \in Certifiers :
    billing[r] = "version" => version[r] \in 1..Len(versions) + 1
\* Whoever has minted a number and not inserted its bill is the only one with it.
BillNumbers ==
    LET number == last["pmc_ra_bill"]
    IN  /\ \A k \in DOMAIN bills : bills[k].ref <= number
        /\ \A r \in Creators : billing[r] = "insert" =>
              /\ billRef[r] <= number
              /\ \A k \in DOMAIN bills : bills[k].ref # billRef[r]
              /\ \A q \in Creators \ {r} : billing[q] = "insert" => billRef[q] # billRef[r]
BillsInv ==
    /\ RaBillsTypeOK /\ Len(bills) > 0
    /\ NextFree /\ VersionHolds
    /\ BillNumbers /\ BillRefs

LEMMA BillsInitial == RaBillsInit => BillsInv
<1> SUFFICES ASSUME RaBillsInit PROVE BillsInv
  OBVIOUS
<1> USE RaBillsAssumption DEF RaBillsInit, NumberingInit
<1>1. bills \in Seq(Bill) /\ Len(bills) = 1 /\ bills[1].ref = 1
  BY DEF Bill, BillStatuses
<1>2. RaBillsTypeOK
  <2>1. raLines \in Seq(Int) /\ versions \in Seq([hash : STRING, gross : Int])
    OBVIOUS
  <2>2. NumberingTypeOK /\ gross \in [Billers -> Int]
    BY DEF NumberingTypeOK
  <2>3. /\ billing \in [Billers -> {"start", "insert", "read", "write", "certify", "find",
                                    "max", "version", "done", "failed"}]
        /\ billRef \in [Creators -> Nat] /\ version \in [Certifiers -> Nat]
    OBVIOUS
  <2>4. QED
    BY <1>1, <2>1, <2>2, <2>3 DEF RaBillsTypeOK
<1>3. NextFree /\ VersionHolds
  BY DEF NextFree, VersionHolds, Billers
<1>4. BillNumbers /\ BillRefs
  BY <1>1 DEF BillNumbers, BillRefs, Billers, Scopes
<1>5. QED
  BY <1>1, <1>2, <1>3, <1>4 DEF BillsInv

\* The first bill changes, but for its reference.
LEMMA FirstBill ==
  ASSUME BillsInv, NEW b \in Bill, b.ref = bills[1].ref, bills' = [bills EXCEPT ![1] = b]
  PROVE  /\ bills' \in Seq(Bill) /\ Len(bills') = Len(bills)
         /\ DOMAIN bills' = DOMAIN bills
         /\ \A k \in DOMAIN bills : bills'[k].ref = bills[k].ref
<1>1. bills \in Seq(Bill) /\ 1 \in 1..Len(bills) /\ DOMAIN bills = 1..Len(bills)
  BY DEF BillsInv, RaBillsTypeOK
<1>2. /\ bills' \in Seq(Bill) /\ Len(bills') = Len(bills)
      /\ \A j \in 1..Len(bills) : bills'[j] = IF j = 1 THEN b ELSE bills[j]
  BY <1>1, ExceptSeq
<1>3. QED
  BY <1>1, <1>2

\* A step that changes no references and no versions.
LEMMA BillsRest ==
  ASSUME BillsInv, RaBillsTypeOK',
         NEW r \in Billers, NEW step, step \notin {"insert", "version"}, BillGoto(r, step),
         step = "done" => r \notin Certifiers,
         UNCHANGED <<last, billRef, version, versions>>,
         Len(bills') = Len(bills), DOMAIN bills' = DOMAIN bills,
         \A k \in DOMAIN bills : bills'[k].ref = bills[k].ref
  PROVE  BillsInv'
<1>1. \A q \in Billers : billing'[q] = IF q = r THEN step ELSE billing[q]
  BY DEF BillGoto, BillsInv, RaBillsTypeOK
<1>2. Certifiers \subseteq Billers /\ Creators \subseteq Billers
  BY DEF Billers
<1>3. (NextFree /\ VersionHolds)'
  BY <1>1, <1>2 DEF BillsInv, NextFree, VersionHolds
<1>4. (BillNumbers /\ BillRefs)'
  BY <1>1, <1>2 DEF BillsInv, BillNumbers, BillRefs
<1>5. QED
  BY <1>3, <1>4 DEF BillsInv

\* Nobody has used the number that has just been minted, or is about to.
LEMMA FreshNumber ==
  ASSUME BillsInv, NextRef("pmc_ra_bill")
  PROVE  LET number == last'["pmc_ra_bill"]
         IN  /\ number \in Nat /\ last["pmc_ra_bill"] < number
             /\ NumberingTypeOK'
             /\ \A k \in DOMAIN bills : bills[k].ref < number
             /\ \A q \in Creators : billing[q] = "insert" => billRef[q] < number
<1>1. NumberingTypeOK /\ "pmc_ra_bill" \in Scopes
  BY DEF BillsInv, RaBillsTypeOK, Scopes
<1>2. NumberingTypeOK' /\ last'["pmc_ra_bill"] = last["pmc_ra_bill"] + 1
  BY <1>1, Minting
<1>3. last["pmc_ra_bill"] \in Nat
  BY <1>1 DEF NumberingTypeOK
<1>4. \A k \in DOMAIN bills : bills[k].ref \in Nat
  <2>1. bills \in Seq(Bill) /\ DOMAIN bills = 1..Len(bills)
    BY DEF BillsInv, RaBillsTypeOK
  <2>2. \A k \in DOMAIN bills : bills[k] \in Bill
    BY <2>1, ElementOfSeq
  <2>3. QED
    BY <2>2 DEF Bill
<1>5. \A q \in Creators : billRef[q] \in Nat
  BY DEF BillsInv, RaBillsTypeOK
<1>6. QED
  BY <1>2, <1>3, <1>4, <1>5 DEF BillsInv, BillNumbers

LEMMA NewBillTypes ==
  ASSUME BillsInv, NEW number \in Nat, NEW sum \in Int, NewBill(number, sum)
  PROVE  /\ bills' \in Seq(Bill) /\ Len(bills') = Len(bills) + 1 /\ Len(bills) \in Nat
         /\ DOMAIN bills = 1..Len(bills)
         /\ DOMAIN bills' = 1..Len(bills) + 1
         /\ \A k \in 1..Len(bills) : bills'[k] = bills[k]
         /\ bills'[Len(bills) + 1].ref = number
         /\ \A k \in DOMAIN bills' :
               \/ k \in DOMAIN bills /\ bills'[k] = bills[k]
               \/ k = Len(bills) + 1 /\ bills'[k].ref = number
<1> DEFINE b == [ref |-> number, gross |-> sum, status |-> "DRAFT"]
<1>1. b \in Bill /\ bills \in Seq(Bill) /\ b.ref = number
  BY DEF Bill, BillStatuses, BillsInv, RaBillsTypeOK
<1>2. bills' = Append(bills, b)
  BY DEF NewBill
<1> HIDE DEF b
<1>3. /\ bills' \in Seq(Bill) /\ Len(bills') = Len(bills) + 1 /\ Len(bills) \in Nat
      /\ DOMAIN bills = 1..Len(bills) /\ DOMAIN bills' = 1..Len(bills) + 1
      /\ \A k \in 1..Len(bills) : bills'[k] = bills[k]
      /\ bills'[Len(bills) + 1] = b
  BY <1>1, <1>2, AppendFacts
<1>4. QED
  BY <1>1, <1>3

LEMMA CreatingKeeps ==
  ASSUME BillsInv,
         NEW r \in Billers,
         \/ r \in Creators /\ (MintBill(r) \/ InsertBill(r))
         \/ r \in Contractors /\ SubmitBill(r)
  PROVE  BillsInv'
<1> USE RaBillsAssumption
<1>1. CASE r \in Creators /\ MintBill(r)
  <2>1. /\ NumberingTypeOK' /\ last'["pmc_ra_bill"] \in Nat
        /\ last["pmc_ra_bill"] < last'["pmc_ra_bill"]
        /\ \A k \in DOMAIN bills : bills[k].ref < last'["pmc_ra_bill"]
        /\ \A q \in Creators : billing[q] = "insert" => billRef[q] < last'["pmc_ra_bill"]
    BY <1>1, FreshNumber DEF MintBill
  <2>2. /\ \A q \in Billers : billing'[q] = IF q = r THEN "insert" ELSE billing[q]
        /\ \A q \in Creators : billRef'[q] = IF q = r THEN last'["pmc_ra_bill"] ELSE billRef[q]
        /\ UNCHANGED <<bills, raLines, versions, gross, version, passed, lost>>
    BY <1>1 DEF MintBill, BillGoto, BillsInv, RaBillsTypeOK
  <2>3. RaBillsTypeOK'
    BY <1>1, <2>1, <2>2 DEF MintBill, BillGoto, BillsInv, RaBillsTypeOK
  <2>4. (NextFree /\ VersionHolds)'
    BY <1>1, <2>2 DEF BillsInv, NextFree, VersionHolds, Billers
  <2>5. BillNumbers'
    <3>1. \A k \in DOMAIN bills : bills[k].ref <= last'["pmc_ra_bill"]
                                 /\ bills[k].ref # last'["pmc_ra_bill"]
      <4>1. \A k \in DOMAIN bills : bills[k] \in Bill
        BY ElementOfSeq DEF BillsInv, RaBillsTypeOK
      <4>2. QED
        BY <2>1, <4>1 DEF Bill
    <3>2. \A q \in Creators : billing[q] = "insert" =>
              billRef[q] <= last'["pmc_ra_bill"] /\ billRef[q] # last'["pmc_ra_bill"]
      BY <2>1 DEF BillsInv, RaBillsTypeOK
    <3>3. QED
      BY <2>1, <2>2, <3>1, <3>2 DEF BillsInv, BillNumbers, Billers
  <2>6. BillRefs'
    BY <2>2 DEF BillsInv, BillRefs
  <2>7. QED
    BY <2>2, <2>3, <2>4, <2>5, <2>6 DEF BillsInv
<1>2. CASE r \in Creators /\ InsertBill(r)
  <2>1. NewBill(billRef[r], 0) /\ billing[r] = "insert" /\ billRef[r] \in Nat
    BY <1>2 DEF InsertBill, BillsInv, RaBillsTypeOK
  <2>2. /\ bills' \in Seq(Bill) /\ Len(bills') = Len(bills) + 1 /\ Len(bills) \in Nat
        /\ DOMAIN bills = 1..Len(bills)
        /\ DOMAIN bills' = 1..Len(bills) + 1
        /\ \A k \in 1..Len(bills) : bills'[k] = bills[k]
        /\ \A k \in DOMAIN bills' :
              \/ k \in DOMAIN bills /\ bills'[k] = bills[k]
              \/ k = Len(bills) + 1 /\ bills'[k].ref = billRef[r]
    BY <2>1, NewBillTypes
  <2>3. /\ \A q \in Billers : billing'[q] = IF q = r THEN "done" ELSE billing[q]
        /\ UNCHANGED <<last, raLines, versions, billRef, gross, version, passed, lost>>
    BY <1>2 DEF InsertBill, BillGoto, BillsInv, RaBillsTypeOK
  <2>4. RaBillsTypeOK'
    BY <1>2, <2>2, <2>3 DEF InsertBill, BillGoto, BillsInv, RaBillsTypeOK, NumberingTypeOK
  <2>5. (NextFree /\ VersionHolds)'
    BY <1>2, <2>3 DEF BillsInv, NextFree, VersionHolds, Billers
  <2>6. BillNumbers'
    <3>1. ASSUME NEW k \in DOMAIN bills' PROVE bills'[k].ref <= last["pmc_ra_bill"]
      BY <1>2, <2>1, <2>2, <3>1 DEF BillsInv, BillNumbers
    <3>2. ASSUME NEW q \in Creators, billing'[q] = "insert"
          PROVE  q # r /\ billing[q] = "insert" /\ billRef'[q] = billRef[q]
      BY <1>2, <2>3, <3>2 DEF Billers
    <3>3. ASSUME NEW q \in Creators, billing'[q] = "insert", NEW k \in DOMAIN bills'
          PROVE  bills'[k].ref # billRef[q]
      BY <1>2, <2>1, <2>2, <3>2, <3>3 DEF BillsInv, BillNumbers
    <3>4. QED
      BY <2>3, <3>1, <3>2, <3>3 DEF BillsInv, BillNumbers
  <2>7. BillRefs'
    <3>1. \A k \in DOMAIN bills : bills[k].ref # billRef[r]
      BY <1>2, <2>1 DEF BillsInv, BillNumbers
    <3>2. ASSUME NEW k \in DOMAIN bills', NEW l \in DOMAIN bills', bills'[k].ref = bills'[l].ref
          PROVE  k = l
      BY <2>2, <3>1, <3>2 DEF BillsInv, BillRefs
    <3>3. QED
      BY <3>2 DEF BillRefs
  <2>8. QED
    BY <2>2, <2>4, <2>5, <2>6, <2>7 DEF BillsInv
<1>3. CASE r \in Contractors /\ SubmitBill(r)
  <2>1. /\ NumberingTypeOK' /\ last'["pmc_ra_bill"] \in Nat
        /\ last["pmc_ra_bill"] < last'["pmc_ra_bill"]
        /\ \A k \in DOMAIN bills : bills[k].ref < last'["pmc_ra_bill"]
        /\ \A q \in Creators : billing[q] = "insert" => billRef[q] < last'["pmc_ra_bill"]
    BY <1>3, FreshNumber DEF SubmitBill
  <2>2. NewBill(last'["pmc_ra_bill"], Claim[r]) /\ Claim[r] \in Int
    BY <1>3 DEF SubmitBill
  <2>3. /\ bills' \in Seq(Bill) /\ Len(bills') = Len(bills) + 1 /\ Len(bills) \in Nat
        /\ DOMAIN bills = 1..Len(bills)
        /\ DOMAIN bills' = 1..Len(bills) + 1
        /\ \A k \in 1..Len(bills) : bills'[k] = bills[k]
        /\ \A k \in DOMAIN bills' :
              \/ k \in DOMAIN bills /\ bills'[k] = bills[k]
              \/ k = Len(bills) + 1 /\ bills'[k].ref = last'["pmc_ra_bill"]
    BY <2>1, <2>2, NewBillTypes
  <2>4. /\ \A q \in Billers : billing'[q] = IF q = r THEN "done" ELSE billing[q]
        /\ UNCHANGED <<raLines, versions, billRef, gross, version, passed, lost>>
    BY <1>3 DEF SubmitBill, BillGoto, BillsInv, RaBillsTypeOK
  <2>5. RaBillsTypeOK'
    BY <1>3, <2>1, <2>3, <2>4 DEF SubmitBill, BillGoto, BillsInv, RaBillsTypeOK
  <2>6. (NextFree /\ VersionHolds)'
    BY <1>3, <2>4 DEF BillsInv, NextFree, VersionHolds, Billers
  <2>7. \A k \in DOMAIN bills : bills[k].ref \in Nat
    <3>1. \A k \in 1..Len(bills) : bills[k] \in Bill
      BY ElementOfSeq DEF BillsInv, RaBillsTypeOK
    <3>2. QED
      BY <2>3, <3>1 DEF Bill
  <2>8. BillNumbers'
    <3>1. ASSUME NEW q \in Creators, billing'[q] = "insert"
          PROVE  billing[q] = "insert" /\ billRef'[q] = billRef[q] /\ billRef[q] \in Nat
      BY <1>3, <2>4, <3>1 DEF BillsInv, RaBillsTypeOK, Billers
    <3>2. \A k \in DOMAIN bills' : bills'[k].ref <= last'["pmc_ra_bill"]
      BY <2>1, <2>3, <2>7
    <3>3. ASSUME NEW q \in Creators, billing'[q] = "insert"
          PROVE  /\ billRef[q] <= last'["pmc_ra_bill"]
                 /\ \A k \in DOMAIN bills' : bills'[k].ref # billRef[q]
      <4>1. billRef[q] < last'["pmc_ra_bill"] /\ billRef[q] \in Nat /\ billing[q] = "insert"
        BY <2>1, <3>1, <3>3
      <4>2. \A k \in DOMAIN bills : bills[k].ref # billRef[q]
        BY <4>1 DEF BillsInv, BillNumbers
      <4>3. ASSUME NEW k \in DOMAIN bills'
            PROVE  bills'[k].ref = last'["pmc_ra_bill"] \/ bills'[k].ref # billRef[q]
        BY <2>3, <4>2
      <4>4. QED
        BY <2>1, <4>1, <4>3
    <3>4. QED
      BY <2>4, <3>1, <3>2, <3>3 DEF BillsInv, BillNumbers
  <2>9. BillRefs'
    <3>1. \A k \in DOMAIN bills : bills[k].ref # last'["pmc_ra_bill"]
      BY <2>1, <2>7
    <3>2. ASSUME NEW k \in DOMAIN bills', NEW l \in DOMAIN bills', bills'[k].ref = bills'[l].ref
          PROVE  k = l
      BY <2>3, <3>1, <3>2 DEF BillsInv, BillRefs
    <3>3. QED
      BY <3>2 DEF BillRefs
  <2>10. QED
    BY <2>3, <2>5, <2>6, <2>8, <2>9 DEF BillsInv
<1>4. QED
  BY <1>1, <1>2, <1>3

LEMMA BillsStep ==
  ASSUME BillsInv, RaBillsNext
  PROVE  BillsInv'
<1> USE RaBillsAssumption
<1>1. /\ bills \in Seq(Bill) /\ bills[1] \in Bill /\ DOMAIN bills = 1..Len(bills)
      /\ raLines \in Seq(Int) /\ versions \in Seq([hash : STRING, gross : Int])
      /\ Len(versions) \in Nat /\ DOMAIN versions = 1..Len(versions)
  BY ElementOfSeq DEF BillsInv, RaBillsTypeOK
<1>2. Creators \subseteq Billers /\ Liners \subseteq Billers /\ Certifiers \subseteq Billers
  BY DEF Billers
<1>3. ASSUME NEW r \in Liners, InsertLine(r) PROVE BillsInv'
  <2>1. raLines' \in Seq(Int)
    BY <1>1, <1>3 DEF InsertLine
  <2>2. RaBillsTypeOK'
    BY <1>2, <1>3, <2>1 DEF InsertLine, BillGoto, BillsInv, RaBillsTypeOK, NumberingTypeOK
  <2>3. QED
    BY <1>2, <1>3, <2>2, BillsRest DEF InsertLine
<1>4. ASSUME NEW r \in Liners, ReadGross(r) \/ GrossUnread(r) PROVE BillsInv'
  <2>1. bills[1].gross \in Int
    BY <1>1 DEF Bill
  <2>2. RaBillsTypeOK'
    <3>1. CASE ReadGross(r)
      BY <1>2, <2>1, <3>1 DEF ReadGross, BillGoto, BillsInv, RaBillsTypeOK, NumberingTypeOK
    <3>2. CASE GrossUnread(r)
      BY <1>2, <3>2 DEF GrossUnread, BillGoto, BillsInv, RaBillsTypeOK, NumberingTypeOK
    <3>3. QED
      BY <1>4, <3>1, <3>2
  <2>3. QED
    BY <1>2, <1>4, <2>2, BillsRest DEF ReadGross, GrossUnread
<1>5. ASSUME NEW r \in Liners, WriteGross(r) PROVE BillsInv'
  <2> DEFINE b == [bills[1] EXCEPT !.gross = gross[r] + Amount[r]]
  <2>1. gross[r] + Amount[r] \in Int
    BY <1>2 DEF BillsInv, RaBillsTypeOK
  <2>2. b \in Bill /\ b.ref = bills[1].ref
    BY <1>1, <2>1 DEF Bill
  <2>3. bills' = [bills EXCEPT ![1] = b]
    BY <1>5 DEF WriteGross
  <2> HIDE DEF b
  <2>4. /\ bills' \in Seq(Bill) /\ Len(bills') = Len(bills)
        /\ DOMAIN bills' = DOMAIN bills
        /\ \A k \in DOMAIN bills : bills'[k].ref = bills[k].ref
    BY <2>2, <2>3, FirstBill
  <2>5. RaBillsTypeOK'
    BY <1>2, <1>5, <2>4 DEF WriteGross, BillGoto, BillsInv, RaBillsTypeOK, NumberingTypeOK
  <2>6. r \notin Certifiers
    OBVIOUS
  <2>7. QED
    BY <1>2, <1>5, <2>4, <2>5, <2>6, BillsRest DEF WriteGross
<1>6. ASSUME NEW st \in BillStatuses, SetBillStatus(st) PROVE BillsInv'
  <2> DEFINE b == [bills[1] EXCEPT !.status = st]
  <2>1. b \in Bill /\ b.ref = bills[1].ref
    BY <1>1 DEF Bill
  <2>2. bills' = [bills EXCEPT ![1] = b]
    BY <1>6 DEF SetBillStatus
  <2> HIDE DEF b
  <2>3. /\ bills' \in Seq(Bill) /\ Len(bills') = Len(bills)
        /\ DOMAIN bills' = DOMAIN bills
        /\ \A k \in DOMAIN bills : bills'[k].ref = bills[k].ref
    BY <2>1, <2>2, FirstBill
  <2>4. QED
    BY <1>6, <2>3 DEF SetBillStatus, BillsInv, RaBillsTypeOK, NumberingTypeOK, NextFree, VersionHolds, BillNumbers, BillRefs
<1>7. ASSUME NEW r \in Certifiers, ReadBill(r) PROVE BillsInv'
  <2>1. bills[1].gross \in Int
    BY <1>1 DEF Bill
  <2>2. RaBillsTypeOK'
    BY <1>2, <1>7, <2>1 DEF ReadBill, BillGoto, BillsInv, RaBillsTypeOK, NumberingTypeOK
  <2>3. QED
    BY <1>2, <1>7, <2>2, BillsRest DEF ReadBill
<1>8. ASSUME NEW r \in Certifiers, Certify(r) PROVE BillsInv'
  <2> DEFINE b == [bills[1] EXCEPT !.status = "CERTIFIED"]
  <2>1. b \in Bill /\ b.ref = bills[1].ref
    BY <1>1 DEF Bill, BillStatuses
  <2>2. bills' = [bills EXCEPT ![1] = b]
    BY <1>8 DEF Certify
  <2> HIDE DEF b
  <2>3. /\ bills' \in Seq(Bill) /\ Len(bills') = Len(bills)
        /\ DOMAIN bills' = DOMAIN bills
        /\ \A k \in DOMAIN bills : bills'[k].ref = bills[k].ref
    BY <2>1, <2>2, FirstBill
  <2>4. RaBillsTypeOK'
    BY <1>2, <1>8, <2>3 DEF Certify, BillGoto, BillsInv, RaBillsTypeOK, NumberingTypeOK
  <2>5. QED
    BY <1>2, <1>8, <2>3, <2>4, BillsRest DEF Certify
<1>9. ASSUME NEW r \in Certifiers, FindVersion(r) \/ NextVersion(r) \/ InsertVersion(r)
      PROVE BillsInv'
  <2>1. /\ UNCHANGED <<last, bills, raLines, billRef, gross, passed, lost>>
        /\ r \in Billers /\ r \notin Creators
    BY <1>2, <1>9 DEF FindVersion, NextVersion, InsertVersion
  <2>2. \E step : BillGoto(r, step) /\ step \in {"max", "version", "failed", "done"}
    BY <1>9 DEF FindVersion, NextVersion, InsertVersion
  <2>3. /\ billing' \in [Billers -> {"start", "insert", "read", "write", "certify", "find",
                                     "max", "version", "done", "failed"}]
        /\ \A q \in Billers \ {r} : billing'[q] = billing[q]
    BY <2>1, <2>2 DEF BillGoto, BillsInv, RaBillsTypeOK
  <2>4. /\ version \in [Certifiers -> Nat] /\ gross[r] \in Int /\ Hash[r] \in STRING
        /\ billing \in [Billers -> {"start", "insert", "read", "write", "certify", "find",
                                    "max", "version", "done", "failed"}]
    BY <2>1 DEF BillsInv, RaBillsTypeOK
  <2>5. /\ versions' \in Seq([hash : STRING, gross : Int])
        /\ version' \in [Certifiers -> Nat]
        /\ (NextFree /\ VersionHolds)'
    <3>1. CASE FindVersion(r)
      <4>1. CASE Same(r) = {}
        <5>1. versions' = versions /\ version' = version /\ billing'[r] = "max"
          BY <2>1, <2>4, <3>1, <4>1 DEF FindVersion, BillGoto
        <5>2. QED
          BY <1>1, <1>2, <2>3, <2>4, <5>1 DEF BillsInv, NextFree, VersionHolds
      <4>2. ASSUME NEW v \in Same(r), version' = [version EXCEPT ![r] = v],
                   BillGoto(r, "done")
            PROVE  /\ versions' \in Seq([hash : STRING, gross : Int])
                   /\ version' \in [Certifiers -> Nat]
                   /\ (NextFree /\ VersionHolds)'
        <5>1. v \in DOMAIN versions /\ versions[v].hash = Hash[r] /\ v \in Nat
          BY <1>1 DEF Same
        <5>2. versions' = versions /\ version'[r] = v /\ billing'[r] = "done"
          BY <2>1, <2>4, <3>1, <4>2 DEF FindVersion, BillGoto
        <5>3. \A q \in Certifiers \ {r} : version'[q] = version[q]
          BY <2>4, <4>2
        <5>4. QED
          BY <1>1, <1>2, <2>3, <2>4, <4>2, <5>1, <5>2, <5>3 DEF BillsInv, NextFree, VersionHolds
      <4>3. QED
        BY <3>1, <4>1, <4>2 DEF FindVersion
    <3>2. CASE NextVersion(r)
      <4>1. /\ versions' = versions /\ version'[r] = Len(versions) + 1 /\ billing'[r] = "version"
            /\ \A q \in Certifiers \ {r} : version'[q] = version[q]
            /\ version' \in [Certifiers -> Nat]
        BY <1>1, <2>1, <2>4, <3>2 DEF NextVersion, BillGoto
      <4>2. NextFree'
        <5>1. SUFFICES ASSUME NEW q \in Certifiers, billing'[q] = "version"
                       PROVE  version'[q] \in 1..Len(versions) + 1
          BY <4>1 DEF NextFree
        <5>2. CASE q = r
          BY <1>1, <4>1, <5>2
        <5>3. CASE q # r
          <6>1. billing[q] = "version" /\ version'[q] = version[q]
            BY <1>2, <2>3, <4>1, <5>1, <5>3
          <6>2. QED
            BY <6>1 DEF BillsInv, NextFree
        <5>4. QED
          BY <5>2, <5>3
      <4>3. VersionHolds'
        BY <1>1, <1>2, <2>3, <4>1 DEF BillsInv, VersionHolds
      <4>4. QED
        BY <4>1, <4>2, <4>3 DEF BillsInv, RaBillsTypeOK
    <3>3. CASE InsertVersion(r)
      <4>1. billing[r] = "version" /\ version' = version /\ version[r] \in 1..Len(versions) + 1
        BY <3>3 DEF InsertVersion, BillsInv, NextFree
      <4>2. CASE version[r] \in DOMAIN versions
        <5>1. versions' = versions /\ billing'[r] = "failed"
          BY <2>1, <2>4, <3>3, <4>2 DEF InsertVersion, BillGoto
        <5>2. QED
          BY <1>1, <1>2, <2>3, <2>4, <4>1, <5>1 DEF BillsInv, NextFree, VersionHolds
      <4>3. CASE version[r] \notin DOMAIN versions
        <5> DEFINE v == [hash |-> Hash[r], gross |-> gross[r]]
        <5>1. versions' = Append(versions, v) /\ billing'[r] = "done"
          BY <2>1, <2>4, <3>3, <4>3 DEF InsertVersion, BillGoto
        <5>2. v \in [hash : STRING, gross : Int] /\ v.hash = Hash[r]
          BY <2>4
        <5> HIDE DEF v
        <5>3. /\ versions' \in Seq([hash : STRING, gross : Int])
              /\ Len(versions') = Len(versions) + 1
              /\ DOMAIN versions' = 1..Len(versions) + 1
              /\ \A k \in 1..Len(versions) : versions'[k] = versions[k]
              /\ versions'[Len(versions) + 1] = v
          BY <1>1, <5>1, <5>2, AppendFacts
        <5>4. version[r] = Len(versions) + 1
          BY <1>1, <4>1, <4>3
        <5>5. NextFree'
          <6>1. SUFFICES ASSUME NEW q \in Certifiers, billing'[q] = "version"
                         PROVE  version'[q] \in 1..Len(versions') + 1
            BY DEF NextFree
          <6>2. billing[q] = "version" /\ version'[q] = version[q]
            BY <1>2, <2>3, <4>1, <5>1, <6>1
          <6>3. version[q] \in 1..Len(versions) + 1 /\ Len(versions) \in Nat
            BY <1>1, <6>2 DEF BillsInv, NextFree
          <6>4. QED
            BY <5>3, <6>2, <6>3
        <5>6. VersionHolds'
          <6>1. SUFFICES ASSUME NEW q \in Certifiers, billing'[q] = "done"
                         PROVE  /\ version'[q] \in 1..Len(versions) + 1
                                /\ versions'[version'[q]].hash = Hash[q]
            BY <5>3 DEF VersionHolds
          <6>2. CASE q = r
            BY <1>1, <4>1, <5>2, <5>3, <5>4, <6>2
          <6>3. CASE q # r
            <7>1. billing[q] = "done" /\ version'[q] = version[q]
              BY <1>2, <2>3, <4>1, <6>1, <6>3
            <7>2. version[q] \in 1..Len(versions) /\ versions[version[q]].hash = Hash[q]
              BY <1>1, <7>1 DEF BillsInv, VersionHolds
            <7>3. versions'[version[q]] = versions[version[q]] /\ Len(versions) \in Nat
              BY <1>1, <5>3, <7>2
            <7>4. QED
              BY <7>1, <7>2, <7>3
          <6>4. QED
            BY <6>2, <6>3
        <5>7. QED
          BY <2>4, <4>1, <5>3, <5>5, <5>6
      <4>4. QED
        BY <4>2, <4>3
    <3>4. QED
      BY <1>9, <3>1, <3>2, <3>3
  <2>6. RaBillsTypeOK'
    BY <2>1, <2>3, <2>5 DEF BillsInv, RaBillsTypeOK, NumberingTypeOK
  <2>7. (BillNumbers /\ BillRefs)'
    BY <1>2, <2>1, <2>3 DEF BillsInv, BillNumbers, BillRefs
  <2>8. QED
    BY <2>1, <2>5, <2>6, <2>7 DEF BillsInv
<1>10. ASSUME NEW r \in Billers, BillFails(r) PROVE BillsInv'
  <2>1. RaBillsTypeOK'
    BY <1>10 DEF BillFails, BillGoto, BillsInv, RaBillsTypeOK, NumberingTypeOK
  <2>2. QED
    BY <1>10, <2>1, BillsRest DEF BillFails
<1>11. QED
  BY <1>2, <1>3, <1>4, <1>5, <1>6, <1>7, <1>8, <1>9, <1>10, CreatingKeeps DEF RaBillsNext, Billers

\* The steps of the others leave the bills alone, and mint no number of theirs.
LEMMA BillsFrame ==
  ASSUME BillsInv, UNCHANGED billsOwn, NumberingTypeOK',
         last'["pmc_ra_bill"] = last["pmc_ra_bill"]
  PROVE  BillsInv'
<1>1. Certifiers \subseteq Billers
  BY DEF Billers
<1>2. RaBillsTypeOK'
  BY DEF billsOwn, BillsInv, RaBillsTypeOK
<1>3. (NextFree /\ VersionHolds)'
  BY DEF billsOwn, BillsInv, NextFree, VersionHolds
<1>4. (BillNumbers /\ BillRefs)'
  BY DEF billsOwn, BillsInv, BillNumbers, BillRefs
<1>5. QED
  BY <1>2, <1>3, <1>4 DEF billsOwn, BillsInv

\* A step keeps the numbers of every scope, or mints one.
LEMMA DrawingsMint ==
  ASSUME NumberingTypeOK, DrawingsNext
  PROVE  NumberingTypeOK' /\ \A t \in Scopes \ {"drawing"} : last'[t] = last[t]
<1>1. CASE UNCHANGED last
  BY <1>1 DEF NumberingTypeOK
<1>2. CASE NextRef("drawing")
  BY <1>2, Minting DEF Scopes
<1>3. QED
  BY <1>1, <1>2 DEF DrawingsNext, ReadChain, UnsetCurrent, MintDrawing, InsertDrawing, EnqueueConversion, EnqueueFails, UploadFails, StartConversion, Convert

LEMMA BillsMint ==
  ASSUME NumberingTypeOK, RaBillsNext
  PROVE  NumberingTypeOK' /\ \A t \in Scopes \ {"pmc_ra_bill"} : last'[t] = last[t]
<1>1. CASE UNCHANGED last
  BY <1>1 DEF NumberingTypeOK
<1>2. CASE NextRef("pmc_ra_bill")
  BY <1>2, Minting DEF Scopes
<1>3. QED
  BY <1>1, <1>2 DEF RaBillsNext, MintBill, InsertBill, SubmitBill, InsertLine, ReadGross, GrossUnread, WriteGross, SetBillStatus, ReadBill, Certify, FindVersion, NextVersion, InsertVersion, BillFails

LEMMA InvoicesMint ==
  ASSUME NumberingTypeOK, InvoicesNext
  PROVE  NumberingTypeOK' /\ \A t \in Scopes \ {"invoice"} : last'[t] = last[t]
<1>1. CASE UNCHANGED last
  BY <1>1 DEF NumberingTypeOK
<1>2. CASE NextRef("invoice")
  BY <1>2, Minting DEF Scopes
<1>3. QED
  BY <1>1, <1>2 DEF InvoicesNext, ReadPrior, PriorUnread, MintInvoice, InsertInvoice, InvoiceFails

\* The versions stay in order, and the references below the counter.
THEOREM BillsInductive == Spec => []BillsInv
<1>1. Init => BillsInv
  BY BillsInitial DEF Init
<1>2. BillsInv /\ [Next]_vars => BillsInv'
  <2> SUFFICES ASSUME BillsInv, [Next]_vars PROVE BillsInv'
    OBVIOUS
  <2>1. NumberingTypeOK
    BY DEF BillsInv, RaBillsTypeOK
  <2>2. CASE RaBillsNext
    BY <2>2, BillsStep
  <2>3. CASE UNCHANGED billsOwn /\ (DrawingsNext \/ InvoicesNext \/ UNCHANGED last)
    BY <2>1, <2>3, DrawingsMint, InvoicesMint, BillsFrame DEF Scopes, NumberingTypeOK
  <2>4. QED
    BY <2>2, <2>3 DEF Next, vars, billsOwn
<1>3. QED
  BY <1>1, <1>2, PTL DEF Spec

\* A certification that answers a version answers one of its own content.
THEOREM VersionsHold == Spec => []VersionHolds
<1>1. BillsInv => VersionHolds
  BY DEF BillsInv
<1>2. QED
  BY <1>1, BillsInductive, PTL
-------------------------------------------------------------------------------
(* Drawings: the newest revision stays in sight, and their references have    *)
(* no gap that nobody failed to fill.  What revision numbers are chosen does  *)
(* not matter.                                                               *)

RowOver(S) ==
    [rev : S, current : BOOLEAN, ref : Nat, by : Uploads \cup {"root"},
     status : {"PENDING", "PROCESSING", "READY", "FAILED"}]
ChainOK ==
    /\ NumberingTypeOK
    /\ \E S : revNo \in [Uploads -> S] /\ chain \in Seq(RowOver(S))
    /\ Len(chain) > 0
    /\ uploading \in [Uploads -> {"read", "unset", "mint", "insert", "queue",
                                  "done", "failed"}]
    /\ current \in [Uploads -> SUBSET (1..Len(chain))]
    /\ ref \in [Uploads -> Nat]
\* An upload that has inserted its row has one above those it replaces.
ReadThenAbove == \A u \in Uploads :
    /\ uploading[u] = "read" => current[u] = {}
    /\ uploading[u] = "queue" => Len(chain) \notin current[u]
OnRow(n) == \E k \in DOMAIN chain : chain[k].ref = n
Held(n) == \E u \in Uploads : uploading[u] \in {"insert", "failed"} /\ ref[u] = n
DrawingNumbers ==
    LET number == last["drawing"]
    IN  /\ \A n \in 1..number : OnRow(n) \/ Held(n)
        /\ \A k \in DOMAIN chain : chain[k].ref <= number
        /\ \A k, l \in DOMAIN chain : chain[k].ref = chain[l].ref => k = l
        /\ \A u \in Uploads : uploading[u] = "insert" =>
              /\ ref[u] <= number /\ ~OnRow(ref[u])
              /\ \A w \in Uploads \ {u} : uploading[w] = "insert" => ref[w] # ref[u]
DrawingsInv == ChainOK /\ ReadThenAbove /\ NewestIsCurrent /\ DrawingNumbers

LEMMA DrawingsInitial == DrawingsInit => DrawingsInv
<1> SUFFICES ASSUME DrawingsInit PROVE DrawingsInv
  OBVIOUS
<1> USE DEF DrawingsInit, NumberingInit
<1>1. chain \in Seq(RowOver({0, 1})) /\ Len(chain) = 1 /\ DOMAIN chain = {1} /\ chain[1].ref = 1
      /\ chain[1].current
  BY DEF RowOver
<1>2. NumberingTypeOK /\ last["drawing"] = 1
  BY DEF NumberingTypeOK, Scopes
<1>3. revNo \in [Uploads -> {0, 1}]
  OBVIOUS
<1>4. ChainOK
  BY <1>1, <1>2, <1>3 DEF ChainOK
<1>5. ReadThenAbove /\ NewestIsCurrent
  BY <1>1 DEF ReadThenAbove, NewestIsCurrent
<1>6. DrawingNumbers
  BY <1>1, <1>2 DEF DrawingNumbers, OnRow
<1>7. QED
  BY <1>4, <1>5, <1>6 DEF DrawingsInv

LEMMA Widening ==
  ASSUME NEW S, NEW T, S \subseteq T, NEW q \in Seq(S)
  PROVE  q \in Seq(T)
OBVIOUS

LEMMA RowRefs ==
  ASSUME ChainOK
  PROVE  /\ DOMAIN chain = 1..Len(chain) /\ Len(chain) \in Nat \ {0}
         /\ \A k \in DOMAIN chain : chain[k].ref \in Nat /\ chain[k].current \in BOOLEAN
<1>1. PICK S : chain \in Seq(RowOver(S))
  BY DEF ChainOK
<1>2. \A k \in DOMAIN chain : chain[k] \in RowOver(S)
  BY <1>1
<1>3. QED
  BY <1>1, <1>2 DEF ChainOK, RowOver

\* Rows that only change in their status, or are taken back.
Edited(q, k, st) == [q EXCEPT ![k].status = st]
LEMMA EditedRow ==
  ASSUME NEW S, NEW q \in Seq(RowOver(S)), NEW k, NEW e,
         NEW st \in {"PENDING", "PROCESSING", "READY", "FAILED"},
         e = Edited(q, k, st)
  PROVE  /\ e \in Seq(RowOver(S)) /\ Len(e) = Len(q) /\ DOMAIN e = DOMAIN q
         /\ \A l \in DOMAIN q : e[l].ref = q[l].ref /\ e[l].current = q[l].current
<1> USE DEF Edited
<1>1. CASE k \in DOMAIN q
  <2> DEFINE b == [q[k] EXCEPT !.status = st]
  <2>1. b \in RowOver(S) /\ b.ref = q[k].ref /\ b.current = q[k].current
    <3>1. q[k] \in RowOver(S)
      BY <1>1
    <3>2. QED
      BY <3>1 DEF RowOver
  <2>2. e = [q EXCEPT ![k] = b]
    OBVIOUS
  <2> HIDE DEF b
  <2>3. QED
    BY <1>1, <2>1, <2>2
<1>2. CASE k \notin DOMAIN q
  <2>1. e = q
    BY <1>2
  <2>2. QED
    BY <2>1
<1>3. QED
  BY <1>1, <1>2

\* The references of the rows stay, and the newest stays current: so does all
\* that the uploads know, but for the one that goes on.
LEMMA RowsKept ==
  ASSUME DrawingsInv, UNCHANGED <<last, revNo, current, ref>>,
         Len(chain') = Len(chain), DOMAIN chain' = DOMAIN chain,
         \A k \in DOMAIN chain : chain'[k].ref = chain[k].ref,
         \A S : chain \in Seq(RowOver(S)) => chain' \in Seq(RowOver(S)),
         uploading' \in [Uploads -> {"read", "unset", "mint", "insert", "queue",
                                     "done", "failed"}],
         \A u \in Uploads : uploading'[u] = uploading[u]
                            \/ /\ uploading'[u] \notin {"read", "insert", "queue"}
                               /\ uploading[u] = "insert" => uploading'[u] = "failed"
                               /\ uploading[u] # "failed",
         NewestIsCurrent'
  PROVE  DrawingsInv'
<1>1. ChainOK'
  BY DEF DrawingsInv, ChainOK, NumberingTypeOK
<1>2. ReadThenAbove'
  BY DEF DrawingsInv, ReadThenAbove
<1>3. /\ \A n : OnRow(n)' <=> OnRow(n)
      /\ \A n : Held(n) => Held(n)'
  BY DEF OnRow, Held
<1>4. DrawingNumbers'
  BY <1>3 DEF DrawingsInv, DrawingNumbers
<1>5. QED
  BY <1>1, <1>2, <1>4 DEF DrawingsInv

\* Going on to another step.
LEMMA Going ==
  ASSUME ChainOK, NEW u \in Uploads,
         NEW step \in {"read", "unset", "mint", "insert", "queue", "done", "failed"},
         UploadGoto(u, step)
  PROVE  /\ uploading' \in [Uploads -> {"read", "unset", "mint", "insert", "queue",
                                        "done", "failed"}]
         /\ uploading'[u] = step
         /\ \A w \in Uploads \ {u} : uploading'[w] = uploading[w]
BY DEF ChainOK, UploadGoto

LEMMA ReadChainKeeps ==
  ASSUME DrawingsInv, NEW u \in Uploads, ReadChain(u)
  PROVE  DrawingsInv'
<1> DEFINE seen == {k \in DOMAIN chain : chain[k].current}
<1>1. PICK S : revNo \in [Uploads -> S] /\ chain \in Seq(RowOver(S))
  BY DEF DrawingsInv, ChainOK
<1>2. S \subseteq S \cup {MaxRev + 1} /\ seen \subseteq 1..Len(chain)
  BY <1>1
<1>3. chain' \in Seq(RowOver(S \cup {MaxRev + 1})) /\ chain' = chain /\ DOMAIN chain' = DOMAIN chain
  <2>1. RowOver(S) \subseteq RowOver(S \cup {MaxRev + 1})
    BY DEF RowOver
  <2>2. chain \in Seq(RowOver(S \cup {MaxRev + 1}))
    <3> HIDE DEF RowOver
    <3>1. QED
      BY <1>1, <2>1, Widening
  <2>3. QED
    BY <2>2 DEF ReadChain
<1>4. revNo' \in [Uploads -> S \cup {MaxRev + 1}]
  BY <1>1 DEF ReadChain
<1>5. /\ uploading' \in [Uploads -> {"read", "unset", "mint", "insert", "queue",
                                     "done", "failed"}]
      /\ uploading[u] = "read" /\ uploading'[u] = "unset"
      /\ \A w \in Uploads \ {u} : uploading'[w] = uploading[w]
  BY Going DEF DrawingsInv, ReadChain
<1>6. /\ current' \in [Uploads -> SUBSET (1..Len(chain))]
      /\ \A w \in Uploads \ {u} : current'[w] = current[w]
  BY <1>2 DEF DrawingsInv, ChainOK, ReadChain
<1>7. ChainOK'
  BY <1>3, <1>4, <1>5, <1>6 DEF DrawingsInv, ChainOK, ReadChain, NumberingTypeOK
<1>8. ReadThenAbove'
  BY <1>3, <1>5, <1>6 DEF DrawingsInv, ReadThenAbove
<1>9. NewestIsCurrent'
  <2>1. CASE chain[Len(chain)].current
    BY <1>3, <2>1 DEF NewestIsCurrent
  <2>2. ASSUME NEW w \in Uploads, Len(chain) \in current[w], uploading[w] # "done"
        PROVE  NewestIsCurrent'
    <3>1. w # u
      BY <1>5, <2>2 DEF DrawingsInv, ReadThenAbove
    <3>2. QED
      BY <1>3, <1>5, <1>6, <2>2, <3>1 DEF NewestIsCurrent
  <2>3. QED
    BY <2>1, <2>2 DEF DrawingsInv, NewestIsCurrent
<1>10. DrawingNumbers'
  <2>1. last' = last /\ ref' = ref
    BY DEF ReadChain
  <2>2. /\ \A n : OnRow(n)' <=> OnRow(n)
        /\ \A n : Held(n) => Held(n)'
    BY <1>3, <1>5, <2>1 DEF OnRow, Held
  <2>3. QED
    BY <1>3, <1>5, <2>1, <2>2 DEF DrawingsInv, DrawingNumbers
<1>11. QED
  BY <1>7, <1>8, <1>9, <1>10 DEF DrawingsInv

LEMMA UnsetCurrentKeeps ==
  ASSUME DrawingsInv, NEW u \in Uploads, UnsetCurrent(u)
  PROVE  DrawingsInv'
<1>1. /\ uploading' \in [Uploads -> {"read", "unset", "mint", "insert", "queue",
                                     "done", "failed"}]
      /\ uploading[u] = "unset" /\ uploading'[u] = "mint"
      /\ \A w \in Uploads \ {u} : uploading'[w] = uploading[w]
  BY Going DEF DrawingsInv, UnsetCurrent
<1>2. ASSUME NEW S, chain \in Seq(RowOver(S))
      PROVE  /\ chain' \in Seq(RowOver(S)) /\ Len(chain') = Len(chain)
             /\ DOMAIN chain' = DOMAIN chain
             /\ \A k \in DOMAIN chain :
                   /\ chain'[k].ref = chain[k].ref
                   /\ chain'[k].current = (chain[k].current /\ k \notin current[u])
  <2> DEFINE row(k) == [chain[k] EXCEPT !.current = @ /\ k \notin current[u]]
  <2>1. \A k \in DOMAIN chain :
           /\ row(k) \in RowOver(S) /\ row(k).ref = chain[k].ref
           /\ row(k).current = (chain[k].current /\ k \notin current[u])
    <3>1. \A k \in DOMAIN chain : chain[k] \in RowOver(S)
      BY <1>2
    <3>2. QED
      BY <3>1 DEF RowOver
  <2>2. chain' = [k \in 1..Len(chain) |-> row(k)] /\ DOMAIN chain = 1..Len(chain)
        /\ Len(chain) \in Nat
    BY <1>2 DEF UnsetCurrent
  <2> HIDE DEF row
  <2>3. QED
    BY <2>1, <2>2
<1>3. PICK S : chain \in Seq(RowOver(S))
  BY DEF DrawingsInv, ChainOK
<1>4. UNCHANGED <<last, revNo, current, ref>>
  BY DEF UnsetCurrent
<1>5. NewestIsCurrent'
  <2>1. Len(chain) \in DOMAIN chain
    BY <1>3 DEF DrawingsInv, ChainOK
  <2>2. CASE chain[Len(chain)].current /\ Len(chain) \notin current[u]
    BY <1>2, <1>3, <2>1, <2>2 DEF NewestIsCurrent
  <2>3. CASE Len(chain) \in current[u]
    BY <1>1, <1>2, <1>3, <1>4, <2>3 DEF NewestIsCurrent
  <2>4. CASE \E w \in Uploads : Len(chain) \in current[w] /\ uploading[w] # "done"
    BY <1>1, <1>2, <1>3, <1>4, <2>4 DEF NewestIsCurrent
  <2>5. QED
    BY <2>2, <2>3, <2>4 DEF DrawingsInv, NewestIsCurrent
<1>6. QED
  BY <1>1, <1>2, <1>3, <1>4, <1>5, RowsKept

LEMMA MintDrawingKeeps ==
  ASSUME DrawingsInv, NEW u \in Uploads, MintDrawing(u)
  PROVE  DrawingsInv'
<1>1. /\ uploading' \in [Uploads -> {"read", "unset", "mint", "insert", "queue",
                                     "done", "failed"}]
      /\ uploading[u] = "mint" /\ uploading'[u] = "insert"
      /\ \A w \in Uploads \ {u} : uploading'[w] = uploading[w]
  BY Going DEF DrawingsInv, MintDrawing
<1>2. /\ NumberingTypeOK' /\ last'["drawing"] = last["drawing"] + 1
      /\ last["drawing"] \in Nat
  BY Minting DEF DrawingsInv, ChainOK, MintDrawing, Scopes, NumberingTypeOK
<1>3. /\ ref' \in [Uploads -> Nat] /\ ref'[u] = last["drawing"] + 1
      /\ \A w \in Uploads \ {u} : ref'[w] = ref[w]
  BY <1>2 DEF DrawingsInv, ChainOK, MintDrawing
<1>4. UNCHANGED <<chain, revNo, current>>
  BY DEF MintDrawing
<1>5. ChainOK'
  BY <1>1, <1>2, <1>3, <1>4 DEF DrawingsInv, ChainOK
<1>6. ReadThenAbove' /\ NewestIsCurrent'
  BY <1>1, <1>4 DEF DrawingsInv, ReadThenAbove, NewestIsCurrent
<1>7. /\ \A n : OnRow(n)' <=> OnRow(n)
      /\ \A n : Held(n) => Held(n)'
      /\ Held(last["drawing"])'
  <2>1. \A n : OnRow(n)' <=> OnRow(n)
    BY <1>4 DEF OnRow
  <2>2. ASSUME NEW n, Held(n) PROVE Held(n)'
    <3>1. PICK w \in Uploads : uploading[w] \in {"insert", "failed"} /\ ref[w] = n
      BY <2>2 DEF Held
    <3>2. w # u
      BY <1>1, <3>1
    <3>3. QED
      BY <1>1, <1>3, <3>1, <3>2 DEF Held
  <2>3. Held(last["drawing"])'
    BY <1>1, <1>2, <1>3 DEF Held
  <2>4. QED
    BY <2>1, <2>2, <2>3
<1>8. \A k \in DOMAIN chain : chain[k].ref \in Nat
  BY RowRefs DEF DrawingsInv
<1>9. DrawingNumbers'
  <2>1. ASSUME NEW n \in 1..last'["drawing"] PROVE OnRow(n)' \/ Held(n)'
    <3>1. CASE n \in 1..last["drawing"]
      BY <1>7, <3>1 DEF DrawingsInv, DrawingNumbers
    <3>2. CASE n = last'["drawing"]
      BY <1>7, <3>2
    <3>3. QED
      BY <1>2, <3>1, <3>2
  <2>2. \A k \in DOMAIN chain' : chain'[k].ref <= last'["drawing"]
    BY <1>2, <1>4, <1>8 DEF DrawingsInv, DrawingNumbers
  <2>3. ~OnRow(last["drawing"])'
    BY <1>2, <1>4, <1>8 DEF DrawingsInv, DrawingNumbers, OnRow
  <2>4. \A w \in Uploads : uploading[w] = "insert" =>
           ref[w] \in Nat /\ ref[w] <= last["drawing"]
    BY DEF DrawingsInv, ChainOK, DrawingNumbers
  <2>5. \A k, l \in DOMAIN chain' : chain'[k].ref = chain'[l].ref => k = l
    BY <1>4 DEF DrawingsInv, DrawingNumbers
  <2>6. ASSUME NEW w \in Uploads, uploading'[w] = "insert"
        PROVE  /\ ref'[w] <= last'["drawing"] /\ ~OnRow(ref[w])'
               /\ \A v \in Uploads \ {w} : uploading'[v] = "insert" => ref'[v] # ref'[w]
    <3>1. CASE w = u
      <4>1. ref'[w] = last'["drawing"] /\ ref'[w] <= last'["drawing"]
        BY <1>2, <1>3, <3>1
      <4>2. ~OnRow(ref[w])'
        BY <2>3, <4>1 DEF OnRow
      <4>3. \A v \in Uploads \ {w} : uploading'[v] = "insert" => ref'[v] # ref'[w]
        BY <1>1, <1>2, <1>3, <2>4, <3>1
      <4>4. QED
        BY <4>1, <4>2, <4>3
    <3>2. CASE w # u
      <4>1. uploading[w] = "insert" /\ ref'[w] = ref[w]
        BY <1>1, <1>3, <2>6, <3>2
      <4>2. /\ ref[w] <= last["drawing"] /\ ~OnRow(ref[w]) /\ ref[w] \in Nat
            /\ \A v \in Uploads \ {w} : uploading[v] = "insert" => ref[v] # ref[w]
        BY <2>4, <4>1 DEF DrawingsInv, DrawingNumbers
      <4>3. ~OnRow(ref[w])'
        BY <1>4, <4>1, <4>2 DEF OnRow
      <4>4. QED
        BY <1>1, <1>2, <1>3, <4>1, <4>2, <4>3
    <3>3. QED
      BY <3>1, <3>2
  <2>7. QED
    BY <2>1, <2>2, <2>5, <2>6 DEF DrawingNumbers
<1>10. QED
  BY <1>5, <1>6, <1>9 DEF DrawingsInv

LEMMA InsertDrawingKeeps ==
  ASSUME DrawingsInv, NEW u \in Uploads, InsertDrawing(u)
  PROVE  DrawingsInv'
<1> DEFINE n == Len(chain)
<1>1. /\ uploading' \in [Uploads -> {"read", "unset", "mint", "insert", "queue",
                                     "done", "failed"}]
      /\ uploading[u] = "insert" /\ uploading'[u] \in {"queue", "done"}
      /\ \A w \in Uploads \ {u} : uploading'[w] = uploading[w]
  <2>1. CASE u \in Dxf
    BY <2>1, Going DEF DrawingsInv, InsertDrawing
  <2>2. CASE u \notin Dxf
    BY <2>2, Going DEF DrawingsInv, InsertDrawing
  <2>3. QED
    BY <2>1, <2>2
<1>2. PICK S : revNo \in [Uploads -> S] /\ chain \in Seq(RowOver(S))
  BY DEF DrawingsInv, ChainOK
<1>3. NewRow(u) \in RowOver(S) /\ NewRow(u).ref = ref[u] /\ NewRow(u).current
  BY <1>2 DEF DrawingsInv, ChainOK, NewRow, RowOver
<1>4. /\ chain' \in Seq(RowOver(S)) /\ n \in Nat /\ DOMAIN chain = 1..n
      /\ Len(chain') = n + 1 /\ DOMAIN chain' = 1..n + 1
      /\ \A k \in 1..n : chain'[k] = chain[k]
      /\ chain'[n + 1].ref = ref[u] /\ chain'[n + 1].current
  <2> HIDE DEF RowOver
  <2>1. QED
    BY <1>2, <1>3, AppendFacts DEF InsertDrawing
<1>5. UNCHANGED <<last, revNo, current, ref>>
  BY DEF InsertDrawing
<1>6. ChainOK'
  BY <1>1, <1>2, <1>4, <1>5 DEF DrawingsInv, ChainOK, NumberingTypeOK
<1>7. ReadThenAbove'
  BY <1>1, <1>4, <1>5 DEF DrawingsInv, ChainOK, ReadThenAbove
<1>8. NewestIsCurrent'
  BY <1>4 DEF NewestIsCurrent
<1>9. /\ ref[u] \in Nat /\ ref[u] <= last["drawing"] /\ ~OnRow(ref[u])
      /\ last["drawing"] \in Nat
  BY <1>1 DEF DrawingsInv, ChainOK, DrawingNumbers, NumberingTypeOK, Scopes
<1>10. DrawingNumbers'
  <2>1. ASSUME NEW m \in 1..last["drawing"]
        PROVE  (\E k \in DOMAIN chain' : chain'[k].ref = m)
               \/ \E w \in Uploads : uploading'[w] \in {"insert", "failed"} /\ ref[w] = m
    <3>1. CASE OnRow(m)
      BY <1>4, <3>1 DEF OnRow
    <3>2. ASSUME NEW w \in Uploads, uploading[w] \in {"insert", "failed"}, ref[w] = m
          PROVE  (\E k \in DOMAIN chain' : chain'[k].ref = m)
                 \/ \E v \in Uploads : uploading'[v] \in {"insert", "failed"} /\ ref[v] = m
      <4>1. CASE w = u
        BY <1>4, <3>2, <4>1
      <4>2. CASE w # u
        BY <1>1, <3>2, <4>2
      <4>3. QED
        BY <4>1, <4>2
    <3>3. QED
      BY <3>1, <3>2 DEF DrawingsInv, DrawingNumbers, Held
  <2>2. \A k \in DOMAIN chain' : chain'[k].ref <= last["drawing"]
    BY <1>4, <1>9 DEF DrawingsInv, DrawingNumbers
  <2>3. \A k, l \in DOMAIN chain' : chain'[k].ref = chain'[l].ref => k = l
    <3>1. \A k \in 1..n : chain'[k].ref = chain[k].ref /\ chain[k].ref # ref[u]
      BY <1>4, <1>9 DEF OnRow
    <3>2. \A k, l \in 1..n : chain[k].ref = chain[l].ref => k = l
      BY <1>4 DEF DrawingsInv, DrawingNumbers
    <3>3. \A k \in DOMAIN chain' : k \in 1..n \/ k = n + 1
      BY <1>4
    <3>4. QED
      BY <1>4, <3>1, <3>2, <3>3
  <2>4. ASSUME NEW w \in Uploads, uploading'[w] = "insert"
        PROVE  /\ ref[w] <= last["drawing"]
               /\ \A k \in DOMAIN chain' : chain'[k].ref # ref[w]
               /\ \A v \in Uploads \ {w} : uploading'[v] = "insert" => ref[v] # ref[w]
    <3>1. w # u /\ uploading[w] = "insert"
      BY <1>1, <2>4
    <3>2. /\ ref[w] <= last["drawing"] /\ ~OnRow(ref[w])
          /\ \A v \in Uploads \ {w} : uploading[v] = "insert" => ref[v] # ref[w]
      BY <3>1 DEF DrawingsInv, DrawingNumbers
    <3>3. ref[u] # ref[w]
      BY <1>1, <3>1, <3>2
    <3>4. \A k \in DOMAIN chain' : chain'[k].ref # ref[w]
      BY <1>4, <3>2, <3>3 DEF OnRow
    <3>5. \A v \in Uploads \ {w} : uploading'[v] = "insert" => ref[v] # ref[w]
      BY <1>1, <3>2
    <3>6. QED
      BY <3>2, <3>4, <3>5
  <2>5. QED
    BY <1>5, <2>1, <2>2, <2>3, <2>4 DEF DrawingNumbers, OnRow, Held
<1>11. QED
  BY <1>6, <1>7, <1>8, <1>10 DEF DrawingsInv

LEMMA QueueingKeeps ==
  ASSUME DrawingsInv, NEW u \in Uploads, EnqueueConversion(u) \/ EnqueueFails(u)
  PROVE  DrawingsInv'
<1>1. /\ uploading' \in [Uploads -> {"read", "unset", "mint", "insert", "queue",
                                     "done", "failed"}]
      /\ uploading[u] = "queue" /\ uploading'[u] = "done"
      /\ \A w \in Uploads \ {u} : uploading'[w] = uploading[w]
  BY Going DEF DrawingsInv, EnqueueConversion, EnqueueFails
<1>2. ASSUME NEW S, chain \in Seq(RowOver(S))
      PROVE  /\ chain' \in Seq(RowOver(S)) /\ Len(chain') = Len(chain)
             /\ DOMAIN chain' = DOMAIN chain
             /\ \A k \in DOMAIN chain : chain'[k].ref = chain[k].ref
                                        /\ chain'[k].current = chain[k].current
  <2>1. CASE EnqueueFails(u)
    <3>1. chain' = Edited(chain, RowOf(u), "FAILED")
      BY <2>1 DEF EnqueueFails, Edited
    <3>2. QED
      BY ONLY <1>2, <3>1, EditedRow
  <2>2. CASE EnqueueConversion(u)
    BY <1>2, <2>2 DEF EnqueueConversion
  <2>3. QED
    BY <2>1, <2>2
<1>3. PICK S : chain \in Seq(RowOver(S))
  BY DEF DrawingsInv, ChainOK
<1>4. UNCHANGED <<last, revNo, current, ref>>
  BY DEF EnqueueConversion, EnqueueFails
<1>5. NewestIsCurrent'
  <2>1. Len(chain) \in DOMAIN chain
    BY RowRefs DEF DrawingsInv
  <2>2. CASE chain[Len(chain)].current
    BY <1>2, <1>3, <2>1, <2>2 DEF NewestIsCurrent
  <2>3. ASSUME NEW w \in Uploads, Len(chain) \in current[w], uploading[w] # "done"
        PROVE  NewestIsCurrent'
    <3>1. w # u
      BY <1>1, <2>3 DEF DrawingsInv, ReadThenAbove
    <3>2. QED
      BY <1>1, <1>2, <1>3, <1>4, <2>3, <3>1 DEF NewestIsCurrent
  <2>4. QED
    BY <2>2, <2>3 DEF DrawingsInv, NewestIsCurrent
<1>6. QED
  BY <1>1, <1>2, <1>3, <1>4, <1>5, RowsKept

LEMMA UploadFailsKeeps ==
  ASSUME DrawingsInv, NEW u \in Uploads, UploadFails(u)
  PROVE  DrawingsInv'
<1>1. /\ uploading' \in [Uploads -> {"read", "unset", "mint", "insert", "queue",
                                     "done", "failed"}]
      /\ uploading[u] \in {"unset", "mint", "insert", "queue"} /\ uploading'[u] = "failed"
      /\ \A w \in Uploads \ {u} : uploading'[w] = uploading[w]
  BY Going DEF DrawingsInv, UploadFails
<1>2. UNCHANGED <<last, chain, revNo, current, ref>>
  BY DEF UploadFails
<1>3. NewestIsCurrent'
  BY <1>1, <1>2 DEF DrawingsInv, NewestIsCurrent
<1>4. QED
  BY <1>1, <1>2, <1>3, RowsKept

LEMMA ConvertingKeeps ==
  ASSUME DrawingsInv, NEW k \in jobs, StartConversion(k) \/ Convert(k)
  PROVE  DrawingsInv'
<1>1. UNCHANGED <<last, uploading, revNo, current, ref>>
  BY DEF StartConversion, Convert, uploadVars
<1>2. PICK st \in {"PENDING", "PROCESSING", "READY", "FAILED"} :
         chain' = Edited(chain, k, st)
  BY DEF StartConversion, Convert, Edited
<1>3. ASSUME NEW S, chain \in Seq(RowOver(S))
      PROVE  /\ chain' \in Seq(RowOver(S)) /\ Len(chain') = Len(chain)
             /\ DOMAIN chain' = DOMAIN chain
             /\ \A l \in DOMAIN chain : chain'[l].ref = chain[l].ref
                                        /\ chain'[l].current = chain[l].current
  BY <1>2, <1>3, EditedRow
<1>4. PICK S : chain \in Seq(RowOver(S))
  BY DEF DrawingsInv, ChainOK
<1>5. Len(chain) \in DOMAIN chain
  BY RowRefs DEF DrawingsInv
<1>6. NewestIsCurrent'
  BY <1>1, <1>3, <1>4, <1>5 DEF DrawingsInv, NewestIsCurrent
<1>7. uploading' \in [Uploads -> {"read", "unset", "mint", "insert", "queue",
                                  "done", "failed"}]
  BY <1>1 DEF DrawingsInv, ChainOK
<1>8. QED
  BY <1>1, <1>3, <1>4, <1>6, <1>7, RowsKept

LEMMA DrawingsStep ==
  ASSUME DrawingsInv, DrawingsNext
  PROVE  DrawingsInv'
BY ReadChainKeeps, UnsetCurrentKeeps, MintDrawingKeeps, InsertDrawingKeeps, QueueingKeeps, UploadFailsKeeps, ConvertingKeeps DEF DrawingsNext

\* The steps of the others leave the drawings alone, and mint no number of theirs.
LEMMA DrawingsFrame ==
  ASSUME DrawingsInv, UNCHANGED drawingsOwn, NumberingTypeOK',
         last'["drawing"] = last["drawing"]
  PROVE  DrawingsInv'
<1>1. UNCHANGED <<chain, uploading, revNo, current, ref>>
  BY DEF drawingsOwn, uploadVars
<1>2. ChainOK' /\ ReadThenAbove' /\ NewestIsCurrent'
  BY <1>1 DEF DrawingsInv, ChainOK, ReadThenAbove, NewestIsCurrent
<1>3. DrawingNumbers'
  <2>1. \A n : (OnRow(n)' <=> OnRow(n)) /\ (Held(n)' <=> Held(n))
    BY <1>1 DEF OnRow, Held
  <2>2. QED
    BY <1>1, <2>1 DEF DrawingsInv, DrawingNumbers
<1>4. QED
  BY <1>2, <1>3 DEF DrawingsInv

\* The references of the drawings stay below the counter that mints them.
THEOREM DrawingsInductive == Spec => []DrawingsInv
<1>1. Init => DrawingsInv
  BY DrawingsInitial DEF Init
<1>2. DrawingsInv /\ [Next]_vars => DrawingsInv'
  <2> SUFFICES ASSUME DrawingsInv, [Next]_vars PROVE DrawingsInv'
    OBVIOUS
  <2>1. NumberingTypeOK
    BY DEF DrawingsInv, ChainOK
  <2>2. CASE DrawingsNext
    BY <2>2, DrawingsStep
  <2>3. CASE UNCHANGED drawingsOwn /\ (RaBillsNext \/ InvoicesNext \/ UNCHANGED last)
    BY <2>1, <2>3, BillsMint, InvoicesMint, DrawingsFrame DEF Scopes, NumberingTypeOK
  <2>4. QED
    BY <2>2, <2>3 DEF Next, vars, drawingsOwn
<1>3. QED
  BY <1>1, <1>2, PTL DEF Spec

\* No upload loses the newest revision of another from sight.
THEOREM NewestInSight == Spec => []NewestIsCurrent
<1>1. DrawingsInv => NewestIsCurrent
  BY DEF DrawingsInv
<1>2. QED
  BY <1>1, DrawingsInductive, PTL

-------------------------------------------------------------------------------
(* What the numbers of revisions add: an upload that met no other leaves its   *)
(* revision the highest, and the only current one.                            *)

RevisionsOK ==
    /\ revNo \in [Uploads -> Nat]
    /\ \A k \in DOMAIN chain : chain[k].rev \in Nat

\* An upload that has met no other is the only one under way, ...
AloneUnder == \A u \in Under \ met : \A w \in Under : w = u

\* ... has chosen a number above all rows, and takes back every current one.
AloneInHand ==
    \A u \in Uploads \ met :
        /\ uploading[u] \in {"unset", "mint", "insert"} =>
              \A k \in DOMAIN chain : chain[k].rev < revNo[u]
        /\ uploading[u] = "unset" =>
              \A k \in DOMAIN chain : chain[k].current => k \in current[u]
        /\ uploading[u] \in {"mint", "insert"} =>
              \A k \in DOMAIN chain : ~chain[k].current

NewestAlone ==
    chain[Len(chain)].by \notin met =>
        \A k \in 1..Len(chain) - 1 : /\ ~chain[k].current
                                     /\ chain[k].rev < chain[Len(chain)].rev

\* What is queued has a row, and every number minted counts.
QueuedHasRow ==
    /\ \A u \in Uploads : uploading[u] = "queue" => \E k \in DOMAIN chain : chain[k].by = u
    /\ jobs \subseteq DOMAIN chain
RefsBelow == \A u \in Uploads : ref[u] <= last["drawing"]

RevisionsInv ==
    /\ RevisionsOK /\ AloneUnder /\ AloneInHand /\ NewestAlone
    /\ QueuedHasRow /\ RefsBelow /\ met \subseteq Uploads

LEMMA RevisionsInitial == DrawingsInit => RevisionsInv
BY DEF DrawingsInit, NumberingInit, Scopes, RevisionsInv, RevisionsOK, AloneUnder,
   AloneInHand, NewestAlone, QueuedHasRow, RefsBelow, Under

\* Steps that leave numbers and authors, and make no row current.
LEMMA RevisionsKept ==
  ASSUME DrawingsInv, RevisionsInv, UNCHANGED <<revNo, current, met>>,
         Len(chain') = Len(chain), DOMAIN chain' = DOMAIN chain,
         \A k \in DOMAIN chain : /\ chain'[k].rev = chain[k].rev
                                 /\ chain'[k].by = chain[k].by
                                 /\ chain'[k].current => chain[k].current,
         \A u \in Uploads : \/ uploading'[u] = uploading[u]
                            \/ uploading[u] = "mint" /\ uploading'[u] = "insert"
                            \/ uploading'[u] \in {"done", "failed"},
         \A u \in Uploads : ref'[u] <= last'["drawing"],
         jobs' \subseteq DOMAIN chain
  PROVE  RevisionsInv'
<1>1. DOMAIN chain = 1..Len(chain) /\ Len(chain) \in Nat \ {0}
  BY RowRefs DEF DrawingsInv
<1>2. RevisionsOK' /\ QueuedHasRow' /\ RefsBelow' /\ met' \subseteq Uploads
  BY DEF RevisionsInv, RevisionsOK, QueuedHasRow, RefsBelow
<1>3. AloneUnder'
  <2>1. Under' \subseteq Under
    BY DEF Under
  <2>2. QED
    BY <2>1 DEF RevisionsInv, AloneUnder
<1>4. AloneInHand'
  BY DEF RevisionsInv, AloneInHand
<1>5. NewestAlone'
  BY <1>1 DEF RevisionsInv, NewestAlone
<1>6. QED
  BY <1>2, <1>3, <1>4, <1>5 DEF RevisionsInv

LEMMA HighestRevision ==
  ASSUME ChainOK, RevisionsOK
  PROVE  MaxRev \in Nat /\ \A k \in DOMAIN chain : chain[k].rev <= MaxRev
<1> DEFINE f == [k \in DOMAIN chain |-> chain[k].rev]
           revs == {f[k] : k \in DOMAIN chain}
<1>1. DOMAIN chain = 1..Len(chain) /\ Len(chain) \in Nat \ {0}
  BY RowRefs
<1>2. IsFiniteSet(DOMAIN chain)
  BY <1>1, FS_Interval
<1>3. IsFiniteSet(revs)
  <2> HIDE DEF f
  <2>1. QED
    BY <1>2, FiniteImage
<1>4. (\A n \in revs : n \in Int) /\ revs # {}
  BY <1>1 DEF RevisionsOK
<1>5. Max(revs) \in revs /\ \A n \in revs : n <= Max(revs)
  <2> HIDE DEF revs
  <2>1. QED
    BY <1>3, <1>4, MaxExists
<1>6. revs = {chain[k].rev : k \in DOMAIN chain}
  OBVIOUS
<1>7. \E n \in {chain[k].rev : k \in DOMAIN chain} : \A k \in DOMAIN chain : chain[k].rev <= n
  BY <1>5
<1>8. MaxRev \in {chain[k].rev : k \in DOMAIN chain}
      /\ \A k \in DOMAIN chain : chain[k].rev <= MaxRev
  BY <1>7 DEF MaxRev
<1>9. QED
  BY <1>8 DEF RevisionsOK

LEMMA ReadRevisions ==
  ASSUME DrawingsInv, RevisionsInv, NEW u \in Uploads, ReadChain(u)
  PROVE  RevisionsInv'
<1>1. /\ UNCHANGED <<last, chain, ref, jobs>>
      /\ uploading[u] = "read" /\ uploading'[u] = "unset"
      /\ \A w \in Uploads \ {u} : uploading'[w] = uploading[w]
  BY Going DEF DrawingsInv, ReadChain
<1>2. /\ revNo' \in [Uploads -> Nat] /\ revNo'[u] = MaxRev + 1
      /\ \A w \in Uploads \ {u} : revNo'[w] = revNo[w]
      /\ MaxRev \in Nat /\ \A k \in DOMAIN chain : chain[k].rev <= MaxRev
  BY HighestRevision DEF DrawingsInv, RevisionsInv, RevisionsOK, ReadChain
<1>3. /\ current'[u] = {k \in DOMAIN chain : chain[k].current}
      /\ \A w \in Uploads \ {u} : current'[w] = current[w]
  BY DEF DrawingsInv, ChainOK, ReadChain
<1>4. /\ met \subseteq met' /\ met' \subseteq Uploads
      /\ Under # {} => Under \cup {u} \subseteq met'
      /\ Under' = Under \cup {u}
  BY <1>1 DEF ReadChain, Under, RevisionsInv
<1>5. RevisionsOK' /\ QueuedHasRow' /\ RefsBelow'
  BY <1>1, <1>2 DEF RevisionsInv, RevisionsOK, QueuedHasRow, RefsBelow
<1>6. AloneUnder'
  BY <1>4 DEF AloneUnder
<1>7. AloneInHand'
  <2> SUFFICES ASSUME NEW w \in Uploads, w \notin met'
               PROVE  /\ uploading'[w] \in {"unset", "mint", "insert"} =>
                            \A k \in DOMAIN chain : chain[k].rev < revNo'[w]
                      /\ uploading'[w] = "unset" =>
                            \A k \in DOMAIN chain : chain[k].current => k \in current'[w]
                      /\ uploading'[w] \in {"mint", "insert"} =>
                            \A k \in DOMAIN chain : ~chain[k].current
    BY <1>1 DEF AloneInHand
  <2>1. CASE w = u
    <3>1. \A k \in DOMAIN chain : chain[k].rev < revNo'[w]
      BY <1>2, <2>1 DEF RevisionsInv, RevisionsOK
    <3>2. QED
      BY <1>1, <1>3, <2>1, <3>1
  <2>2. CASE w # u
    BY <1>1, <1>2, <1>3, <1>4, <2>2 DEF RevisionsInv, AloneInHand
  <2>3. QED
    BY <2>1, <2>2
<1>8. NewestAlone'
  BY <1>1, <1>4 DEF RevisionsInv, NewestAlone
<1>9. QED
  BY <1>4, <1>5, <1>6, <1>7, <1>8 DEF RevisionsInv

LEMMA UnsetRevisions ==
  ASSUME DrawingsInv, RevisionsInv, NEW u \in Uploads, UnsetCurrent(u)
  PROVE  RevisionsInv'
<1>1. /\ UNCHANGED <<last, revNo, current, ref, jobs, met>>
      /\ uploading[u] = "unset" /\ uploading'[u] = "mint"
      /\ \A w \in Uploads \ {u} : uploading'[w] = uploading[w]
  BY Going DEF DrawingsInv, UnsetCurrent
<1>2. DOMAIN chain = 1..Len(chain) /\ Len(chain) \in Nat \ {0}
      /\ \A k \in DOMAIN chain : chain[k].current \in BOOLEAN
  BY RowRefs DEF DrawingsInv
<1>3. /\ Len(chain') = Len(chain) /\ DOMAIN chain' = DOMAIN chain
      /\ \A k \in DOMAIN chain : /\ chain'[k].rev = chain[k].rev
                                 /\ chain'[k].by = chain[k].by
                                 /\ chain'[k].current = (chain[k].current /\ k \notin current[u])
  <2>1. PICK S : chain \in Seq(RowOver(S))
    BY DEF DrawingsInv, ChainOK
  <2> DEFINE row(k) == [chain[k] EXCEPT !.current = @ /\ k \notin current[u]]
  <2>2. \A k \in DOMAIN chain :
           /\ row(k).rev = chain[k].rev /\ row(k).by = chain[k].by
           /\ row(k).current = (chain[k].current /\ k \notin current[u])
    <3>1. \A k \in DOMAIN chain : chain[k] \in RowOver(S)
      BY <2>1
    <3>2. QED
      BY <3>1 DEF RowOver
  <2>3. chain' = [k \in 1..Len(chain) |-> row(k)]
    BY <1>2 DEF UnsetCurrent
  <2> HIDE DEF row
  <2>4. chain' \in Seq({row(k) : k \in DOMAIN chain}) /\ Len(chain') = Len(chain)
    BY <1>2, <2>3
  <2>5. QED
    BY <1>2, <2>2, <2>3, <2>4
<1>4. RevisionsOK' /\ QueuedHasRow' /\ RefsBelow' /\ met' \subseteq Uploads
  BY <1>1, <1>3 DEF RevisionsInv, RevisionsOK, QueuedHasRow, RefsBelow
<1>5. AloneUnder'
  <2>1. Under' = Under
    BY <1>1 DEF Under
  <2>2. QED
    BY <1>1, <2>1 DEF RevisionsInv, AloneUnder
<1>6. AloneInHand'
  BY <1>1, <1>3 DEF RevisionsInv, AloneInHand
<1>7. NewestAlone'
  BY <1>1, <1>2, <1>3 DEF RevisionsInv, NewestAlone
<1>8. QED
  BY <1>4, <1>5, <1>6, <1>7 DEF RevisionsInv

LEMMA InsertRevisions ==
  ASSUME DrawingsInv, RevisionsInv, NEW u \in Uploads, InsertDrawing(u)
  PROVE  RevisionsInv'
<1> DEFINE n == Len(chain)
<1>1. /\ UNCHANGED <<last, revNo, current, ref, jobs, met>>
      /\ uploading[u] = "insert" /\ uploading'[u] \in {"queue", "done"}
      /\ \A w \in Uploads \ {u} : uploading'[w] = uploading[w]
  <2>1. CASE u \in Dxf
    BY <2>1, Going DEF DrawingsInv, InsertDrawing
  <2>2. CASE u \notin Dxf
    BY <2>2, Going DEF DrawingsInv, InsertDrawing
  <2>3. QED
    BY <2>1, <2>2
<1>2. /\ n \in Nat \ {0} /\ DOMAIN chain = 1..n
      /\ Len(chain') = n + 1 /\ DOMAIN chain' = 1..n + 1
      /\ \A k \in 1..n : chain'[k] = chain[k]
      /\ chain'[n + 1].rev = revNo[u] /\ chain'[n + 1].by = u
  <2>1. PICK S : revNo \in [Uploads -> S] /\ chain \in Seq(RowOver(S))
    BY DEF DrawingsInv, ChainOK
  <2>2. NewRow(u) \in RowOver(S) /\ NewRow(u).rev = revNo[u] /\ NewRow(u).by = u
    BY <2>1 DEF DrawingsInv, ChainOK, NewRow, RowOver
  <2>3. n \in Nat \ {0}
    BY RowRefs DEF DrawingsInv
  <2> HIDE DEF RowOver
  <2>4. QED
    BY <2>1, <2>2, <2>3, AppendFacts DEF InsertDrawing
<1>3. RevisionsOK'
  BY <1>1, <1>2 DEF RevisionsInv, RevisionsOK
<1>4. QueuedHasRow' /\ RefsBelow'
  BY <1>1, <1>2 DEF RevisionsInv, QueuedHasRow, RefsBelow
<1>5. AloneUnder'
  <2>1. Under' \subseteq Under
    BY <1>1 DEF Under
  <2>2. QED
    BY <1>1, <2>1 DEF RevisionsInv, AloneUnder
\* Nobody else is under way unmet.
<1>6. AloneInHand'
  <2> SUFFICES ASSUME NEW w \in Uploads, w \notin met,
                      uploading'[w] \in {"unset", "mint", "insert"}
               PROVE  FALSE
    BY <1>1 DEF AloneInHand
  <2>1. w # u /\ w \in Under /\ u \in Under
    BY <1>1 DEF Under
  <2>2. QED
    BY <2>1 DEF RevisionsInv, AloneUnder
<1>7. NewestAlone'
  <2> SUFFICES ASSUME u \notin met
               PROVE  \A k \in 1..n : ~chain[k].current /\ chain[k].rev < revNo[u]
    BY <1>1, <1>2 DEF NewestAlone
  <2>1. QED
    BY <1>1, <1>2 DEF RevisionsInv, AloneInHand
<1>8. QED
  BY <1>1, <1>3, <1>4, <1>5, <1>6, <1>7 DEF RevisionsInv

\* The row of an upload, changed in its status.
LEMMA EditedRest ==
  ASSUME NEW S, NEW q \in Seq(RowOver(S)), NEW k, NEW st, NEW e, e = Edited(q, k, st)
  PROVE  /\ Len(e) = Len(q) /\ DOMAIN e = DOMAIN q
         /\ \A l \in DOMAIN q : /\ e[l].rev = q[l].rev /\ e[l].by = q[l].by
                                /\ e[l].current = q[l].current
<1> USE DEF Edited
<1>1. CASE k \in DOMAIN q
  <2> DEFINE b == [q[k] EXCEPT !.status = st]
  <2>1. b.rev = q[k].rev /\ b.by = q[k].by /\ b.current = q[k].current
    <3>1. q[k] \in RowOver(S)
      BY <1>1
    <3>2. QED
      BY <3>1 DEF RowOver
  <2>2. e = [q EXCEPT ![k] = b]
    OBVIOUS
  <2> HIDE DEF b
  <2>3. e \in Seq(RowOver(S) \cup {b}) /\ Len(e) = Len(q) /\ DOMAIN e = DOMAIN q
    BY <1>1, <2>2
  <2>4. QED
    BY <1>1, <2>1, <2>2, <2>3
<1>2. CASE k \notin DOMAIN q
  <2>1. e = q
    BY <1>2
  <2>2. QED
    BY <2>1
<1>3. QED
  BY <1>1, <1>2

LEMMA RevisionsStep ==
  ASSUME DrawingsInv, RevisionsInv, DrawingsNext
  PROVE  RevisionsInv'
<1> DEFINE Keeping ==
             /\ Len(chain') = Len(chain) /\ DOMAIN chain' = DOMAIN chain
             /\ \A k \in DOMAIN chain : /\ chain'[k].rev = chain[k].rev
                                        /\ chain'[k].by = chain[k].by
                                        /\ chain'[k].current => chain[k].current
<1>0. PICK S : chain \in Seq(RowOver(S))
  BY DEF DrawingsInv, ChainOK
<1>e. ASSUME NEW k, NEW st, chain' = Edited(chain, k, st) PROVE Keeping
  BY <1>0, <1>e, EditedRest
<1>1. ASSUME NEW u \in Uploads, MintDrawing(u) PROVE RevisionsInv'
  <2>1. UNCHANGED <<chain, revNo, current, jobs, met>>
    BY <1>1 DEF MintDrawing
  <2>2. /\ uploading[u] = "mint" /\ uploading'[u] = "insert"
        /\ \A w \in Uploads \ {u} : uploading'[w] = uploading[w]
    BY <1>1, Going DEF DrawingsInv, MintDrawing
  <2>3. \A w \in Uploads : ref'[w] <= last'["drawing"]
    BY <1>1 DEF MintDrawing, NextRef, DrawingsInv, ChainOK, NumberingTypeOK, Scopes,
       RevisionsInv, RefsBelow
  <2>4. QED
    BY <2>1, <2>2, <2>3, RevisionsKept DEF RevisionsInv, QueuedHasRow
<1>2. ASSUME NEW u \in Uploads, EnqueueConversion(u) \/ EnqueueFails(u) \/ UploadFails(u)
      PROVE  RevisionsInv'
  <2>1. UNCHANGED <<last, revNo, current, ref, met>>
    BY <1>2 DEF EnqueueConversion, EnqueueFails, UploadFails
  <2>2. /\ uploading'[u] \in {"done", "failed"}
        /\ \A w \in Uploads \ {u} : uploading'[w] = uploading[w]
    BY <1>2, Going DEF DrawingsInv, EnqueueConversion, EnqueueFails, UploadFails
  <2>3. Keeping
    <3>1. CASE EnqueueFails(u)
      <4>1. chain' = Edited(chain, RowOf(u), "FAILED")
        BY <3>1 DEF EnqueueFails, Edited
      <4>2. QED
        BY <4>1, <1>e
    <3>2. CASE EnqueueConversion(u) \/ UploadFails(u)
      BY <3>2 DEF EnqueueConversion, UploadFails
    <3>3. QED
      BY <1>2, <3>1, <3>2
  <2>4. jobs' \subseteq DOMAIN chain
    <3>1. CASE EnqueueConversion(u)
      <4>1. \E k \in DOMAIN chain : chain[k].by = u
        BY <3>1 DEF EnqueueConversion, RevisionsInv, QueuedHasRow
      <4>2. RowOf(u) \in DOMAIN chain
        BY <4>1 DEF RowOf
      <4>3. QED
        BY <3>1, <4>2 DEF EnqueueConversion, RevisionsInv, QueuedHasRow
    <3>2. CASE EnqueueFails(u) \/ UploadFails(u)
      BY <3>2 DEF EnqueueFails, UploadFails, RevisionsInv, QueuedHasRow
    <3>3. QED
      BY <1>2, <3>1, <3>2
  <2>5. QED
    BY <2>1, <2>2, <2>3, <2>4, RevisionsKept DEF RevisionsInv, RefsBelow
<1>3. ASSUME NEW k \in jobs, StartConversion(k) \/ Convert(k) PROVE RevisionsInv'
  <2>1. UNCHANGED <<last, uploading, revNo, current, ref, met>> /\ jobs' \subseteq jobs
    BY <1>3 DEF StartConversion, Convert, uploadVars
  <2>2. PICK st : chain' = Edited(chain, k, st)
    BY <1>3 DEF StartConversion, Convert, Edited
  <2>3. Keeping
    BY <2>2, <1>e
  <2>4. QED
    BY <2>1, <2>3, RevisionsKept DEF RevisionsInv, RefsBelow, QueuedHasRow
<1>4. QED
  BY <1>1, <1>2, <1>3, ReadRevisions, UnsetRevisions, InsertRevisions DEF DrawingsNext

LEMMA RevisionsFrame ==
  ASSUME RevisionsInv, UNCHANGED drawingsOwn, last'["drawing"] = last["drawing"]
  PROVE  RevisionsInv'
BY DEF drawingsOwn, uploadVars, RevisionsInv, RevisionsOK, AloneUnder, AloneInHand,
   NewestAlone, QueuedHasRow, RefsBelow, Under

\* The revisions of a drawing keep their order and who superseded whom.
THEOREM RevisionsInductive == Spec => []RevisionsInv
<1>1. Init => RevisionsInv
  BY RevisionsInitial DEF Init
<1>2. DrawingsInv /\ RevisionsInv /\ [Next]_vars => RevisionsInv'
  <2> SUFFICES ASSUME DrawingsInv, RevisionsInv, [Next]_vars PROVE RevisionsInv'
    OBVIOUS
  <2>1. NumberingTypeOK
    BY DEF DrawingsInv, ChainOK
  <2>2. CASE DrawingsNext
    BY <2>2, RevisionsStep
  <2>3. CASE UNCHANGED drawingsOwn /\ (RaBillsNext \/ InvoicesNext \/ UNCHANGED last)
    BY <2>1, <2>3, BillsMint, InvoicesMint, RevisionsFrame DEF Scopes, NumberingTypeOK
  <2>4. QED
    BY <2>2, <2>3 DEF Next, vars, drawingsOwn
<1>3. QED
  BY <1>1, <1>2, DrawingsInductive, PTL DEF Spec

\* Whatever uploads met or failed before, one that ran alone leaves its revision
\* the highest and the only current one.
THEOREM AloneLeavesOne == Spec => []AloneIsOnlyCurrent
<1>1. DrawingsInv /\ RevisionsInv => AloneIsOnlyCurrent
  <2> SUFFICES ASSUME DrawingsInv, RevisionsInv, Under = {},
                      \A u \in Uploads : uploading[u] = "failed" => Len(chain) \notin current[u]
               PROVE  chain[Len(chain)].current
    BY DEF RevisionsInv, NewestAlone, AloneIsOnlyCurrent
  <2>1. ASSUME NEW u \in Uploads, Len(chain) \in current[u], uploading[u] # "done"
        PROVE  FALSE
    <3>1. uploading[u] = "read"
      BY <2>1 DEF Under, DrawingsInv, ChainOK
    <3>2. QED
      BY <2>1, <3>1 DEF DrawingsInv, ReadThenAbove
  <2>2. QED
    BY <2>1 DEF DrawingsInv, NewestIsCurrent
<1>2. QED
  BY <1>1, DrawingsInductive, RevisionsInductive, PTL
-------------------------------------------------------------------------------
(* Invoices: their references, whatever tax is deducted.                     *)

InvoicesOK ==
    /\ NumberingTypeOK
    /\ \E S : invoices \in Seq(S)
    /\ \A k \in DOMAIN invoices : invoices[k].ref \in Nat
    /\ raising \in [Invoicing -> {"prior", "mint", "insert", "done", "failed"}]
    /\ invoiceRef \in [Invoicing -> Nat]
InvoiceNumbers ==
    LET number == last["invoice"]
    IN  /\ \A k \in DOMAIN invoices : invoices[k].ref <= number
        /\ \A r \in Invoicing : raising[r] = "insert" =>
              /\ invoiceRef[r] <= number
              /\ \A k \in DOMAIN invoices : invoices[k].ref # invoiceRef[r]
              /\ \A q \in Invoicing \ {r} : raising[q] = "insert" => invoiceRef[q] # invoiceRef[r]
InvoicesInv == InvoicesOK /\ InvoiceNumbers /\ InvoiceRefs

LEMMA InvoicesInitial == InvoicesInit => InvoicesInv
<1> SUFFICES ASSUME InvoicesInit PROVE InvoicesInv
  OBVIOUS
<1>1. invoices \in Seq({}) /\ DOMAIN invoices = {}
  BY DEF InvoicesInit
<1>2. InvoicesOK
  BY <1>1 DEF InvoicesInit, InvoicesOK, NumberingInit, NumberingTypeOK
<1>3. QED
  BY <1>1, <1>2 DEF InvoicesInit, InvoicesInv, InvoiceNumbers, InvoiceRefs

LEMMA Raising ==
  ASSUME InvoicesOK, NEW r \in Invoicing,
         NEW step \in {"prior", "mint", "insert", "done", "failed"}, RaiseGoto(r, step)
  PROVE  /\ raising' \in [Invoicing -> {"prior", "mint", "insert", "done", "failed"}]
         /\ raising'[r] = step
         /\ \A q \in Invoicing \ {r} : raising'[q] = raising[q]
BY DEF InvoicesOK, RaiseGoto

LEMMA InvoicesStep ==
  ASSUME InvoicesInv, InvoicesNext
  PROVE  InvoicesInv'
<1>1. ASSUME NEW r \in Invoicing, ReadPrior(r) \/ PriorUnread(r) \/ InvoiceFails(r)
      PROVE  InvoicesInv'
  <2>1. /\ raising' \in [Invoicing -> {"prior", "mint", "insert", "done", "failed"}]
        /\ raising'[r] # "insert"
        /\ \A q \in Invoicing \ {r} : raising'[q] = raising[q]
    BY <1>1, Raising DEF InvoicesInv, ReadPrior, PriorUnread, InvoiceFails
  <2>2. UNCHANGED <<last, invoices, invoiceRef>>
    BY <1>1 DEF ReadPrior, PriorUnread, InvoiceFails
  <2>3. InvoicesOK' /\ InvoiceRefs'
    BY <2>1, <2>2 DEF InvoicesInv, InvoicesOK, InvoiceRefs, NumberingTypeOK
  <2>4. InvoiceNumbers'
    BY <2>1, <2>2 DEF InvoicesInv, InvoiceNumbers
  <2>5. QED
    BY <2>3, <2>4 DEF InvoicesInv
<1>2. ASSUME NEW r \in Invoicing, MintInvoice(r) PROVE InvoicesInv'
  <2>1. /\ raising' \in [Invoicing -> {"prior", "mint", "insert", "done", "failed"}]
        /\ \A q \in Invoicing \ {r} : raising'[q] = raising[q]
    BY <1>2, Raising DEF InvoicesInv, MintInvoice
  <2>2. /\ NumberingTypeOK' /\ last["invoice"] \in Nat
        /\ last'["invoice"] = last["invoice"] + 1
    BY <1>2, Minting DEF InvoicesInv, InvoicesOK, MintInvoice, Scopes, NumberingTypeOK
  <2>3. /\ invoiceRef' \in [Invoicing -> Nat] /\ invoiceRef'[r] = last["invoice"] + 1
        /\ \A q \in Invoicing \ {r} : invoiceRef'[q] = invoiceRef[q]
    BY <1>2, <2>2 DEF InvoicesInv, InvoicesOK, MintInvoice
  <2>4. invoices' = invoices
    BY <1>2 DEF MintInvoice
  <2>5. InvoicesOK' /\ InvoiceRefs'
    BY <2>1, <2>2, <2>3, <2>4 DEF InvoicesInv, InvoicesOK, InvoiceRefs
  <2>6. InvoiceNumbers'
    <3>1. \A k \in DOMAIN invoices : /\ invoices[k].ref <= last["invoice"]
                                     /\ invoices[k].ref \in Nat
      BY DEF InvoicesInv, InvoicesOK, InvoiceNumbers
    <3>2. \A q \in Invoicing : raising[q] = "insert" => invoiceRef[q] <= last["invoice"]
                                                        /\ invoiceRef[q] \in Nat
      BY DEF InvoicesInv, InvoicesOK, InvoiceNumbers
    <3>3. \A k \in DOMAIN invoices' : invoices'[k].ref <= last'["invoice"]
      BY <2>2, <2>4, <3>1
    <3>4. ASSUME NEW q \in Invoicing, raising'[q] = "insert"
          PROVE  /\ invoiceRef'[q] <= last'["invoice"]
                 /\ \A k \in DOMAIN invoices : invoices[k].ref # invoiceRef'[q]
                 /\ \A w \in Invoicing \ {q} :
                       raising'[w] = "insert" => invoiceRef'[w] # invoiceRef'[q]
      <4>1. CASE q = r
        BY <2>1, <2>2, <2>3, <3>1, <3>2, <4>1
      <4>2. CASE q # r
        <5>1. raising[q] = "insert" /\ invoiceRef'[q] = invoiceRef[q]
          BY <2>1, <2>3, <3>4, <4>2
        <5>2. /\ \A k \in DOMAIN invoices : invoices[k].ref # invoiceRef[q]
              /\ \A w \in Invoicing \ {q} :
                    raising[w] = "insert" => invoiceRef[w] # invoiceRef[q]
          BY <5>1 DEF InvoicesInv, InvoiceNumbers
        <5>3. QED
          BY <2>1, <2>2, <2>3, <3>2, <5>1, <5>2
      <4>3. QED
        BY <4>1, <4>2
    <3>5. QED
      BY <2>4, <3>3, <3>4 DEF InvoiceNumbers
  <2>7. QED
    BY <2>5, <2>6 DEF InvoicesInv
<1>3. ASSUME NEW r \in Invoicing, InsertInvoice(r) PROVE InvoicesInv'
  <2> DEFINE new == [by |-> r, ref |-> invoiceRef[r], status |-> "DRAFT",
                     tds |-> tds194jApplies(r)]
             n == Len(invoices)
  <2>1. /\ raising' \in [Invoicing -> {"prior", "mint", "insert", "done", "failed"}]
        /\ raising[r] = "insert" /\ raising'[r] = "done"
        /\ \A q \in Invoicing \ {r} : raising'[q] = raising[q]
    BY <1>3, Raising DEF InvoicesInv, InsertInvoice
  <2>2. UNCHANGED <<last, invoiceRef>> /\ invoices' = Append(invoices, new)
    BY <1>3 DEF InsertInvoice
  <2>3. new.ref = invoiceRef[r]
    OBVIOUS
  <2> HIDE DEF new
  <2>4. PICK S : invoices \in Seq(S)
    BY DEF InvoicesInv, InvoicesOK
  <2>5. /\ invoices' \in Seq(S \cup {new}) /\ n \in Nat
        /\ DOMAIN invoices = 1..n /\ DOMAIN invoices' = 1..n + 1
        /\ \A k \in 1..n : invoices'[k] = invoices[k]
        /\ invoices'[n + 1] = new
    <3>1. invoices \in Seq(S \cup {new})
      BY <2>4, Widening
    <3>2. QED
      BY <2>2, <3>1, AppendFacts
  <2>6. /\ invoiceRef[r] \in Nat /\ invoiceRef[r] <= last["invoice"]
        /\ \A k \in 1..n : invoices[k].ref # invoiceRef[r]
    BY <2>1, <2>5 DEF InvoicesInv, InvoicesOK, InvoiceNumbers
  <2>7. InvoicesOK'
    BY <2>1, <2>2, <2>3, <2>5, <2>6 DEF InvoicesInv, InvoicesOK, NumberingTypeOK
  <2>8. InvoiceRefs'
    <3>1. \A k, l \in 1..n : invoices[k].ref = invoices[l].ref => k = l
      BY <2>5 DEF InvoicesInv, InvoiceRefs
    <3>2. \A k \in DOMAIN invoices' : k \in 1..n \/ k = n + 1
      BY <2>5
    <3>3. QED
      BY <2>3, <2>5, <2>6, <3>1, <3>2 DEF InvoiceRefs
  <2>9. InvoiceNumbers'
    <3>1. \A k \in DOMAIN invoices' : invoices'[k].ref <= last["invoice"]
      BY <2>3, <2>5, <2>6 DEF InvoicesInv, InvoiceNumbers
    <3>2. ASSUME NEW q \in Invoicing, raising'[q] = "insert"
          PROVE  /\ invoiceRef[q] <= last["invoice"]
                 /\ \A k \in DOMAIN invoices' : invoices'[k].ref # invoiceRef[q]
                 /\ \A w \in Invoicing \ {q} :
                       raising'[w] = "insert" => invoiceRef[w] # invoiceRef[q]
      <4>1. q # r /\ raising[q] = "insert"
        BY <2>1, <3>2
      <4>2. /\ invoiceRef[q] <= last["invoice"]
            /\ \A k \in DOMAIN invoices : invoices[k].ref # invoiceRef[q]
            /\ \A w \in Invoicing \ {q} : raising[w] = "insert" => invoiceRef[w] # invoiceRef[q]
        BY <4>1 DEF InvoicesInv, InvoiceNumbers
      <4>3. invoiceRef[r] # invoiceRef[q]
        BY <2>1, <4>1, <4>2
      <4>4. \A k \in DOMAIN invoices' : invoices'[k].ref # invoiceRef[q]
        BY <2>3, <2>5, <4>2, <4>3
      <4>5. \A w \in Invoicing \ {q} : raising'[w] = "insert" => invoiceRef[w] # invoiceRef[q]
        BY <2>1, <4>2
      <4>6. QED
        BY <4>2, <4>4, <4>5
    <3>3. QED
      BY <2>2, <3>1, <3>2 DEF InvoiceNumbers
  <2>10. QED
    BY <2>7, <2>8, <2>9 DEF InvoicesInv
<1>4. QED
  BY <1>1, <1>2, <1>3 DEF InvoicesNext

\* The steps of the others leave the invoices alone, and mint no number of theirs.
LEMMA InvoicesFrame ==
  ASSUME InvoicesInv, UNCHANGED invoicesOwn, NumberingTypeOK',
         last'["invoice"] = last["invoice"]
  PROVE  InvoicesInv'
BY DEF invoicesOwn, InvoicesInv, InvoicesOK, InvoiceNumbers, InvoiceRefs

\* The references of the invoices stay below the counter that mints them.
THEOREM InvoicesInductive == Spec => []InvoicesInv
<1>1. Init => InvoicesInv
  BY InvoicesInitial DEF Init
<1>2. InvoicesInv /\ [Next]_vars => InvoicesInv'
  <2> SUFFICES ASSUME InvoicesInv, [Next]_vars PROVE InvoicesInv'
    OBVIOUS
  <2>1. NumberingTypeOK
    BY DEF InvoicesInv, InvoicesOK
  <2>2. CASE InvoicesNext
    BY <2>2, InvoicesStep
  <2>3. CASE UNCHANGED invoicesOwn /\ (RaBillsNext \/ DrawingsNext \/ UNCHANGED last)
    BY <2>1, <2>3, BillsMint, DrawingsMint, InvoicesFrame DEF Scopes, NumberingTypeOK
  <2>4. QED
    BY <2>2, <2>3 DEF Next, vars
<1>3. QED
  BY <1>1, <1>2, PTL DEF Spec

-------------------------------------------------------------------------------
(* The tax deducted.  What is summed are the fees of the rows, by the row.   *)

Fee == [k \in DOMAIN invoices |-> Taxable[invoices[k].by]]
FeeStep(g, s) == IF s = {} THEN 0
                 ELSE LET x == CHOOSE x \in s : TRUE
                      IN  Taxable[invoices[x].by] + g[s \ {x}]
FeeParts(S) == CHOOSE g : g = [s \in SUBSET S |-> FeeStep(g, s)]

\* Under way: a request that has read what was billed, and has not answered.
Raises(r) == raising[r] \in {"mint", "insert"}
Rows(c) == {k \in DOMAIN invoices : ClientOf[invoices[k].by] = c}
Knowing(c) == {k \in Rows(c) : invoices[k].by \notin raced}
Undeducted(c) == {k \in Knowing(c) : ~invoices[k].tds}

\* Of two requests about one client that are under way one is known to have raced.
OneKnows ==
    \A r, q \in Invoicing :
        r # q /\ Raises(r) /\ Raises(q) /\ ClientOf[r] = ClientOf[q] => r \in raced \/ q \in raced
\* A request that has not raced has read at least what those before it billed.
PriorCovers ==
    \A r \in Invoicing \ raced :
        Raises(r) /\ ClientOf[r] \in Clients => SumOver(Fee, Knowing(ClientOf[r])) <= prior[r]
WithinThreshold == \A c \in Clients : SumOver(Fee, Undeducted(c)) <= Threshold
FeesInv == InvoicesTypeOK /\ OneKnows /\ PriorCovers /\ WithinThreshold

\* The sum the code forms, as a sum of fees.
LEMMA FeesSum ==
  ASSUME NEW S, IsFiniteSet(S), S \subseteq DOMAIN invoices
  PROVE  MapThenSumSet(LAMBDA k : Taxable[invoices[k].by], S) = SumOver(Fee, S)
<1>1. MapThenSumSet(LAMBDA k : Taxable[invoices[k].by], S) = FeeParts(S)[S]
  BY DEF MapThenSumSet, MapThenFoldSet, FeeParts, FeeStep
<1>2. \A s \in SUBSET S : \A g : FeeStep(g, s) = SumStep(Fee, g, s)
  <2> SUFFICES ASSUME NEW s \in SUBSET S, NEW g PROVE FeeStep(g, s) = SumStep(Fee, g, s)
    OBVIOUS
  <2>1. CASE s = {}
    BY <2>1 DEF FeeStep, SumStep
  <2>2. CASE s # {}
    <3>1. Pick(s) \in DOMAIN invoices
      BY <2>2 DEF Pick
    <3>2. Fee[Pick(s)] = Taxable[invoices[Pick(s)].by]
      BY <3>1 DEF Fee
    <3>3. QED
      BY <2>2, <3>2 DEF FeeStep, SumStep, Pick
  <2>3. QED
    BY <2>1, <2>2
<1>3. SumsUp(Fee, S, PartSums(Fee, S))
  BY SumsExist
<1>4. \A g : [s \in SUBSET S |-> FeeStep(g, s)] = [s \in SUBSET S |-> SumStep(Fee, g, s)]
  BY <1>2
<1>5. PartSums(Fee, S) = [s \in SUBSET S |-> FeeStep(PartSums(Fee, S), s)]
  BY <1>3, <1>4 DEF SumsUp
<1>6. FeeParts(S) = [s \in SUBSET S |-> FeeStep(FeeParts(S), s)]
  BY <1>5 DEF FeeParts
<1>7. SumsUp(Fee, S, FeeParts(S))
  BY <1>4, <1>6 DEF SumsUp
<1>8. \A s \in SUBSET (S \cap S) : FeeParts(S)[s] = PartSums(Fee, S)[s]
  BY <1>3, <1>7, SumsAgree
<1>9. FeeParts(S)[S] = SumOver(Fee, S)
  BY <1>8 DEF SumOver
<1>10. QED
  BY <1>1, <1>9

\* The rows are finitely many, and their fees are numbers.
LEMMA FeesFinite ==
  ASSUME InvoicesTypeOK
  PROVE  /\ IsFiniteSet(DOMAIN invoices)
         /\ \A S \in SUBSET DOMAIN invoices : IsFiniteSet(S) /\ \A k \in S : Fee[k] \in Nat
<1>1. DOMAIN invoices = 1..Len(invoices) /\ Len(invoices) \in Nat
  BY DEF InvoicesTypeOK
<1>2. IsFiniteSet(DOMAIN invoices)
  BY <1>1, FS_Interval
<1>3. \A k \in DOMAIN invoices : invoices[k].by \in Invoicing
  <2>1. \A k \in DOMAIN invoices : invoices[k] \in Invoice
    BY DEF InvoicesTypeOK
  <2>2. QED
    BY <2>1 DEF Invoice
<1>4. \A k \in DOMAIN invoices : Fee[k] \in Nat
  BY <1>3, InvoicesAssumption DEF Fee
<1>5. QED
  BY <1>2, <1>4, FS_Subset

LEMMA FeesInitial == InvoicesInit => FeesInv
<1> SUFFICES ASSUME InvoicesInit PROVE FeesInv
  OBVIOUS
<1>1. invoices \in Seq(Invoice) /\ DOMAIN invoices = {}
  BY DEF InvoicesInit
<1>2. InvoicesTypeOK
  BY <1>1 DEF InvoicesInit, InvoicesTypeOK
<1>3. OneKnows /\ PriorCovers
  BY DEF InvoicesInit, OneKnows, PriorCovers, Raises
<1>4. \A c : Undeducted(c) = {}
  BY <1>1 DEF Undeducted, Knowing, Rows
<1>5. SumOver(Fee, {}) = 0
  BY SumPick, FS_EmptySet
<1>6. QED
  BY <1>2, <1>3, <1>4, <1>5, InvoicesAssumption DEF FeesInv, WithinThreshold

LEMMA FewerFees ==
  ASSUME InvoicesTypeOK, NEW S \in SUBSET DOMAIN invoices, NEW T \in SUBSET S
  PROVE  SumOver(Fee, T) \in Nat /\ SumOver(Fee, S) \in Nat /\ SumOver(Fee, T) <= SumOver(Fee, S)
<1>1. IsFiniteSet(S) /\ IsFiniteSet(T) /\ \A k \in S : Fee[k] \in Nat
  BY FeesFinite
<1>2. SumOver(Fee, T) \in Nat /\ SumOver(Fee, S) \in Nat
  BY <1>1, SumType
<1>3. QED
  BY <1>1, <1>2, SumMonotone

\* What a request reads of its client's fees is what the rows of the client add up to.
LEMMA PriorRead ==
  ASSUME InvoicesTypeOK, NEW r \in Invoicing
  PROVE  /\ clientFyTaxablePaise(r) \in Nat
         /\ ClientOf[r] \in Clients => clientFyTaxablePaise(r) = SumOver(Fee, Rows(ClientOf[r]))
<1> DEFINE S == {k \in DOMAIN invoices : /\ ClientOf[invoices[k].by] = ClientOf[r]
                                         /\ invoices[k].status \in {"DRAFT", "ISSUED", "PAID"}}
<1>1. \A k \in DOMAIN invoices : invoices[k] \in Invoice
  BY DEF InvoicesTypeOK
<1>2. S = Rows(ClientOf[r])
  BY <1>1 DEF Invoice, Rows
<1>3. S \subseteq DOMAIN invoices /\ IsFiniteSet(S)
  BY FeesFinite
<1>4. Billed(r, {"DRAFT", "ISSUED", "PAID"}) = SumOver(Fee, S)
  BY <1>3, FeesSum DEF Billed
<1> HIDE DEF S
<1>5. SumOver(Fee, S) \in Nat
  BY <1>3, FewerFees
<1>6. QED
  BY <1>2, <1>4, <1>5, InvoicesAssumption DEF clientFyTaxablePaise

\* An invoice is appended: its fee comes on top of the others'.
LEMMA FeeAppended ==
  ASSUME InvoicesTypeOK, NEW r \in Invoicing, InsertInvoice(r), NumberingTypeOK
  PROVE  LET n == Len(invoices)
         IN  /\ InvoicesTypeOK' /\ n \in Nat
             /\ DOMAIN invoices = 1..n /\ DOMAIN invoices' = 1..n + 1
             /\ \A k \in 1..n : invoices'[k] = invoices[k]
             /\ invoices'[n + 1].by = r /\ invoices'[n + 1].tds = tds194jApplies(r)
             /\ \A S \in SUBSET (1..n) :
                   /\ SumOver(Fee', S) = SumOver(Fee, S)
                   /\ SumOver(Fee', S \cup {n + 1}) = SumOver(Fee, S) + Taxable[r]
<1> DEFINE n == Len(invoices)
           row == [by |-> r, ref |-> invoiceRef[r], status |-> "DRAFT", tds |-> tds194jApplies(r)]
<1>1. row \in Invoice /\ row.by = r /\ row.tds = tds194jApplies(r)
  BY DEF InvoicesTypeOK, Invoice, tds194jApplies
<1>2. invoices \in Seq(Invoice) /\ invoices' = Append(invoices, row)
  BY DEF InsertInvoice, InvoicesTypeOK
<1> HIDE DEF row
<1>3. /\ invoices' \in Seq(Invoice) /\ n \in Nat
      /\ DOMAIN invoices = 1..n /\ DOMAIN invoices' = 1..n + 1
      /\ \A k \in 1..n : invoices'[k] = invoices[k]
      /\ invoices'[n + 1] = row
  BY <1>1, <1>2, AppendFacts
<1>4. InvoicesTypeOK'
  BY <1>3 DEF InsertInvoice, InvoicesTypeOK, RaiseGoto
<1>5. ASSUME NEW S \in SUBSET (1..n)
      PROVE  /\ SumOver(Fee', S) = SumOver(Fee, S)
             /\ SumOver(Fee', S \cup {n + 1}) = SumOver(Fee, S) + Taxable[r]
  <2>1. IsFiniteSet(S) /\ \A k \in S : Fee[k] \in Nat
    BY <1>3, FeesFinite
  <2>2. (\A k \in S : Fee'[k] = Fee[k]) /\ Fee'[n + 1] = Taxable[r]
    <3>1. n + 1 \in DOMAIN invoices' /\ \A k \in S : k \in DOMAIN invoices /\ k \in DOMAIN invoices'
      BY <1>3
    <3>2. invoices'[n + 1].by = r /\ \A k \in S : invoices'[k] = invoices[k]
      BY <1>1, <1>3
    <3>3. \A k \in DOMAIN invoices' : Fee'[k] = Taxable[invoices'[k].by]
      BY DEF Fee
    <3>4. \A k \in DOMAIN invoices : Fee[k] = Taxable[invoices[k].by]
      BY DEF Fee
    <3>5. QED
      BY <3>1, <3>2, <3>3, <3>4
  <2>3. SumOver(Fee', S) = SumOver(Fee, S)
    BY <2>1, <2>2, SumSame
  <2>4. n + 1 \notin S /\ \A x \in S \cup {n + 1} : Fee'[x] \in Int
    BY <1>3, <2>1, <2>2, InvoicesAssumption
  <2>5. SumOver(Fee', S \cup {n + 1}) = SumOver(Fee', S) + Fee'[n + 1]
    <3> DEFINE f == Fee'
               y == n + 1
    <3>1. IsFiniteSet(S) /\ y \notin S /\ \A x \in S \cup {y} : f[x] \in Int
      BY <2>1, <2>4
    <3> HIDE DEF f, y
    <3>2. SumOver(f, S \cup {y}) = SumOver(f, S) + f[y]
      BY <3>1, SumAdd
    <3>3. QED
      BY <3>2 DEF f, y
  <2>6. QED
    BY <2>2, <2>3, <2>5
<1>6. QED
  BY <1>1, <1>3, <1>4, <1>5

\* While no row is added and those known to race only grow, the sums only shrink.
LEMMA FeesShrink ==
  ASSUME InvoicesTypeOK, UNCHANGED invoices, raced \subseteq raced', NEW c
  PROVE  /\ SumOver(Fee', Knowing(c)') \in Nat /\ SumOver(Fee, Knowing(c)) \in Nat
         /\ SumOver(Fee, Undeducted(c)) \in Nat /\ SumOver(Fee', Undeducted(c)') \in Nat
         /\ SumOver(Fee', Knowing(c)') <= SumOver(Fee, Rows(c))
         /\ SumOver(Fee', Knowing(c)') <= SumOver(Fee, Knowing(c))
         /\ SumOver(Fee', Undeducted(c)') <= SumOver(Fee, Undeducted(c))
<1>1. Fee' = Fee
  BY DEF Fee
<1>2. /\ Knowing(c)' \subseteq Knowing(c) /\ Knowing(c) \subseteq Rows(c)
      /\ Undeducted(c)' \subseteq Undeducted(c) /\ Undeducted(c) \subseteq DOMAIN invoices
      /\ Rows(c) \subseteq DOMAIN invoices
  BY DEF Knowing, Undeducted, Rows
<1>3. QED
  BY <1>1, <1>2, FewerFees

LEMMA ReadingFees ==
  ASSUME FeesInv, NEW r \in Invoicing, ReadPrior(r) \/ PriorUnread(r)
  PROVE  FeesInv'
<1>1. /\ UNCHANGED invoices /\ raced \subseteq raced' /\ raising[r] = "prior"
      /\ \A q \in Invoicing \ {r} : raising'[q] = raising[q] /\ prior'[q] = prior[q]
  BY DEF FeesInv, InvoicesTypeOK, ReadPrior, PriorUnread, RaiseGoto
<1>2. InvoicesTypeOK'
  <2>1. /\ invoices' \in Seq(Invoice) /\ invoiceRef' \in [Invoicing -> Nat]
        /\ raising' \in [Invoicing -> {"prior", "mint", "insert", "done", "failed"}]
    BY DEF FeesInv, InvoicesTypeOK, ReadPrior, PriorUnread, RaiseGoto
  <2>2. clientFyTaxablePaise(r) \in Nat
    BY PriorRead DEF FeesInv
  <2>3. prior' \in [Invoicing -> Nat]
    <3>1. \E p \in Nat : prior' = [prior EXCEPT ![r] = p]
      BY <2>2 DEF ReadPrior, PriorUnread
    <3>2. QED
      BY <3>1 DEF FeesInv, InvoicesTypeOK
  <2>4. raced' \subseteq Invoicing
    BY DEF FeesInv, InvoicesTypeOK, ReadPrior, PriorUnread, SameClient
  <2>5. QED
    BY <2>1, <2>3, <2>4 DEF InvoicesTypeOK
<1>3. OneKnows'
  <2> SUFFICES ASSUME NEW p \in Invoicing, NEW q \in Invoicing, p # q, Raises(p)', Raises(q)',
                      ClientOf[p] = ClientOf[q]
               PROVE  p \in raced' \/ q \in raced'
    BY DEF OneKnows
  <2>1. CASE p # r /\ q # r
    BY <1>1, <2>1 DEF FeesInv, OneKnows, Raises
  <2>2. ASSUME NEW t \in Invoicing \ {r}, Raises(t)', ClientOf[t] = ClientOf[r]
        PROVE  r \in raced'
    <3>1. t \in SameClient(r)
      BY <1>1, <2>2 DEF Raises, SameClient
    <3>2. QED
      BY <3>1 DEF ReadPrior, PriorUnread
  <2>3. QED
    BY <2>1, <2>2
<1>4. PriorCovers'
  <2> SUFFICES ASSUME NEW q \in Invoicing \ raced', Raises(q)', ClientOf[q] \in Clients
               PROVE  SumOver(Fee', Knowing(ClientOf[q])') <= prior'[q]
    BY DEF PriorCovers
  <2>1. CASE q = r
    <3>1. prior'[r] = SumOver(Fee, Rows(ClientOf[r]))
      BY <2>1, PriorRead DEF FeesInv, InvoicesTypeOK, ReadPrior, PriorUnread
    <3>2. QED
      BY <1>1, <2>1, <3>1, FeesShrink DEF FeesInv
  <2>2. CASE q # r
    <3>1. q \notin raced /\ Raises(q) /\ prior'[q] = prior[q] /\ prior[q] \in Nat
      BY <1>1, <2>2 DEF Raises, FeesInv, InvoicesTypeOK
    <3>2. SumOver(Fee, Knowing(ClientOf[q])) <= prior[q]
      BY <3>1 DEF FeesInv, PriorCovers
    <3>3. QED
      BY <1>1, <3>1, <3>2, FeesShrink DEF FeesInv
  <2>3. QED
    BY <2>1, <2>2
<1>5. WithinThreshold'
  BY <1>1, FeesShrink, InvoicesAssumption DEF FeesInv, WithinThreshold
<1>6. QED
  BY <1>2, <1>3, <1>4, <1>5 DEF FeesInv

LEMMA InsertingFees ==
  ASSUME FeesInv, NumberingTypeOK, NEW r \in Invoicing, InsertInvoice(r)
  PROVE  FeesInv'
<1> DEFINE n == Len(invoices)
           tds == prior[r] + Taxable[r] > Threshold
<1>1. /\ InvoicesTypeOK' /\ n \in Nat
      /\ DOMAIN invoices = 1..n /\ DOMAIN invoices' = 1..n + 1
      /\ \A k \in 1..n : invoices'[k] = invoices[k]
      /\ invoices'[n + 1].by = r /\ invoices'[n + 1].tds = tds
      /\ \A S \in SUBSET (1..n) :
            /\ SumOver(Fee', S) = SumOver(Fee, S)
            /\ SumOver(Fee', S \cup {n + 1}) = SumOver(Fee, S) + Taxable[r]
  BY FeeAppended DEF FeesInv, tds194jApplies
<1>2. /\ UNCHANGED <<prior, raced>> /\ raising[r] = "insert" /\ raising'[r] = "done"
      /\ \A q \in Invoicing \ {r} : raising'[q] = raising[q]
      /\ prior \in [Invoicing -> Nat]
  BY DEF FeesInv, InvoicesTypeOK, InsertInvoice, RaiseGoto
<1>3. OneKnows'
  BY <1>2 DEF FeesInv, OneKnows, Raises
<1>4. ASSUME NEW c
      PROVE  /\ Undeducted(c) \subseteq Knowing(c) /\ Knowing(c) \subseteq 1..n
             /\ Knowing(c)' = Knowing(c) \cup IF r \notin raced /\ ClientOf[r] = c THEN {n + 1} ELSE {}
             /\ Undeducted(c)' = Undeducted(c) \cup IF r \notin raced /\ ClientOf[r] = c /\ ~tds
                                                    THEN {n + 1} ELSE {}
  <2>1. Undeducted(c) \subseteq Knowing(c) /\ Knowing(c) \subseteq 1..n
    BY <1>1 DEF Undeducted, Knowing, Rows
  <2>2. \A k \in 1..n + 1 : k \in 1..n \/ k = n + 1
    BY <1>1
  <2>3. 1..n \subseteq 1..n + 1 /\ n + 1 \in 1..n + 1
    BY <1>1
  <2> HIDE DEF n, tds
  <2>4. Knowing(c)' = Knowing(c) \cup IF r \notin raced /\ ClientOf[r] = c THEN {n + 1} ELSE {}
    BY <1>1, <1>2, <2>2, <2>3 DEF Knowing, Rows
  <2>5. Undeducted(c)' = Undeducted(c) \cup IF r \notin raced /\ ClientOf[r] = c /\ ~tds
                                            THEN {n + 1} ELSE {}
    BY <1>1, <1>2, <2>2, <2>3, <2>4 DEF Undeducted, Knowing, Rows
  <2>6. QED
    BY <2>1, <2>4, <2>5
<1> HIDE DEF n
<1>5. PriorCovers'
  <2> SUFFICES ASSUME NEW q \in Invoicing \ raced, Raises(q)', ClientOf[q] \in Clients
               PROVE  SumOver(Fee', Knowing(ClientOf[q])') <= prior[q]
    BY <1>2 DEF PriorCovers
  <2>1. q # r /\ Raises(q) /\ Raises(r)
    BY <1>2 DEF Raises
  <2>2. ~(r \notin raced /\ ClientOf[r] = ClientOf[q])
    BY <2>1 DEF FeesInv, OneKnows
  <2>3. Knowing(ClientOf[q])' = Knowing(ClientOf[q]) /\ Knowing(ClientOf[q]) \subseteq 1..n
    BY <1>4, <2>2
  <2>4. SumOver(Fee, Knowing(ClientOf[q])) <= prior[q]
    BY <2>1 DEF FeesInv, PriorCovers
  <2>5. QED
    BY <1>1, <2>3, <2>4
<1>6. ASSUME NEW c \in Clients PROVE SumOver(Fee', Undeducted(c)') <= Threshold
  <2>1. SumOver(Fee, Undeducted(c)) <= Threshold /\ Undeducted(c) \subseteq 1..n
    BY <1>4 DEF FeesInv, WithinThreshold
  <2>2. CASE r \notin raced /\ ClientOf[r] = c /\ ~tds
    <3>1. SumOver(Fee', Undeducted(c)') = SumOver(Fee, Undeducted(c)) + Taxable[r]
      BY <1>1, <1>4, <2>1, <2>2
    <3>2. SumOver(Fee, Knowing(c)) <= prior[r]
      BY <1>2, <2>2 DEF FeesInv, PriorCovers, Raises
    <3>3. /\ SumOver(Fee, Undeducted(c)) \in Nat /\ SumOver(Fee, Knowing(c)) \in Nat
          /\ SumOver(Fee, Undeducted(c)) <= SumOver(Fee, Knowing(c))
      BY <1>1, <1>4, FewerFees DEF FeesInv
    <3>4. prior[r] + Taxable[r] <= Threshold
      BY <1>2, <2>2, InvoicesAssumption
    <3>5. Taxable[r] \in Nat /\ prior[r] \in Nat /\ Threshold \in Nat
      BY <1>2, InvoicesAssumption
    <3>6. QED
      BY <3>1, <3>2, <3>3, <3>4, <3>5
  <2>3. CASE ~(r \notin raced /\ ClientOf[r] = c /\ ~tds)
    <3>1. Undeducted(c)' = Undeducted(c)
      BY <1>4, <2>3
    <3>2. QED
      BY <1>1, <2>1, <3>1
  <2>4. QED
    BY <2>2, <2>3
<1>7. QED
  BY <1>1, <1>3, <1>5, <1>6 DEF FeesInv, WithinThreshold

LEMMA FeesStep ==
  ASSUME FeesInv, NumberingTypeOK, InvoicesNext
  PROVE  FeesInv'
<1>1. ASSUME NEW r \in Invoicing, MintInvoice(r) \/ InvoiceFails(r) PROVE FeesInv'
  <2>1. /\ UNCHANGED <<invoices, prior, raced>>
        /\ Raises(r) /\ \A q \in Invoicing : Raises(q)' => Raises(q)
    BY <1>1 DEF FeesInv, InvoicesTypeOK, MintInvoice, InvoiceFails, RaiseGoto, Raises
  <2>2. InvoicesTypeOK'
    <3>1. CASE MintInvoice(r)
      <4>1. last'["invoice"] \in Nat
        BY <3>1, Minting DEF MintInvoice, Scopes, NumberingTypeOK
      <4>2. QED
        BY <3>1, <4>1 DEF FeesInv, InvoicesTypeOK, MintInvoice, RaiseGoto
    <3>2. CASE InvoiceFails(r)
      BY <3>2 DEF FeesInv, InvoicesTypeOK, InvoiceFails, RaiseGoto
    <3>3. QED
      BY <1>1, <3>1, <3>2
  <2>3. Fee' = Fee /\ \A c : Knowing(c)' = Knowing(c) /\ Undeducted(c)' = Undeducted(c)
    BY <2>1 DEF Fee, Knowing, Undeducted, Rows
  <2>4. QED
    BY <2>1, <2>2, <2>3 DEF FeesInv, OneKnows, PriorCovers, WithinThreshold
<1>2. QED
  BY <1>1, ReadingFees, InsertingFees DEF InvoicesNext

LEMMA FeesFrame ==
  ASSUME FeesInv, UNCHANGED invoicesOwn
  PROVE  FeesInv'
BY DEF invoicesOwn, FeesInv, InvoicesTypeOK, OneKnows, PriorCovers, WithinThreshold, Raises,
   Knowing, Undeducted, Rows, Fee

\* The fees billed to a client without deduction stay within the threshold, and
\* whoever is about to bill knows of them.
THEOREM FeesInductive == Spec => []FeesInv
<1>1. Init => FeesInv
  BY FeesInitial DEF Init
<1>2. InvoicesInv /\ FeesInv /\ [Next]_vars => FeesInv'
  <2> SUFFICES ASSUME InvoicesInv, FeesInv, [Next]_vars PROVE FeesInv'
    OBVIOUS
  <2>1. NumberingTypeOK
    BY DEF InvoicesInv, InvoicesOK
  <2>2. QED
    BY <2>1, FeesStep, FeesFrame DEF Next, vars
<1>3. QED
  BY <1>1, <1>2, InvoicesInductive, PTL DEF Spec

\* A client is billed no more than the threshold without deduction, but by
\* invoices that raced or could not read what was billed before.
THEOREM DeductedAbove == Spec => []FeesWithoutTds
<1>1. FeesInv => FeesWithoutTds
  <2> SUFFICES ASSUME FeesInv, NEW c \in Clients
               PROVE  MapThenSumSet(LAMBDA k : Taxable[invoices[k].by],
                        {k \in DOMAIN invoices : /\ ClientOf[invoices[k].by] = c
                                                 /\ ~invoices[k].tds
                                                 /\ invoices[k].by \notin raced}) <= Threshold
    BY DEF FeesWithoutTds
  <2> DEFINE S == {k \in DOMAIN invoices : /\ ClientOf[invoices[k].by] = c
                                           /\ ~invoices[k].tds
                                           /\ invoices[k].by \notin raced}
  <2>1. S \subseteq DOMAIN invoices /\ S = Undeducted(c)
    BY DEF Undeducted, Knowing, Rows
  <2>2. IsFiniteSet(S)
    BY <2>1, FeesFinite DEF FeesInv
  <2>3. SumOver(Fee, S) <= Threshold
    BY <2>1 DEF FeesInv, WithinThreshold
  <2>4. MapThenSumSet(LAMBDA k : Taxable[invoices[k].by], S) = SumOver(Fee, S)
    BY <2>1, <2>2, FeesSum
  <2>5. QED
    BY <2>3, <2>4
<1>2. QED
  BY <1>1, FeesInductive, PTL
-------------------------------------------------------------------------------
(* The references of all three.                                             *)

\* A reference stands for one drawing, bill or invoice, and a number is missing
\* only because an upload failed after it had minted.
THEOREM ReferencesHold == Spec => []References
<1>1. DrawingsInv => DrawingRefs
  <2> SUFFICES ASSUME DrawingsInv PROVE DrawingRefs
    OBVIOUS
  <2>1. \A k, l \in DOMAIN chain : chain[k].ref = chain[l].ref => k = l
    BY DEF DrawingsInv, DrawingNumbers
  <2>2. 1..last["drawing"] \subseteq
           {chain[k].ref : k \in DOMAIN chain}
           \cup {ref[u] : u \in {v \in Uploads : uploading[v] \in {"insert", "failed"}}}
    <3>1. SUFFICES ASSUME NEW n \in 1..last["drawing"]
                   PROVE  n \in {chain[k].ref : k \in DOMAIN chain}
                          \/ n \in {ref[u] : u \in {v \in Uploads :
                                                     uploading[v] \in {"insert", "failed"}}}
      OBVIOUS
    <3>2. OnRow(n) \/ Held(n)
      BY DEF DrawingsInv, DrawingNumbers
    <3>3. QED
      BY <3>2 DEF OnRow, Held
  <2>3. QED
    BY <2>1, <2>2 DEF DrawingRefs
<1>2. BillsInv => BillRefs
  BY DEF BillsInv
<1>3. InvoicesInv => InvoiceRefs
  BY DEF InvoicesInv
<1>4. DrawingsInv /\ BillsInv /\ InvoicesInv => References
  BY <1>1, <1>2, <1>3 DEF References
<1>5. QED
  BY <1>4, DrawingsInductive, BillsInductive, InvoicesInductive, PTL
-------------------------------------------------------------------------------
(* The total of the first bill: whose line is which, and which are counted.  *)

Lines == DOMAIN raLines
OwnLines(own) ==
    /\ \A k, l \in Lines : own[k] = own[l] => k = l
    /\ \A k \in Lines : raLines[k] = Amount[own[k]] /\ billing[own[k]] # "start"
    /\ \A r \in Liners : billing[r] # "start" => \E k \in Lines : own[k] = r
LinesDone(own) == {k \in Lines : billing[own[k]] = "done"}
\* A total, whether on the bill or read, is of some lines whose requests are done,
\* and of all of them as long as none was written over unread.
SumsOfDone(own) ==
    /\ \E C \in SUBSET LinesDone(own) : bills[1].gross = SumOver(raLines, C)
    /\ \A r \in Liners : billing[r] = "write" =>
          /\ \E C \in SUBSET LinesDone(own) : gross[r] = SumOver(raLines, C)
          /\ r \notin passed => gross[r] = bills[1].gross
    /\ ~lost => bills[1].gross = SumOver(raLines, LinesDone(own))
GrossInv == \E own \in [Lines -> Liners] : OwnLines(own) /\ SumsOfDone(own)

LEMMA LinesFinite ==
  ASSUME RaBillsTypeOK
  PROVE  /\ Lines = 1..Len(raLines) /\ Len(raLines) \in Nat
         /\ \A C \in SUBSET Lines : IsFiniteSet(C) /\ \A k \in C : raLines[k] \in Int
<1>1. raLines \in Seq(Int)
  BY DEF RaBillsTypeOK
<1>2. Lines = 1..Len(raLines) /\ Len(raLines) \in Nat /\ \A k \in Lines : raLines[k] \in Int
  BY <1>1 DEF Lines
<1>3. IsFiniteSet(Lines)
  BY <1>2, FS_Interval
<1>4. QED
  BY <1>2, <1>3, FS_Subset

LEMMA GrossInitial == RaBillsInit => GrossInv
<1> SUFFICES ASSUME RaBillsInit PROVE GrossInv
  OBVIOUS
<1> DEFINE own == [k \in Lines |-> k]
<1>1. Lines = {}
  BY DEF RaBillsInit, Lines
<1>2. own \in [Lines -> Liners] /\ OwnLines(own)
  BY <1>1 DEF RaBillsInit, OwnLines, Billers
<1>3. LinesDone(own) = {} /\ SumOver(raLines, {}) = 0
  BY <1>1, SumPick, FS_EmptySet DEF LinesDone
<1>4. bills[1].gross = 0 /\ \A r \in Liners : billing[r] = "start"
  BY DEF RaBillsInit, Billers
<1> HIDE DEF own
<1>5. SumsOfDone(own)
  BY <1>3, <1>4 DEF SumsOfDone
<1>6. QED
  BY <1>2, <1>5 DEF GrossInv

\* A step that neither adds a line nor a total, and at most gives one up.
LEMMA GrossKept ==
  ASSUME GrossInv, UNCHANGED <<raLines, passed, lost>>, bills'[1].gross = bills[1].gross,
         \A r \in Liners : /\ gross'[r] = gross[r]
                           /\ \/ billing'[r] = billing[r]
                              \/ billing[r] \notin {"start", "done"} /\ billing'[r] = "failed"
  PROVE  GrossInv'
<1>1. PICK own \in [Lines -> Liners] : OwnLines(own) /\ SumsOfDone(own)
  BY DEF GrossInv
<1>2. Lines' = Lines /\ \A k \in Lines : own[k] \in Liners
  BY DEF Lines
<1>3. OwnLines(own)'
  BY <1>1, <1>2 DEF OwnLines
<1>4. LinesDone(own)' = LinesDone(own)
  BY <1>2 DEF LinesDone
<1>5. SumsOfDone(own)'
  BY <1>1, <1>4 DEF SumsOfDone
<1>6. QED
  BY <1>2, <1>3, <1>5 DEF GrossInv

LEMMA LineAdded ==
  ASSUME GrossInv, RaBillsTypeOK, NEW r \in Liners, InsertLine(r)
  PROVE  GrossInv'
<1> DEFINE n == Len(raLines)
<1>1. PICK own \in [Lines -> Liners] : OwnLines(own) /\ SumsOfDone(own)
  BY DEF GrossInv
<1>2. /\ UNCHANGED <<bills, gross, passed, lost>> /\ raLines' = Append(raLines, Amount[r])
      /\ \A q \in Liners : billing'[q] = IF q = r THEN "read" ELSE billing[q]
      /\ billing[r] = "start" /\ r \in Liners
  BY DEF InsertLine, BillGoto, RaBillsTypeOK, Billers
<1>3. raLines \in Seq(Int) /\ Amount[r] \in Int
  BY RaBillsAssumption DEF RaBillsTypeOK
<1>4. /\ n \in Nat /\ Lines = 1..n /\ Lines' = 1..n + 1
      /\ \A k \in 1..n : raLines'[k] = raLines[k]
      /\ raLines'[n + 1] = Amount[r]
  BY <1>2, <1>3, AppendFacts DEF Lines
<1>5. \A k \in 1..n + 1 : k \in 1..n \/ k = n + 1
  BY <1>4
<1>6. n + 1 \in 1..n + 1 /\ n + 1 \notin 1..n /\ 1..n \subseteq 1..n + 1
  BY <1>4
<1> HIDE DEF n
<1>7. PICK next \in [Lines' -> Liners] :
          next[n + 1] = r /\ \A k \in 1..n : next[k] = own[k] /\ own[k] \in Liners
  <2> DEFINE f == [k \in 1..n + 1 |-> IF k = n + 1 THEN r ELSE own[k]]
  <2>1. f \in [Lines' -> Liners] /\ f[n + 1] = r /\ \A k \in 1..n : f[k] = own[k] /\ own[k] \in Liners
    BY <1>4, <1>5, <1>6
  <2>2. QED
    BY <2>1
<1>8. \A k \in 1..n : billing[own[k]] # "start"
  BY <1>1, <1>4 DEF OwnLines
<1>9. OwnLines(next)'
  <2>1. ASSUME NEW k \in Lines', NEW l \in Lines', next[k] = next[l] PROVE k = l
    BY <1>1, <1>2, <1>4, <1>5, <1>7, <1>8, <2>1 DEF OwnLines
  <2>2. ASSUME NEW k \in Lines' PROVE raLines'[k] = Amount[next[k]] /\ billing'[next[k]] # "start"
    <3>1. CASE k = n + 1
      BY <1>2, <1>4, <1>7, <3>1
    <3>2. CASE k \in 1..n
      <4>1. raLines[k] = Amount[own[k]] /\ billing[own[k]] # "start"
        BY <1>1, <1>4, <3>2 DEF OwnLines
      <4>2. QED
        BY <1>2, <1>4, <1>7, <3>2, <4>1
    <3>3. QED
      BY <1>4, <1>5, <3>1, <3>2
  <2>3. ASSUME NEW q \in Liners, billing'[q] # "start" PROVE \E k \in Lines' : next[k] = q
    <3>1. CASE q = r
      BY <1>4, <1>6, <1>7, <3>1
    <3>2. CASE q # r
      <4>1. PICK k \in Lines : own[k] = q
        BY <1>1, <1>2, <2>3, <3>2 DEF OwnLines
      <4>2. QED
        BY <1>4, <1>6, <1>7, <4>1
    <3>3. QED
      BY <3>1, <3>2
  <2>4. QED
    BY <2>1, <2>2, <2>3 DEF OwnLines
<1>10. LinesDone(next)' = LinesDone(own) /\ LinesDone(own) \subseteq 1..n
  <2>1. \A k \in 1..n : billing'[next[k]] = "done" <=> billing[own[k]] = "done"
    BY <1>2, <1>7
  <2>2. billing'[next[n + 1]] # "done"
    BY <1>2, <1>7
  <2>3. QED
    BY <1>4, <1>5, <1>6, <2>1, <2>2 DEF LinesDone
<1>11. \A C \in SUBSET LinesDone(own) : SumOver(raLines', C) = SumOver(raLines, C)
  BY <1>4, <1>10, LinesFinite, SumSame
<1>12. SumsOfDone(next)'
  <2>1. PICK C \in SUBSET LinesDone(own) : bills[1].gross = SumOver(raLines, C)
    BY <1>1 DEF SumsOfDone
  <2>2. \E D \in SUBSET LinesDone(next)' : bills'[1].gross = SumOver(raLines', D)
    BY <1>2, <1>10, <1>11, <2>1
  <2>3. ASSUME NEW q \in Liners, billing'[q] = "write"
        PROVE  /\ \E D \in SUBSET LinesDone(next)' : gross'[q] = SumOver(raLines', D)
               /\ q \notin passed' => gross'[q] = bills'[1].gross
    <3>1. billing[q] = "write"
      BY <1>2, <2>3
    <3>2. PICK D \in SUBSET LinesDone(own) : gross[q] = SumOver(raLines, D)
      BY <1>1, <3>1 DEF SumsOfDone
    <3>3. QED
      BY <1>1, <1>2, <1>10, <1>11, <3>1, <3>2 DEF SumsOfDone
  <2>4. ~lost' => bills'[1].gross = SumOver(raLines', LinesDone(next)')
    BY <1>1, <1>2, <1>10, <1>11 DEF SumsOfDone
  <2>5. QED
    BY <2>2, <2>3, <2>4 DEF SumsOfDone
<1>13. QED
  BY <1>7, <1>9, <1>12 DEF GrossInv

LEMMA TotalRead ==
  ASSUME GrossInv, RaBillsTypeOK, NEW r \in Liners, ReadGross(r) \/ GrossUnread(r)
  PROVE  GrossInv'
<1>1. PICK own \in [Lines -> Liners] : OwnLines(own) /\ SumsOfDone(own)
  BY DEF GrossInv
<1>2. /\ UNCHANGED <<bills, raLines, lost>> /\ Lines' = Lines
      /\ \A q \in Liners : billing'[q] = IF q = r THEN "write" ELSE billing[q]
      /\ billing[r] = "read" /\ \A k \in Lines : own[k] \in Liners
      /\ \A q \in Liners \ {r} : gross'[q] = gross[q] /\ (q \in passed' <=> q \in passed)
      /\ \/ gross'[r] = bills[1].gross /\ r \notin passed'
         \/ gross'[r] = 0 /\ r \in passed'
  BY DEF ReadGross, GrossUnread, BillGoto, RaBillsTypeOK, Billers, Lines
<1>3. OwnLines(own)' /\ LinesDone(own)' = LinesDone(own)
  BY <1>1, <1>2 DEF OwnLines, LinesDone
<1>4. SumsOfDone(own)'
  <2>1. \E C \in SUBSET LinesDone(own) : bills[1].gross = SumOver(raLines, C)
    BY <1>1 DEF SumsOfDone
  <2>2. {} \in SUBSET LinesDone(own) /\ SumOver(raLines, {}) = 0
    BY SumPick, FS_EmptySet
  <2>3. ASSUME NEW q \in Liners, billing'[q] = "write"
        PROVE  /\ \E C \in SUBSET LinesDone(own) : gross'[q] = SumOver(raLines, C)
               /\ q \notin passed' => gross'[q] = bills[1].gross
    <3>1. CASE q = r
      BY <1>2, <2>1, <2>2, <3>1
    <3>2. CASE q # r
      BY <1>1, <1>2, <2>3, <3>2 DEF SumsOfDone
    <3>3. QED
      BY <3>1, <3>2
  <2>4. ~lost => bills[1].gross = SumOver(raLines, LinesDone(own))
    BY <1>1 DEF SumsOfDone
  <2>5. QED
    BY <1>2, <1>3, <2>1, <2>3, <2>4 DEF SumsOfDone
<1>5. QED
  BY <1>2, <1>3, <1>4 DEF GrossInv

LEMMA TotalWritten ==
  ASSUME GrossInv, BillsInv, NEW r \in Liners, WriteGross(r)
  PROVE  GrossInv'
<1>1. PICK own \in [Lines -> Liners] : OwnLines(own) /\ SumsOfDone(own)
  BY DEF GrossInv
<1>2. /\ UNCHANGED <<raLines, gross>> /\ Lines' = Lines
      /\ \A q \in Liners : billing'[q] = IF q = r THEN "done" ELSE billing[q]
      /\ billing[r] = "write" /\ \A k \in Lines : own[k] \in Liners
      /\ \A q \in Liners : q # r /\ billing[q] = "write" => q \in passed'
      /\ lost' = (lost \/ r \in passed)
  BY DEF WriteGross, BillGoto, BillsInv, RaBillsTypeOK, Billers, Lines
<1>3. bills'[1].gross = gross[r] + Amount[r]
  <2>1. bills \in Seq(Bill) /\ Len(bills) > 0
    BY DEF BillsInv, RaBillsTypeOK
  <2>2. 1 \in DOMAIN bills /\ bills[1] \in Bill
    BY <2>1
  <2>3. QED
    BY <2>2 DEF WriteGross, Bill
<1>4. PICK mine \in Lines : own[mine] = r
  BY <1>1, <1>2 DEF OwnLines
<1>5. /\ raLines[mine] = Amount[r]
      /\ \A k \in Lines \ {mine} : own[k] # r
  BY <1>1, <1>4 DEF OwnLines
<1>6. OwnLines(own)'
  BY <1>1, <1>2 DEF OwnLines
<1>7. /\ LinesDone(own) \subseteq Lines /\ mine \notin LinesDone(own)
      /\ LinesDone(own)' = LinesDone(own) \cup {mine}
  BY <1>2, <1>4, <1>5 DEF LinesDone
<1>8. ASSUME NEW C \in SUBSET LinesDone(own)
      PROVE  SumOver(raLines, C \cup {mine}) = SumOver(raLines, C) + Amount[r]
  <2>1. IsFiniteSet(C) /\ mine \notin C
    BY <1>7, LinesFinite DEF BillsInv
  <2>2. \A k \in C \cup {mine} : raLines[k] \in Int
    <3>1. C \cup {mine} \in SUBSET Lines
      BY <1>7
    <3>2. \A k \in C \cup {mine} : raLines[k] \in Int
      BY <3>1, LinesFinite DEF BillsInv
    <3>3. QED
      BY <3>2
  <2>3. SumOver(raLines, C \cup {mine}) = SumOver(raLines, C) + raLines[mine]
    BY <2>1, <2>2, SumAdd
  <2>4. QED
    BY <1>5, <2>3
<1>9. PICK D \in SUBSET LinesDone(own) : gross[r] = SumOver(raLines, D)
  BY <1>1, <1>2 DEF SumsOfDone
<1>10. \E C \in SUBSET LinesDone(own)' : bills'[1].gross = SumOver(raLines', C)
  <2>1. D \cup {mine} \in SUBSET LinesDone(own)'
    BY <1>7
  <2>2. QED
    BY <1>2, <1>3, <1>8, <1>9, <2>1
<1>11. ASSUME NEW q \in Liners, billing'[q] = "write"
       PROVE  /\ \E C \in SUBSET LinesDone(own)' : gross'[q] = SumOver(raLines', C)
              /\ q \in passed'
  <2>1. q # r /\ billing[q] = "write"
    BY <1>2, <1>11
  <2>2. PICK C \in SUBSET LinesDone(own) : gross[q] = SumOver(raLines, C)
    BY <1>1, <2>1 DEF SumsOfDone
  <2>3. C \in SUBSET LinesDone(own)'
    BY <1>7
  <2>4. QED
    BY <1>2, <2>1, <2>2, <2>3
<1>12. ASSUME ~lost' PROVE bills'[1].gross = SumOver(raLines', LinesDone(own)')
  <2>1. ~lost /\ r \notin passed
    BY <1>2, <1>12
  <2>2. gross[r] = SumOver(raLines, LinesDone(own))
    BY <1>1, <1>2, <2>1 DEF SumsOfDone
  <2>3. QED
    BY <1>2, <1>3, <1>7, <1>8, <2>2
<1>13. SumsOfDone(own)'
  BY <1>10, <1>11, <1>12 DEF SumsOfDone
<1>14. QED
  BY <1>2, <1>6, <1>13 DEF GrossInv

LEMMA GrossStep ==
  ASSUME GrossInv, BillsInv, RaBillsNext
  PROVE  GrossInv'
<1> USE RaBillsAssumption
<1>1. /\ bills \in Seq(Bill) /\ 1 \in DOMAIN bills /\ bills[1] \in Bill
      /\ RaBillsTypeOK
  BY DEF BillsInv, RaBillsTypeOK
<1>2. ASSUME NEW r \in Creators, MintBill(r) \/ InsertBill(r) PROVE GrossInv'
  <2>1. /\ UNCHANGED <<raLines, passed, lost, gross>>
        /\ \A q \in Liners : billing'[q] = billing[q]
    BY <1>1, <1>2 DEF MintBill, InsertBill, BillGoto, RaBillsTypeOK, Billers
  <2>2. bills'[1].gross = bills[1].gross
    <3>1. CASE MintBill(r)
      BY <3>1 DEF MintBill
    <3>2. CASE InsertBill(r)
      <4>1. NewBill(billRef[r], 0) /\ billRef[r] \in Nat
        BY <1>1, <3>2 DEF InsertBill, RaBillsTypeOK
      <4>2. QED
        BY <1>1, <4>1, NewBillTypes
    <3>3. QED
      BY <1>2, <3>1, <3>2
  <2>3. QED
    BY <2>1, <2>2, GrossKept
<1>3. ASSUME NEW r \in Contractors, SubmitBill(r) PROVE GrossInv'
  <2>1. /\ UNCHANGED <<raLines, passed, lost, gross>>
        /\ \A q \in Liners : billing'[q] = billing[q]
    BY <1>1, <1>3 DEF SubmitBill, BillGoto, RaBillsTypeOK, Billers
  <2>2. NewBill(last'["pmc_ra_bill"], Claim[r]) /\ Claim[r] \in Int /\ last'["pmc_ra_bill"] \in Nat
    BY <1>3, FreshNumber DEF SubmitBill
  <2>3. bills'[1].gross = bills[1].gross
    BY <1>1, <2>2, NewBillTypes
  <2>4. QED
    BY <2>1, <2>3, GrossKept
<1>4. ASSUME NEW r \in Certifiers,
             ReadBill(r) \/ Certify(r) \/ FindVersion(r) \/ NextVersion(r) \/ InsertVersion(r)
      PROVE  GrossInv'
  <2>1. /\ UNCHANGED <<raLines, passed, lost>>
        /\ \A q \in Liners : billing'[q] = billing[q] /\ gross'[q] = gross[q]
    BY <1>1, <1>4 DEF ReadBill, Certify, FindVersion, NextVersion, InsertVersion, BillGoto,
                      RaBillsTypeOK, Billers
  <2>2. bills' = bills \/ bills' = [bills EXCEPT ![1].status = "CERTIFIED"]
    BY <1>4 DEF ReadBill, Certify, FindVersion, NextVersion, InsertVersion
  <2>3. bills'[1].gross = bills[1].gross
    BY <1>1, <2>2 DEF Bill
  <2>4. QED
    BY <2>1, <2>3, GrossKept
<1>5. ASSUME NEW r \in Billers, BillFails(r) PROVE GrossInv'
  <2>1. /\ UNCHANGED <<raLines, passed, lost, gross, bills>>
        /\ \A q \in Liners : \/ billing'[q] = billing[q]
                             \/ billing[q] \notin {"start", "done"} /\ billing'[q] = "failed"
    BY <1>1, <1>5 DEF BillFails, BillGoto, RaBillsTypeOK, Billers
  <2>2. QED
    BY <2>1, GrossKept
<1>6. ASSUME NEW st, SetBillStatus(st) PROVE GrossInv'
  <2>1. UNCHANGED <<raLines, passed, lost, gross, billing>>
    BY <1>6 DEF SetBillStatus
  <2>2. bills'[1].gross = bills[1].gross
    BY <1>1, <1>6 DEF SetBillStatus, Bill
  <2>3. QED
    BY <2>1, <2>2, GrossKept
<1>7. QED
  BY <1>1, <1>2, <1>3, <1>4, <1>5, <1>6, LineAdded, TotalRead, TotalWritten DEF RaBillsNext

LEMMA GrossFrame ==
  ASSUME GrossInv, UNCHANGED billsOwn
  PROVE  GrossInv'
<1>1. PICK own \in [Lines -> Liners] : OwnLines(own) /\ SumsOfDone(own)
  BY DEF GrossInv
<1>2. Lines' = Lines /\ OwnLines(own)' /\ LinesDone(own)' = LinesDone(own)
  BY <1>1 DEF billsOwn, OwnLines, LinesDone, Lines
<1>3. SumsOfDone(own)'
  BY <1>1, <1>2 DEF billsOwn, SumsOfDone
<1>4. QED
  BY <1>2, <1>3 DEF GrossInv

\* The gross of the first bill is that of the lines written, until one is lost,
\* and every line is the work of one request.
THEOREM GrossInductive == Spec => []GrossInv
<1>1. Init => GrossInv
  BY GrossInitial DEF Init
<1>2. BillsInv /\ GrossInv /\ [Next]_vars => GrossInv'
  <2> SUFFICES ASSUME BillsInv, GrossInv, [Next]_vars PROVE GrossInv'
    OBVIOUS
  <2>1. CASE RaBillsNext
    BY <2>1, GrossStep
  <2>2. CASE UNCHANGED billsOwn
    BY <2>2, GrossFrame
  <2>3. QED
    BY <2>1, <2>2 DEF Next, vars, billsOwn
<1>3. QED
  BY <1>1, <1>2, BillsInductive, PTL DEF Spec

LEMMA TotalIsSum ==
  ASSUME NEW q \in Seq(Int)
  PROVE  Total(q) = SumOver(q, DOMAIN q)
BY DEF Total, FoldSeq, FoldFunction, FoldFunctionOnSet, MapThenFoldSet, SumOver, PartSums,
   SumsUp, SumStep, Pick

\* The total of a bill is a sum of its lines, none twice; of all of them once they
\* have been added, unless one was added while another's total was read or the
\* reading failed.
THEOREM LinesCountOnce == Spec => []GrossOfLines
<1>1. BillsInv /\ GrossInv => GrossOfLines
  <2> SUFFICES ASSUME BillsInv, GrossInv PROVE GrossOfLines
    OBVIOUS
  <2>1. PICK own \in [Lines -> Liners] : OwnLines(own) /\ SumsOfDone(own)
    BY DEF GrossInv
  <2>2. PICK C \in SUBSET LinesDone(own) : bills[1].gross = SumOver(raLines, C)
    BY <2>1 DEF SumsOfDone
  <2>3. /\ raLines \in Seq(Int) /\ IsFiniteSet(Lines) /\ \A k \in Lines : raLines[k] \in Int
        /\ C \subseteq Lines /\ IsFiniteSet(C)
    BY LinesFinite DEF BillsInv, RaBillsTypeOK, LinesDone
  <2> DEFINE q == [k \in Lines |-> IF k \in C THEN raLines[k] ELSE 0]
  <2>4. q \in Seq(Int) /\ DOMAIN q = Lines
    <3>1. Lines = 1..Len(raLines) /\ Len(raLines) \in Nat
      BY LinesFinite DEF BillsInv
    <3>2. q \in [1..Len(raLines) -> Int]
      BY <2>3, <3>1
    <3>3. QED
      BY <3>1, <3>2, SeqDef
  <2>5. /\ \A k \in Lines : q[k] \in Int
        /\ \A k \in C : q[k] = raLines[k]
        /\ \A k \in Lines \ C : q[k] = 0
    BY <2>3
  <2> HIDE DEF q
  <2>6. Total(q) = SumOver(q, C)
    <3>1. Total(q) = SumOver(q, Lines)
      BY <2>4, TotalIsSum
    <3>2. SumOver(q, Lines) = SumOver(q, C)
      BY <2>3, <2>5, SumSparse
    <3>3. QED
      BY <3>1, <3>2
  <2>7. SumOver(q, C) = SumOver(raLines, C)
    BY <2>3, <2>5, SumSame
  <2>8. \E counted \in SUBSET DOMAIN raLines :
           bills[1].gross = Total([k \in DOMAIN raLines |->
                                     IF k \in counted THEN raLines[k] ELSE 0])
    BY <2>2, <2>3, <2>6, <2>7 DEF q, Lines
  <2>9. ASSUME ~lost, \A r \in Liners : billing[r] \in {"start", "done"}
        PROVE  bills[1].gross = Total(raLines)
    <3>1. LinesDone(own) = Lines
      BY <2>1, <2>9 DEF LinesDone, OwnLines
    <3>2. bills[1].gross = SumOver(raLines, Lines)
      BY <2>1, <2>9, <3>1 DEF SumsOfDone
    <3>3. QED
      BY <2>3, <3>2, TotalIsSum DEF Lines
  <2>10. QED
    BY <2>8, <2>9 DEF GrossOfLines
<1>2. QED
  BY <1>1, BillsInductive, GrossInductive, PTL

-------------------------------------------------------------------------------
(* Types.                                                                    *)

LEMMA ChainTyped ==
  ASSUME ChainOK, RevisionsOK
  PROVE  chain \in Seq(Row)
<1>1. PICK S : chain \in Seq(RowOver(S))
  BY DEF ChainOK
<1>2. Len(chain) \in Nat /\ chain \in [1..Len(chain) -> RowOver(S)] /\ DOMAIN chain = 1..Len(chain)
  BY <1>1
<1>3. \A k \in 1..Len(chain) : chain[k] \in RowOver(S) /\ chain[k].rev \in Nat
  BY <1>2 DEF RevisionsOK
<1>4. \A k \in 1..Len(chain) : chain[k] \in Row
  <2>1. \A x \in RowOver(S) : x.rev \in Nat => x \in Row
    BY DEF RowOver, Row
  <2>2. QED
    BY <1>3, <2>1
<1>5. chain \in [1..Len(chain) -> Row]
  BY <1>2, <1>4
<1>6. QED
  BY <1>2, <1>5, SeqDef

LEMMA DrawingsTyped ==
  ASSUME DrawingsInv, RevisionsInv
  PROVE  DrawingsTypeOK
<1>1. chain \in Seq(Row)
  BY ChainTyped DEF DrawingsInv, RevisionsInv
<1>2. ref \in [Uploads -> 0..last["drawing"]]
  <2>1. last["drawing"] \in Nat
    BY DEF DrawingsInv, ChainOK, NumberingTypeOK, Scopes
  <2>2. QED
    BY <2>1 DEF DrawingsInv, ChainOK, RevisionsInv, RefsBelow
<1>3. jobs \subseteq 1..Len(chain)
  BY <1>1 DEF RevisionsInv, QueuedHasRow
<1>4. QED
  BY <1>1, <1>2, <1>3 DEF DrawingsInv, ChainOK, RevisionsInv, RevisionsOK, DrawingsTypeOK

\* Every record has its type: an upload has read rows that are there, a queued
\* conversion is of one, a mint answers no number that the sequence has not.
THEOREM TypeCorrect == Spec => []TypeOK
<1>1. DrawingsInv /\ RevisionsInv => DrawingsTypeOK
  BY DrawingsTyped
<1>2. BillsInv => RaBillsTypeOK
  BY DEF BillsInv
<1>3. FeesInv => InvoicesTypeOK
  BY DEF FeesInv
<1>4. BookInv => EstimatesTypeOK
  BY DEF BookInv, MeasuringOK
<1>5. RatesInv => RatesTypeOK
  BY DEF RatesInv
<1>6. DrawingsInv /\ RevisionsInv /\ BillsInv /\ FeesInv /\ BookInv /\ RatesInv => TypeOK
  BY <1>1, <1>2, <1>3, <1>4, <1>5 DEF TypeOK
<1>7. QED
  BY <1>6, DrawingsInductive, RevisionsInductive, BillsInductive, FeesInductive, BookInductive,
     RatesInductive, PTL
==============================================================================
