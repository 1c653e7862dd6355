------------------------------- MODULE RateBooks -------------------------------
(***************************************************************************)
(* The rate books of a firm (web, migration 0110, lib/aqc/rate-books.ts).  *)
(* Publishing a book and making one active are transactions, READ          *)
(* COMMITTED: a row is locked when it is selected for update or written,   *)
(* a statement finds the rows that are committed when it starts, and two   *)
(* unique indexes (one row per client_id, one active row) make whoever     *)
(* comes second wait for the first and then fail.                          *)
(***************************************************************************)
EXTENDS Naturals, FiniteSets

CONSTANTS
    Books,        \* the client_ids
    Codes,        \* item codes
    Publishers,   \* requests that publish a book
    Activators,   \* requests that make a book active
    BookOf,       \* the book of each request
    Items,        \* what each publisher sends, also for its hash, which does
                  \* not depend on the order
    Activating    \* the publishers that ask for activation too

Item == [code : Codes, rate : Nat]
Pricers == Publishers \cup Activators

ASSUME RateBooksAssumption ==
    /\ Publishers \cap Activators = {}
    /\ BookOf \in [Pricers -> Books]
    /\ Items \in [Publishers -> SUBSET Item]
    /\ \A p \in Publishers : \A i, j \in Items[p] : i.code = j.code => i = j
    /\ Activating \subseteq Publishers

VARIABLES
    library,    \* aqc_rate_versions and its items as committed, revision 0
                \* before there is a row
    pricing,    \* per request: its next step
    locked,     \* per request: the rows it has locked
    draft,      \* per request: these rows, as it sees them
    found,      \* per request: the other active rows its statement has found
    revision    \* per publisher: v_rev

ratesVars == <<library, pricing, locked, draft, found, revision>>

BookRow == [revision : Nat, hash : SUBSET Item, items : SUBSET Item, active : BOOLEAN]
Unpublished == [revision |-> 0, hash |-> {}, items |-> {}, active |-> FALSE]

RatesTypeOK ==
    /\ library \in [Books -> BookRow]
    /\ pricing \in [Pricers -> {"start", "insert", "others", "deactivate", "own",
                                "claim", "commit", "done", "failed"}]
    /\ locked \in [Pricers -> SUBSET Books]
    /\ draft \in [Pricers -> [Books -> BookRow]]
    /\ found \in [Pricers -> SUBSET Books]
    /\ revision \in [Publishers -> Nat]

RatesInit ==
    /\ library = [b \in Books |-> Unpublished]
    /\ pricing = [r \in Pricers |-> "start"]
    /\ locked = [r \in Pricers |-> {}]
    /\ draft = [r \in Pricers |-> [b \in Books |-> Unpublished]]
    /\ found = [r \in Pricers |-> {}]
    /\ revision = [p \in Publishers |-> 0]

\* A variant with a longer name before a definition is a plausible mistake in
\* the same lines, which the properties must tell from the code.

PriceGoto(r, step) == pricing' = [pricing EXCEPT ![r] = step]
Written(p) == PriceGoto(p, IF p \in Activating THEN "others" ELSE "commit")

Free(r, b) == \A t \in Pricers \ {r} : b \notin locked[t]

\* The row is r's until its transaction ends.
Hold(r, b, row) ==
    /\ Free(r, b)
    /\ locked' = [locked EXCEPT ![r] = @ \cup {b}]
    /\ draft' = [draft EXCEPT ![r][b] = row]

-------------------------------------------------------------------------------
(* aqc_publish_rate_version                                                 *)

MergedUpsert(old, new) ==
    {i \in old : \A j \in new : j.code # i.code} \cup new

\* Items with a code that is not sent are removed, the others written over.
Merged(old, new) ==
    LET kept == {i \in old : \E j \in new : j.code = i.code}
    IN  {i \in kept : \A j \in new : j.code # i.code} \cup new

LockBook(p) ==
    LET row == library[BookOf[p]]
        changed == row.hash # Items[p]
    IN  /\ pricing[p] = "start"
        /\ row.revision > 0
        /\ Hold(p, BookOf[p],
                IF ~changed THEN row
                ELSE [row EXCEPT !.revision = @ + 1, !.hash = Items[p],
                                 !.items = Merged(@, Items[p])])
        /\ revision' = [revision EXCEPT ![p] = draft'[p][BookOf[p]].revision]
        /\ Written(p)
        /\ UNCHANGED <<library, found>>

\* A row that another transaction has inserted and not committed is not seen.
NoBook(p) ==
    /\ pricing[p] = "start"
    /\ library[BookOf[p]].revision = 0
    /\ PriceGoto(p, "insert")
    /\ UNCHANGED <<library, locked, draft, found, revision>>

InsertBook(p) ==
    /\ pricing[p] = "insert"
    /\ library[BookOf[p]].revision = 0
    /\ Hold(p, BookOf[p], [revision |-> 1, hash |-> Items[p], items |-> Items[p],
                           active |-> FALSE])
    /\ revision' = [revision EXCEPT ![p] = 1]
    /\ Written(p)
    /\ UNCHANGED <<library, found>>

PriceFails(r) ==
    /\ PriceGoto(r, "failed")
    /\ locked' = [locked EXCEPT ![r] = {}]
    /\ UNCHANGED <<library, draft, found, revision>>

DuplicateBook(p) ==
    /\ pricing[p] = "insert"
    /\ Free(p, BookOf[p])
    /\ library[BookOf[p]].revision > 0
    /\ PriceFails(p)

-------------------------------------------------------------------------------
(* Making a book active, at the end of publishing or in                     *)
(* aqc_set_active_rate_version.                                             *)

BookExists(a) ==
    /\ pricing[a] = "start"
    /\ library[BookOf[a]].revision > 0
    /\ PriceGoto(a, "others")
    /\ UNCHANGED <<library, locked, draft, found, revision>>

FindOthers(r) ==
    /\ pricing[r] = "others"
    /\ found' = [found EXCEPT ![r] = {c \in Books \ {BookOf[r]} : library[c].active}]
    /\ PriceGoto(r, "deactivate")
    /\ UNCHANGED <<library, locked, draft, revision>>

\* Somebody else may have made it inactive meanwhile: it is locked all the same.
Deactivate(r, c) ==
    /\ pricing[r] = "deactivate"
    /\ c \in found[r] \ locked[r]
    /\ Hold(r, c, [library[c] EXCEPT !.active = FALSE])
    /\ UNCHANGED <<library, pricing, found, revision>>

OthersDone(r) ==
    /\ pricing[r] = "deactivate"
    /\ found[r] \subseteq locked[r]
    /\ PriceGoto(r, "own")
    /\ UNCHANGED <<library, locked, draft, found, revision>>

SeesBook(r, b) == IF b \in locked[r] THEN draft[r][b] ELSE library[b]

LockOwn(r) ==
    /\ pricing[r] = "own"
    /\ Hold(r, BookOf[r], SeesBook(r, BookOf[r]))
    /\ PriceGoto(r, "claim")
    /\ UNCHANGED <<library, found, revision>>

\* The index of the active row waits for whoever is changing such a row.
IndexFree(r) ==
    \A t \in Pricers \ {r} : \A c \in locked[t] \ {BookOf[r]} :
        draft[t][c] = library[c] \/ (~library[c].active /\ ~draft[t][c].active)

ClaimUnindexed(r) ==
    /\ pricing[r] = "claim"
    /\ draft' = [draft EXCEPT ![r][BookOf[r]].active = TRUE]
    /\ PriceGoto(r, "commit")
    /\ UNCHANGED <<library, locked, found, revision>>

ClaimActive(r) ==
    /\ pricing[r] = "claim"
    /\ IndexFree(r)
    /\ \A c \in Books \ {BookOf[r]} : ~SeesBook(r, c).active
    /\ draft' = [draft EXCEPT ![r][BookOf[r]].active = TRUE]
    /\ PriceGoto(r, "commit")
    /\ UNCHANGED <<library, locked, found, revision>>

ActiveTaken(r) ==
    /\ pricing[r] = "claim"
    /\ IndexFree(r)
    /\ \E c \in Books \ {BookOf[r]} : SeesBook(r, c).active
    /\ PriceFails(r)

CommitBooks(r) ==
    /\ pricing[r] = "commit"
    /\ library' = [c \in Books |-> SeesBook(r, c)]
    /\ locked' = [locked EXCEPT ![r] = {}]
    /\ PriceGoto(r, "done")
    /\ UNCHANGED <<draft, found, revision>>

\* The connection is gone, or the database finds that transactions wait for
\* each other (publishing locks the own row first, activating another one): the
\* transaction is rolled back.
Rollback(r) ==
    /\ pricing[r] \notin {"start", "done", "failed"}
    /\ PriceFails(r)

RatesNext ==
    \/ \E p \in Publishers : LockBook(p) \/ NoBook(p) \/ InsertBook(p) \/ DuplicateBook(p)
    \/ \E a \in Activators : BookExists(a)
    \/ \E r \in Pricers :
          \/ FindOthers(r) \/ OthersDone(r) \/ LockOwn(r) \/ ClaimActive(r)
          \/ ActiveTaken(r) \/ CommitBooks(r) \/ Rollback(r)
    \/ \E r \in Pricers, c \in Books : Deactivate(r, c)

RatesSpec == RatesInit /\ [][RatesNext]_ratesVars

-------------------------------------------------------------------------------
(* Properties.                                                              *)

ActiveBooks == {b \in Books : library[b].active}

\* Once a book has been made active there is exactly one, for good: publishing
\* and activating at the same time, failing or being rolled back, never leave
\* two and never take the last one away.
ActiveStays ==
    [][Cardinality(ActiveBooks') = 1 \/ (ActiveBooks = {} /\ ActiveBooks' = {})]_ratesVars

\* A revision that a publisher was answered stands for what it sent: as long as
\* the book is at that revision these are its items, neither mixed with another
\* publisher's nor with older ones.
AnsweredIsStored ==
    \A p \in Publishers :
        pricing[p] = "done" /\ library[BookOf[p]].revision = revision[p] =>
            library[BookOf[p]].items = Items[p]
===============================================================================
