-------------------------------- MODULE Invoices --------------------------------
(***************************************************************************)
(* Invoices of a firm (web/lib/actions/invoices.ts, lib/tax/gst.ts): what  *)
(* a client has been billed this financial year is read, the tax deducted  *)
(* at source follows from it, a reference is minted, the row is inserted.  *)
(* Each is a call of its own.                                              *)
(***************************************************************************)
EXTENDS Numbering, Sequences, FiniteSets, FiniteSetsExt

CONSTANTS
    Invoicing,    \* requests, each creates one invoice
    ClientOf,     \* the client of each, NoClient if the form names none
    Clients,
    NoClient,
    Taxable,      \* its fee
    Threshold     \* TDS_194J_THRESHOLD_PAISE

ASSUME InvoicesAssumption ==
    /\ ClientOf \in [Invoicing -> Clients \cup {NoClient}]
    /\ Taxable \in [Invoicing -> Nat]
    /\ Threshold \in Nat
    /\ NoClient \notin Clients

VARIABLES
    invoices,     \* the rows, in the order of insertion
    raising,      \* per request: its next step
    prior,        \* per request: priorTaxablePaise
    invoiceRef,   \* per request: the number it has minted
    raced         \* history: requests that ran at the same time as another
                  \* one about the same client

invoicesVars == <<last, invoices, raising, prior, invoiceRef, raced>>
invoicesOwn == <<invoices, raising, prior, invoiceRef, raced>>

Invoice == [by : Invoicing, ref : Nat, status : {"DRAFT", "ISSUED", "PAID"},
            tds : BOOLEAN]

InvoicesTypeOK ==
    /\ invoices \in Seq(Invoice)
    /\ raising \in [Invoicing -> {"prior", "mint", "insert", "done", "failed"}]
    /\ prior \in [Invoicing -> Nat]
    /\ invoiceRef \in [Invoicing -> Nat]
    /\ raced \subseteq Invoicing

InvoicesInit ==
    /\ NumberingInit
    /\ invoices = <<>>
    /\ raising = [r \in Invoicing |-> "prior"]
    /\ prior = [r \in Invoicing |-> 0]
    /\ invoiceRef = [r \in Invoicing |-> 0]
    /\ raced = {}

\* A variant with a longer name before a definition is a plausible mistake in
\* the same lines, which the properties must tell from the code.

RaiseGoto(r, step) == raising' = [raising EXCEPT ![r] = step]

SameClient(r) == {t \in Invoicing : ClientOf[t] = ClientOf[r] /\ raising[t] \in {"mint", "insert"}}

Billed(r, statuses) ==
    MapThenSumSet(LAMBDA k : Taxable[invoices[k].by],
                  {k \in DOMAIN invoices : /\ ClientOf[invoices[k].by] = ClientOf[r]
                                           /\ invoices[k].status \in statuses})

clientFyTaxablePaiseIssued(r) ==
    IF ClientOf[r] = NoClient THEN 0 ELSE Billed(r, {"ISSUED", "PAID"})

clientFyTaxablePaise(r) ==
    IF ClientOf[r] = NoClient THEN 0 ELSE Billed(r, {"DRAFT", "ISSUED", "PAID"})

ReadPrior(r) ==
    /\ raising[r] = "prior"
    /\ prior' = [prior EXCEPT ![r] = clientFyTaxablePaise(r)]
    /\ raced' = IF SameClient(r) = {} THEN raced ELSE raced \cup SameClient(r) \cup {r}
    /\ RaiseGoto(r, "mint")
    /\ UNCHANGED <<last, invoices, invoiceRef>>

\* A failed read of what was billed before counts as nothing billed.
PriorUnread(r) ==
    /\ raising[r] = "prior"
    /\ prior' = [prior EXCEPT ![r] = 0]
    /\ raced' = raced \cup {r}
    /\ RaiseGoto(r, "mint")
    /\ UNCHANGED <<last, invoices, invoiceRef>>

MintInvoice(r) ==
    /\ raising[r] = "mint"
    /\ NextRef("invoice")
    /\ invoiceRef' = [invoiceRef EXCEPT ![r] = last'["invoice"]]
    /\ RaiseGoto(r, "insert")
    /\ UNCHANGED <<invoices, prior, raced>>

tds194jApplies(r) == prior[r] + Taxable[r] > Threshold

InsertInvoice(r) ==
    /\ raising[r] = "insert"
    /\ invoices' = Append(invoices, [by |-> r, ref |-> invoiceRef[r], status |-> "DRAFT",
                                     tds |-> tds194jApplies(r)])
    /\ RaiseGoto(r, "done")
    /\ UNCHANGED <<last, prior, invoiceRef, raced>>

InvoiceFails(r) ==
    /\ raising[r] \in {"mint", "insert"}
    /\ RaiseGoto(r, "failed")
    /\ UNCHANGED <<last, invoices, prior, invoiceRef, raced>>

InvoicesNext ==
    \E r \in Invoicing : \/ ReadPrior(r) \/ PriorUnread(r) \/ MintInvoice(r)
                         \/ InsertInvoice(r) \/ InvoiceFails(r)

-------------------------------------------------------------------------------
(* Properties.                                                              *)

\* The fees a client was billed without deduction stay within the threshold,
\* but for invoices that were created at the same time or without knowing what
\* was billed before: no order of creations, and no failed one, hides a fee.
FeesWithoutTds ==
    \A c \in Clients :
        MapThenSumSet(LAMBDA k : Taxable[invoices[k].by],
                      {k \in DOMAIN invoices : /\ ClientOf[invoices[k].by] = c
                                               /\ ~invoices[k].tds
                                               /\ invoices[k].by \notin raced}) <= Threshold

InvoiceRefs == \A k, l \in DOMAIN invoices : invoices[k].ref = invoices[l].ref => k = l
===============================================================================
