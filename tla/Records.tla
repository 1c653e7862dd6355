-------------------------------- MODULE Records --------------------------------
(***************************************************************************)
(* The records of a firm that several requests write in separate calls:    *)
(* drawings, running account bills, invoices, the measurement book and     *)
(* rate books.  The first three draw on the same reference numbers.        *)
(***************************************************************************)
EXTENDS Drawings, RaBills, Invoices, Estimates, RateBooks

vars == <<last, chain, jobs, uploadVars, bills, raLines, versions, billing, billRef,
          gross, version, passed, lost, invoicesOwn, estimatesVars, ratesVars>>

drawingsOwn == <<chain, jobs, uploadVars>>
billsOwn == <<bills, raLines, versions, billing, billRef, gross, version, passed, lost>>

TypeOK ==
    DrawingsTypeOK /\ RaBillsTypeOK /\ InvoicesTypeOK /\ EstimatesTypeOK /\ RatesTypeOK

Init == DrawingsInit /\ RaBillsInit /\ InvoicesInit /\ EstimatesInit /\ RatesInit

Next ==
    \/ DrawingsNext /\ UNCHANGED <<billsOwn, invoicesOwn, estimatesVars, ratesVars>>
    \/ RaBillsNext /\ UNCHANGED <<drawingsOwn, invoicesOwn, estimatesVars, ratesVars>>
    \/ InvoicesNext /\ UNCHANGED <<drawingsOwn, billsOwn, estimatesVars, ratesVars>>
    \/ EstimatesNext /\ UNCHANGED <<last, drawingsOwn, billsOwn, invoicesOwn, ratesVars>>
    \/ RatesNext /\ UNCHANGED <<last, drawingsOwn, billsOwn, invoicesOwn, estimatesVars>>

Spec == Init /\ [][Next]_vars

-------------------------------------------------------------------------------
(* Properties.                                                              *)

\* A reference stands for one drawing, bill or invoice, whoever mints at the
\* same time; and the only gaps are numbers of uploads that failed after they
\* had minted.
References == DrawingRefs /\ BillRefs /\ InvoiceRefs
===============================================================================
