-------------------------------- MODULE Numbering --------------------------------
(***************************************************************************)
(* The reference numbers of a firm: next_ref (web, migrations 0003, 0054)  *)
(* adds one to the row of its scope and financial year in one statement.   *)
(* The number is a transaction of its own: whoever fails to use it leaves  *)
(* a gap.                                                                  *)
(***************************************************************************)
EXTENDS Naturals

Scopes == {"drawing", "pmc_ra_bill", "invoice"}

VARIABLE last    \* sequences.last_value of this year

NumberingTypeOK == last \in [Scopes -> Nat]
\* There is a first drawing, and a first bill; invoices are numbered on.
NumberingInit == last = [scope \in Scopes |-> 1]

NextRef(scope) == last' = [last EXCEPT ![scope] = @ + 1]
===============================================================================
