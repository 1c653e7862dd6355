----------------------------- MODULE MCAccounts -------------------------------
(* Small instances of Accounts for TLC.                                     *)
EXTENDS Accounts, TLC

CONSTANTS advance, other, monday, tuesday, office

\* The advance of the office needs two receipts of 1, or one; nothing is
\* receivable of the other invoice, and any receipt covers it.
NetOf == [i \in {advance, other} |-> IF i = advance THEN 2 ELSE 0]
GrandOf == [i \in {advance, other} |-> IF i = advance THEN 3 ELSE 0]
AdvanceOf == [p \in {office} |-> {advance}]

\* The receipts come to the invoices in opposite orders.
Receipts ==
    [b \in {monday, tuesday} |->
       IF b = monday
       THEN <<[amount |-> 1, names |-> {advance}], [amount |-> 1, names |-> {other}]>>
       ELSE <<[amount |-> 2, names |-> {other}], [amount |-> 3, names |-> {}]>>]
===============================================================================
