------------------------------- MODULE Estimates -------------------------------
(***************************************************************************)
(* The measurement book of an estimate (web/lib/actions/estimates.ts, the  *)
(* triggers of migration 0005).  Every insert or removal of a measurement  *)
(* is a transaction, READ COMMITTED, whose trigger sums the measurements   *)
(* into the item: it checks the estimate, sums what it sees, and only then *)
(* takes the row lock of the item to write.                                *)
(***************************************************************************)
EXTENDS Integers, FiniteSets, FiniteSetsExt

CONSTANTS
    Measurements,    \* of one item, each written or removed by a transaction
    Initially,       \* the books it may start with: what is there is removed
    Entered,         \* the quantity typed in with the item
    Measured,        \* measurement_quantity of each, deductions below 0
    Nobody

ASSUME EstimatesAssumption ==
    /\ \A b \in Initially : b \subseteq Measurements /\ IsFiniteSet(b)
    /\ Entered \in Int
    /\ Measured \in [Measurements -> Int]
    /\ Nobody \notin Measurements

VARIABLES
    estimate,    \* estimates.status
    book,        \* estimate_measurements of the item, committed
    quantity,    \* estimate_items.quantity, and with it amount_paise
    measuring,   \* per transaction: its next step
    vQty,        \* per transaction: v_qty
    holder,      \* who has the row lock of the item
    overtaken,   \* history: transactions whose sum another has outdated
    outdated,    \* history: the last quantity was written by one of them
    late         \* history: quantities changed since the estimate is frozen

estimatesVars == <<estimate, book, quantity, measuring, vQty, holder, overtaken,
                   outdated, late>>

Editable == {"DRAFT", "FINALISED"}

EstimatesTypeOK ==
    /\ estimate \in Editable \cup {"APPROVED", "CANCELLED"}
    /\ book \subseteq Measurements
    /\ quantity \in Int
    /\ measuring \in [Measurements -> {"check", "sum", "item", "commit", "done",
                                       "refused"}]
    /\ vQty \in [Measurements -> Int]
    /\ holder \in Measurements \cup {Nobody}
    /\ overtaken \subseteq Measurements
    /\ outdated \in BOOLEAN
    /\ late \in Nat

SumOf(ms) == MapThenSumSet(LAMBDA m : Measured[m], ms)

EstimatesInit ==
    /\ estimate = "DRAFT"
    /\ book \in Initially
    /\ quantity = IF book = {} THEN Entered ELSE SumOf(book)
    /\ measuring = [m \in Measurements |-> "check"]
    /\ vQty = [m \in Measurements |-> 0]
    /\ holder = Nobody
    /\ overtaken = {} /\ outdated = FALSE /\ late = 0

\* A variant with a longer name before a definition is a plausible mistake in
\* the same lines, which the properties must tell from the code.

MeasureGoto(m, step) == measuring' = [measuring EXCEPT ![m] = step]
Refuse(m) == MeasureGoto(m, "refused") /\ UNCHANGED <<estimate, book, quantity, vQty,
                                                      overtaken, outdated, late>>
Changed(m) == IF m \in book THEN book \ {m} ELSE book \cup {m}

\* assert_estimate_editable reads the status without a lock.
CheckEditable(m) ==
    /\ measuring[m] = "check"
    /\ estimate \in Editable
    /\ MeasureGoto(m, "sum")
    /\ UNCHANGED <<estimate, book, quantity, vQty, holder, overtaken, outdated, late>>

NotEditable(m) ==
    /\ measuring[m] = "check"
    /\ estimate \notin Editable
    /\ Refuse(m)
    /\ UNCHANGED holder

\* What is committed, and its own change.
SumBefore(m) ==
    /\ measuring[m] = "sum"
    /\ vQty' = [vQty EXCEPT ![m] = SumOf(book)]
    /\ overtaken' = overtaken \ {m}
    /\ MeasureGoto(m, "item")
    /\ UNCHANGED <<estimate, book, quantity, holder, outdated, late>>

Sum(m) ==
    /\ measuring[m] = "sum"
    /\ vQty' = [vQty EXCEPT ![m] = SumOf(Changed(m))]
    /\ overtaken' = overtaken \ {m}
    /\ MeasureGoto(m, "item")
    /\ UNCHANGED <<estimate, book, quantity, holder, outdated, late>>

\* The trigger of the item runs with the row locked, and checks the estimate
\* again when the quantity is another one.
LockUnchecked(m) ==
    /\ measuring[m] = "item"
    /\ holder = Nobody
    /\ holder' = m
    /\ MeasureGoto(m, "commit")
    /\ UNCHANGED <<estimate, book, quantity, vQty, overtaken, outdated, late>>

LockItem(m) ==
    /\ measuring[m] = "item"
    /\ holder = Nobody
    /\ vQty[m] # quantity => estimate \in Editable
    /\ holder' = m
    /\ MeasureGoto(m, "commit")
    /\ UNCHANGED <<estimate, book, quantity, vQty, overtaken, outdated, late>>

FrozenMeanwhile(m) ==
    /\ measuring[m] = "item"
    /\ holder = Nobody
    /\ vQty[m] # quantity /\ estimate \notin Editable
    /\ Refuse(m)
    /\ UNCHANGED holder

CommitMeasurement(m) ==
    /\ measuring[m] = "commit"
    /\ book' = Changed(m)
    /\ quantity' = vQty[m]
    /\ holder' = Nobody
    /\ overtaken' = overtaken \cup {w \in Measurements : measuring[w] = "item"}
    /\ outdated' = (m \in overtaken)
    /\ late' = IF estimate \notin Editable /\ vQty[m] # quantity THEN late + 1 ELSE late
    /\ MeasureGoto(m, "done")
    /\ UNCHANGED <<estimate, vQty>>

\* The connection is gone: the transaction is rolled back.
MeasurementLost(m) ==
    /\ measuring[m] \in {"sum", "item", "commit"}
    /\ holder' = IF holder = m THEN Nobody ELSE holder
    /\ Refuse(m)

\* Nothing in web changes the status of an estimate.
SetEstimate(st) ==
    /\ estimate # st
    /\ estimate' = st
    /\ late' = IF estimate \in Editable THEN 0 ELSE late
    /\ UNCHANGED <<book, quantity, measuring, vQty, holder, overtaken, outdated>>

EstimatesNext ==
    \/ \E m \in Measurements :
          \/ CheckEditable(m) \/ NotEditable(m) \/ Sum(m)
          \/ LockItem(m) \/ FrozenMeanwhile(m) \/ CommitMeasurement(m)
          \/ MeasurementLost(m)
    \/ \E st \in {"DRAFT", "FINALISED", "APPROVED", "CANCELLED"} : SetEstimate(st)

EstimatesSpec == EstimatesInit /\ [][EstimatesNext]_estimatesVars

-------------------------------------------------------------------------------
(* Properties.                                                              *)

Unmeasured == book = {} /\ \A m \in Measurements : measuring[m] # "done"

\* An item nobody has measured keeps the quantity typed in.  Any other has the
\* sum of its measurements, unless the last transaction to write it had summed
\* before another one committed: a wrong quantity is put right by the next
\* measurement.
QuantityOfMeasurements ==
    IF Unmeasured THEN quantity = Entered ELSE outdated \/ quantity = SumOf(book)

\* After an estimate is frozen at most one change of the quantity still lands,
\* however many transactions had passed the check: the others wait for the row
\* and check again.
OneLateChange == late <= 1
===============================================================================
