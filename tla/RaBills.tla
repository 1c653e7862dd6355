-------------------------------- MODULE RaBills --------------------------------
(***************************************************************************)
(* Running account bills of a package (web/lib/actions/pmc-ra-bills.ts,    *)
(* migration 0101), the certification AQC publishes of one                 *)
(* (api/aqc/v1/bills/[billId]/certify) and the immutable versions of it    *)
(* (aqc_add_version, migration 0112).  The Server Actions work in separate *)
(* calls; the contractor's submission is one transaction; the statements   *)
(* of aqc_add_version see what others have committed between them.         *)
(***************************************************************************)
EXTENDS Numbering, Sequences, FiniteSets, SequencesExt

CONSTANTS
    Creators,      \* staff creating a bill
    Contractors,   \* contractors submitting one
    Claim,         \* what the lines each contractor submits amount to
    Liners,        \* staff adding a line to the first bill
    Amount,        \* what each of these lines amounts to, deductions below 0
    Certifiers,    \* certifications of the first bill sent by AQC
    Hash           \* the content hash of each: a repeated one has the same

ASSUME RaBillsAssumption ==
    /\ Claim \in [Contractors -> Int]
    /\ Amount \in [Liners -> Int]
    /\ Hash \in [Certifiers -> STRING]
    /\ Creators \cap Contractors = {} /\ (Creators \cup Contractors) \cap Liners = {}
    /\ (Creators \cup Contractors \cup Liners) \cap Certifiers = {}

VARIABLES
    bills,      \* the pmc_ra_bills rows: ref, gross_paise, status
    raLines,    \* the amounts on the first bill
    versions,   \* aqc_versions of kind ipc
    billing,    \* per request: its next step
    billRef,    \* per creator: the number it has minted
    gross,      \* per request: the gross it has read
    version,    \* per certifier: v_next, or the version it has answered
    passed,     \* history: requests whose gross is not, or no longer, the total
    lost        \* history: a total was written over one not read

billsVars == <<last, bills, raLines, versions, billing, billRef, gross, version, passed,
             lost>>

Billers == Creators \cup Contractors \cup Liners \cup Certifiers
BillStatuses == {"DRAFT", "SITE_CHECKED", "CERTIFIED", "SENT_TO_CLIENT", "CLOSED"}
Bill == [ref : Nat, gross : Int, status : BillStatuses]

RaBillsTypeOK ==
    /\ NumberingTypeOK
    /\ bills \in Seq(Bill)
    /\ raLines \in Seq(Int)
    /\ versions \in Seq([hash : STRING, gross : Int])
    /\ billing \in [Billers -> {"start", "insert", "read", "write", "certify", "find",
                                "max", "version", "done", "failed"}]
    /\ billRef \in [Creators -> Nat]
    /\ gross \in [Billers -> Int]
    /\ version \in [Certifiers -> Nat]
    /\ passed \subseteq Liners
    /\ lost \in BOOLEAN

\* The first bill is there, and empty.
RaBillsInit ==
    /\ NumberingInit
    /\ bills = <<[ref |-> 1, gross |-> 0, status |-> "DRAFT"]>>
    /\ raLines = <<>> /\ versions = <<>>
    /\ billing = [r \in Billers |-> "start"]
    /\ billRef = [r \in Creators |-> 0]
    /\ gross = [r \in Billers |-> 0]
    /\ version = [r \in Certifiers |-> 0]
    /\ passed = {} /\ lost = FALSE

\* A variant with a longer name before a definition is a plausible mistake in
\* the same lines, which the properties must tell from the code.

Total(amounts) == FoldSeq(LAMBDA a, b : a + b, 0, amounts)
BillGoto(r, step) == billing' = [billing EXCEPT ![r] = step]
NewBill(number, sum) ==
    bills' = Append(bills, [ref |-> number, gross |-> sum, status |-> "DRAFT"])

-------------------------------------------------------------------------------
(* Creating a bill: by staff in two calls, by a contractor in one.          *)

MintBill(r) ==
    /\ billing[r] = "start"
    /\ NextRef("pmc_ra_bill")
    /\ billRef' = [billRef EXCEPT ![r] = last'["pmc_ra_bill"]]
    /\ BillGoto(r, "insert")
    /\ UNCHANGED <<bills, raLines, versions, gross, version, passed, lost>>

InsertBill(r) ==
    /\ billing[r] = "insert"
    /\ NewBill(billRef[r], 0)
    /\ BillGoto(r, "done")
    /\ UNCHANGED <<last, raLines, versions, billRef, gross, version, passed, lost>>

\* Other refusals (the package, the period, the contract value) leave no more
\* behind than this one.
SubmitOwnNumber(r) ==
    /\ billing[r] = "start"
    /\ Claim[r] > 0
    /\ NewBill(Len(bills) + 1, Claim[r])
    /\ BillGoto(r, "done")
    /\ UNCHANGED <<last, raLines, versions, billRef, gross, version, passed, lost>>

SubmitBill(r) ==
    /\ billing[r] = "start"
    /\ Claim[r] > 0
    /\ NextRef("pmc_ra_bill")
    /\ NewBill(last'["pmc_ra_bill"], Claim[r])
    /\ BillGoto(r, "done")
    /\ UNCHANGED <<raLines, versions, billRef, gross, version, passed, lost>>

-------------------------------------------------------------------------------
(* createRaLine: the line, then the total read, then the total written.     *)

InsertLine(r) ==
    /\ billing[r] = "start"
    /\ raLines' = Append(raLines, Amount[r])
    /\ BillGoto(r, "read")
    /\ UNCHANGED <<last, bills, versions, billRef, gross, version, passed, lost>>

ReadGross(r) ==
    /\ billing[r] = "read"
    /\ gross' = [gross EXCEPT ![r] = bills[1].gross]
    /\ passed' = passed \ {r}
    /\ BillGoto(r, "write")
    /\ UNCHANGED <<last, bills, raLines, versions, billRef, version, lost>>

\* A failed read counts as a total of nothing.
GrossUnread(r) ==
    /\ billing[r] = "read"
    /\ gross' = [gross EXCEPT ![r] = 0]
    /\ passed' = passed \cup {r}
    /\ BillGoto(r, "write")
    /\ UNCHANGED <<last, bills, raLines, versions, billRef, version, lost>>

WriteGrossAgain(r) ==
    /\ billing[r] = "write"
    /\ bills' = [bills EXCEPT ![1].gross = gross[r] + 2 * Amount[r]]
    /\ passed' = passed \cup {l \in Liners : billing[l] = "write" /\ l # r}
    /\ lost' = (lost \/ r \in passed)
    /\ BillGoto(r, "done")
    /\ UNCHANGED <<last, raLines, versions, billRef, gross, version>>

WriteGross(r) ==
    /\ billing[r] = "write"
    /\ bills' = [bills EXCEPT ![1].gross = gross[r] + Amount[r]]
    /\ passed' = passed \cup {l \in Liners : billing[l] = "write" /\ l # r}
    /\ lost' = (lost \/ r \in passed)
    /\ BillGoto(r, "done")
    /\ UNCHANGED <<last, raLines, versions, billRef, gross, version>>

SetBillStatusUnchecked(st) ==
    /\ bills' = [bills EXCEPT ![1].status = "PAID"]
    /\ UNCHANGED <<last, raLines, versions, billing, billRef, gross, version, passed, lost>>

\* updateRaBillStatus lets any status follow any other.
SetBillStatus(st) ==
    /\ bills' = [bills EXCEPT ![1].status = st]
    /\ UNCHANGED <<last, raLines, versions, billing, billRef, gross, version, passed, lost>>

-------------------------------------------------------------------------------
(* The certification, and aqc_add_version.                                  *)

ReadBill(r) ==
    /\ billing[r] = "start"
    /\ bills[1].status \in {"DRAFT", "SITE_CHECKED"}
    /\ gross' = [gross EXCEPT ![r] = bills[1].gross]
    /\ BillGoto(r, "certify")
    /\ UNCHANGED <<last, bills, raLines, versions, billRef, version, passed, lost>>

Certify(r) ==
    /\ billing[r] = "certify"
    /\ bills' = [bills EXCEPT ![1].status = "CERTIFIED"]
    /\ BillGoto(r, "find")
    /\ UNCHANGED <<last, raLines, versions, billRef, gross, version, passed, lost>>

Same(r) == {v \in DOMAIN versions : versions[v].hash = Hash[r]}

FindVersion(r) ==
    /\ billing[r] = "find"
    /\ IF Same(r) = {} THEN BillGoto(r, "max") /\ UNCHANGED version
       ELSE /\ \E v \in Same(r) : version' = [version EXCEPT ![r] = v]
            /\ BillGoto(r, "done")
    /\ UNCHANGED <<last, bills, raLines, versions, billRef, gross, passed, lost>>

NextVersion(r) ==
    /\ billing[r] = "max"
    /\ version' = [version EXCEPT ![r] = Len(versions) + 1]
    /\ BillGoto(r, "version")
    /\ UNCHANGED <<last, bills, raLines, versions, billRef, gross, passed, lost>>

InsertOrIgnore(r) ==
    /\ billing[r] = "version"
    /\ versions' = IF version[r] \in DOMAIN versions THEN versions
                   ELSE Append(versions, [hash |-> Hash[r], gross |-> gross[r]])
    /\ BillGoto(r, "done")
    /\ UNCHANGED <<last, bills, raLines, billRef, gross, version, passed, lost>>

\* Versions are unique in their project and kind: the number that somebody has
\* taken meanwhile is refused, and the certification answers without a version.
InsertVersion(r) ==
    /\ billing[r] = "version"
    /\ IF version[r] \in DOMAIN versions
       THEN UNCHANGED versions /\ BillGoto(r, "failed")
       ELSE /\ versions' = Append(versions, [hash |-> Hash[r], gross |-> gross[r]])
            /\ BillGoto(r, "done")
    /\ UNCHANGED <<last, bills, raLines, billRef, gross, version, passed, lost>>

BillFails(r) ==
    /\ billing[r] \in {"insert", "read", "write", "certify", "find"}
    /\ BillGoto(r, "failed")
    /\ UNCHANGED <<last, bills, raLines, versions, billRef, gross, version, passed, lost>>

RaBillsNext ==
    \/ \E r \in Creators : MintBill(r) \/ InsertBill(r)
    \/ \E r \in Contractors : SubmitBill(r)
    \/ \E r \in Liners : InsertLine(r) \/ ReadGross(r) \/ GrossUnread(r) \/ WriteGross(r)
    \/ \E r \in Certifiers : ReadBill(r) \/ Certify(r) \/ FindVersion(r)
                             \/ NextVersion(r) \/ InsertVersion(r)
    \/ \E r \in Billers : BillFails(r)
    \/ \E st \in BillStatuses : SetBillStatus(st)

RaBillsSpec == RaBillsInit /\ [][RaBillsNext]_billsVars

-------------------------------------------------------------------------------
(* Properties.                                                              *)

\* Bills of staff and of contractors, numbered by different code, never share
\* a reference.
BillRefs == \A k, l \in DOMAIN bills : bills[k].ref = bills[l].ref => k = l

\* The total of a bill counts no line twice; once every line has been added it
\* counts them all, unless a line was added between somebody's reading of it and
\* writing, or that reading failed.
GrossOfLines ==
    /\ \E counted \in SUBSET DOMAIN raLines :
          bills[1].gross = Total([k \in DOMAIN raLines |->
                                    IF k \in counted THEN raLines[k] ELSE 0])
    /\ ~lost /\ (\A r \in Liners : billing[r] \in {"start", "done"}) =>
          bills[1].gross = Total(raLines)

\* A certification that answers a version has got one with its own content,
\* even if somebody else has taken the number it was about to take.
VersionHolds ==
    \A r \in Certifiers : billing[r] = "done" =>
        version[r] \in DOMAIN versions /\ versions[version[r]].hash = Hash[r]
===============================================================================
