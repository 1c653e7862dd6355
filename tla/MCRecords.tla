------------------------------- MODULE MCRecords -------------------------------
(* A small firm for TLC: the records that requests write (Records) and the   *)
(* dates of its milestones (Cpm), which share nothing with them.             *)
EXTENDS Records, Cpm, TLC

CONSTANTS
    u1, u2, u3,             \* uploads
    creator, builder,       \* bills
    l1, l2,                 \* lines of the first bill
    fee, rest, extra,       \* invoices of one client
    client,
    c1, c2, c3,             \* certifications: one of them sent twice
    wall, floor, hole,      \* measurements; the hole is a deduction
    dsr, ssr,               \* rate books
    p1, p2, p3, a1, a2,     \* publishing and activating them
    survey, design, build   \* milestones

ClaimOf == [r \in {builder} |-> 2]
AmountOf == [r \in {l1, l2} |-> IF r = l1 THEN 1 ELSE -2]
HashOf == [r \in {c1, c2, c3} |-> IF r = c3 THEN "revised" ELSE "first"]
\* Of the three fees only two stay within the threshold.
TaxableOf == [r \in {fee, rest, extra} |-> IF r = fee THEN 2 ELSE 1]
ClientOfFee == [r \in {fee, rest, extra} |-> client]
MeasuredOf == [m \in {wall, floor, hole} |-> CASE m = wall  -> 2
                                              [] m = floor -> 1
                                              [] OTHER     -> -1]
\* An item with a quantity of its own, or one with a first measurement.
BooksBegun == {{}, {hole}}

BookOfRequest == [r \in {p1, p2, p3, a1, a2} |-> IF r \in {p1, p2, a1} THEN dsr ELSE ssr]
ItemsOf ==
    [p \in {p1, p2, p3} |->
       IF p = p1 THEN {[code |-> "brick", rate |-> 1], [code |-> "steel", rate |-> 1]}
                 ELSE {[code |-> "brick", rate |-> 2]}]

Single == {l \in [pred : Activities, succ : Activities, type : {"FS", "SS", "FF", "SF"},
                  lag : {-1, 1}] : l.pred # l.succ}
Plain == {l \in Single : l.type = "FS" /\ l.lag = 1}

\* Any two links, and any number of plain ones.
LinksExplored == {{l, m} : l \in Single, m \in Single} \cup SUBSET Plain

\* Which milestone is which makes no difference.
Interchangeable == Permutations(Activities)

-------------------------------------------------------------------------------
(* Bounds.  Requests for the measurement book and for rate books meet only    *)
(* their own kind, with which alone they share state.  Those that draw on the *)
(* reference numbers meet across kinds too, two at a time.  The statuses that *)
(* anybody can set are explored where a request reads them, and the dates of  *)
(* milestones where there are no requests.                                    *)

CONSTANT MaxBusy    \* requests about bills that begin

Begun == {u \in Uploads : uploading[u] # "read"}
         \cup {r \in Billers : billing[r] # "start"}
         \cup {r \in Invoicing : raising[r] # "prior"}
         \cup {m \in Measurements : measuring[m] # "check"}
         \cup {r \in Pricers : pricing[r] # "start"}

FewRequests ==
    /\ \/ \E kind \in {Uploads, Invoicing, Measurements, Pricers} : Begun \subseteq kind
       \/ Begun \subseteq Billers /\ Cardinality(Begun) <= MaxBusy
       \/ Begun \subseteq Uploads \cup Billers \cup Invoicing /\ Cardinality(Begun) <= 2
    /\ Begun \cap Measurements = {} => estimate = "DRAFT"
    /\ book = {} => Begun \subseteq Measurements
    /\ Begun \cap Certifiers = {} => bills[1].status = "DRAFT"

NoMilestones == duration = [a \in Activities |-> 0] /\ links = {} /\ topo = <<>>

FirmInit == Init /\ CpmInit
FirmNext ==
    \/ NoMilestones /\ Next /\ UNCHANGED cpmVars
    \/ Begun = {} /\ book # {} /\ CpmNext /\ UNCHANGED vars
FirmSpec == FirmInit /\ [][FirmNext]_<<vars, cpmVars>>
===============================================================================
