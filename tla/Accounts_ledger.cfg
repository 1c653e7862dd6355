CONSTANTS
    None = None
    advance = advance
    other = other
    monday = monday
    tuesday = tuesday
    office = office
    Invoices = {advance, other}
    Batches = {monday, tuesday}
    Projects = {office}
    Net <- NetOf
    Grand <- GrandOf
    Advance <- AdvanceOf
    Statement <- Receipts
    Staff = {s1, s2}
    Managers = {m1}
    Kept = {"dna"}
    MaxRequests = 4
SPECIFICATION Spec
INVARIANTS TypeOK AuditReplays PaidWhenCovered SettledIsApplied ActivationCovered
PROPERTIES SettleEnds
CHECK_DEADLOCK FALSE
