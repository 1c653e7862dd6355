CONSTANTS
    o1 = o1
    o2 = o2
    s1 = s1
    s2 = s2
    a1 = a1
    c1 = c1
    r1 = r1
    r2 = r2
    NoOrder = NoOrder
    Studios = {s1}
    Accounts = {a1}
    Companies = {c1}
    Orders = {o1, o2}
    BuyerOf <- Mixed
    PlanOf <- MCPlanOf
    Plans <- StudioPlan
    AcceptedPlans <- CheckoutPlans
    Flaky = {o1}
    Requests = {r1, r2}
    AdminTerms = {0}
    Faults <- UndoneFaults
    MaxFaults = 2
    Period = 3
    MaxNow = 1
SPECIFICATION Spec
INVARIANTS CapturedMeansGranted NotDropped PaidCompanyActive
PROPERTY AckedAtWork
CHECK_DEADLOCK FALSE
