CONSTANTS
    o1 = o1
    o2 = o2
    s1 = s1
    s2 = s2
    a1 = a1
    c1 = c1
    r1 = r1
    r2 = r2
    NoOrder = NoOrder
    Studios = {s1}
    Accounts = {}
    Companies = {}
    Orders = {o1, o2}
    BuyerOf <- Renewal
    PlanOf <- MCPlanOf
    Plans <- CheckoutPlans
    AcceptedPlans <- CheckoutPlans
    Flaky = {}
    Requests = {r1, r2}
    AdminTerms = {}
    Faults <- NoFaults
    MaxFaults = 0
    Period = 3
    MaxNow = 1
SPECIFICATION Spec
PROPERTY RenewalExtends
CHECK_DEADLOCK FALSE
