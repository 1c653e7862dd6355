CONSTANTS
    c1 = c1
    c2 = c2
    ann = ann
    bob = bob
    None = None
    Clients = {c1, c2}
    Accounts = {ann, bob}
    Apps <- MCApps
    AccountOf <- MCAccountOf
    AppOf <- MCAppOf
    Rows = {r1, r2, r3}
    Batch = 2
    Page = 1
    MaxSeq = 3
SPECIFICATION Spec
SYMMETRY Alike
INVARIANTS TypeOK CopyIsCurrent LastPageCompletes
PROPERTY NoLostUpdate
CHECK_DEADLOCK FALSE
