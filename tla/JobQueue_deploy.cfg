CONSTANTS
    None = None
    Records = {letter}
    Frozen = {}
    Killers = {}
    Users = {u1}
    Workers = {w1}
    MaxRetries = 2
    BatchSize = 10
    Faults <- EverythingFails
    MaxFaults = 2
    MaxJobs = 3
    MaxVersion = 2
SPECIFICATION Spec
INVARIANTS TypeOK ProcessingHasJob FreshPdf
PROPERTY SettledInTheEnd
CHECK_DEADLOCK FALSE
