CONSTANTS
    None = None
    Records = {letter, report}
    Frozen = {letter}
    Killers = {report}
    Users = {u1}
    Workers = {w1, w2}
    MaxRetries = 1
    BatchSize = 10
    Faults <- CallsFail
    MaxFaults = 1
    MaxJobs = 2
    MaxVersion = 1
SPECIFICATION Safe
SYMMETRY SameWorkers
PROPERTY AtLeastOnce
CHECK_DEADLOCK FALSE
