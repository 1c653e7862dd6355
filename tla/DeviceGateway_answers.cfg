CONSTANTS
    None = None
    Devices = {phone}
    Sockets = {s1, s2}
    Requests = {r1, r2}
    EarlyDrops = TRUE
    CallsFail = TRUE
    MaxRestarts = 1
SPECIFICATION Spec
INVARIANTS TypeOK OpenIsRouted
PROPERTIES Answers AnswersInTheEnd
CHECK_DEADLOCK FALSE
