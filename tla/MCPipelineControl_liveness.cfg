SPECIFICATION FairSpec
CONSTANTS
    None = None
    Procs = {p1, p2}
    Docs = {d1}
    Requests = {r1}
    Contentless = {}
    Patched = {}
    MaxClock = 3
    MaxPauses = 1
INVARIANTS
    AtMostOneAttempt
PROPERTIES
    RequestsServed
    RetriesOnce
CHECK_DEADLOCK FALSE
