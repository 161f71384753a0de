SPECIFICATION Spec
CONSTANTS
    None = None
    Procs = {p1, p2}
    Docs = {d1, d2}
    Requests = {r1}
    Contentless = {d2}
    Patched = {}
    MaxClock = 2
    MaxPauses = 1
SYMMETRY ProcsAndRequests
INVARIANTS
    BatchesExclude
    IInv
    CompletedRequestServed
PROPERTIES
    OnlyRequestsRevive
    StartsAreWanted
CHECK_DEADLOCK FALSE
