SPECIFICATION FairSpec
CONSTANTS
    None = None
    p1 = p1  p2 = p2
    a = a  b = b  c = c
    Procs = {p1, p2}
    Jobs = {a, b, c}
    ProcOf <- Process
    Docs = {1, 2}
    DocOf <- Document
    Mixes <- OneRetry
    PageSizes = {0}
    Failed <- FailedBefore
    DocLimit = 1
    MaxFaults = 0
PROPERTIES
    DrainEnds
CHECK_DEADLOCK FALSE
