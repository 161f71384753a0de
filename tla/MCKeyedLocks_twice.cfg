SPECIFICATION FairSpec
CONSTANTS
    None = None
    p1 = p1  p2 = p2  p3 = p3
    t1 = t1  t2 = t2  t3 = t3
    Procs = {p1, p2, p3}
    PidOf <- Pid
    Tasks = {t1, t3}
    ProcOf <- Process
    Keys = {1, 2}
    Uses <- Twice
    MaxEnters = 1
PROPERTIES
    Served
CHECK_DEADLOCK FALSE
