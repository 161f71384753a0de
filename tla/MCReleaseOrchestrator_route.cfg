SPECIFICATION RouteSpec
CONSTANTS
    None = None
    b1 = b1  b2 = b2  g1 = g1  g2 = g2
    r1 = r1  r2 = r2
    Instances = {b1, g1, g2, b2}
    SlotOf <- Slot
    ConfigOf <- Config
    BaseConfig = "old"
    Releases = {r1, r2}
    NewConfig <- ReleaseConfig
    Version <- ReleaseVersion
    Approved = {r1, r2}
    Tickets = {}
    Commands = {}
    Refs = {}
    RefsOf <- CommandRefs
    Capacity = 1
    MaxDelayed = 2
INVARIANTS
    RouteInv
    RouteIsWriter
    RetiringUnrouted
    ActiveRunsConfig
    EndsClean
CHECK_DEADLOCK FALSE
