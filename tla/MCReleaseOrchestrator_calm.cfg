SPECIFICATION FairRouteSpec
CONSTANTS
    None = None
    b1 = b1  b2 = b2  g1 = g1  g2 = g2
    r1 = r1  r2 = r2
    Instances = {b1, g1}
    SlotOf <- Slot
    ConfigOf <- Config
    BaseConfig = "old"
    Releases = {r1}
    NewConfig <- ReleaseConfig
    Version <- ReleaseVersion
    Approved = {r1}
    Tickets = {t1, t2, t3}
    Commands = {c1, c2}
    Refs = {}
    RefsOf <- CommandRefs
    Capacity = 2
    MaxDelayed = 0
INVARIANTS
    EntryServed
PROPERTIES
    CommandsEnd
    ReleasesEnd
CHECK_DEADLOCK FALSE
