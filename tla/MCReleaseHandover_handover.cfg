SPECIFICATION Spec
CONSTANTS
    None = None
    b1 = b1  b2 = b2  b3 = b3  g1 = g1  g2 = g2
    r1 = r1  r2 = r2  c1 = c1  x1 = x1
    Instances = {b1, g1}
    SlotOf <- Slot
    ConfigOf <- Config
    BaseConfig = "old"
    Releases = {r1}
    NewConfig <- ReleaseConfig
    Version <- ReleaseVersion
    Approved = {r1}
    Tickets = {t1, t2}
    Commands = {c1}
    Refs = {x1}
    RefsOf <- CommandRefs
    Capacity = 1
SYMMETRY Symmetric
PROPERTIES
    OneSideWrites
INVARIANTS
    IInv
    WorkIsCurrent
    OneSlotPerEpoch
    CleanupExcludes
CHECK_DEADLOCK FALSE
