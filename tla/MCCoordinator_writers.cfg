SPECIFICATION Spec
CONSTANTS
    o1 = o1
    o2 = o2
    man1 = man1
    None = None
    Owners = {o1, o2}
    Ops = {x1, x2}
    Tasks = {t1}
    Keys = {k1}
    Docs = {}
    Muts = {m1, m2}
    Manifests = {man1}
    ManifestOf <- OneManifest
    MaxDepth = 1
    MaxGeneration = 2
    OperatorVerifies = TRUE
SYMMETRY OwnersOpsAndWrites
INVARIANTS
    WriteExclusion
    NoSilentSuccess
    IInv
    ExclusiveAlone
PROPERTIES
    FenceHolds
CHECK_DEADLOCK FALSE
