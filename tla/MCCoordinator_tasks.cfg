SPECIFICATION FairSpec
CONSTANTS
    o1 = o1
    o2 = o2
    man1 = man1
    None = None
    Owners = {o1, o2}
    Ops = {x1}
    Tasks = {t1, t2}
    Keys = {k1}
    Docs = {d1}
    Muts = {m1}
    Manifests = {man1}
    ManifestOf <- OneManifest
    MaxDepth = 2
    MaxGeneration = 2
    OperatorVerifies = FALSE
INVARIANTS
    EvidenceHasOwner
    ReentryHolds
    AbandonedIsVisible
PROPERTIES
    ClaimReleaseSettled
    UnfinishedIsFenced
CHECK_DEADLOCK FALSE
