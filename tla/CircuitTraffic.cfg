SPECIFICATION FairSpec
CONSTANTS
    m1 = m1
    m2 = m2
    p1 = p1
    Model <- TwoModels
    Provider <- OneProvider
    ProviderOf <- SameProvider
    Caller = {c1, c2, c3}
    NoModel = NoModel
    FailureThreshold = 2
    OpenDuration = 2
    HalfOpenSuccessThreshold = 2
INVARIANTS
    SingleProbeUnlessStray
    ProbeUndisturbed
    ProbeAccounted
PROPERTIES
    OpenHolds
    BlockedEventuallyAdmits
\* Leaked probes can block every key: the registry may really stop.
CHECK_DEADLOCK FALSE
