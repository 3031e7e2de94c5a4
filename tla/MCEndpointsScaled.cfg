\* A service is scaled to zero.
CONSTANTS
    Namespaces = {}
    IgnoredNamespaces = {"kube-system"}
    IngressClass = "ats"
    AnyClass = AnyClass
    NoEndpoints = NoEndpoints
    Endpoints <- Scaled
    MaxEpFaults = 0
    MaxEpMissed = 0
SPECIFICATION EpSpec
INVARIANTS
    EpSettled
