\* A shared hostPath is kept, others change; restarts at any point.
CONSTANTS
    Namespaces = {}
    IgnoredNamespaces = {"kube-system"}
    IngressClass = "ats"
    AnyClass = AnyClass
    NoSnippet = NoSnippet
    NoBackend = NoBackend
    NoObject = NoObject
    Specs <- Kept
    MaxVersion = 3
    MaxFaults = 0
    MaxMissed = 0
    Resyncs = TRUE
SPECIFICATION FairSpec
INVARIANTS
    TypeOK
    ScriptBeforeRoute
    Settled
    NoLeftoverTemp
PROPERTIES
    UpdateIsAtomic
    KeepsPromise
