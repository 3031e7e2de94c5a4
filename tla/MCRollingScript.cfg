\* Requests while an ingress is added.
CONSTANTS
    Namespaces = {}
    IgnoredNamespaces = {}
    IngressClass = "ats"
    AnyClass = AnyClass
    NoSnippet = NoSnippet
    NoBackend = NoBackend
    NoObject = NoObject
    Specs <- Rolling
    MaxVersion = 3
    MaxFaults = 0
    MaxMissed = 0
    Resyncs = FALSE
    NoEndpoints = NoEndpoints
    Endpoints <- RollingEndpoints
    MaxEpFaults = 0
    MaxEpMissed = 0
    Urls <- OneUrl
    NoTarget = NoTarget
    SnippetEnabled = TRUE
    RedisMayFail = FALSE
    ScriptsMayFail = TRUE
    Watched <- FirstPod
SPECIFICATION CSpec
INVARIANTS
    ScriptIsExecuted
