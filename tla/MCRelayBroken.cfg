\* One ingress has a rule without an http block.
\* The system rests when users do and no ingress is left to resync.
CONSTANTS
    Namespaces = {}
    IgnoredNamespaces = {"kube-system"}
    IngressClass = "ats"
    AnyClass = AnyClass
    NoSnippet = NoSnippet
    NoBackend = NoBackend
    NoObject = NoObject
    Specs <- Broken
    MaxVersion = 4
    MaxFaults = 0
    MaxMissed = 0
    Resyncs = TRUE
    Absent = Absent
    MaxWrites = 2
    MaxStops = 0
SPECIFICATION RSpec
CHECK_DEADLOCK FALSE
PROPERTIES
    Relays
