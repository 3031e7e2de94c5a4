\* Users write, the controller stops, a command fails, a deletion is missed; with resyncs.
\* The system rests when users do and no ingress is left to resync.
CONSTANTS
    Namespaces = {}
    IgnoredNamespaces = {"kube-system"}
    IngressClass = "ats"
    AnyClass = AnyClass
    NoSnippet = NoSnippet
    NoBackend = NoBackend
    NoObject = NoObject
    Specs <- Moving
    MaxVersion = 6
    MaxFaults = 1
    MaxMissed = 1
    Resyncs = TRUE
    Absent = Absent
    MaxWrites = 4
    MaxStops = 2
SPECIFICATION RSpec
CHECK_DEADLOCK FALSE
INVARIANTS
    RelayedAtRest
PROPERTIES
    RelaysUnbroken
