\* An update moves an ingress onto the hostPath of another.
CONSTANTS
    Namespaces = {}
    IgnoredNamespaces = {"kube-system"}
    IngressClass = "ats"
    AnyClass = AnyClass
    NoSnippet = NoSnippet
    NoBackend = NoBackend
    NoObject = NoObject
    Specs <- Crossing
    MaxVersion = 3
    MaxFaults = 0
    MaxMissed = 0
    Resyncs = FALSE
SPECIFICATION Spec
INVARIANTS
    Settled
