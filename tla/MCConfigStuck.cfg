\* The caching policy's definition is never installed.
CONSTANTS
    Subjects = {"watcher"}
    Namespaces = {}
    IgnoredNamespaces = {"kube-system"}
    IngressClass = "ats"
    AnyClass = AnyClass
    NoEndpoints = NoEndpoints
    Endpoints <- Steady
    MaxEpFaults = 0
    MaxEpMissed = 0
    Policies <- SniKept
    NoPolicy = NoPolicy
    NoSni = NoSni
    NoFqdn = NoFqdn
    ImageSni <- OwnEntry
    MaxSniFaults = 0
    CachePolicies <- CacheKept
    NoCachePolicy = NoCachePolicy
    NoRules = NoRules
    NoTtl = NoTtl
    ImageLines <- Comment
    MaxCacheFaults = 0
    ConfigMaps <- CmDisjoint
    NoConfigMap = NoConfigMap
    ImageRecords <- Defaults
    MaxCmFaults = 0
    NeverListable = {"atscachingpolicies"}
    MaxCrashes = 0
SPECIFICATION ConfigSpec
PROPERTIES
    WatchReturns
