\* Services keep their ports, policies their names and patterns; anything fails once; with resyncs.
CONSTANTS
    Subjects = {"endpoints", "sni", "cache", "configmap", "watcher"}
    Namespaces = {}
    IgnoredNamespaces = {"kube-system"}
    IngressClass = "ats"
    AnyClass = AnyClass
    NoEndpoints = NoEndpoints
    Endpoints <- Steady
    MaxEpFaults = 1
    MaxEpMissed = 1
    Policies <- SniKept
    NoPolicy = NoPolicy
    NoSni = NoSni
    NoFqdn = NoFqdn
    ImageSni <- OwnEntry
    MaxSniFaults = 1
    CachePolicies <- CacheKept
    NoCachePolicy = NoCachePolicy
    NoRules = NoRules
    NoTtl = NoTtl
    ImageLines <- Comment
    MaxCacheFaults = 1
    ConfigMaps <- CmDisjoint
    NoConfigMap = NoConfigMap
    ImageRecords <- Defaults
    MaxCmFaults = 1
    NeverListable = {}
    MaxCrashes = 2
SPECIFICATION ConfigSpec
INVARIANTS
    EpTypeOK
    EpNoLeftoverTemp
    SniTypeOK
    SniSettled
    OneEntryPerFqdn
    CacheTypeOK
    CacheSettled
    CmTypeOK
    WatcherTypeOK
    ReturnsServingAll
PROPERTIES
    EpKeepsPromise
    EpHeals
    SniKeepsPromise
    CmKeepsPromise
    SniHeals
    CacheCatchesUp
    CmHeals
    WatchCompletes
