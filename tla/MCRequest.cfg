\* Every request on every table of two hostPaths.
CONSTANTS
    Urls <- MCUrls
    NoTarget = NoTarget
    SnippetEnabled = TRUE
    RedisMayFail = TRUE
    ScriptsMayFail = TRUE
SPECIFICATION MCSpec
INVARIANTS
    RequestTypeOK
    FindsMostSpecific
    ServesWholeRoute
PROPERTIES
    HookReturns
