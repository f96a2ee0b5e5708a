SPECIFICATION Spec
CONSTANTS
    Conns = {"c1"}
    Ctxs = {k1, k2, k3}
    StorageScopes = {"Public", "Router"}
    Keys = {"id"}
    Types = {"String", "u64"}
    MaxWrites = 2
    InvalidStart = {"1"}
    Paths <- MatchedPaths
    Texts <- MatchedTexts
    Routers = {"outer", "inner"}
    Gates = {"log", "auth"}
    Ends <- OneEnd
    RoutePaths <- ThreePaths
    RouteScopes <- TwoPrefixes
    Asked <- EightRequests
    Needs <- OneNeed
    MaxOps = 4
    Origins = {"github", "gitlab"}
    HttpMethods = {"GET", "PUT"}
    Headers = {"auth", "accept"}
    MaxSettings = 2
    MaxLayers = 3
    MaxAccept = 2
    Encodings = {"gzip", "br", "identity", "*", "other", "opaque"}
    QVals = {0, 5, 10, 99}
    Secrets = {"s1", "s2"}
    MaxNow = 1
    MaxTokenCalls = 3
    Sent <- PairsAndHosts
    LookupNames = {"a", "b"}
    MaxLookups = 3
    Chunks = 2
    Files = {"f", "g", "lost", "dir"}
    Missing = {"lost"}
    Odd = {"g"}
    Nameless = {"dir"}
    MaxBodyCalls = 4
    Upgrades = {"r1", "r2"}
    Codes = {200, 400}
SYMMETRY Alike
INVARIANTS ContextsKeepApart MatchedAsWritten RoutedAsRegistered GatesWrapRegistered
           GrantsAsConfigured EncodedAsNegotiated TokensChecked LookupsAsSent BodiesWhole
           RefusedNeverServed
PROPERTY ErrorsNotEncoded
CHECK_DEADLOCK FALSE
