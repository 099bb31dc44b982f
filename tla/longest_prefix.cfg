INIT RequestsInit
NEXT RequestsNext
CONSTANTS
    Parts = {"locations"}
    NTargets = 3
    BackupSet = {3}
    TargetWeight <- MCWeights
    TargetConns = 1
    Circle <- MCCircle
    Clients = {2, 6}
    Algorithms = {"round_robin", "weighted_round_robin", "least_conn", "ip_hash", "random", "least_time", "consistent_hash", "sticky", "lua"}
    TurnPeriod = 12
    Paths <- MCPaths
    HostNames <- MCHosts
    Regexes <- MCRegexes
    LocationNames = {"n"}
    MaxLocations = 3
    MaxHosts = 3
    Setups <- MCSetups
    ScriptPhases = {"access", "log"}
    Addresses = {"proxy", "lan", "home", "far"}
    TrustedProxies = {"proxy"}
    DenyList = {}
    AllowList = {"far", "lan"}
    DefaultAllow = FALSE
    Country <- MCCountry
    DenyCountries = {"B"}
    AllowCountries = {"A"}
    PrivateIP = "deny"
    RequestPaths <- MCRequestPaths
    Rules <- MCRules
    MaxRewriteIterations = 3
    PathLimits <- MCPathLimits
    MaxBodySize = 2
    PageCodes = {404, 502}
    PageStatus = 0
    SampleRates = {50, 70}
    MaxRequests = 2
    Files = {"f", "g"}
    IncludeLists <- MCIncludes
    Places <- MCPlaces
    Modes = {"auto"}
    MaxIncludeDepth = 2
    MaxServers = 1
    NginxFiles = {"a", "b"}
    MaxDepth = 2
    MaxTokens = 9
    ServerDirectives = {"root", "root ..", "listen unix", "ssl_certificate", "ssl_certificate_key", "auth_basic", "error_log crit", "listen default", "rewrite", "rewrite bad flag", "return 404"}
    NginxLocations <- MCLocations
    MaxDirectives = 3
    RetainKeys = 2
    MaxKeys = 4
    MaxManagers = 3
    Shakes = {1, 2}
    Settings <- MCSettings
    Validity = 1
    MaxRetries = 2
    MaxNow = 2
    MaxFetched = 2
CHECK_DEADLOCK FALSE
INVARIANT LongestPrefix
