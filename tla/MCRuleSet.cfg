SPECIFICATION Spec
CONSTANTS
    main = main
    inner = inner
    hosts = hosts
    more = more
    Missing = Missing
    NoPath = NoPath
    Files = {main, inner, hosts, more}
    Hosts <- TheHosts
    Labels <- TheLabels
    Characters <- TheCharacters
    Dot = "."
    Destinations <- TheDestinations
    Disks <- AllDisks
    RuleFileNames = {main, Missing}
    ExcludeFileNames = {hosts, Missing}
    MaxHostCandidates = 3
    MaxAddressOnlyRules = 256
    MaxIncludeDepth = 2
    MaxLoads = 2
CHECK_DEADLOCK FALSE
INVARIANTS
    MatchIffSatisfied
    PriorityDecides
    LongestSuffixWins
    ExcludedByLabels
    LoadedAsWritten
    FailuresReported
