SPECIFICATION Spec
CONSTANTS
    main = main
    inner = inner
    hosts = hosts
    more = more
    Missing = Missing
    NoPath = NoPath
    Files = {main, inner, hosts, more}
    Hosts <- TheHosts
    Labels <- TheLabels
    Characters <- TheCharacters
    Dot = "."
    Destinations <- TheDestinations
    Disks <- TiedDisks
    RuleFileNames = {main}
    ExcludeFileNames = {hosts}
    MaxHostCandidates = 8
    MaxAddressOnlyRules = 256
    MaxIncludeDepth = 2
    MaxLoads = 1
CHECK_DEADLOCK FALSE
INVARIANTS
    MatchIsWinner
