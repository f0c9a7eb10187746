SPECIFICATION Spec
CONSTANTS
    ruled = ruled
    shunned = shunned
    none = none
    norule = norule
    TcpKeys = {t1}
    UdpKeys = {u1}
    Names = {ruled, shunned}
    NoHost = none
    ExcludedHosts = {shunned}
    ExcludedAddresses = {}
    RuleStrategy <- NameRules
    NoRule = norule
    GlobalStrategy = "split"
    AllHosts = FALSE
    ActWithoutSni = FALSE
    EnableHttp = TRUE
    KeepHellos = TRUE
    Capacity = 1
    Ttl = 1
    StreamBudget = 4
    BudgetShares = 2
    MinPerFlow = 1
    HelloLen = 2
    ControlCaptured = {TRUE, FALSE}
    MaxTime = 2
    MaxTouches = 3
    MaxConnections = 2
    SeqSpace = 16
CHECK_DEADLOCK FALSE
INVARIANTS
    OncePerRememberedFlow
    ExcludedNeverTouched
    TouchedByItsOwnRule
    HandledUnlessInherited
    QuicHelloClassified
