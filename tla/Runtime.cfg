SPECIFICATION FairSpec
CONSTANTS
    r1 = r1
    r2 = r2
    dr = dr
    ssrf = ssrf
    Dispatches <- MCDispatches
    Visitors <- MCDispatches
    CheckOf <- MCCheckOf
    Entry <- MCEntry
    Pollutes <- MCPollutes
    OobChecks = {ssrf}
    NoCheck = NoCheck
    Tokens = {t1}
    MaxHits = 1
    MaxTabs = 1
    VMs = {v1, v2}
    NoVM = NoVM
    NoDispatch = NoDispatch
    MaxConns = 1
    MaxOps = 2
INVARIANTS RunOwnsItsVM NothingHeldAfterwards NothingGoesUnreported
PROPERTY EveryDispatchReturns
CHECK_DEADLOCK FALSE
