SPECIFICATION Spec
CONSTANTS
    Asks = {"a1", "a2", "a3"}
    Sites = {"h1"}
    SiteOf <- MCSiteOf
    Snapshot <- MCSnapshot
    Answers <- MCAnswers
    Probes = 2
    Gates <- MCGates
    Patched <- MCPatched
    Lines <- MCLines
    LineOf <- MCLineOf
    Manuals <- MCManuals
    Sources = {"s1", "s2"}
    Listed <- MCListed
    Trips = {"t1", "t2", "t3"}
    Registrable <- MCRegistrable
    SeedOf <- MCSeedOf
    Addresses <- MCAddresses
    Invocations <- MCInvocations
    Files <- MCFiles
    Builds <- MCBuilds
    SettingKeys = {"depth", "wide"}
    Malformed <- MCMalformed
    CookieLines <- MCCookieLines
    Fragile = {"baseline", "output", "proxies", "urls", "ca", "cookies", "port", "chrome"}
INVARIANT RunsAsConfigured
INVARIANT StartsAsAsked
INVARIANT NothingIsWasted
INVARIANT VerdictsAreGrounded
PROPERTY PoolIsHonest
PROPERTY ImplementsOnceCell
\* Every request and every detection comes to an end.
CHECK_DEADLOCK FALSE
