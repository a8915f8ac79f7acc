SPECIFICATION HangSpec
CONSTANTS
    Registrable <- MCRegistrable
    Documents <- MCDocuments
    Payload = "probe"
    RacePages = {"p1", "p2"}
    RaceForms <- MCRaceForms
    Sensitive <- MCSensitive
    Conns = {1, 2}
    TargetsPerPage = 1
    FramedPages = {"p1", "p2"}
    Chains <- MCChains
    Stall = 20
    Stalls = 1
    FormPages = {"p1", "p2"}
    SinksOn <- MCSinksOn
    SinkAllowed <- MCSinkAllowed
    PlantPayloads = {1, 2}
    ViewPages = {"v1", "v2", "v3"}
    ShownOn <- MCShownOn
    AnswerRefs <- MCAnswerRefs
    PlantHost = "h"
    Crawled = {"v1"}
    IdPages = {"p1", "p2"}
    IdInputs <- DashInputs
    AppsBehind <- DashAppsBehind
    NameOrder <- DashNameOrder
    DeniedNames = {"page"}
    AccountNames = {"user"}
    RecordsOnServer <- DashRecords
    Personal <- DashPersonal
    Renderings <- DashRenderings
    ParamCap = 2
    PatternCap = 3
    ShapeCap = 2
    SinksPerPage = 2
    TokenPages = {"p1", "p2"}
    TokensOn <- MCTokensOn
    PageReads <- MCPageReads
    Validators <- MCValidators
    Listener = TRUE
    KeyDoc <- MCKeyDoc
    DiscoveryPaths <- MCDiscoveryPaths
    SameOrigin <- MCSameOrigin
    ForgeryLimit = 8
    TakeoverPages = {"p1", "p2", "p3", "p4"}
    HostOfPage <- MCHostOfPage
    RootInScope <- MCRootInScope
    Providers <- MCProviders
    Edges <- MCEdges
    SweptPages = {"p1", "p2"}
    RootOfPage <- MCRootOfPage
    PathInScope <- MCPathInScope
    Catalogue <- MCCatalogue
    FollowUps <- MCFollowUps
    Aggressive = FALSE
    Stack <- MCStack
    Sites <- MCSites
    CachedPages = {"p1", "p2", "p4"}
    Address <- MCAddress
    Boldly = FALSE
    CachedSites <- MCCachedSites
    LostAnswers = 1
    Expiries = 1
    BlindPages = {"p1", "p2"}
    BlindSinks <- MCBlindSinks
    SinkInScope <- MCSinkInScope
    Behaviours <- MCBehaviours
    BlindChecks = {"time", "boolean", "shell"}
    BlindPayloads = 2
    Sleep = 50
    Margin = 30
    Delays <- MCDelays
    SlowRequests = 1
    PolicyPages = {"p1", "p2", "p3"}
    PolicyAllowed <- MCPolicyAllowed
    PolicyDocuments <- MCPolicyDocuments
    JsonpHosts <- MCJsonpHosts
    Endpoints <- MCEndpoints
    Rotations = 1
    PolicyLosses = 1
    LostRequests = 1
    AuditPages = {"p1", "p2", "p3"}
    AuditKinds = {"openapi", "oauth"}
    AuditHost <- MCAuditHost
    AuditAllowed <- MCAuditAllowed
    KnownPaths <- MCKnownPaths
    Published <- MCPublished
    AuditLosses = 1
    ReflectedPages <- MCReflectedPages
    ReflectionLosses = 1
    FormDocuments <- MCFormDocuments
    SecretNames = {"card"}
    Episodes = {"idor"}
PROPERTY RenderingEnds
CHECK_DEADLOCK FALSE
