SPECIFICATION Spec
CONSTANTS
    r1 = r1
    r2 = r2
    Refreshers = {r1, r2}
    Roles = {"RiskManager", "Auditor"}
    MfaMandatoryRoles = {"RiskManager"}
    MaxTokens = 3
    p1 = p1
    p2 = p2
    Processes = {p1, p2}
    MaxKeys = 3
    w1 = w1
    w2 = w2
    Writers = {w1, w2}
    MaxIds = 3
    a1 = a1
    a2 = a2
    Admins = {a1, a2}
    FileVersions = {1, 2}
    MaxPrompts = 3
    c1 = c1
    c2 = c2
    Clerks = {c1, c2}
    RiskUsers = {"u1", "u2"}
    MaxChanges = 2
    Cycles = {"cron"}
    Prices = {1, 2}
    Capital = 2
    MaxOrder = 1
    MaxFills = 3
    LegCycles = {c1, c2}
    Legs = {"l1", "l2"}
    LegSizes <- MCLegSizes
    MaxLegFills = 3
    MaxPlans = 2
    Symbols = {"S1"}
    OnDemand = {"S1"}
    Chain <- MCChain
    MaxAttempts = 2
    MaxDay = 3
    d1 = d1
    d2 = d2
    Days = {d1, d2}
    t1 = t1
    t2 = t2
    Loaders = {t1, t2}
    SkillProcs = {"app", "tls"}
    Skills = {"sk1"}
    SkillAgents = {"ag"}
    SkillAdmins = {"ad1", "ad2"}
    Brokers = {"upstox"}
    MinTradeCount = 2
    MinCalendarDays = 1
    MinCleanDays = 2
    Tolerance = 2
    WinRates = {5}
    LastDay = 3
    MaxPaperTrades = 2
    MaxCodeVersions = 2
    GeneratedPlans <- MCPlans
    Declared <- MCDeclared
    StrategyCaps = {"strategy_research"}
    SafetyOrder <- MCSafetyOrder
    ContextScaffold <- MCScaffold
    MaxPlanAttempts = 2
    RoutingTable <- MCRouting
    Keyless = {"ollama"}
    Budgeted = "huggingface"
    TokenBudget = 2
    CallTokens = 2
    LlmThreads = {"lt1", "lt2"}
    CustomPairs <- MCCustomPairs
    LlmRetries = 2
    EngineTxs = {"e1", "e2"}
    ApprovalTxs = {"d1"}
    MaxEvents = 3
    MaxConnects = 1
    Closers = {"k1", "k2"}
    MaxArtefacts = 4
    MaxUnavailable = 1
INVARIANTS
    RotationHolds
    SignedIsAccepted
    AuditTrailHolds
    ExactlyOneActivePrompt
    LimitsUnderDualControl
    PaperBooksAgree
    LegsWithinPlan
    MissingOnlyIfEarlyOrTorn
    DisabledSkillsDoNotRun
    GateNeedsCleanDays
    PlanVerdictIsRight
    BudgetOvershootBounded
    WaitCycleNeedsApproval
    VetoReachesHuman
PROPERTIES
    LakeHolds
    CommitsInSequence
CHECK_DEADLOCK FALSE
