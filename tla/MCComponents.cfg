SPECIFICATION Spec
CONSTANTS
    Items = {1, 2}
    Adaptive = {2}
    Responses = {"none", "a"}
    Unanswered = "none"
    Invalid = {}
    NoModule = NoModule
    NoScore = NoScore
    MaxMounts = 2
    MaxPciAttempts = 2
    MaxUpdates = 3
    AllowedOrigins = {"o1", "o2"}
    OtherOrigins = {"x"}
    NoOrigin = "none"
    MaxMessages = 2
    MaxCommands = 2
    Ids = {1, 2}
    Length = 2
    MaxAttempts = 2
    MaxRuns = 2
    MaxChanges = 4
    Hrefs = {"h1", "h2", "h3"}
    Supplied = {"h3"}
    Sizes = {1, 2, 9}
    MaxItems = 4
    MaxItemBytes = 5
    MaxTotalBytes = 4
    Concurrency = 1
    Evaluate <- Eval
    ItemDefs <- Examples
    MaxIterations = 2
    MaxScorings = 2
    Kinds = {"gapMatch", "graphicGapMatch", "match"}
    Labels = {"l1", "l2", "l3"}
    Gaps = {"g1", "g2", "g3"}
    Foreign = {"t1", "t2"}
    Beginnings <- PairBeginnings
    NoLabel = "none"
    MatchMax <- PairMatchMax
    MatchGroup <- PairGroups
    MaxAssociations = 2
INVARIANTS
    TypesOK
    OneInstance
    AnswerIsCurrent
    ClosedViewScored
    NothingForgotten
    ClearedStays
    PostedInOrder
    NoneLeftBehind
    MountedIsLatest
    HostSessionOnly
    NoIdlePermit
    WithinBudget
    ConstraintsHoldOrDefaults
    SameScoreAgain
    MissingNeverScores
    UsesWithinLimits
PROPERTIES
    ProcessingEnds
    NotEchoed
    PciSettles
    ResultStands
    ShutdownCompletes
CHECK_DEADLOCK FALSE
