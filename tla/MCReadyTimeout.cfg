SPECIFICATION FrameSpec
CONSTANTS
    AllowedOrigins = {"o1", "o2"}
    OtherOrigins = {"x"}
    NoOrigin = "none"
    MaxMessages = 2
    MaxCommands = 2
INVARIANT TimeoutRejects
CHECK_DEADLOCK FALSE
