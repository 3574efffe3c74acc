SPECIFICATION Spec
CONSTANTS
    Items = {1, 2, 3}
    Adaptive = {2}
    Responses = {blank, good, bad}
    Unanswered = blank
    Invalid = {bad}
    PartOf <- MCPartOf
    SectionOf <- MCSectionOf
    NavigationMode <- MCNavigationMode
    SubmissionMode <- MCSubmissionMode
    PartControl <- MCPartControl
    SectionControl <- MCSectionControl
    Branches <- MCBranches
    Calls = {c1}
    TestSubmission = "individual"
    UpdatedState = {TRUE, FALSE}
    SendItemSession = TRUE
    Overlap = FALSE
    Faulty = TRUE
    Lossy = TRUE
    MayReload = FALSE
    MaxAttempts = 2
INVARIANT ControlFallsBack
CHECK_DEADLOCK FALSE
