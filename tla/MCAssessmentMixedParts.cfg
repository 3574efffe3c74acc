SPECIFICATION Spec
CONSTANTS
    Items = {1, 2, 3}
    Adaptive = {}
    Responses = {blank, good}
    Unanswered = blank
    Invalid = {}
    PartOf <- MCPartOf
    SectionOf <- MCPartOf
    NavigationMode <- MCNavigationMode
    SubmissionMode <- MCSubmissionMode
    PartControl <- MCControl
    SectionControl <- MCControl
    Branches <- MCBranches
    Calls = {c1}
    TestSubmission = "individual"
    UpdatedState = {TRUE, FALSE}
    SendItemSession = TRUE
    Overlap = FALSE
    Faulty = FALSE
    Lossy = FALSE
    MayReload = FALSE
    MaxAttempts = 2
INVARIANT PartsComplete
CHECK_DEADLOCK FALSE
