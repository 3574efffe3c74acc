SPECIFICATION Spec
CONSTANTS
    Items = {1, 2}
    Adaptive = {}
    Responses = {blank}
    Unanswered = blank
    Invalid = {}
    PartOf <- MCPartOf
    SectionOf <- MCPartOf
    NavigationMode <- MCNavigationMode
    SubmissionMode <- MCSubmissionMode
    PartControl <- MCControl
    SectionControl <- MCControl
    Branches <- MCBranches
    Calls = {c1, c2}
    TestSubmission = "simultaneous"
    UpdatedState = {TRUE, FALSE}
    SendItemSession = FALSE
    Overlap = TRUE
    Faulty = TRUE
    Lossy = TRUE
    MayReload = FALSE
    MaxAttempts = 1
SYMMETRY Symmetry
INVARIANT NoPhantomResults
PROPERTY KeepsLedger
CHECK_DEADLOCK FALSE
