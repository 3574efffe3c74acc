SPECIFICATION FairSpec
CONSTANTS
    Items = {1, 2}
    Adaptive = {2}
    Responses = {blank, good}
    Unanswered = blank
    Invalid = {}
    PartOf <- MCPartOf
    SectionOf <- MCPartOf
    NavigationMode <- MCNavigationMode
    SubmissionMode <- MCSubmissionMode
    PartControl <- MCControl
    SectionControl <- MCControl
    Branches <- MCBranches
    Calls = {c1}
    TestSubmission = "simultaneous"
    UpdatedState = {TRUE, FALSE}
    SendItemSession = TRUE
    Overlap = FALSE
    Faulty = TRUE
    Lossy = FALSE
    MayReload = TRUE
    MaxAttempts = 2
INVARIANTS FinalizedComplete AcceptedOnce ScoredIsShown LiveMirrored ProvisionalNotPersisted
PROPERTY RetriesFinish
CHECK_DEADLOCK FALSE
