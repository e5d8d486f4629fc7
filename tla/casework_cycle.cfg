SPECIFICATION Spec
SYMMETRY Interchangeable
CONSTANTS
    ann = ann  ben = ben  cid = cid  other = other
    TaskIds = {t1, t2}
    CaseIds = {c1}
    Actors = {ann, ben, cid}
    Scopes = {s1, s2}
    Subjects = {"alice"}
    SubjectOf <- OneSubject
    Kinds = {"dispute"}
    Amounts = {1}
    Limits = {1}
    Registries <- FixedRegistry
    NoScope = NoScope
    ReadyTTL = 2
    LockWait = 1
    Expiries = {3}
    MaxTime = 0
    MaxBaselines = 1
    MaxEpisodes = 3
    MaxDecisions = 2
    MaxReports = 1
    MaxReviews = 1
INVARIANTS TypeOK ReadyNoOpenRisk ReviewedRisksCleared
PROPERTIES StaleStaysStale TaintsClearedOnlyByCleanReview
CHECK_DEADLOCK FALSE
