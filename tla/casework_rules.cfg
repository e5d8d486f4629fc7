SPECIFICATION Spec
SYMMETRY Interchangeable
CONSTANTS
    ann = ann  ben = ben  cid = cid  other = other
    TaskIds = {t1, t2}
    CaseIds = {}
    Actors = {ann, cid}
    Scopes = {s1, other}
    Subjects = {"alice", "bob"}
    SubjectOf <- OtherSubject
    Kinds = {"dispute"}
    Amounts = {2}
    Limits = {1, 2}
    Registries <- FixedRegistry
    NoScope = NoScope
    ReadyTTL = 2
    LockWait = 1
    Expiries = {3}
    MaxTime = 3
    MaxBaselines = 2
    MaxEpisodes = 1
    MaxDecisions = 2
    MaxReports = 0
    MaxReviews = 1
INVARIANTS ReadyWithinLimits FreshProofIsLive
PROPERTIES OneSubjectPerStep
CHECK_DEADLOCK FALSE
