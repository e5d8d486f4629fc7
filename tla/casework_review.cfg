SPECIFICATION Spec
SYMMETRY InterchangeablePeople
CONSTANTS
    ann = ann  ben = ben  cid = cid  other = other
    TaskIds = {}
    CaseIds = {c1, c2}
    Actors = {ann, ben, cid}
    Scopes = {s1}
    Subjects = {"alice"}
    SubjectOf <- OneSubject
    Kinds = {"dispute"}
    Amounts = {1}
    Limits = {1}
    Registries <- ChangingRegistries
    NoScope = NoScope
    ReadyTTL = 2
    LockWait = 1
    Expiries = {3}
    MaxTime = 0
    MaxBaselines = 0
    MaxEpisodes = 3
    MaxDecisions = 1
    MaxReports = 2
    MaxReviews = 0
INVARIANTS IndependentResolution CaseHistoryIntact
CHECK_DEADLOCK FALSE
