SPECIFICATION Spec
SYMMETRY Interchangeable
CONSTANTS
    p1 = p1  p2 = p2  x1 = x1  x2 = x2  payee = payee  other = other
    Procs = {p1}
    Observations <- OnlyDispute
    Intents = {}
    Txs = {x1}
    Configs <- Anchoring
    HomeChain = "base"
    TTL = 1
    MaxTime = 1
    MaxDecisions = 1
    MaxObserved = 1
    MaxCrashes = 0
    NoTx = NoTx
    Nothing = Nothing
    Invalid = Invalid
    RunIds = {"r1"}
    Goals <- OneGoal
    Plans <- OneAnswer
INVARIANTS SavedRunsLoad
CHECK_DEADLOCK FALSE
