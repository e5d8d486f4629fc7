SPECIFICATION FairSpec
CONSTANTS
    p1 = p1  p2 = p2  x1 = x1  x2 = x2  payee = payee  other = other
    Procs = {p1, p2}
    Observations <- NoReports
    Intents = {}
    Txs = {}
    Configs <- Anchoring
    HomeChain = "base"
    TTL = 1
    MaxTime = 0
    MaxDecisions = 2
    MaxObserved = 0
    MaxCrashes = 1
    NoTx = NoTx
    Nothing = Nothing
    Invalid = Invalid
    RunIds = {"r1"}
    Goals <- TheGoals
    Plans <- Answers
PROPERTIES RunKeepsDecision RequestsAnswered
CHECK_DEADLOCK FALSE
