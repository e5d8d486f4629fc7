SPECIFICATION Spec
SYMMETRY Interchangeable
CONSTANTS
    p1 = p1  p2 = p2  x1 = x1  x2 = x2  payee = payee  other = other
    Procs = {p1}
    Observations <- Reports
    Intents <- OneAsked
    Txs = {x1, x2}
    Configs <- Changing
    HomeChain = "base"
    TTL = 1
    MaxTime = 1
    MaxDecisions = 1
    MaxObserved = 2
    MaxCrashes = 1
    NoTx = NoTx
    Nothing = Nothing
    Invalid = Invalid
    RunIds = {"r1"}
    Goals <- OneGoal
    Plans <- OneAnswer
INVARIANTS TypeOK ReceiptsKept RunAnchorBacked AuthorityIsTrusted
PROPERTIES DenialRecalled ReadyRestsOnMemory OneTransaction ImplementsLedger
CHECK_DEADLOCK FALSE
