SPECIFICATION CallsSpec
SYMMETRY Interchangeable
CONSTANTS
    key1 = key1  key2 = key2  key3 = key3  x1 = x1  x2 = x2
    Callers = {w1, w2}
    Sources <- OneSource
    Groups = {"g1"}
    Keys = {key1, key2, key3}
    Command <- ReadCommands
    Missions = {}
    Steps <- NoSteps
    Investigations = {i1}
    Facts = {f1}
    Configs <- ReadConfigs
    TTL = 1
    Budget = 2
    FinishTries = 1
    MaxTime = 0
    MaxVersion = 1
    MaxRestarts = 1
    Nothing = Nothing
    Anchors = {"a1"}
    Txs = {x1, x2}
    Carries <- Sent
    Confirmations = 2
    MaxHeight = 2
    MaxReorgs = 1
    Reviewed = {"r1", "r2"}
    ReviewIds = {1, 2}
    Jobs = {"j1"}
    ReviewTTL = 1
    Deliveries <- Bodies
    IngressTries = 2
    MaxCalls = 4
INVARIANTS TypeOK AskedOnce RefreshDisplaces JobBoundOnce DeliveredOnce
PROPERTIES AnchorStands
CHECK_DEADLOCK FALSE
