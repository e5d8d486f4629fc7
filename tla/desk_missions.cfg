SPECIFICATION Spec
SYMMETRY Interchangeable
CONSTANTS
    f1 = f1  f2 = f2  key1 = key1  key2 = key2  key3 = key3  m1 = m1
    Callers = {w1}
    Sources <- TwoSources
    Groups = {"g1", "g2"}
    Keys = {key1, key2, key3}
    Command <- MissionCommands
    Missions = {m1}
    Steps <- MissionSteps
    Investigations = {m1, i1}
    Facts = {f1, f2}
    Configs <- MissionConfigs
    TTL = 1
    Budget = 2
    FinishTries = 2
    MaxTime = 1
    MaxVersion = 3
    MaxRestarts = 1
    Nothing = Nothing
INVARIANTS ObligationsStand
PROPERTIES DecidedOnEvidence ImplementsEvidenceLog
CHECK_DEADLOCK FALSE
