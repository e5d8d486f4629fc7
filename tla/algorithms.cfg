SPECIFICATION Spec
CONSTANTS
    Keys = {1, 2, 3}
    Missing = 0
    Newest = 5
    Hosts = {"h1", "h2", "h3"}
    Limit = 2
    Window = 3
    MaxKeys = 2
    MaxNow = 5
INVARIANTS WalkAnswers GrowthMeetsAncestors LimitHolds
CHECK_DEADLOCK FALSE
