SPECIFICATION Spec
SYMMETRY Twins
CONSTANTS
    a1 = a1  a2 = a2  b1 = b1  p = p  q = q  x = x  y = y
    Workers = {a1, b1}
    Processes = {p, q}
    ProcessOf <- MCProcessOf
    Requests <- ReusedKey
    MaxRevision = 2
    MaxFiles = 2
    NoWorker = NoWorker
    NoRequest = NoRequest
INVARIANTS TypeOK AnsweredIsRecorded
PROPERTIES AppliedAsSeen ImplementsCommandLog
