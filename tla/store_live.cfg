SPECIFICATION FairSpec
CONSTANTS
    a1 = a1  a2 = a2  b1 = b1  p = p  q = q  x = x  y = y
    Workers = {a1, a2, b1}
    Processes = {p, q}
    ProcessOf <- MCProcessOf
    Requests <- TwoBoots
    MaxRevision = 1
    MaxFiles = 1
    NoWorker = NoWorker
    NoRequest = NoRequest
INVARIANTS LocksMatchThreads
PROPERTIES NoLostUpdate LocksComeFree
