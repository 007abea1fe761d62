SPECIFICATION Spec
CONSTANTS
    w1 = w1  w2 = w2  w3 = w3
    s1 = s1  s2 = s2  s3 = s3
    a1 = a1  a2 = a2
    Workers = {w1, w2}
    Sessions = {s1, s2, s3}
    AcceptEvents = {a1, a2}
    Failures = {"acceptEx", "updateAccept", "recvReset", "recvOther", "overflow", "disconnectEx"}
    None = None
SYMMETRY Symmetry
INVARIANTS TypeOK TablesInStep OneReceiver SlotsAlive NoDeafSession ClosingIsDriven
CHECK_DEADLOCK FALSE
