SPECIFICATION FairSpec
CONSTANTS
    t1 = t1  t2 = t2  t3 = t3
    b1 = b1  b2 = b2  b3 = b3  b4 = b4
    Threads = {t1, t2, t3}
    Buffers = {b1, b2, b3, b4}
    Failures = {"reset", "other"}
    None = None
INVARIANTS TypeOK EventExclusive NoGap NoStuckQueue
PROPERTIES ImplementsChannel EveryBufferLeaves
CHECK_DEADLOCK FALSE
