SPECIFICATION FairSpec
CONSTANTS
    w1 = w1  w2 = w2  p1 = p1
    r1 = r1  r2 = r2
    j1 = j1  j2 = j2  j3 = j3  j4 = j4
    Workers = {w1, w2}
    Posters = {p1}
    Queues = {r1, r2}
    Jobs = {j1, j2, j3, j4}
    Home <- HomeTwoRooms
    None = None
INVARIANTS TypeOK MutualExclusion OneOwner CountExact
PROPERTIES ImplementsSerial EveryJobRuns
CHECK_DEADLOCK FALSE
