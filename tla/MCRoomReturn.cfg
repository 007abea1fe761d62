SPECIFICATION Spec
CONSTANTS
    r1 = r1  r2 = r2
    s1 = s1  s2 = s2  s3 = s3
    p1 = p1  p2 = p2  p3 = p3
    Rooms = {r1, r2}
    Home = r1
    Sessions = {s1, s2}
    Players = {p1, p2}
    MaxLogins = 1
    MaxJobs = 1
    Overlap = FALSE
    MayReturn = TRUE
    Pool = Pool
    None = None
INVARIANT ViewMatchesRoom
CHECK_DEADLOCK FALSE
