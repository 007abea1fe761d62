SPECIFICATION FairSpec
CONSTANTS
    w1 = w1  w2 = w2  r1 = r1
    c1 = c1  c2 = c2  c3 = c3
    Workers = {w1, w2}
    Runners = {r1}
    Chains = {c1, c2}
    Delay = 2
    MaxNow = 5
    None = None
INVARIANTS TypeOK OneDistributor ChainsConserved
PROPERTY EveryTickFires
CHECK_DEADLOCK FALSE
