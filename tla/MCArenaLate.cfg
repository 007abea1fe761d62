SPECIFICATION Spec
CONSTANTS
    a = a  b = b
    Clients = {a, b}
    Places = {1, 2}
    Starts = {1}
    Way = 3
    Movers = {a}
    Shooters = {a}
    MaxMoves = 2
    MaxShots = 0
    MaxHp = 1
    Damage = 1
    None = None
INVARIANT MoveMadeKnown
CHECK_DEADLOCK FALSE
