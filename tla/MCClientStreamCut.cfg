SPECIFICATION Spec
CONSTANTS
    HeaderSize = 2
    MaxPacket = 4
    Sizes = {2, 3, 4}
    MaxStream = 10
    CutAfterHeader = TRUE
INVARIANT HeaderInStep
CHECK_DEADLOCK FALSE
