SPECIFICATION SessionSpec
CONSTANTS
    HeaderSize = 2
    MaxPacket = 4
    Sizes = {2, 3, 4}
    MaxStream = 7
    CutAfterHeader = FALSE
    MaxOut = 2
    OutSize = 2
INVARIANTS SessionTypeOK
PROPERTIES KeepsFraming SendsInOrder AllDelivered ReleasedIsDestroyed
CHECK_DEADLOCK FALSE
