SPECIFICATION FairSpec
CONSTANTS
    HeaderSize = 2
    MaxPacket = 4
    BufferSize = 5
    BufferCount = 3
    Sizes = {2, 4}
    MaxStream = 18
INVARIANTS TypeOK BufferSound
PROPERTIES CopyDisjoint ImplementsFraming
CHECK_DEADLOCK FALSE
