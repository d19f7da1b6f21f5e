SPECIFICATION FairSpec
CONSTANTS
    StreamLen = 12
    MaxPacket = 4
    MaxBuffer = 9
    MinBuffer = 3
    Streams <- MCStreams
INVARIANT TypeOK
INVARIANT ReceiveHasRoom
INVARIANT MoveIsDisjoint
INVARIANT LengthIsRead
PROPERTY HandsEveryPacket
CHECK_DEADLOCK FALSE
