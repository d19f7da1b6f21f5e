SPECIFICATION FairSpec
CONSTANTS
    StreamLen = 10
    MaxPacket = 4
    BufSize = 5
    CharMax = 4
    Streams <- MCStreams
INVARIANT TypeOK
INVARIANT StaticsAgree
PROPERTY HandsEveryPacket
CHECK_DEADLOCK FALSE
