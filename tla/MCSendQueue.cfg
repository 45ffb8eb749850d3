CONSTANTS
    HalfChunk = 2
    SendqArg <- MCSendqArg
    SendSize = 5
    MaxStream = 40
SPECIFICATION Spec
INVARIANTS
    NoRingbufferFlaw
    RoomForChunk
    EveryByteAccounted
    SamplesStayAligned
PROPERTIES
    FlushDropsNothing
    ImplementsLossyQueue
CHECK_DEADLOCK FALSE
