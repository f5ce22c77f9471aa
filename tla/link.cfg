CONSTANTS
    pause = pause
    index = index
    Packet <- MCPacket
    SizeOf <- MCSizeOf
    Capacity = 30
    MaxWrites = 3
SPECIFICATION Spec
INVARIANTS
    TypeOK
    PacketsArriveWhole
    ReadStaysInside
PROPERTIES
    HandledPacketIsStable
    IsAPacketChannel
CHECK_DEADLOCK FALSE
