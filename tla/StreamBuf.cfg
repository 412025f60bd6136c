SPECIFICATION Spec
CONSTANTS
    MinCap = 8
    SizeMax = 63
INVARIANTS
    FitsAllocation
    RoomToRead
