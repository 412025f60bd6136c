SPECIFICATION Spec
CONSTANTS
    ContBits = 7
    NumberBits = 20
    MaxOctets = 10
    Static <- MCStatic
    Name = {"m", "p"}
    Value = {"x", "long"}
    Length <- MCLength
    Overhead = 32
    TableSize = 104
    Sizes = {28, 34, 70, 104, 150, 300}
    UnsignedBits = 8
INVARIANTS
    TablesAgree
    DecodedAsMeant
CHECK_DEADLOCK FALSE
