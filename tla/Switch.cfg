SPECIFICATION Spec
CONSTANTS
    Byte = {"P", "R", "x"}
    PrefaceLen = 3
    Preface <- ShortPreface
    MaxLen = 5
INVARIANTS
    RightProtocol
    Decisive
CHECK_DEADLOCK FALSE
