SPECIFICATION WireSpec
CONSTANTS
    Base = 8
    LastName = 2
    Defaults <- MCDefaults
    FrameHeaders <- MCFrameHeaders
    Fragments <- MCFragments
    Ids <- MCIds
    Values <- MCValues
    MaxEntries = 2
    ContBits = 2
    NumberBits = 7
    MaxOctets = 4
    Following <- MCFollowing
    HuffBits = 3
    Inputs <- MCInputs
    MaxPast = 4
    Etable <- MCEtable
    Eos <- MCEos
    MinBits = 2
    Slack = 4
    Strings <- MCStrings
    Char <- MCChar
    Lower <- MCLower
    SSizeMax = 49
    AnyOrder = FALSE
    Firsts <- MCFirsts
    TextNames <- MCTextNames
    TextValues <- MCTextValues
    Folds <- MCFolds
    Bodies <- MCBodies
    MaxFields = 2
    MaxPieces = 2
INVARIANTS
    HeaderRoundTrip
    LastSettingWins
    NumberRoundTrip
    ReaderInStep
    
    MessageRoundTrip
CHECK_DEADLOCK FALSE
