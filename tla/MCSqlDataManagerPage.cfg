SPECIFICATION Spec
CONSTANTS
    a = a
    b = b
    None = None
    NoColumn = None
    Objects <- Two
    Schemas = {"s1", "s2"}
    Texts <- SomeTexts
    Length <- TextLength
    Shorten <- Shortened
    Numerals <- SomeNumerals
    Round <- Rounding
    MaskToken = "mask"
    Inputs = {"x", "", "1"}
    Terms <- TreeTerms
    NoTerm = ""
    Blanks <- TreeBlanks
    Matches <- TreeMatches
    Servers <- SomeServers
INVARIANTS
    TypeOK
    ChangedUnlessMoved
    KeyLeadsBack
    ShownIsKept
    DenyWins
    SearchReveals
PROPERTIES
    InputKept
    BlankOnlyByMoving
CHECK_DEADLOCK FALSE
