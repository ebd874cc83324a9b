SPECIFICATION Spec
CONSTANTS
    None = None
    Unknown = Unknown
    GridColumns <- SomeColumns
    MaxPageSize = 3
    IntLimit = 16
    Tables <- SomeTables
    PageSizes = {1, 3}
    DefaultPageSize = 1
    Sorts <- SomeSorts
    Layouts <- SomeLayouts
    Jumps = {12}
    Operators = {"isNull"}
    FilterTexts = {"", "v"}
    SearchTexts = {"", "t"}
    Starts <- SomeStarts
INVARIANTS
    TypeOK
    PageIsShown
    ReadYourWrites
    NotStranded
    NextMeansMore
PROPERTIES
    ViewKept
    Settles
CHECK_DEADLOCK FALSE
