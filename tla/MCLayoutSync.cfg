\* One tab, two objects, three choices.
SPECIFICATION Spec
CONSTANTS
    Objects = {a, b}
    Choices = {c1, c2, c3}
    NotLoaded = NotLoaded
    None = None
INVARIANTS
    TypeOK
    LayoutsStayApart
    GridShowsStored
PROPERTIES
    SavesKeepChoices
SYMMETRY Symmetry
