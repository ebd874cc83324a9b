\* Refuted by a save that overtakes another.
SPECIFICATION Spec
CONSTANTS
    Objects = {a, b}
    Choices = {c1, c2, c3}
    NotLoaded = NotLoaded
    None = None
PROPERTIES
    LayoutsSurvive
