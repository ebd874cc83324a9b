\* Refuted by two requests that save at the same time, and a crash.
SPECIFICATION Spec
CONSTANTS
    Requests = {p1, p2}
    Objects = {a}
    Files = {f1, f2, f3, f4, f5}
    None = None
    Partial = Partial
INVARIANTS
    CrashKeepsLiveWhole
SYMMETRY Symmetry
