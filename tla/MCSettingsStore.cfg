\* Two requests: reads and changes, one at a time and overlapping, with
\* aborts, failures and crashes.
SPECIFICATION Spec
CONSTANTS
    Requests = {p1, p2}
    Objects = {a}
    Files = {f1, f2, f3, f4, f5}
    None = None
    Partial = Partial
INVARIANTS
    TypeOK
    LiveIsWhole
    LastChangeStays
    ReadIsCurrent
SYMMETRY Symmetry
VIEW View
