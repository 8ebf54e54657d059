\* The readers of ReadPages: does the screen show the overlay?
SPECIFICATION Spec
CONSTANTS
    A = A
    B = B
    t = t
    Nil = Nil
    Default = Default
    ByName = ByName
    Address = {A, B}
    Target = {t}
    Outlines <- MCOutlines
    Scopes <- MCScopes
    HistoryLimit = 2
    MaxDocs = 3
INVARIANTS ScreenIsCurrent
