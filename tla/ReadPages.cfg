\* One or two pages, one without an address; the host may load until there
\* are three snapshots; histories and tabs are limited to two.
SPECIFICATION Spec
CONSTANTS
    A = A
    B = B
    t = t
    Nil = Nil
    Default = Default
    ByName = ByName
    Address = {A, B}
    Target = {t}
    Outlines <- MCOutlines
    Scopes <- MCScopes
    HistoryLimit = 2
    MaxDocs = 3
INVARIANTS TypeOK TheActiveTabIsCurrent HistoriesShareTheLimit
    HitsNameTheirDocument PlacesAreOfTheirSnapshot ScreenShowsTheDocument
PROPERTIES RefusalsChangeNothing TimelineIsKept
