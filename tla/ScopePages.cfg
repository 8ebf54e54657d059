\* Five pages under sixteen link tables, requests of up to three roots;
\* once a page is installed or removed while the request runs.
SPECIFICATION Spec
CONSTANTS
    G = G
    D = D
    M = M
    X = X
    B = B
    None = None
    Address = {G, D, M, X, B}
    ManualPages = {M, X}
    Selector <- MCSelectors
    Spelling <- MCSpellings
    LinkTables <- MCLinks
    Requests <- MCRequests
    Candidates <- MCCandidates
    Unregistered = {"file"}
    Size <- MCSize
    MaxContent = 4
    MaxReferences = 2
    MaxRoots = 4
    DepthCap = 3
    DocumentCap = 4
    MaxUpdates = 1
INVARIANTS TypeOK LimitsHold DepthsAreShortest NoFalseTruncation LinksAreAnswered
