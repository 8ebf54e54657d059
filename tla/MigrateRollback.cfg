SPECIFICATION Spec
CONSTANTS
    None = None
    Bare = {}
    MaxOld = 2
    MaxUpdates = 1
    MaxFaults = 0
PROPERTY InstalledFilesAreRetained
