SPECIFICATION FairSpec
CONSTANTS
    None = None
    Bare = {2}
    MaxOld = 3
    MaxUpdates = 2
    MaxFaults = 3
INVARIANT TypeOK
PROPERTIES SuccessIsOneSnapshot RepeatingCompletes
