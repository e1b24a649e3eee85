SPECIFICATION FairSpec
CONSTANTS
    Sizes = {1, 2, 3, 4, 5}
    PrefixLen = 2
    PrefixValues = 4
    Limit = 2
    MaxFrames = 2
    Cancellable = TRUE
INVARIANTS TypeOK InStep OversizeIsTold
PROPERTIES FramesArrive
