SPECIFICATION Spec
CONSTANTS
    Sizes = {1, 2}
    PrefixLen = 2
    PrefixValues = 4
    Limit = 2
    MaxFrames = 2
    Cancellable = TRUE
INVARIANTS ReceivedAsSent
