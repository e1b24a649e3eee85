SPECIFICATION FeedSpec
CONSTANTS
    Addr = {a1, a2}
    AdminAddr = admin
    NoName = noName
    Username = {n1}
    Request = {}
    Capacity = 1
    Stalled = {}
    MaxAccepts = 3
    MaxReceives = 2
    MaxDeletes = 0
    MaxCrashes = 1
SYMMETRY Symmetry
INVARIANTS TypeOK AnnouncedWasCommitted FeedInOrder NothingLostButByLag LoginReplyFirst OwnOrderKept EveryMessageCounted PresenceBracketsChat PresenceMatchesRegistry GaugeCountsHandlers
