SPECIFICATION PagesSpec
CONSTANTS
    Addr = {a1, a2}
    AdminAddr = admin
    NoName = noName
    Username = {n1, n2}
    Request = {r1}
    Capacity = 4
    Stalled = {}
    MaxAccepts = 2
    MaxReceives = 1
    MaxDeletes = 1
    MaxCrashes = 1
SYMMETRY Symmetry
VIEW WithoutFeed
INVARIANTS StaleIdNeverReassigned MessagesHaveTheirAuthor HistoryInv OnlineIsConnected
PROPERTIES ImplementsHistory
