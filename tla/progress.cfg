SPECIFICATION PagesFairSpec
CONSTANTS
    Addr = {a1, a2}
    AdminAddr = admin
    NoName = noName
    Username = {n1}
    Request = {}
    Capacity = 1
    Stalled = {a2}
    MaxAccepts = 2
    MaxReceives = 1
    MaxDeletes = 0
    MaxCrashes = 0
VIEW WithoutHistory
PROPERTIES LoginAnswered CleanupCompletes FeedDrains PageServed
