SPECIFICATION Spec
CONSTANTS
    Addr = {a1, a2}
    AdminAddr = admin
    NoName = noName
    Username = {n1, n2}
    Request = {}
    Capacity = 4
    Stalled = {}
    MaxAccepts = 2
    MaxReceives = 1
    MaxDeletes = 0
    MaxCrashes = 0
SYMMETRY Symmetry
PROPERTY BroadcastReachesAllConnected
