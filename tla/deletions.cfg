SPECIFICATION PoolFairSpec
CONSTANTS
    PoolSize = 2
    Addr = {a1}
    AdminAddr = admin
    NoName = noName
    Username = {n1}
    Request = {r1, r2}
    Capacity = 4
    Stalled = {}
    MaxAccepts = 1
    MaxReceives = 2
    MaxDeletes = 2
    MaxCrashes = 0
VIEW WithoutHistory
INVARIANT PoolTypeOK
PROPERTIES DeletionsEnd StoreCompletes EveryCallerServed
