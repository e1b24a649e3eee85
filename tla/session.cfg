SPECIFICATION FairSpec
CONSTANTS
    SocketBuffer = 1
    MaxLines = 3
    MaxBroadcasts = 3
INVARIANTS TypeOK LinesInOrder 
PROPERTIES LineGetsOut LoginDecided QuitCloses HandlerNotices
