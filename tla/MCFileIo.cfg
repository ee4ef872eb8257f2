CONSTANTS
    p1 = p1
    Procs = {x, y}
    Pipes <- MCPipes
    Files <- MCFiles
    x = x
    y = y
    Programs <- MCPrograms
    Interests <- MCInterests
    Watched = {1, 2}
    PollSets <- MCPollSets
    Epoll = Epoll
    Stdio = Stdio
    NoFile = NoFile
    None = None
    StdFds = {0}
    RUX_FILE_LIMIT = 4
    RING_BUFFER_SIZE = 2
    Bytes = {1, 2}
    ZeroByte = 1
    MaxEvents = 1
SPECIFICATION FairSpec
INVARIANTS
    PipeEnds
PROPERTIES
    PipeIsFifo
    ReadEnds
    
    TimedWaitEnds
CHECK_DEADLOCK FALSE
