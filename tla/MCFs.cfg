SPECIFICATION Spec
CONSTANTS
    Extra = 2
    MaxSize = 1
    Threads <- MCThreads
    Programs <- MCPrograms
    Fds = {3, 4}
INVARIANTS
    
    OpenRights
