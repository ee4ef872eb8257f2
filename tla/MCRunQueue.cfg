CONSTANTS
    Tasks = {main, gc, a, b}
    Main = main
    Gc = gc
    CPUs = {c1, c2}
    BootCpu = c1
    Idle = idle
    NoCpu = nocpu
    Sched = "rr"
    MaxTimeSlice = 2
SPECIFICATION RqFairSpec
INVARIANTS RunQueueConsistent 
PROPERTIES ExitedStays ReadyRuns
