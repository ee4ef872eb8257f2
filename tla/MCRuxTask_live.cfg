CONSTANTS
    Tasks = {main, gc, a}
    Main = main
    Gc = gc
    CPUs = {c1}
    BootCpu = c1
    Idle = idle
    NoCpu = nocpu
    Sched = "rr"
    MaxTimeSlice = 1
    Queues = {q}
    GcQueue = gcq
    Calls = {"spawn", "join", "exit", "sleep", "wait_timeout_if"}
    MaxTime = 1
SPECIFICATION FairSpec
PROPERTIES JoinReturns TimedCallReturns
