CONSTANTS
    Tasks = {main, gc, a, b}
    Main = main
    Gc = gc
    CPUs = {c1, c2}
    BootCpu = c1
    Idle = idle
    NoCpu = nocpu
    Sched = "fifo"
    MaxTimeSlice = 1
    Queues = {q}
    GcQueue = gcq
    Calls = {"spawn", "yield", "drop", "join", "exit", "wait", "notify_all"}
    MaxTime = 0
SPECIFICATION Spec
INVARIANT JoinersServed
PROPERTY RunQueueRefined
\* SpinRawHolderRuns says how the system may stop.
CHECK_DEADLOCK FALSE
