CONSTANTS
    Tasks = {main, gc, a}
    Main = main
    Gc = gc
    CPUs = {c1}
    BootCpu = c1
    Idle = idle
    NoCpu = nocpu
    Sched = "rr"
    MaxTimeSlice = 1
    Queues = {q}
    GcQueue = gcq
    Calls = {"spawn", "drop", "join", "exit", "yield", "wait", "sleep", "wait_timeout", "wait_timeout_if", "wait_timeout_until", "notify_one", "notify_all", "notify_task", "terminate"}
    MaxTime = 1
SPECIFICATION Spec
INVARIANT NeverStranded

PROPERTY RunQueueRefined
