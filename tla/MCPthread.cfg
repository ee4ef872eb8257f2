SPECIFICATION FairSpec
CONSTANTS
    None = None
    Main = main
    Threads = {main, a, b}
    Waiters = {a, b}
    Bits = {1, 2}
\* A panic, or a wait for a signal that nobody sends, stops the program.
CHECK_DEADLOCK FALSE
INVARIANTS
    MutualExclusion
    NoLostWakeup
    QueuesAgree
    TableIsLive
PROPERTIES
    MutexImplemented
    LockProgress
