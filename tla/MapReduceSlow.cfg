\* Threads may be slower than any timeout, main() late for the broadcast or woken
\* by itself, and the worker process started again once.  The system stops when
\* the worker has exited or waits for ever.
SPECIFICATION Spec
CONSTANTS
    FileNum = 2
    ReduceNum = 1
    MaxHandouts = 3
    MapNum = 2
    Disabled = {1}
    Timely = FALSE
    LateMain = TRUE
    Spurious = TRUE
    MaxRestarts = 1
INVARIANTS
    TypeOK
    NoTaskLost
CHECK_DEADLOCK FALSE
