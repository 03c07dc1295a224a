\* A thread may be slower than the timeout of its task, which is then handed out
\* a second time.
SPECIFICATION Spec
CONSTANTS
    FileNum = 2
    ReduceNum = 2
    MaxHandouts = 3
    MapNum = 2
    Disabled = {1}
    Timely = FALSE
    LateMain = FALSE
    Spurious = FALSE
    MaxRestarts = 0
INVARIANTS
    CountedOnce
CHECK_DEADLOCK FALSE
