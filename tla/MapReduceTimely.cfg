\* Two files and two buckets; the second thread of each kind to pick up a task
\* stops; whoever has a task is done with it, or stopped, before its timeout.
\* The system stops when the worker has exited.
SPECIFICATION FairSpec
CONSTANTS
    FileNum = 2
    ReduceNum = 2
    MaxHandouts = 3
    MapNum = 3
    Disabled = {1}
    Timely = TRUE
    LateMain = FALSE
    Spurious = FALSE
    MaxRestarts = 0
INVARIANTS
    ReduceAfterMaps
    CountedOnce
    CleanedUp
PROPERTIES
    OutputsPromised
    JobEnds
CHECK_DEADLOCK FALSE
