\* Late vote replies of earlier elections are counted in the next one; the
\* system stops where the terms run out.
SPECIFICATION Spec
CONSTANTS
    NumPeers = 3
    Timers = {0, 1}
    Senders = {}
    MaxTerm = 3
    MaxStart = 1
    MaxLog = 2
    MaxThreads = 3
    MaxRestarts = 0
    Victims = {}
INVARIANTS
    WaitCanEnd
CHECK_DEADLOCK FALSE
