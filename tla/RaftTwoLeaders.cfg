\* A broadcast and a vote of the same term reach a node together.
SPECIFICATION Spec
CONSTANTS
    NumPeers = 3
    Timers = {0, 1}
    Senders = {0, 1}
    MaxTerm = 2
    MaxStart = 0
    MaxLog = 0
    MaxThreads = 2
    MaxRestarts = 0
    Victims = {}
INVARIANTS
    OneLeaderPerTerm
CHECK_DEADLOCK FALSE
