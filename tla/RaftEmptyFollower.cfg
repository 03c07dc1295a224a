\* A new leader sends entries to a follower that lost its log.
SPECIFICATION Spec
CONSTANTS
    NumPeers = 3
    Timers = {0}
    Senders = {0}
    MaxTerm = 2
    MaxStart = 1
    MaxLog = 1
    MaxThreads = 2
    MaxRestarts = 1
    Victims = {}
INVARIANTS
    CommittedOnDisk
CHECK_DEADLOCK FALSE
