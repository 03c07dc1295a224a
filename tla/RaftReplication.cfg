\* Two nodes may contend for one term, the winner takes two commands; calls
\* are timely, every thread is scheduled.
SPECIFICATION FairSpec
CONSTANTS
    NumPeers = 3
    Timers = {0, 1}
    Senders = {0, 1}
    MaxTerm = 1
    MaxStart = 2
    MaxLog = 2
    MaxThreads = 2
    MaxRestarts = 0
    Victims = {}
INVARIANTS
    LogMatching
    MatchIsStored
    CommittedOnDisk
    OneCallToEach
PROPERTIES
    ImplementsReplicatedLog
    StartedIsApplied
    ElectionEnds
