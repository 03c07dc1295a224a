\* Two nodes contend for two terms, one broadcasts, main() kills a leader and
\* the process crashes once; calls are timely.  The system stops where the
\* terms run out.
SPECIFICATION Spec
CONSTANTS
    NumPeers = 3
    Timers = {0, 1}
    Senders = {0}
    MaxTerm = 2
    MaxStart = 1
    MaxLog = 2
    MaxThreads = 2
    MaxRestarts = 1
    Victims = {1}
INVARIANTS
    TypeOK
    TermCoversLog
    VotesAccounted
    OneCallToEach
    WaitCanEnd
PROPERTIES
    LeaderAppendOnly
CHECK_DEADLOCK FALSE
