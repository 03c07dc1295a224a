\* A candidate of one term is answered from the next.  The system stops where
\* the terms run out.
SPECIFICATION Spec
CONSTANTS
    NumPeers = 3
    Timers = {0, 1}
    Senders = {}
    MaxTerm = 2
    MaxStart = 0
    MaxLog = 0
    MaxThreads = 2
    MaxRestarts = 0
    Victims = {}
PROPERTIES
    LaterReplyAdopted
CHECK_DEADLOCK FALSE
