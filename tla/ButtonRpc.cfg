\* The worker's main(), with a timeout, and a thread without one call
\* functions of the master and a name that it has not bound.
SPECIFICATION FairMainSpec
CONSTANTS
    Client = {main, thread}
    Patient = {thread}
    Main = main
    Function <- Functions
    Bound <- BoundFunctions
    Name <- Names
    Parameters <- Types
    Result <- Results
    Arguments <- Passed
    Returns <- Returned
    Beyond <- Memory
    Uninitialized = {0, 7}
    LengthLimit = 4
    MapNum = 13
    ReduceNum = 9
    MaxCalls <- Calls
INVARIANTS
    TypeOK
    SocketInTurn
    AnswersLastSent
    ExecutedOnce
    ArgumentsArrive
    ResultsArrive
    NumbersOfMaster
    LeavesWhenDone
PROPERTIES
    CallsReturn
    CallsServed
CHECK_DEADLOCK FALSE
