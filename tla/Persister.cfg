\* Saves of a node, crashes, a write cut short and reads of its file, over two
\* widths of everything that has a width.
SPECIFICATION Spec
CONSTANTS
    Voted = {0}
    Terms = {9, 10}
    Keys = {9, 10}
    Beyond <- BeyondValues
    MaxLog = 2
    MaxAdded = 1
    MaxSaves = 3
    MaxShort = 1
INVARIANTS
    TypeOK
    SavedStateLeads
    EmptyBeforeFirst
    TailAsWritten
    ThrowsOnFragments
CHECK_DEADLOCK FALSE
