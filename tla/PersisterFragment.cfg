\* Whole writes of entries with keys of one digit and of two.
SPECIFICATION Spec
CONSTANTS
    Voted = {0}
    Terms = {1, 2}
    Keys = {9, 10}
    Beyond <- NothingBehind
    MaxLog = 2
    MaxAdded = 2
    MaxSaves = 2
    MaxShort = 0
PROPERTIES
    StartsAgain
CHECK_DEADLOCK FALSE
