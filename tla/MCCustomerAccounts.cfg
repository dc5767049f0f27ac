SPECIFICATION AccountSpec
CONSTANTS
    s1 = s1
    s2 = s2
    Slots <- MCSlots
    MaxRequests = 6
    MaxCodes = 2
    MaxAddresses = 3
    MaxAttempts = 2
SYMMETRY Symmetry
INVARIANTS CodesAreSpent NewestCodeWorks OneDefault
CHECK_DEADLOCK FALSE
