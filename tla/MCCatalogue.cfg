SPECIFICATION Spec
CONSTANTS
    p1 = p1
    p2 = p2
    sweets = sweets
    cake = cake
    kg = kg
    nuts = nuts
    main = main
    near = near
    diwali = diwali
    asha = asha
    Callers <- MCCallers
    Entities <- MCEntities
    KindOf <- MCKindOf
    Parent <- MCParent
    Contents = {"a", "b"}
    Details = {"x", "y"}
    Prices = {"10", "20"}
    NoPrice = "null"
    Keep = "keep"
    Untold = "untold"
    Absent = Absent
    Seeds <- MCSeeds
    Lists <- MCLists
    Members <- MCMembers
    Initially <- MCInitially
    MaxEdits = 2
    MaxWrites = 1
SYMMETRY Symmetry
INVARIANTS LogTellsRows LogHasNoGaps
CHECK_DEADLOCK FALSE
