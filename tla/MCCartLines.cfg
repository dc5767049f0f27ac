SPECIFICATION MCSpec
CONSTANTS
    s1 = s1
    d1 = d1
    d2 = d2
    cake = cake
    kg = kg
    nuts = nuts
    main = main
    mall = mall
    Callers <- MCCallers
    Devices <- MCDevices
    Entities <- MCEntities
    KindOf <- MCKindOf
    Parent <- MCParent
    Contents = {"a"}
    Details = {"x"}
    Prices = {"10"}
    NoPrice = "null"
    Keep = "keep"
    Untold = "untold"
    Absent = Absent
    Seeds <- MCSeeds
    Lists <- MCLists
    Members <- MCMembers
    Initially <- MCInitially
    MaxEdits = 1
    MaxWrites = 1
    MaxLines = 2
    MaxCarts = 2
    MaxQuantity = 2
    Amounts = {1}
SYMMETRY Symmetry
INVARIANTS QuantityAsAsked LinesOfOneBranch AddedWhileSold
CHECK_DEADLOCK FALSE
CONSTRAINT Bounds
