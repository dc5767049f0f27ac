CONSTANTS
    i1 = i1  i2 = i2  o1 = o1  o2 = o2  l1 = l1  l2 = l2  l3 = l3
    Items = {i1, i2}
    Orders = {o1, o2}
    Lines = {l1, l2, l3}
    OrderOf <- MCOrderOf
    ItemOf <- MCItemOf
    QtyOf <- MCQtyOf
    Threshold <- MCThreshold
    MaxQty = 2
    TTL = 1
    Admins = {a1, a2}
    Amounts = {2}
    MaxTime = 3
    MaxAdminOps = 2
    MaxRestores = 1
SPECIFICATION FairSpec
CHECK_DEADLOCK FALSE
INVARIANTS HoldsBacked StockConserved SaleIffConsumed LowStockAnnounced
PROPERTIES HoldsEnd SettledOnce
