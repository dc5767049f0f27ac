CONSTANTS
    kitchen = kitchen  owner = owner  cod = cod  upi = upi  customer = customer
    Orders = {cod, upi}
    OfflineOrders = {cod}
    Staff = {kitchen, owner}
    Grants <- MCGrants
    Customer = customer
    MaxRows <- MCMaxRows
SPECIFICATION Spec
CHECK_DEADLOCK FALSE
INVARIANTS HistoryTellsStatus RestoredExactly
PROPERTIES FollowsMachine
