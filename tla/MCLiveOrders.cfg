CONSTANTS
    kitchen = kitchen  customer = customer  online = online
    Orders = {online}
    OfflineOrders = {}
    Staff = {kitchen}
    Grants <- MCGrants
    Customer = customer
    MaxRows <- MCMaxRows
    Views <- MCViews
    Polled <- MCPolled
    Hears <- MCHears
    Pickup = {}
    MaxFaults = 1
SPECIFICATION LiveSpec
CHECK_DEADLOCK FALSE
INVARIANTS StaleForCause
PROPERTIES PolledCatchUp
