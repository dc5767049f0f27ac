CONSTANTS
    first = first  split = split  c1 = c1  c2 = c2  r1 = r1  r2 = r2
    g1 = g1  g2 = g2  failed = failed  captured = captured  captured2 = captured2
    First = first
    Splits = {split}
    Collectors = {c1, c2}
    Refunds = {r1, r2}
    GatewayOrders = {g1, g2}
    NoOrder = NoOrder
    Events = {failed, captured, captured2}
    EventOrder <- MCEventOrder
    Captured = {captured, captured2}
    Redelivered = {captured2}
    Total = 2
    Amounts = {1, 2}
SPECIFICATION Spec
SYMMETRY Symmetry
CHECK_DEADLOCK FALSE
INVARIANTS CapturedOnce StatusHasCause CollectedOnce RefundsCounted SummaryAgrees
