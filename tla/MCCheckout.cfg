CONSTANTS
    anita = anita  bimal = bimal  first = first  retry = retry  second = second
    other = other  k1 = k1  k2 = k2  a1 = a1  a2 = a2  b1 = b1  welcome = welcome
    Requests = {first, retry, second, other}
    Customers = {anita, bimal}
    CustomerOf <- MCCustomerOf
    Keys = {k1, k2}
    NoKey = NoKey
    KeyOf <- MCKeyOf
    Coupons = {welcome}
    NoCoupon = NoCoupon
    CouponOf <- MCCouponOf
    UsageLimit <- MCLimit
    PerCustomerLimit <- MCLimit
    FirstOrderOnly = {welcome}
    Adds = {a1, a2, b1}
    AddedBy <- MCAddedBy
    Initial = {a1, b1}
SPECIFICATION Spec
CHECK_DEADLOCK FALSE
INVARIANTS AnswersAgree LateRetryGetsOrder LinesOrderedOnce ClearedLinesOrdered CouponLimitsKept
