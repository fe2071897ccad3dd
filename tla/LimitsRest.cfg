\* A market buy whose budget the price does not divide, and the makers it meets.
CONSTANTS
    a = a
    b = b
    c = c
    d = d
    none = none
    OrderIds = {a, b, c, d}
    NoOrder = none
    DustTurns = 1
    Prices = {1, 2}
    Requests <- StopRequests
SPECIFICATION Spec
INVARIANT LimitOrdersRest
CHECK_DEADLOCK FALSE
