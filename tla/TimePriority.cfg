\* A maker that is filled in part is put behind those that came later.
CONSTANTS
    a = a
    b = b
    c = c
    d = d
    none = none
    OrderIds = {a, b, c, d}
    NoOrder = none
    DustTurns = 1
    Prices = {1, 2}
    Requests <- LimitRequests
SPECIFICATION Spec
PROPERTY TimePriority
CHECK_DEADLOCK FALSE
