\* A stale approval revives a cancelled withdrawal: its reserve is gone.
CONSTANTS
    w1 = w1
    w2 = w2
    d1 = d1
    d2 = d2
    o1 = o1
    a1 = a1
    a2 = a2
    WithdrawalIds = {w1, w2}
    DepositIds = {d1, d2}
    OrderIds = {}
    Admins = {a1, a2}
    Amounts = {2, 3}
    Fee = 1
    AdminThreshold = 3
    RequiredConfirmations = 2
    ConfirmSteps = {1, 2}
SYMMETRY Symmetry
SPECIFICATION Spec
INVARIANT ReserveInvariant
CHECK_DEADLOCK FALSE
