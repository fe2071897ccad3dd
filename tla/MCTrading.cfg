\* A maker, two takers and a cancel.
SPECIFICATION Spec
CONSTANTS
    o1 = o1
    o2 = o2
    o3 = o3
    alice = alice
    bob = bob
    Pair = Pair
    NoOrder = NoOrder
    NoTask = NoTask
    OrderIds = {o1, o2, o3}
    CancelIds = {c1}
    Users = {alice, bob}
    Prices = {2, 3}
    RequestsOf <- MCRequests
    Funds <- MCFunds
    Unit = 2
    TakerFee = 1
    MakerFee = 0
    Tolerance = 2
    DustTurns = 1
    MaxRestarts = 1
INVARIANTS
    TypeOK
    FundsConserved
    NothingMade
    NeverOversettled
    Backed
PROPERTIES
    RequestsEnd
CHECK_DEADLOCK FALSE
