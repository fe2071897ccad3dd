\* One level of two, orders of two and one, copies of one.
CONSTANTS
    ann = ann
    bob = bob
    p1 = p1
    p2 = p2
    Desk = Desk
    Tick = Tick
    Boot = Boot
    None = None
    Users = {ann, bob}
    Placements = {p1, p2}
    Owner <- MCOwner
    Size <- MCSize
    Relations = {1, 2, 3}
    Follower <- MCFollower
    Leader <- MCLeader
    FirstRelations = {3}
    Levels = {1}
    LevelSize = 2
    DeskOrders = 3
    DeskTarget = 2
    BidCost = 2
    AskCost <- MCAskCost
    Funds <- MCFunds
    Allocation = 100
    MaxCopy = 1
    MinSize = 1
    MaxOpen = 1
    MaxFaults = 1
    Usual = {p1}
    MaxComplications = 2
SPECIFICATION Spec
INVARIANTS TypeOK ReservesKept RowsExact CopiesOnce LimitKept
PROPERTIES LadderHeals
CHECK_DEADLOCK FALSE
