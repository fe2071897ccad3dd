\* Four limit orders, or four market and stop orders, over two prices.
CONSTANTS
    a = a
    b = b
    c = c
    d = d
    none = none
    OrderIds = {a, b, c, d}
    NoOrder = none
    DustTurns = 1
    Prices = {1, 2}
    Requests <- AllRequests
SPECIFICATION Spec
CONSTRAINT OneFamily
INVARIANTS TypeOK NotCrossed BookIndexed DepthExact FillOrKill PricePriority OpenOrdersRest FillsBalance HeldOnce
PROPERTIES TerminalIsFinal CallReturns
CHECK_DEADLOCK FALSE
