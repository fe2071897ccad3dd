\* Three calls of one user about one trade, one address and the zero address.
CONSTANTS
    u1 = u1
    t1 = t1
    a1 = a1
    Zero = Zero
    NoWallet = NoWallet
    NoCall = NoCall
    Calls = {1, 2, 3}
    Users = {u1}
    Trades = {t1}
    Party <- MCParty
    Addresses = {a1, Zero}
SPECIFICATION Spec
INVARIANTS TypeOK SettledOnce AnswersTrue NextIsMinable MintedOnce
PROPERTIES CallsAnswered
CHECK_DEADLOCK FALSE
