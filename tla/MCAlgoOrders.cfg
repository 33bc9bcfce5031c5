CONSTANTS
    c1 = c1
    c2 = c2
    r1 = r1
    r2 = r2
    Orders = {c1, c2}
    Amount <- MCAmount
    Lots <- MCLots
    Limit = 2
    Requests = {r1, r2}
    MaxRestarts = 1
    MaxFaults = 1
SPECIFICATION FairSpec
INVARIANTS AlgoTypeOK OneBrokerOrder FillWins SettledAsTraded
PROPERTIES ReservesAtomically RequestsEnd
