CONSTANTS
    A = A
    B = B
    C = C
    c1 = c1
    c2 = c2
    NoId = NoId
    Contracts = {A, B}
    Payloads <- MCTrades
    Prices = {2}
    Clients = {c1}
    Acts = {"restart", "touch", "squareoff", "reset", "cancel"}
    MaxSingle = 2
    MaxPerSymbol = 3
    MaxOpen = 2
    Capital = 10
    Brake = 1
    ShortMargin = 3
    MaxOrders = 4
SPECIFICATION BookSpec
INVARIANTS ExposureBounded 
PROPERTIES RestingFillsOnce
CHECK_DEADLOCK FALSE
