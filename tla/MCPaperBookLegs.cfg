CONSTANTS
    A = A
    B = B
    C = C
    c1 = c1
    c2 = c2
    NoId = NoId
    Contracts = {A, B, C}
    Payloads <- MCIds
    Prices = {2, 4}
    Clients = {c1, c2}
    Acts = {"cancel", "squareoff", "touch"}
    MaxSingle = 3
    MaxPerSymbol = 3
    MaxOpen = 2
    Capital = 10
    Brake = 1
    ShortMargin = 3
    MaxOrders = 4
SPECIFICATION BookSpec
INVARIANTS BookTypeOK BookIsNetOfLegs OpenBounded OneOrderPerClientId
PROPERTIES AddsAreCovered
CHECK_DEADLOCK FALSE
