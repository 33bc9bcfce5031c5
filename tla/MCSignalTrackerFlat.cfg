CONSTANTS
    c1 = c1
    c2 = c2
    r1 = r1
    r2 = r2
    Signals = {c1}
    Dir <- MCDir
    Level <- MCLevel
    Prices <- MCPrices
    Births <- MCBirths
    Symbol <- MCSymbol
    Requests = {r1}
    Acts = {"execute"}
    TickLots = 2
    Lots = {2}
    Degraded = {FALSE}
    Qty = 2
    DayLen = 3
    CloseAt = 2
    Ttl = 1
    TimeStop = 0
    RunnerTtl = 0
    RunnerMax = 1
    MaxSignals = 2
    MaxTime = 2
    MaxVersion = 9
SPECIFICATION TrackerSpec
INVARIANTS TerminalIsFlat
CHECK_DEADLOCK FALSE
