CONSTANTS
    c1 = c1
    Signals = {c1}
    Dir <- MCDir
    Level <- MCLevel
    Prices <- MCPrices
    Births <- MCBirths
    Qty = 2
    DayLen = 3
    CloseAt = 2
    Ttl = 0
    TimeStop = 0
    RunnerTtl = 0
    RunnerMax = 1
    MaxSignals = 0
    MaxTime = 5
    MaxVersion = 6
SPECIFICATION FairSpec
INVARIANTS TypeOK TerminalSettled
PROPERTIES StopOnlyTightens VersionCountsMoves TerminalIsFinal OnlyTerminalPruned PreTriggerExpires
CHECK_DEADLOCK FALSE
