CONSTANTS
    p1 = p1
    Signals = {p1}
    Dir <- MCDir
    Level <- MCLevel
    Prices = {6}
    Births <- MCBirths
    Qty = 2
    DayLen = 2
    CloseAt = 1
    Ttl = 0
    TimeStop = 1
    RunnerTtl = 1
    RunnerMax = 1
    MaxSignals = 1
    MaxTime = 3
    MaxVersion = 4
    Exits = {"STOP_LOSS_HIT"}
    Results = {"WON"}
    MaxBoots = 1
    MaxJobs = 1
SPECIFICATION RestoreFairSpec
INVARIANTS RestoreTypeOK RestartIdempotent NothingForgotten NoStaleEntry
PROPERTIES WaitingEnds
CHECK_DEADLOCK FALSE
