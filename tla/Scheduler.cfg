SPECIFICATION FairSchedulerSpec
CONSTANTS
    w1 = w1  w2 = w2
    Exchanges <- MCExchanges
    Sessions <- MCSessions
    DayLength = 4
    Horizon = 3
    RecalcEvery = 2
    SyncEvery = 2
    Workers = {w1, w2}
    Backlog = 1
    Include <- WithScheduler
    WorkersFail = TRUE
CHECK_DEADLOCK FALSE
INVARIANTS AtMostOnce BatchAfterClose
 
