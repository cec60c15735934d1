SPECIFICATION Spec
CONSTANTS
    startup = startup  alpha = alpha  bravo = bravo  charlie = charlie  idle = idle
    NULL = NULL  Mark = Mark
    Task <- MCTask  Created <- MCCreated  Starter = startup  Idle = idle
    BitTicks <- MutexBit  Base <- MutexBase  Period <- MutexPeriod  Until <- MutexUntil  Loggers <- MutexLog
    MaxPriorities = 4  W = 4  TakeTicks = 2  MaxPended = 1
INVARIANTS HighestRuns NoLostWakeup Inheritance WaitsTheRest
PROPERTIES FailsOnTime
