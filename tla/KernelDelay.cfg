SPECIFICATION Spec
CONSTANTS
    startup = startup  alpha = alpha  bravo = bravo  charlie = charlie  idle = idle
    NULL = NULL  Mark = Mark
    Task <- MCTask  Created <- MCCreated  Starter = startup  Idle = idle
    BitTicks <- DelayBit  Base <- DelayBase  Period <- DelayPeriod  Until <- DelayUntil  Loggers <- DelayLog
    MaxPriorities = 3  W = 6  TakeTicks = 2  MaxPended = 2
INVARIANTS TypeOK Filed Punctual
PROPERTIES SleepsExactly
