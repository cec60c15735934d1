SPECIFICATION FairSpec
CONSTANTS
    None = None
    FeedPeriod = 2  MaxBurst = 1  IntLimit = 5  ExtLimit = 6
    Sec = 3  WaitTicks = 2  ResetPeriod = 10  B = 2  Saved = {3}
INVARIANTS NoFalseReset StampIsShown NeverFast
PROPERTIES HangEnds ClockRuns
