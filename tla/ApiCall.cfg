CONSTANTS
    RetryMaxes <- MCRetryMaxes
    BaseDelays <- MCBaseDelays
    Headers <- MCHeaders
    Second = 2
    Top = 16
SPECIFICATION FairSpec
INVARIANTS BoundedEffects OneAnswer PauseLongEnough
PROPERTY RemoteSpec
CHECK_DEADLOCK FALSE
