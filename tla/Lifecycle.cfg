SPECIFICATION FairSpec
CHECK_DEADLOCK FALSE
CONSTANTS
    caller = caller
    b1 = b1
    b2 = b2
    Ptb = Ptb
    None = None
    First = b1
    Callers <- OneCaller
    Background <- TwoLoops
    MaxTroubles = 1
INVARIANTS
    LifecycleInv
PROPERTIES
    SubmittedIsAnswered
    StopCompletes
