SPECIFICATION FairSpec
CHECK_DEADLOCK FALSE
CONSTANTS
    forum = forum
    chat = chat
    Links <- TwoLinks
    Targets <- TwoTargets
    TargetOf <- TwoChats
    History <- ShortHistory
    Legacy <- OldEntry
    Page = 1
    MaxReplays = 2
    MaxCrashes = 1
    MaxFailures = 1
INVARIANTS
    HandedOnce
    NothingSkipped
PROPERTIES
    PublishedWhole
    KeepsReplayPromise
    StagedIsHandedOff
    ReplaysStart
