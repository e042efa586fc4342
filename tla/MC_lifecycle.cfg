SPECIFICATION FairSpec
CONSTANTS
    h1 = h1
    l1 = l1
    Nil = Nil
    OldKey = OldKey
    NewKey = NewKey
    Handlers <- OneHandler
    Leaves <- OneLeaf
    MaxIndex = 2
    MaxCrashes = 2
    Heartbeat = TRUE
    Faults <- HeadsAndAcks
    MMDs <- GoodAndOverflowing
    Second = 1
    Width = 3
INVARIANTS LifeTypeOK RepliesHold
PROPERTIES ServerKept Answered EventuallyCovered ShutdownEnds ServesAgain LatestVerifies
