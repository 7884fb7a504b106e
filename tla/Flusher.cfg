SPECIFICATION FlusherFairSpec
CONSTANT MaxStarts = 3
INVARIANTS
    FlusherTypeOK
    NoOrphanLoop
    RunningHasLoop
PROPERTIES
    LoopsEnd
CHECK_DEADLOCK FALSE
