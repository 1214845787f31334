\* Two handlers at a time, two connections, a queue that overflows.
CONSTANTS
    t1 = t1
    t2 = t2
    Targets <- MCTargets
    Tasks <- MCTasks
    OutMax = 3
    MaxChanges = 2
    MaxStarts = 2
    MaxObserves = 1
    MaxLinks = 2
    MaxEnds = 1
SYMMETRY MCSymmetry
SPECIFICATION Spec
INVARIANTS
    TypeOK
    NumbersAscend
    NothingSkipped
CHECK_DEADLOCK FALSE
