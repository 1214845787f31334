\* Races, a crash, lost answers, attention and a resume, with progress.
CONSTANTS
    p1 = p1
    p2 = p2
    Prompts <- MCPrompts
    MaxTurns = 3
    Setups <- MCSetups
    StoreMayFail = FALSE
SPECIFICATION FairSpec
INVARIANTS
    TypeOK
    SentAtMostOnce
    AcceptedIsKept
    WithdrawnIsNotSent
PROPERTIES
    TimelyEntryResolves
CHECK_DEADLOCK FALSE
