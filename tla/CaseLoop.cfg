\* Two screens and three kinds of action let a repetition start, stop and start
\* again within the four steps. HistoryWindow is small, so it moves; the loop
\* thresholds are the code's. A case that is over has no next step.
SPECIFICATION FairSpec
CHECK_DEADLOCK FALSE
CONSTANTS
    Screens = {home, form}
    DeviceActions = {tap}
    Facts = {code, total}
    MaxSteps = 4
    HistoryWindow = 2
    LoopWarnAfter = 2
    LoopNoteAfter = 3
INVARIANTS
    FactsSurvive
    VerdictIsEarned
    NothingIsHeld
PROPERTIES
    StalledWereWarned
    CaseEnds
