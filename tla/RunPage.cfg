\* One page on a scenario of one case of at most one step. Everything may be
\* over, so the end of all steps is no deadlock.
SPECIFICATION FairPageSpec
CHECK_DEADLOCK FALSE
CONSTANTS
    NumCases = 1
    MaxSteps = 1
    Watchers = {w1}
INVARIANTS
    OneEnding
    EndIsTheVerdict
    DeliversWhatItKnows
PROPERTIES
    TimelineGrows
    PageIsTold
