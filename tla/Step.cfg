\* Two screens, one change nobody commanded, one fault; two steps. Without personas,
\* with one and with two; in either format.
CONSTANTS
    None = None
    Trees <- MCTrees
    Settings <- MCSettings
    Responses <- MCResponses
    PollAttempts = 2
    MaxAttempts = 2
    MaxSteps = 2
    MaxMoves = 1
    MaxFaults = 1
SPECIFICATION FairSpec
INVARIANTS
    MovesAreAnswers
    ReviewsAreWhole
    ReviewsStayInTheirStep
PROPERTIES
    StepsEnd
\* The case ends.
CHECK_DEADLOCK FALSE
