\* Each command on a run of one event before its end, through a restart, a
\* failing answer and a comment on the stream. A command that is over has no
\* next step.
SPECIFICATION FairSpec
CHECK_DEADLOCK FALSE
CONSTANTS
    Steps = 1
    AppearAttempts = 2
    MaxPolls = 2
    MaxRestarts = 1
    MaxFaults = 1
    MaxComments = 1
INVARIANTS
    ExitIsTheVerdict
    TimelineIsPrinted
PROPERTIES
    WeatherIsNoAnswer
    CommandEnds
