\* Two viewers beside a web case, one failure and a restart of Chrome. MaxCommands
\* is more than they can send: a call takes three. All calls may be over.
SPECIFICATION FairSpec
CHECK_DEADLOCK FALSE
CONSTANTS
    NoOne = NoOne
    Viewers = {poll, stream}
    Cases = {case}
    Callers = {poll, stream, case}
    MaxCommands = 14
    MaxPages = 2
    MaxFaults = 1
    MaxRestarts = 1
INVARIANTS
    FailuresPass
    NothingStranded
PROPERTIES
    KeepsPromise
    CallsEnd
