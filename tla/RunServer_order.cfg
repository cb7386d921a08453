\* A batch of three beside a single run, a clock that may step back, one fault, one restart.
CONSTANTS
    single = single
    batch = batch
    Requests = {single, batch}
    Size <- LongBatch
    Clock = {1, 2}
    MaxFaults = 1
    MaxRestarts = 1
    LostReplies = FALSE
    NoRun = NoRun
SPECIFICATION Spec
INVARIANTS
    BatchOrder
PROPERTIES
    KeepsHistory
\* Clients post once each: when all is settled nothing is left to do.
CHECK_DEADLOCK FALSE
