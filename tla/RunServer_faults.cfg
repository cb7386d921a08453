\* Two requests, two failing store operations (also with the reply alone lost), one restart.
CONSTANTS
    single = single
    batch = batch
    Requests = {single, batch}
    Size <- MCSize
    Clock = {1}
    MaxFaults = 2
    MaxRestarts = 1
    LostReplies = TRUE
    NoRun = NoRun
SPECIFICATION FairSpec
INVARIANTS
    QueueAgreesWithStore
    NoOrphans
PROPERTIES
    AcceptedRunsSettle
\* Clients post once each: when all is settled nothing is left to do.
CHECK_DEADLOCK FALSE
