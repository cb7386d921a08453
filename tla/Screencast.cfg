\* One tab that opens two sockets, one after the other, a case with a recorder,
\* two pages of the view and two faults. All may be over, which is no deadlock.
SPECIFICATION FairSpec
CHECK_DEADLOCK FALSE
CONSTANTS
    Sockets = {s1, s2}
    Recorder = Recorder
    NoSocket = NoSocket
    Pages = {p1, p2}
    CasePage = CasePage
    MaxFaults = 1
INVARIANTS
    ScreencastFollowsSubscribers
    PictureIsOfItsSocket
    CaseLeavesNothing
PROPERTIES
    StreamsEnd
