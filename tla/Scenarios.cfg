\* Two scenarios, five moves of the user, one failing request, one file to apply.
CONSTANTS
    login = login
    search = search
    Listing <- MCListing
    Card = login
    Files <- MCFiles
    MaxMoves = 5
    MaxFaults = 1
SPECIFICATION Spec
INVARIANTS
    OwnSavesSurvive
    EveryRunWasAskedFor
PROPERTIES
    ApplyIsHonest
\* The user and the command do what they do once.
CHECK_DEADLOCK FALSE
