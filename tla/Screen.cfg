\* Every page of three elements of fourteen kinds and every dump of three
\* widgets of six; the viewport shows three of them at most, at two scroll positions.
CONSTANTS
    Documents <- MCDocuments
    Height = 5
    Scrolls = {0, 3}
SPECIFICATION ScreenSpec
INVARIANTS
    ControlsAreTargets
    WordsAreKept
    OneTargetPerControl
