\* Five files, one of which does not load and one that is no mapping; three edits,
\* two saves and one edit by hand.
CONSTANTS
    None = None
    Committed <- MCCommitted
    CaseIds = {"a", "b", "c"}
    Typed = {"v"}
    Tags <- MCTags
    Strings <- MCStrings
    Slugs = {"smoke", "slow"}
    MaxCommits = 1
    MaxEdits = 3
    MaxSaves = 2
SPECIFICATION FileSpec
PROPERTIES
    SavesWhatItAnswers
    CommentsStay
    UntouchedStays
\* The edits and saves may be used up.
CHECK_DEADLOCK FALSE
