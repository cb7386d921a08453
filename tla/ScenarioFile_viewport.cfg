\* The files of ScenarioFile.cfg, opened and saved without an edit.
CONSTANTS
    None = None
    Committed <- MCCommitted
    CaseIds = {"a", "b", "c"}
    Typed = {"v"}
    Tags <- MCTags
    Strings <- MCStrings
    Slugs = {"smoke", "slow"}
    MaxCommits = 1
    MaxEdits = 0
    MaxSaves = 2
SPECIFICATION FileSpec
\* The edits and saves may be used up.
CHECK_DEADLOCK FALSE
PROPERTIES
    NothingIsDeletedUnseen
