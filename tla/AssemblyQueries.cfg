SPECIFICATION FairSpec
CONSTANTS
    Values = {1, 2}
    Tokens = {"t"}
    Token = "t"
    Amounts = {2, 4}
    PageLimit = 2
    LeafLimit = 2
    MaxInputs = 3
    MaxNotes = 3
    MaxLeaves = 3
INVARIANTS
    TypeOK
    CoversAndNoMore
    NoNoteTwice
    PagesDoNotMatter
    OnlyTiesAreSkipped
    TreeIsWhatWasStored
    InputsAreInTheTree
PROPERTY
    SelectionEnds
CHECK_DEADLOCK FALSE
