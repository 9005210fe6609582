SPECIFICATION Spec
CONSTANTS
    Values = {1, 2}
    Tokens = {"t", "u"}
    Token = "t"
    Amounts = {2}
    PageLimit = 2
    LeafLimit = 2
    MaxInputs = 3
    MaxNotes = 2
    MaxLeaves = 2
INVARIANT
    InputsShareTheToken
CHECK_DEADLOCK FALSE
