CONSTANTS
    NodeIds = {1, 2, 3, 4}
    TieIds = {1, 2}
    InputsOf <- MCInputsOf
    DefaultOf <- MCDefaultOf
    Takes <- MCTakes
    Emitters = {1}
    Previews = {4}
    MaxBytes = 3
    NotFinite = 99
    Files <- MCFiles
    EditsFrom <- MCEditsFrom
    Libraries <- MCLibraries
    MaxFrames = 1
    Values = {1}
SPECIFICATION Spec
INVARIANT NothingIsMalformed
