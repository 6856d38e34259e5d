SPECIFICATION LineSpec
CONSTANTS
    MaxLineBytes = 4
    BufferSize = 2
    MaxLength = 7
    MaxLines = 3
CHECK_DEADLOCK FALSE
INVARIANTS
    LinesFaithful
    UnendedLineEmitted
