SPECIFICATION Spec
CONSTANTS
    Byte <- MCByte
    Chunk = 2
    MaxFile = 7
    MaxPattern = 4
    None = None
INVARIANTS
    NeverPanics
