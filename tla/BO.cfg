SPECIFICATION Spec
CONSTANTS
    ByteBits = 2
    OUTBUFSIZ = 3
    Inputs <- MCInputs
INVARIANTS
    BitsKept
    FileIsStream
    LengthCounted
