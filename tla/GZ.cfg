CONSTANTS
    Scenes <- MCScenes
    INBUFSIZES = {3, 64}
    WSIZE = 8
    lbits = 2
    dbits = 1
    MAX_PEEK = 2
    CTABLE = 4
    PTABLE = 3
    SCALE = 6
    BITS = 11
    INBUF_EXTRA = 16
SPECIFICATION Spec
INVARIANTS Restores DamageNoticed AtMemberEnd PrefixRight
