SPECIFICATION Spec
CONSTANTS
    Frequencies <- MCFrequencies
    elems = 7
    HEAP_SIZE = 15
    max_length = 3
    MAX_BITS = 4
    extra_base = 3
    extra_bits <- MCExtraBits
    HasStatic = TRUE
    static_len <- MCStaticLengths
INVARIANTS
    CodeComplete
    PrefixFree
    CostCounted
    CodeOptimal
