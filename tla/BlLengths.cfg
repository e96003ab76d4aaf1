SPECIFICATION Spec
CONSTANTS
    Frequencies <- MCBlFrequencies
    elems = 19
    HEAP_SIZE = 39
    max_length = 15
    MAX_BITS = 15
    extra_base = 0
    extra_bits <- MCBlExtraBits
    HasStatic = FALSE
    static_len = 0
INVARIANT BlLengthsFit
