SPECIFICATION Spec
CONSTANTS
    WSIZE = 16
    MAX_MATCH = 5
    HASH_BITS = 4
    HASH_SIZE = 16
    UPDATE_HASH <- XorHash
    Bytes = {0, 1, 2, 3}
    TOO_FAR = 5
    LIT_BUFSIZE = 10
    ProbeInterval = 7
    max_lazy_match = 5
    good_match = 4
    nice_match = 5
    max_chain_length = 8
    Inputs <- MCInputs
    Stale <- MCStale
INVARIANTS
    MatchesInReach
    DecodesToInput
    StoredBlockIntact
    ChainsSound
    FailsOnlyAtEnd
