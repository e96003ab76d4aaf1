\* gzip's own deflate on a small window; the hash of the first two bytes races.
CONSTANTS
    WSIZE = 16
    MAX_MATCH = 5
    TOO_FAR = 5
    LIT_BUFSIZE = 9
    ProbeInterval = 6
    HASH_BITS = 6
    HASH_SIZE = 64
    UPDATE_HASH <- XorHash
    Levels = {1, 4, 9}
    configuration_table <- MCTable
    Bytes = {0, 1, 2, 3, 4, 5, 6, 7}
    Short = 7
    Inputs <- MCRaced
    MaxMixed <- OneMixed
    Stale = {0, 1}
SPECIFICATION Spec
INVARIANTS
    DecodesToInput
    MatchesInReach
    CandidatesSound
    BlockTextRight
