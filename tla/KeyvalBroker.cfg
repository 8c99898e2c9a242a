SPECIFICATION FairSpec
INVARIANT ViewsConverge
PROPERTIES PrefixesSound WatchEnds
CONSTANTS
    Keys = {1, 2}
    p = p
    q = q
    KeyPrefixes = {p, q}
    KeysOf <- MCKeysOf
    v = v
    Empty = Empty
    None = None
    Vals = {v, Empty}
    MaxWrites = 2
CHECK_DEADLOCK FALSE
