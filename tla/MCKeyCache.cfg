SPECIFICATION CacheSpec
CONSTANTS
    Caller = {r1, r2}
    Kid = {k1, k2}
    CacheTtl = 2
    Timeout = 1
    MaxTicks = 4
    MaxRotations = 2
SYMMETRY Symmetry
INVARIANTS TrustedWasPublished UnknownWasUnpublished
