SPECIFICATION LimiterSpec
CONSTANTS
    Key = {k1, k2}
    Cost = 2
    Full = 4
    Ttl = 3
    MaxTime = 9
INVARIANTS WithinRate IdleBucketsGo
PROPERTIES LimitsLikeBucket
