SPECIFICATION Spec
CONSTANTS
    Event = {1}
    Worker = {w1, w2}
    Batch = 1
    MaxFaults = 1
    MaxExpiry = 1
INVARIANTS NoDoubleFire
