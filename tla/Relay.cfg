SPECIFICATION FairSpec
CONSTANTS
    Event = {1, 2, 3}
    Worker = {w1, w2}
    Batch = 2
    MaxFaults = 2
    MaxExpiry = 1
INVARIANTS TypeOK PublishedIsStored ExclusiveClaims OncePerWindow
PROPERTIES DeliversEvents EventuallyPublished
