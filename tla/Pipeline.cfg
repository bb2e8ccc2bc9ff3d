SPECIFICATION FairPipeSpec
CONSTANTS
    Event = {1, 2, 3}
    Worker = {w1, w2}
    Batch = 2
    MaxFaults = 1
    MaxExpiry = 1
INVARIANTS OncePerWindow StreamedInOrder
PROPERTIES DeliversEvents EventuallyPublished
