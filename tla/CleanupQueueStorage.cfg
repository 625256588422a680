SPECIFICATION Spec
CONSTANTS
    Lease = {l1, l2, l3, l4}
    Prewarmed = {}
    Worker = {w1}
    Drainer = {}
    Closer = {}
    MaxLeases = 1
    Capacity = 1
    NoDatabase = NoDatabase
    Nobody = Nobody
    Caller = Caller
SYMMETRY Symmetry
INVARIANT StorageBound
