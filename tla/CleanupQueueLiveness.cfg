SPECIFICATION ScenarioSpec
CONSTANTS
    Lease = {l1}
    Prewarmed = {p1}
    Worker = {w1}
    Drainer = {x1}
    Closer = {c1}
    MaxLeases = 1
    Capacity = 1
    NoDatabase = NoDatabase
    Nobody = Nobody
    Caller = Caller
PROPERTY CleanupCompletes
PROPERTY ShutdownEnds
PROPERTY ImplementsService
