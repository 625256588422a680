SPECIFICATION Spec
CONSTANTS
    Database = {d1, d2}
    Borrower = {b1}
    Capacity = 1
    MaxLeases = 1
    Filler = Filler
    User = User
    Server = Server
    NoDatabase = NoDatabase
SYMMETRY Symmetry
INVARIANT IdleQueuedBeforeBarrier
