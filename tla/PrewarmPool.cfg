SPECIFICATION FairSpec
CONSTANTS
    Database = {d1, d2, d3}
    Borrower = {b1, b2}
    Capacity = 2
    MaxLeases = 2
    Filler = Filler
    User = User
    Server = Server
    NoDatabase = NoDatabase
INVARIANTS SlotsExact TokensBacked LeftoverClosesAdmission ShutdownClosesPool
PROPERTIES ClosedPoolEnds
