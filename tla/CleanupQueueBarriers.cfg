SPECIFICATION Spec
CONSTANTS
    Lease = {l1}
    Prewarmed = {p1}
    Worker = {w1, w2}
    Drainer = {x1}
    Closer = {c1}
    MaxLeases = 1
    Capacity = 1
    NoDatabase = NoDatabase
    Nobody = Nobody
    Caller = Caller
SYMMETRY Symmetry
INVARIANT OrphanClosesAdmission
INVARIANT NoLostWakeup
INVARIANT QueueOutlivesWork
INVARIANT DrainSound
INVARIANT ExactlyOnce
