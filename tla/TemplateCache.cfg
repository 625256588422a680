SPECIFICATION FairSpec
CONSTANTS
    Fingerprint = {f1, f2, f3, f4}
    Caller = {c1, c2, c3}
    Flight = {n1, n2, n3}
    NoFingerprint = NoFingerprint
    NoFlight = NoFlight
INVARIANT OneTemplate
INVARIANT CacheBounded
PROPERTY WaiterGetsWinner
PROPERTY EndedFlightWakes
