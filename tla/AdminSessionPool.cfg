SPECIFICATION Spec
CONSTANTS
    Caller = {c1, c2, c3}
    MaxSize = 2
    Session = {1, 2, 3, 4, 5}
    NoSession = NoSession
PROPERTIES NothingHangs ImplementsSlots
INVARIANTS SlotsExact NoStrandedWaiter SessionsExclusive ConnectionBound
