SPECIFICATION Spec
CONSTANTS
    Root = Root
    Child = Child
    Session = {s1, s2, s3}
    Template = {Root, Child}
    Parent <- RootAndChild
    Harness = {h1}
    StaleAfter = 1
    MaxClock = 1
    MaxFaults = 1
    NoTemplate = NoTemplate
    NoSession = NoSession
    Sweeper = Sweeper
SYMMETRY Symmetry
INVARIANTS HandleSound BuildUndisturbed SourceProtected
PROPERTY SweepOnlyAbandoned
CONSTRAINT Scenario
