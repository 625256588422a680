SPECIFICATION FairSpec
CONSTANTS
    Root = Root
    Child = Child
    Session = {s1, s2}
    Template = {Root}
    Parent <- RootOnly
    Harness = {}
    StaleAfter = 1
    MaxClock = 1
    MaxFaults = 1
    NoTemplate = NoTemplate
    NoSession = NoSession
    Sweeper = Sweeper
PROPERTY AttemptEnds
