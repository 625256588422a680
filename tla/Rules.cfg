SPECIFICATION RulesSpec
CONSTANTS
    Permits <- MCPermits
    Durations <- MCDurations
    Images <- MCImages
    Settings <- MCSettings
    MaxCalls = 2
    PerMilli = 2
    EngineFloor = 12
    MaxI64 = 11
    LockTimeout = 4
    Grace = 2
    DefaultBudget = 12
    DefaultPerDatabase = 3
    DefaultTimeout = 10
    MaxU32 = 40
    MaxI32 = 20
    Unset = Unset
    Project <- MCProject
    TestSuffix <- MCTestSuffix
    Fingerprint <- MCFingerprint
    Parent = {"f3"}
    ShortHex <- MCShortHex
    Key = {"k1"}
    ForeignNames <- MCForeignNames
    Digits = {"a", "7"}
    TestLen = 3
    TemplateLen = 2
    MaxProjectLen = 3
    MaxTime = 1
    StaleAfter = 1
    MaxDatabases = 2
    MaxEdits = 1
    Caller = {1, 2}
    Domain <- MCDomain
    Label <- MCLabel
    Content <- MCContent
    MaxAdds = 1
    MaxDepth = 1
INVARIANTS SizesFit ConfigurationPreserved CommentsFaithful NamesDisjoint SweepOwn FingerprintsFaithful
CHECK_DEADLOCK FALSE
