SPECIFICATION FairSpec
CONSTANTS
    Connections = {c1, c2}
    Names = {site}
    TtlMinutes <- SomeTtls
    Minute = 2
    Word = 8
    None = None
    MaxVersions <- TwoThenOne
    MaxClock = 2
INVARIANTS
    TypeOK
    AnswersBelong
    OnlyWaitersQueue
PROPERTIES
    HitsAreFresh
    RequestsResolve
