SPECIFICATION FairSpec
CONSTANTS
    Key = {k1, k2}
    Member = {1, 2}
    Worker = {w1}
    Addr = {a1, a2}
    txt = txt
    Text <- MCText
    MinInt <- MCMinInt
    MaxInt = 2
    SetArg <- TxtArg
    TtlArg <- TxtOrOne
    ScoreArg <- TxtOrOne
    QueryArg <- Queries
    MaxWorks = 0
    LargeSize = 1
    MaxClock = 1
    Null = Null
PROPERTIES ImplementsStore DueEntriesExpire
