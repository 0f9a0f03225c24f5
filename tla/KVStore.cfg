SPECIFICATION Spec
CONSTANTS
    Key = {k1, k2}
    Member = {1, 2}
    Worker = {w1, w2}
    Addr = {a1, a2, a3}
    txt = txt
    Text <- MCText
    MinInt <- MCMinInt
    MaxInt = 2
    SetArg <- OneArg
    TtlArg <- FewTtlArg
    ScoreArg <- OneArg
    QueryArg <- NoArg
    MaxWorks = 0
    LargeSize = 1
    MaxClock = 2
    Null = Null
SYMMETRY MCStoreSym
INVARIANTS TypeOK EntryOwnership TimerConsistency NoExpiredVisible NoLeakAtExit
PROPERTIES DisposedUntouched ImplementsStore
