SPECIFICATION FairSpec
CONSTANTS
    Thread = {t1, t2, t3}
    Work = {w1, w2, w3}
    MaxSpurious = 1
    Owner = Owner
    Null = Null
INVARIANTS NoLostWakeup SyncObjectsAlive
PROPERTIES ImplementsWorkPool WorkDone DestroyReturns
