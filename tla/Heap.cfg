SPECIFICATION HeapSpec
CONSTANTS
    Ref = {r1, r2, r3, r4, r5, r6}
    Val = {1, 2, 3}
    Null = Null
SYMMETRY MCHeapSym
INVARIANTS BackRefs RootIsLeast
PROPERTIES ImplementsTimers SiftProgresses
