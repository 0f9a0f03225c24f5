SPECIFICATION ResponseSpec
CONSTANTS
    W = 2
    B = 8
    MaxMsg = 12
    MaxArgs = 2
    Frames <- MCFrames
    ArgByte = {0, 1}
    MaxDepth = 64
    MaxReplies = 2
    Num <- MCNum
INVARIANTS
    ReadsInBounds
    ParsesExactly
    ResponsesExact
CHECK_DEADLOCK FALSE
