SPECIFICATION FairSpec
CONSTANTS
    N = 1
    MaxFrames = 1
    MaxBacklog = 1
    IdleTimeout = 1
PROPERTIES RequestAnswered IdleReaped StopEnds
