SPECIFICATION Spec
CONSTANTS
    N = 2
    MaxFrames = 1
    MaxBacklog = 1
    IdleTimeout = 1
INVARIANTS IdleListExact ReportedAlive
