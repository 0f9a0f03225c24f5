SPECIFICATION ReapSpec
CONSTANTS
    N = 2
    MaxFrames = 1
    MaxBacklog = 1
    IdleTimeout = 1
PROPERTY OnlyIdleReaped
