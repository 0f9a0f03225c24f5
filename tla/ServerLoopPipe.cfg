SPECIFICATION Spec
CONSTANTS
    N = 1
    MaxFrames = 3
    MaxBacklog = 1
    IdleTimeout = 1
INVARIANTS PipelineOrder InterestExact
PROPERTY GracefulClose
