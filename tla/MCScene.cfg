SPECIFICATION Spec
CONSTANTS
    v1 = v1
    o1 = o1
    o2 = o2
    b1 = b1
    b2 = b2
    None = None
    Views <- OneView
    Outputs <- TwoOutputs
    Buffers <- TwoBuffers
    Len = 2
    FadeLen = 2
    MaxNodes = 2
    MaxReloads = 1
INVARIANTS BufferLockedOnce OneSnapshot
PROPERTIES BorderGoes ClosingEnds FadeEnds
