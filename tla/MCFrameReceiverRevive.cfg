CONSTANTS
    Packets <- MixedFrames
    FrameIds = 8
    FirstFrameId = 7
    MaxGap = 2
    MaxPendingFrames = 2
    None = None
SPECIFICATION Spec
INVARIANT DroppedIsFinal
