CONSTANTS
    Packets <- FourFrames
    FrameIds = 8
    FirstFrameId = 7
    MaxGap = 6
    MaxPendingFrames = 5
    None = None
SPECIFICATION Spec
PROPERTY CompleteIsDelivered
