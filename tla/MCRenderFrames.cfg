CONSTANTS
    MeshCapacity = 2
    TextureCapacity = 0
    MaterialCapacity = 0
    GenMax = 2
    FramesInFlight = 2
    Images = {im1, im2, im3}
    Formats = {"srgb", "unorm"}
    Delays = {0}
    MaxFrames = 4
SPECIFICATION Spec
INVARIANTS
    RecordsIdleBuffers
    PipelinesMatchSwapchain
    CaptureIsComplete
    SlotsOwnObjects
PROPERTY DrawReturns
CHECK_DEADLOCK FALSE
