CONSTANTS
    MeshCapacity = 1
    TextureCapacity = 1
    MaterialCapacity = 1
    GenMax = 2
    FramesInFlight = 2
    Images = {im1, im2}
    Formats = {"srgb"}
    Delays = {0, 3}
    MaxFrames = 5
SPECIFICATION Spec
SYMMETRY Symmetry
INVARIANTS
    ResourcesOutliveFrames
    NothingStaleIsDrawn
CHECK_DEADLOCK FALSE
