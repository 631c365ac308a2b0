CONSTANTS
    Base <- MCBase
    Reserved = 5
    Granularity = 3
    BlockSizes = {1, 3}
    Aligns = {1, 2}
    MaxBlocks = 2
    MaxMarks = 2
    Meshes = {1, 2}
    Materials = {1, 2}
    PipelineKey <- MCPipelines
    MaxDrawItems = 3
    MaxSubmitted = 2
    MaxDebugLines = 4
    AabbLines = 2
    SphereLines = 3
    TextLines = {1, 2}
    Fraction = 3
SPECIFICATION PartsSpec
INVARIANTS
    BlocksHold
    ShownAsSubmitted
    NumbersExact
