CONSTANTS
    ToolSlots = {0, 1}
    Usages <- MCUsages
    MaxChunks = 6
    MaxBlocks = 3
SPECIFICATION Spec
INVARIANTS
    
    TerminalMeansComplete
    NoTextLost
    
