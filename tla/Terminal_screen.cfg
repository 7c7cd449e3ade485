SPECIFICATION MCSpec
CONSTANTS
    Available = 5
    WideChars = {19968}
    ZeroChars = {768}
    TabInterval = 2
    MaxTabs = 2
    PipeSize = 2
    UnsetWidth = 1
    Outputs <- MCOutputs
    Initial <- MCInitial
    Sizes <- MCSizes
    Presses <- MCPresses
    Mice <- MCMice
    CharHeight = 24
    CharWidth = 8
    Margin = 4
    MaxScrollback = 5
    MaxSteps = 3
INVARIANTS DisplayIsBuffer WideIntact PipeComplete
PROPERTIES SelectionFollowsText FramesCatchUp
CHECK_DEADLOCK FALSE
