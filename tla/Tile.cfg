\* Tiling, and the band calls around it, two calls per run, on a tree
\* whose outer band has a reversed member.
CONSTANTS
    AllInst <- MCAllInst
    Params = {0, 1}
    InitTree <- TileInitTree
    Labels <- LabelIds
    MaxSteps = 2
    Ops <- TileOps
    MupaChoices <- MCMupaChoices
    TileSizeChoices <- TileTileSizeChoices
    ScaleChoices <- MCScaleChoices
    OptionChoices <- MCOptionChoices
    ContextChoices <- MCContextChoices
    FilterChoices <- MCFilterChoices
SPECIFICATION Spec
\* A run is a bounded sequence of calls: it stops after MaxSteps.
CHECK_DEADLOCK FALSE
INVARIANT
    PathToRootIsAncestors
PROPERTIES
    TileSplitsMembers
