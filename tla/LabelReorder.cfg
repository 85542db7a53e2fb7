\* Labels inserted in a subtree, then orderBefore/After on it.
CONSTANTS
    AllInst <- MCAllInst
    Params = {0, 1}
    InitTree <- MCInitTree
    Labels <- LabelIds
    MaxSteps = 2
    Ops <- LabelReorderOps
    MupaChoices <- MCMupaChoices
    TileSizeChoices <- MCTileSizeChoices
    ScaleChoices <- MCScaleChoices
    OptionChoices <- MCOptionChoices
    ContextChoices <- MCContextChoices
    FilterChoices <- MCFilterChoices
SPECIFICATION Spec
\* A run is a bounded sequence of calls: it stops after MaxSteps.
CHECK_DEADLOCK FALSE
PROPERTY LabelsSurviveReorder
