\* All entry points, two calls per run.
CONSTANTS
    AllInst <- MCAllInst
    Params = {0, 1}
    InitTree <- MCInitTree
    Labels <- LabelIds
    MaxSteps = 2
    Ops <- MCOps
    MupaChoices <- MCMupaChoices
    TileSizeChoices <- MCTileSizeChoices
    ScaleChoices <- MCScaleChoices
    OptionChoices <- MCOptionChoices
    ContextChoices <- MCContextChoices
    FilterChoices <- MCFilterChoices
SPECIFICATION Spec
\* A run is a bounded sequence of calls: it stops after MaxSteps.
CHECK_DEADLOCK FALSE
INVARIANTS
    TypeOK
    DomainExecutedOnce
PROPERTIES
    OrderKeptByRestructuring
    ReorderedAsAsked
    LabelRunsAtNode
