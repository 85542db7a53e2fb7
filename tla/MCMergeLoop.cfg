\* The merge loop on every node of 66 small trees of mapping filters.
CONSTANTS
    AllInst <- MCAllInst
    Trees <- MCTrees
SPECIFICATION Spec
\* The call ends: returned, or stopped on the CHECK or the destroyed node.
CHECK_DEADLOCK FALSE
PROPERTIES
    MergeKeepsExecutions
    Terminates
