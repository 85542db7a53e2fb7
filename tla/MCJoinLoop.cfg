\* joinBandsIterative on every band of chains of up to three bands.
CONSTANTS
    AllInst <- MCAllInst
    Trees <- MCTrees
SPECIFICATION Spec
\* The call ends once it has returned.
CHECK_DEADLOCK FALSE
PROPERTIES
    JoinKeepsExecutions
    Terminates
