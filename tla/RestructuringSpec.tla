------------------------- MODULE RestructuringSpec -------------------------
(***************************************************************************)
(* What the restructuring entry points promise, without any tree: the      *)
(* execution order of the domain instances never changes, and the only     *)
(* visible effect of a call is that a label asked for starts to run, and   *)
(* runs from then on.                                                      *)
(***************************************************************************)
CONSTANTS
    InitOrder,   \* the order of the domain instances: pairs <<x, y>>
    Labels       \* the label ids

VARIABLES
    order,       \* the execution order of the domain instances
    requested,   \* the labels asked for
    placed       \* the labels that run

vars == <<order, requested, placed>>

Init ==
    /\ order = InitOrder
    /\ requested = {}
    /\ placed = {}

AddLabel(l) ==
    /\ l \notin requested
    /\ requested' = requested \cup {l}
    /\ placed' = placed \cup {l}
    /\ UNCHANGED order

Next == \E l \in Labels : AddLabel(l)

Spec == Init /\ [][Next]_vars

=============================================================================
