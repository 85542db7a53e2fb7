------------------------------ MODULE JoinLoop ------------------------------
(***************************************************************************)
(* The while loop of joinBandsIterative, one iteration per step: while     *)
(* joinBandsHelper reports that it stacked the only child band under the  *)
(* band at node, the grandchildren become node's children and the loop    *)
(* goes on; once it reports nothing to join, the permutable flag is set   *)
(* and the call returns.                                                   *)
(***************************************************************************)
EXTENDS BandTransforms, ScheduleSemantics

CONSTANT Trees   \* the trees the call may be made on

VARIABLES
    tree,          \* the schedule tree, mutated by the joins
    node,          \* the band the call was made on
    permutable,    \* the argument of the call
    moveChildren,  \* the loop variable of the while
    done           \* the call has returned

vars == <<tree, node, permutable, moveChildren, done>>

Init ==
    /\ tree \in Trees
    /\ node \in {p \in Paths(tree) : NodeAt(tree, p).kind = "band"}
    /\ permutable \in BOOLEAN
    /\ moveChildren = TRUE
    /\ done = FALSE

\* A variant of the loop body that leaves the loop variable set.
IterateKeepsFlag ==
    LET h == JoinBandsHelper(tree, node)
    IN  /\ moveChildren
        /\ tree' = IF h.moveChildren THEN MoveGrandchildren(h.tree, node) ELSE h.tree
        /\ UNCHANGED <<node, permutable, moveChildren, done>>

\* One pass of the while body: join the only child band, if there is one,
\* and detach the grandchildren onto node.
Iterate ==
    LET h == JoinBandsHelper(tree, node)
    IN  /\ moveChildren
        /\ tree' = IF h.moveChildren THEN MoveGrandchildren(h.tree, node) ELSE h.tree
        /\ moveChildren' = h.moveChildren
        /\ UNCHANGED <<node, permutable, done>>

\* The loop has exited: set permutable_ and return.
Return ==
    /\ ~moveChildren
    /\ ~done
    /\ tree' = SetPermutable(tree, node, permutable)
    /\ done' = TRUE
    /\ UNCHANGED <<node, permutable, moveChildren>>

Next == Iterate \/ Return

\* The loop is straight-line code with no waiting: an enabled step is
\* eventually taken.
Fairness == WF_vars(Iterate) /\ WF_vars(Return)

Spec == Init /\ [][Next]_vars /\ Fairness

-----------------------------------------------------------------------------
(* Properties.                                                             *)

\* The instances run and their timestamps, leaves aside.
ExecSet(t) == {<<e.inst, e.ts>> : e \in Executions(t)}

\* Every iteration keeps what runs and when: the child band's members are
\* appended after the band's own (flat_range_product), so each instance's
\* timestamp is unchanged by each join, not only by the whole call.
JoinKeepsExecutions == [][ExecSet(tree') = ExecSet(tree)]_vars

\* The call returns: each iteration that joins removes a band from the
\* tree, and the first one that finds no child band clears the loop
\* variable.
Terminates == <>done

=============================================================================
