----------------------------- MODULE MergeLoop -----------------------------
(***************************************************************************)
(* The while loop of mergeConsecutiveMappingFilters, one iteration per     *)
(* step: collect the mapping filters below node in preorder, merge the     *)
(* first one whose parent is a mapping filter with the same number of      *)
(* tuples, and rescan; return node once a scan merges nothing.  The        *)
(* id CHECK aborts the program ("fatal"); merging node itself away leaves  *)
(* the loop scanning a destroyed node ("dangling").  Both end the run.     *)
(***************************************************************************)
EXTENDS Reorder, ScheduleSemantics

CONSTANT Trees   \* the trees the call may be made on

VARIABLES
    tree,      \* the schedule tree, mutated by the merges
    node,      \* the node the call was made on
    changed,   \* the loop variable of the while
    status     \* "running", "returned", "fatal" or "dangling"

vars == <<tree, node, changed, status>>

Init ==
    /\ tree \in Trees
    /\ node \in Paths(tree)
    /\ changed = TRUE
    /\ status = "running"

\* The CHECK_EQ of the merge: an id of f is already mapped by its parent.
IdClash(t, f) == NodeAt(t, f).ids \cap NodeAt(t, Parent(f)).ids # {}

\* One pass of the while body: changed is reset, then the first mergeable
\* filter in preorder is merged into its parent, or nothing is.
Iterate ==
    LET cands == SelectSeq(MappingFiltersPreorder(tree, node),
                           LAMBDA f : Mergeable(tree, f))
        f == cands[1]
    IN  /\ status = "running"
        /\ changed
        /\ CASE cands = <<>> ->
                  changed' = FALSE /\ UNCHANGED <<tree, status>>
             [] IdClash(tree, f) ->
                  status' = "fatal" /\ UNCHANGED <<tree, changed>>
             [] OTHER ->
                  /\ tree' = MergeInto(tree, f)
                  /\ changed' = TRUE
                  /\ status' = IF f = node THEN "dangling" ELSE "running"
        /\ UNCHANGED node

\* The loop exits and the call returns node.
Return ==
    /\ status = "running"
    /\ ~changed
    /\ status' = "returned"
    /\ UNCHANGED <<tree, node, changed>>

Next == Iterate \/ Return

\* Once called, the loop runs to its end: it is straight-line code with no
\* waiting, so each enabled step is eventually taken.
Fairness == WF_vars(Iterate) /\ WF_vars(Return)

Spec == Init /\ [][Next]_vars /\ Fairness

-----------------------------------------------------------------------------
(* Properties.                                                             *)

\* The instances run and their timestamps, leaves aside.
ExecSet(t) == {<<e.inst, e.ts>> : e \in Executions(t)}

\* Every merge keeps what runs and when: the parent filter takes the
\* intersection and the merged filter's child takes its place, so each
\* instance still runs with the same timestamp.
MergeKeepsExecutions == [][ExecSet(tree') = ExecSet(tree)]_vars

\* The call terminates: every scan either merges a node, which makes the
\* tree smaller, or ends the loop.
Terminates == <>(status # "running")

=============================================================================
