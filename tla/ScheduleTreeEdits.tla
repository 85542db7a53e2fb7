------------------------- MODULE ScheduleTreeEdits -------------------------
(***************************************************************************)
(* A caller applying the transformations of schedule_transforms.cc to one  *)
(* schedule tree, one call at a time (the code is single-threaded and      *)
(* mutates the tree in place).  Every action is one public entry point     *)
(* applied, whole, to a node and to inputs drawn from small sets; its     *)
(* guard is the caller contract the code CHECKs.  A call that reaches a   *)
(* failing CHECK or undefined behaviour stops the run ("failure").        *)
(***************************************************************************)
EXTENDS BandTransforms, TreeRestructure, Reorder, ScheduleSemantics

CONSTANTS
    InitTree,        \* the tree built upstream from the domain and schedule
    Labels,          \* fresh isl ids for extension labels
    MaxSteps,        \* number of calls in a run
    Ops,             \* names of the entry points a run may call
    MupaChoices,     \* schedules for insertBandAbove/Below
    TileSizeChoices, \* tileSizes vectors for bandTile
    ScaleChoices,    \* scales vectors for bandScale
    OptionChoices,   \* TileOptions flag sets
    ContextChoices,  \* contexts for updateTopLevelContext
    FilterChoices    \* filters for orderBefore/After

ASSUME InitTree.kind = "domain"
ASSUME MaxSteps \in Nat

VARIABLES
    tree,     \* the schedule tree, rooted at its Domain node
    lastOp,   \* history: the last call, its node, label, filter and tile arguments
    steps,    \* calls made so far
    labels,   \* label ids inserted so far
    failure   \* "none", or how the last call stopped the run

vars == <<tree, lastOp, steps, labels, failure>>

NoLabel == "none"
NoArgs == [sizes |-> <<>>, options |-> {}]

Init ==
    /\ tree = InitTree
    /\ lastOp = [name |-> "init", path |-> <<>>, label |-> NoLabel, filter |-> {},
                  args |-> NoArgs]
    /\ steps = 0
    /\ labels = {}
    /\ failure = "none"

\* A call of entry point name on the node at p, with label lbl, filter
\* argument f or tile arguments args, leaving the tree t2.
CallArgs(name, p, lbl, f, args, t2) ==
    /\ name \in Ops
    /\ steps < MaxSteps
    /\ failure = "none"
    /\ tree' = t2
    /\ lastOp' = [name |-> name, path |-> p, label |-> lbl, filter |-> f, args |-> args]
    /\ steps' = steps + 1

CallWith(name, p, lbl, f, t2) == CallArgs(name, p, lbl, f, NoArgs, t2)

Call(name, p, t2) == CallWith(name, p, NoLabel, {}, t2)

IsBand(p) == NodeAt(tree, p).kind = "band"
NonRoot == Paths(tree) \ {<<>>}

\* isl requires a band schedule to be defined on every point active at the
\* band; the schedules offered to insertBand* cover the domain, not labels.
Covers(m, pts) == pts \subseteq MupaDomain(m)

-----------------------------------------------------------------------------
JoinBandsA(p, permutable) ==
    /\ IsBand(p)
    /\ Call("joinBands", p, JoinBands(tree, p, permutable))
    /\ UNCHANGED <<labels, failure>>

JoinBandsIterativeA(p, permutable) ==
    /\ IsBand(p)
    /\ Call("joinBandsIterative", p, JoinBandsIterative(tree, p, permutable))
    /\ UNCHANGED <<labels, failure>>

BandSplitA(p, pos) ==
    /\ IsBand(p)
    /\ Len(NodeAt(tree, p).mupa) > 0
    /\ pos <= Len(NodeAt(tree, p).mupa)
    /\ Call("bandSplit", p, BandSplit(tree, p, pos))
    /\ UNCHANGED <<labels, failure>>

BandSplitOutA(p, pos) ==
    /\ IsBand(p)
    /\ pos < Len(NodeAt(tree, p).mupa)
    /\ Call("bandSplitOut", p, BandSplitOut(tree, p, pos).tree)
    /\ UNCHANGED <<labels, failure>>

BandTileA(p, ts, options) ==
    /\ IsBand(p)
    /\ ts # <<>> => NodeAt(tree, p).permutable
    /\ CallArgs("bandTile", p, NoLabel, {}, [sizes |-> ts, options |-> options],
                BandTile(tree, p, ts, options))
    /\ UNCHANGED <<labels, failure>>

BandScaleA(p, scales) ==
    /\ IsBand(p)
    /\ Call("bandScale", p, BandScale(tree, p, scales))
    /\ UNCHANGED <<labels, failure>>

InsertBandAboveA(p, m) ==
    /\ Covers(m, ActiveDomainPoints(tree, p))
    /\ Call("insertBandAbove", p, InsertBandAbove(tree, p, m))
    /\ UNCHANGED <<labels, failure>>

InsertBandBelowA(p, m) ==
    /\ NumChildren(tree, p) <= 1
    /\ Covers(m, ActiveDomainPoints(tree, p)
                 \cap (IF IsFilterBase(NodeAt(tree, p)) THEN NodeAt(tree, p).filter
                       ELSE AllInst))
    /\ Call("insertBandBelow", p, InsertBandBelow(tree, p, m))
    /\ UNCHANGED <<labels, failure>>

UpdateTopLevelContextA(c) ==
    /\ Call("updateTopLevelContext", <<>>, UpdateTopLevelContext(tree, c))
    /\ UNCHANGED <<labels, failure>>

InsertSequenceAboveA(p) ==
    /\ Call("insertSequenceAbove", p, InsertSequenceAbove(tree, p))
    /\ UNCHANGED <<labels, failure>>

InsertExtensionAboveA(p) ==
    /\ Call("insertExtensionAbove", p, InsertExtensionAbove(tree, p, {}))
    /\ UNCHANGED <<labels, failure>>

\* A label call: the same as Call, recording the label id.
LabelCall(name, p, id, t2) ==
    /\ CallWith(name, p, id, {}, t2)
    /\ labels' = labels \cup {id}
    /\ UNCHANGED failure

InsertExtensionLabelAtA(p, pos, id) ==
    /\ NodeAt(tree, p).kind = "sequence"
    /\ pos <= NumChildren(tree, p)
    /\ LabelCall("insertExtensionLabelAt", p, id, InsertExtensionLabelAt(tree, p, pos, id))

InsertExtensionLabelBeforeA(p, id) ==
    LabelCall("insertExtensionLabelBefore", p, id, InsertExtensionLabelBefore(tree, p, id))

InsertExtensionLabelAfterA(p, id) ==
    LabelCall("insertExtensionLabelAfter", p, id, InsertExtensionLabelAfter(tree, p, id))

OrderBeforeA(p, f) ==
    /\ CallWith("orderBefore", p, NoLabel, f, OrderBefore(tree, p, f))
    /\ UNCHANGED <<labels, failure>>

OrderAfterA(p, f) ==
    /\ CallWith("orderAfter", p, NoLabel, f, OrderAfter(tree, p, f))
    /\ UNCHANGED <<labels, failure>>

MergeConsecutiveMappingFiltersA(p) ==
    LET r == MergeConsecutiveMappingFilters(tree, p)
    IN  /\ Call("mergeConsecutiveMappingFilters", p, r.tree)
        /\ failure' = r.failure
        /\ UNCHANGED labels

Next ==
    \/ \E p \in Paths(tree), b \in BOOLEAN :
          JoinBandsA(p, b) \/ JoinBandsIterativeA(p, b)
    \/ \E p \in Paths(tree), pos \in 0..3 : BandSplitA(p, pos) \/ BandSplitOutA(p, pos)
    \/ \E p \in Paths(tree), ts \in TileSizeChoices, o \in OptionChoices :
          BandTileA(p, ts, o)
    \/ \E p \in Paths(tree), s \in ScaleChoices : BandScaleA(p, s)
    \/ \E p \in NonRoot, m \in MupaChoices : InsertBandAboveA(p, m)
    \/ \E p \in Paths(tree), m \in MupaChoices : InsertBandBelowA(p, m)
    \/ \E c \in ContextChoices : UpdateTopLevelContextA(c)
    \/ \E p \in NonRoot : InsertSequenceAboveA(p) \/ InsertExtensionAboveA(p)
    \/ \E p \in NonRoot, id \in Labels \ labels :
          \/ InsertExtensionLabelBeforeA(p, id)
          \/ InsertExtensionLabelAfterA(p, id)
          \/ \E pos \in 0..3 : InsertExtensionLabelAtA(p, pos, id)
    \/ \E p \in NonRoot, f \in FilterChoices : OrderBeforeA(p, f) \/ OrderAfterA(p, f)
    \/ \E p \in Paths(tree) : MergeConsecutiveMappingFiltersA(p)

Spec == Init /\ [][Next]_vars

-----------------------------------------------------------------------------
(* Properties.                                                             *)

TypeOK ==
    /\ tree.kind = "domain"
    /\ \A p \in Paths(tree) :
         LET n == NodeAt(tree, p)
         IN  /\ n.kind \in Kinds
             /\ (n.kind = "domain") = (p = <<>>)
             /\ Len(n.coincident) = Len(n.mupa)
             /\ Len(n.unroll) = Len(n.mupa)
             /\ n.filter \subseteq AllInst
    /\ labels \subseteq Labels
    /\ steps \in 0..MaxSteps
    /\ failure \in {"none", "fatal", "dangling"}

\* Whatever sequence of calls is made, every instance of the program's
\* domain still runs at exactly one leaf: no transformation (a split, a
\* tile, orderBefore's two gisted branches, gist's pruning of empty filters,
\* a mapping-filter merge) loses or duplicates a statement instance.
DomainExecutedOnce ==
    LET E == Executions(tree)
    IN  \A x \in tree.domain : Cardinality(LeavesOf(E, x)) = 1

\* The calls documented as pure restructurings leave the execution order of
\* every pair of domain instances unchanged: join and split of bands,
\* splitting out a member, tiling a one-member band, inserting a sequence,
\* an extension or a label, narrowing the context, merging mapping filters.
OrderPreservingOps ==
    {"joinBands", "joinBandsIterative", "bandSplit", "bandSplitOut",
     "updateTopLevelContext", "insertSequenceAbove", "insertExtensionAbove",
     "insertExtensionLabelAt", "insertExtensionLabelBefore",
     "insertExtensionLabelAfter", "mergeConsecutiveMappingFilters"}

OrderPreservingStep ==
    \/ lastOp'.name \in OrderPreservingOps
    \/ lastOp'.name = "bandTile" /\ Len(NodeAt(tree, lastOp'.path).mupa) = 1

OrderKeptByRestructuring ==
    [][OrderPreservingStep => ExecOrder(tree') = ExecOrder(tree)]_vars

\* insertExtensionLabelBefore(node, L) makes L run right before node: for
\* every execution of a domain instance of node's subtree there is a run of
\* L before it with no instance from outside the subtree in between, and L
\* runs at a single leaf.  insertExtensionLabelAfter is the mirror image.
\* The domain instances that run in the subtree at p.
SubtreeInsts(t, p) ==
    t.domain \cap {e.inst : e \in {e \in Executions(t) : Len(e.leaf) >= Len(p)
                                          /\ SubSeq(e.leaf, 1, Len(p)) = p}}

Adjacent(E, X, lbl, after) ==
    \A ex \in {e \in E : e.inst \in X} :
        \E el \in {e \in E : e.inst = LabelInst(lbl)} :
            LET lo == IF after THEN ex ELSE el
                hi == IF after THEN el ELSE ex
            IN  /\ LexLess(lo.ts, hi.ts)
                /\ ~\E ey \in E : /\ ey.inst \in tree.domain \ X
                                  /\ LexLess(lo.ts, ey.ts)
                                  /\ LexLess(ey.ts, hi.ts)

LabelRunsAtNode ==
    [][lastOp'.name \in {"insertExtensionLabelBefore", "insertExtensionLabelAfter"} =>
         LET E == Executions(tree')
             X == SubtreeInsts(tree, lastOp'.path)
             lbl == lastOp'.label
         IN  /\ X # {} => Cardinality(LeavesOf(E, LabelInst(lbl))) = 1
             /\ Adjacent(E, X, lbl, lastOp'.name = "insertExtensionLabelAfter")]_vars

\* The data model's invariant: the input dimension of every extension
\* relation equals the number of schedule dimensions of the band ancestors
\* of the extension node, otherwise the extension's statements (the labels)
\* are never reached.  insertExtensionLabelAt establishes it; the later
\* calls on bands above the extension must keep it.
ExtensionArityMatchesPrefix ==
    \A q \in Paths(tree) :
        NodeAt(tree, q).kind = "extension" =>
            \A r \in NodeAt(tree, q).ext : r[1] = PrefixScheduleMupaDim(tree, q)

\* bandScale with positive factors keeps the execution order: scaling a
\* member by a positive factor never makes two instances simultaneous or
\* swaps them.  ScaleChoices are positive but may be shorter than the band.
ScaleKeepsOrder ==
    [][lastOp'.name = "bandScale" => ExecOrder(tree') = ExecOrder(tree)]_vars

\* mergeConsecutiveMappingFilters returns the node it was called on, so that
\* node must survive the merges; the scan must never merge it away.
MergeKeepsNode == failure # "dangling"

\* The timestamp with which instance x reaches node p: the executions of the
\* tree cut at p, where p becomes a pass-through leaf.
ReachTs(t, p, x) ==
    LET E == {e \in Executions(GraftAt(t, p, Blank("context"))) :
                 e.leaf = p /\ e.inst = x}
    IN  IF E = {} THEN <<>> ELSE (CHOOSE e \in E : TRUE).ts

\* orderBefore(node, F), within one iteration of the bands around node,
\* runs the points of F active at node before its other points; every
\* other pair of node's points keeps its order.  orderAfter runs F after.
\* The code builds the two branches from a gisted copy and the gisted
\* original of the subtree.
ReorderedAsAsked ==
    [][lastOp'.name \in {"orderBefore", "orderAfter"} =>
         LET p == lastOp'.path
             X == SubtreeInsts(tree, p)
             F == X \cap lastOp'.filter
             Old == ExecOrder(tree)
             New == ExecOrder(tree')
         IN  \A x, y \in X :
               IF x \in F /\ y \notin F /\ ReachTs(tree, p, x) = ReachTs(tree, p, y)
               THEN IF lastOp'.name = "orderBefore" THEN <<x, y>> \in New
                    ELSE <<y, x>> \in New
               ELSE IF y \in F /\ x \notin F /\ ReachTs(tree, p, x) = ReachTs(tree, p, y)
               THEN TRUE
               ELSE <<x, y>> \in Old <=> <<x, y>> \in New]_vars

\* Reordering a subtree keeps the labels inserted in it: every label that
\* runs before orderBefore/After still runs after it.
LabelsSurviveReorder ==
    [][lastOp'.name \in {"orderBefore", "orderAfter"} =>
         \A l \in labels :
             LeavesOf(Executions(tree), LabelInst(l)) # {} =>
                 LeavesOf(Executions(tree'), LabelInst(l)) # {}]_vars

\* The spec of joinBands: a merge resets all coincident flags of the merged
\* band, since a member coincident in the narrower scope need not be in the
\* wider one.
JoinResetsCoincident ==
    [][lastOp'.name \in {"joinBands", "joinBandsIterative"}
       /\ Len(NodeAt(tree', lastOp'.path).mupa) > Len(NodeAt(tree, lastOp'.path).mupa)
         => \A k \in DOMAIN NodeAt(tree', lastOp'.path).coincident :
                ~NodeAt(tree', lastOp'.path).coincident[k]]_vars

\* collectScheduleTreesPath following the parent of each node, reversed,
\* is the node's ancestors from the root followed by the node itself:
\* the walk starts at the node, stops at the root's nullptr parent and
\* skips no node on the way.
ParentOrNull(t) == [q \in Paths(t) |-> IF q = <<>> THEN Null ELSE Parent(q)]

PathToRootIsAncestors ==
    \A p \in Paths(tree) :
        Reversed(CollectScheduleTreesPath(ParentOrNull(tree), p)) = Ancestors(p) \o <<p>>

\* bandTile(node, sizes, options) splits every member v of the band into a
\* tile loop and a point loop.  The tile loop names the tile that holds v:
\* its origin o (the tile value, times the size unless ScaleTileLoops) has
\* o <= v < o + size, and a member padded with size 0 is left untiled (o is
\* 0).  The point loop, the copy of the band made before the tiling, runs
\* the offset v - o with ShiftPointLoops and v itself without; it keeps the
\* band's flags and children.
TileSplitsMembers ==
    [][lastOp'.name = "bandTile" /\ lastOp'.args.sizes # <<>> =>
         LET old == NodeAt(tree, lastOp'.path)
             tb == NodeAt(tree', lastOp'.path)
             pb == tb.children[1]
             T == Resize(lastOp'.args.sizes, Len(old.mupa))
             opts == lastOp'.args.options
         IN  /\ tb.children = <<pb>>
             /\ [pb EXCEPT !.mupa = old.mupa] = old
             /\ \A k \in DOMAIN old.mupa : \A x \in DOMAIN old.mupa[k] :
                  LET v == old.mupa[k][x]
                      o == IF "ScaleTileLoops" \in opts THEN tb.mupa[k][x]
                           ELSE tb.mupa[k][x] * T[k]
                  IN  /\ IF T[k] > 0 THEN o <= v /\ v < o + T[k] ELSE o = 0
                      /\ pb.mupa[k][x] = IF "ShiftPointLoops" \in opts
                                         THEN v - o ELSE v]_vars

\* The labels that run somewhere in the tree.
PlacedLabels == {l \in Labels : LeavesOf(Executions(tree), LabelInst(l)) # {}}

\* The restructuring calls implement RestructuringSpec: however many are
\* made, in any order, on any nodes, the domain instances keep their
\* initial order, each label call makes its label run, and no later call
\* stops a label from running.
Restructuring == INSTANCE RestructuringSpec
    WITH order <- ExecOrder(tree), requested <- labels, placed <- PlacedLabels,
         InitOrder <- ExecOrder(InitTree)

ImplementsRestructuringSpec == Restructuring!Spec

=============================================================================
