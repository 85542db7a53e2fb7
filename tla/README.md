# Model checking the schedule-tree transformations

This directory holds a TLA+ model of `src/tc/core/polyhedral/schedule_transforms.cc`. That file holds the out-of-class transformations that the Tensor Comprehensions mapper applies to a polyhedral schedule tree. The modules are checked with TLC.

## The system

A schedule tree is rooted at a **Domain** node that holds the statement instances. Below it sit these node kinds:

- **Band** nodes: a multi_union_pw_aff `mupa` of members, plus the `coincident`, `unroll` and `permutable` flags.
- **Filter** and **MappingFilter** nodes. A MappingFilter also carries mapping ids.
- **Sequence** nodes. Their children are filters and run in order.
- **Extension** nodes. They add statement instances, here the zero-dimensional *labels*.
- **Context** nodes.

The file has no threads. Every entry point mutates the tree in place and returns. The hard part is not concurrency. It is what a *sequence* of legal calls does to the tree's meaning: which instances run, in which order, and at which node.

### Inventory

| Component | State it keeps | Operations (source lines) |
|---|---|---|
| Navigation and construction (schedule_tree.cc, outside src/) | the tree | child, ancestors, positionInParent, make* |
| Derived schedule queries | none (pure) | extendSchedule 48, partialScheduleImpl 70, prefixSchedule 90, partialSchedule 96, activeDomainPoints 107, prefixScheduleMupa 439 |
| Band manipulation | the band's mupa and flags, its children | joinBandsHelper 185, joinBands 212, joinBandsIterative 226, bandSplit 264, bandSplitOut 285, bandTile 310, bandScale 372 |
| Restructuring and labels | the tree shape, the extension relations | swapSubtree 162, insertBandAbove 457, insertBandBelow 468, updateTopLevelContext 477, insertSequenceAbove 488, insertExtensionAbove 499, insertEmptyExtensionAbove 516, insertExtensionLabelAt 527, …Before 552, …After 574 |
| Reordering and simplification | filters, band domains, sequence children | gist 605, gistedFilter 633, orderBefore 640, orderAfter 653, mergeConsecutiveMappingFilters 663 |
| TileOptions | none | operator& 243, operator\| 248, applyTileOptions 256 |
| Sequence and path helpers | none | collectScheduleTreesPath 138, reversed 396, filterType 404, foldl 415 |
| Logging, printing | none | operator<< |

### How the components interact

- **Labels.** insertExtensionLabelBefore/After find a sequence. They use the node itself, or the sequence around the node's parent filter, or they call insertSequenceAbove. insertExtensionLabelAt then finds or inserts an extension, whose relation dimension is computed by prefixScheduleMupa.
- **Reordering.** orderBefore/After use activeDomainPoints and gist.
- **Tiling.** bandTile copies the band it tiles, and tests its options with operator&.
- **prefixScheduleMupa** folds (foldl) the band ancestors (filterType) of a node.

### Hard behaviours

These are listed with their lines in `PROJECT.json` "hazards".

- **Stale extension dimension.** The relation is computed once and never updated.
- **gist discards label filters.** Gist simplifies against a domain filter, which prunes the label filters.
- **Zero, padding and negative-value arithmetic** in bandTile and bandScale, and the interplay of the two tile options when the point loop is shifted.
- **Off-by-one positions** in bandSplitOut and in the label slots.
- **Dangling node.** The merge loop keeps working on a node that a merge has destroyed.
- **Termination of the two loops.** The merge loop rescans after every merge and relies on each merge removing a node. The loop of joinBandsIterative relies on each join removing a band.

### What makes each component correct

- **Whole tree, every instance.** Every instance of the domain runs exactly once, after any calls.
- **Order-preserving calls.** Calls that only restructure keep the execution order.
- **orderBefore/After** put the filter's points first or last and change nothing else.
- **Labels** run right next to their node, and they survive later calls.
- **Extension relations** keep the dimension of the bands above them.
- **bandTile** splits each member into a tile loop and a point loop. The tile loop names the tile that holds the value. The point loop is the offset in it, or the value itself. This holds for negative values too, because the code floors where C++ division would truncate.
- **The merge loop** ends and keeps every execution at every iteration.
- **The join loop** ends and keeps every timestamp at every iteration.

## Modules (in build order)

| Module | Models | State and actions |
|---|---|---|
| `ScheduleTree` | the tree as a value, and the schedule queries | Operators only. prefixScheduleMupa is `Foldl` over `FilterType`, with a mupa abstracted to its dimension. `CollectScheduleTreesPath` follows a next function up to `Null`, a path that names no node. A node is a record. A node pointer is a path of 1-based child indices (position = index − 1). Instances are `[stmt, it]`; a union_set is a set of instances; a union_pw_aff is a function from instances to integers. |
| `BandTransforms` (extends ScheduleTree) | band operations, TileOptions | Operators returning the new tree. A TileOptions value is a set of flags; operator& is `HasOption` and operator\| is `OptionsOr`. |
| `TreeRestructure` (extends ScheduleTree) | restructuring and labels | Operators. The constant `Params` is the universe of a context. |
| `Reorder` (extends ScheduleTree) | gist, order*, merge | Operators. The merge returns the tree and a failure: a CHECK, or the dangling node. |
| `ScheduleSemantics` (extends ScheduleTree) | **reference semantics**, not from the code | `Executions(t)`: every instance run, at which leaf and with which timestamp. `ExecOrder(t)`: the order of the domain instances. |
| `ScheduleTreeEdits` (extends all four) | a caller making one call after another | Variables: `tree`; `lastOp`, a history of the last call; `steps`; `labels`; `failure`. There is one action per public entry point (17 in all). |
| `RestructuringSpec` | **abstract specification** of the restructuring calls | Variables: `order`, the execution order of the domain instances, which never changes; `requested` and `placed`, the labels asked for and the labels that run. Its one action adds a label to both. |
| `MergeLoop` (extends Reorder, ScheduleSemantics) | the while loop of mergeConsecutiveMappingFilters, one iteration per step | Variables: `tree`; `node`; `changed`, the loop variable; `status`. `Iterate` is lines 670-705 and `Return` is 707. |
| `JoinLoop` (extends BandTransforms, ScheduleSemantics) | the while loop of joinBandsIterative, one iteration per step | Variables: `tree`, `node`, `permutable` (the argument), `moveChildren` (the loop variable), `done`. `Iterate` is lines 228-236, `Return` 237-239. |
| `MCJoinLoop` | the join-loop instance | Chains of one to three bands over S[i,j], each band with no member, i, j or (j, i), ending in a leaf or a sequence. The call is made on every band. |
| `MCMergeLoop` | the merge-loop instance | 64 chains of three mapping filters, each filter one of four sets; a chain under a sequence; and a chain that maps one id twice. The loop is called on every node. |
| `MCScheduleTreeEdits` | the model instance | The domain is S[i,j] (i ≤ 2, j ≤ 1) and T[i]. It sits under a permutable band (i, j) over a sequence. The S branch has two nested mapping filters above a band j. `TileInitTree` is the same tree with the outer band's j loop reversed, for the `tile` run. |

Each action applies the whole entry point, through the operators above, to one node and to inputs drawn from small constant sets. Its guards are the code's CHECKs and the caller contract:

- a band for the band calls;
- `0 < n`, `pos ≤ n` for bandSplit;
- `permutable` for a non-empty tile;
- at most one child for insertBandBelow;
- a schedule defined on every active point for insertBand*.

Only two outcomes set `failure` and end the run: the merge's id CHECK (696) failing, and the use of the node a merge destroyed. Every other CHECK is a guard of its action: the model never makes a call that fails it.

The reference semantics is the abstract specification the transformations are compared against. It walks the tree and gives each run of an instance a timestamp. The timestamp interleaves band values with the child index taken at every sequence. An extension adds its label once for every band-value tuple of the right length. The properties of `ScheduleTreeEdits` relate `Executions` and `ExecOrder` before and after a call.

isl is abstracted:

- **gist** is intersection, which drops the spaces absent from the context, as isl's union operations match parts by space.
- **An extension relation** is a set of `<<dim, label>>` pairs, each the universe map from the dim-dimensional schedule space to the label. These are the only relations the code builds.

### Refinements

- **`ScheduleTreeEdits` restricted to the restructuring calls implements `RestructuringSpec`.** The refinement mapping is:
  - `order` <- `ExecOrder(tree)`;
  - `requested` <- `labels`, the labels the calls asked for;
  - `placed` <- the labels that run somewhere in the tree.

  A label call must therefore make its label run, and every other call is a stuttering step of the abstract specification.

## Runs

All runs except `merge_loop` and `join_loop` use `MCScheduleTreeEdits` with `MaxSteps = 2`, i.e. two calls in sequence. Two calls are enough for every interaction the properties are about:

- a label and a later call above it;
- a split or tile and a later join;
- a context and a later sequence insertion.

Positions range over 0..3, which covers every boundary of the bands (≤ 2 members after a join of the initial bands fits). There are two tile-size vectors, shorter and longer than the band, plus one with a 0.

| Run | cfg | Expect | Checks |
|---|---|---|---|
| `edits` | MCScheduleTreeEdits.cfg | pass | All 17 entry points. Checks TypeOK, DomainExecutedOnce, OrderKeptByRestructuring, ReorderedAsAsked and LabelRunsAtNode. 21,477 distinct states, about 2.5 min. |
| `restructure` | Restructure.cfg | pass | ImplementsRestructuringSpec, over the 11 restructuring entry points. 3,942 distinct states, about 2 min. Three calls per run are out of reach in 5 minutes. |
| `merge_loop` | MCMergeLoop.cfg | pass | MCMergeLoop. Checks MergeKeepsExecutions (every iteration keeps each instance's executions and timestamps), and Terminates. 1,065 distinct states. The runs cover plain merges, double merges, pairs with different tuple counts, the id CHECK and the destroyed node. |
| `tile` | Tile.cfg | pass | TileSplitsMembers, over bandTile, bandSplit, joinBands and bandScale, with tile sizes (1, 1), 3, 2, (0, 2) and (2, 2, 2) under the four option sets. The instance's outer band runs j in reverse (member −j), so tiles hold negative values. The spec's example (line 81) is the case 3 with both options. PathToRootIsAncestors says that collectScheduleTreesPath along the parents, reversed, is the node's ancestors and the node. 2,091 distinct states. |
| `join_loop` | MCJoinLoop.cfg | pass | JoinKeepsExecutions (every iteration keeps each instance's timestamp) and Terminates. 2,444 distinct states. |
| `ext_arity` | ExtArity.cfg | violation | ExtensionArityMatchesPrefix. A label, then bandTile of the band above it: the relation keeps dimension 2 under 4 band dimensions. |
| `scale_pad` | ScalePad.cfg | violation | ScaleKeepsOrder. bandScale(<<2>>) on the two-member band zeroes member j. |
| `merge_node` | MergeNode.cfg | violation | MergeKeepsNode. The merge called on the inner mapping filter merges it away. |
| `label_reorder` | LabelReorder.cfg | violation | LabelsSurviveReorder. A label before the T filter, then orderBefore on a node above its extension: gist prunes the label. |
| `join_coincident` | JoinCoincident.cfg | violation | JoinResetsCoincident. A split and then a join keep the outer coincident flag, where the spec says all flags are reset. |

Deadlock checking is off in every cfg. A run is a bounded sequence of calls, or one call of the merge loop, so a state with no step left is the normal end.

### Fairness

The calls of `ScheduleTreeEdits` carry no fairness. The code is a library of synchronous calls, and a caller may stop at any time. Their properties are safety properties.

`MergeLoop` and `JoinLoop` have weak fairness on `Iterate` and `Return`. Once mergeConsecutiveMappingFilters or joinBandsIterative is called, its while loop is straight-line code with no waiting, so an enabled iteration is eventually taken. `Terminates` says that each loop ends under this fairness.

## Not modelled

- **isl itself.** Its sets and maps are finite sets and functions here.
- **Parameters.** The context is a set of parameter values and has no effect on the instances.
- **Set nodes.** No entry point here creates or treats them.
- **swapSubtree.** It is modelled as an operator but is not an action, because nothing in this file calls it.
- **Printing and logging.** A failing CHECK is modelled by its effect: the run stops. The vector operator<< at 423-435 never prints its separator, because it sets `first` to true. That affects only wording.
- **applyTileOptions.** It sets the isl context's global tiling options. No code in this file reads them, and nothing here calls it.
- **Extension relations other than universe maps to labels.**

## The plan left for later

- A second MC instance with an extension above the outer band. It would exercise the activeDomainPoints branch for extensions with a non-empty prefix schedule.
- Three calls per run for `restructure`, if the reference semantics can be made cheaper, for example by caching `Executions` per state.
- A structural partition invariant for sequence children was tried and dropped. insertBandAbove on a filter child of a sequence puts a band in that slot, which the spec allows ("or resolve to" a filter). Over executions, the partition is what DomainExecutedOnce already checks.
