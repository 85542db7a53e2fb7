--------------------------- MODULE BandTransforms ---------------------------
(***************************************************************************)
(* The band operations of schedule_transforms.cc: joinBands,               *)
(* joinBandsIterative, bandSplit, bandSplitOut, bandTile and bandScale.    *)
(* Each is an operator from a tree and a node path to the edited tree;    *)
(* their CHECKs on the caller's arguments are the guards of the actions   *)
(* in ScheduleTreeEdits.                                                   *)
(***************************************************************************)
EXTENDS ScheduleTree

(* union_pw_aff arithmetic, member by member.                              *)
\* A variant of scale_down(v).floor() that rounds towards zero, as C++
\* integer division does.
ScaleDownTrunc(f, v) ==
    [x \in DOMAIN f |-> IF f[x] < 0 THEN -((-f[x]) \div v) ELSE f[x] \div v]

\* scale_down(v).floor(): \div is floor division, as isl's floor is.
ScaleDownFloor(f, v) == [x \in DOMAIN f |-> f[x] \div v]
ScaleVal(f, v) == [x \in DOMAIN f |-> f[x] * v]
SubUpa(f, g) == [x \in DOMAIN f \cap DOMAIN g |-> f[x] - g[x]]

\* mupa.scale_multi_val(makeMultiVal(space, vs)): member k times vs[k].
ScaleMultiVal(m, vs) == [k \in DOMAIN m |-> ScaleVal(m[k], vs[k])]

\* ScheduleTreeElemBand::drop(pos, n): remove members pos .. pos+n-1 (0-based)
\* from the schedule and from both flag vectors.
BandDrop(b, pos, n) ==
    LET keep == [k \in 1..(Len(b.mupa) - n) |-> IF k <= pos THEN k ELSE k + n]
    IN  [b EXCEPT !.mupa = [k \in DOMAIN keep |-> @[keep[k]]],
                  !.coincident = [k \in DOMAIN keep |-> @[keep[k]]],
                  !.unroll = [k \in DOMAIN keep |-> @[keep[k]]]]

\* tileSizes / scales resized to the member count: zero-padded or truncated.
Resize(v, n) == [k \in 1..n |-> IF k <= Len(v) THEN v[k] ELSE 0]

-----------------------------------------------------------------------------
\* The product of a band's mupa with its child's, and the coincident vector
\* resized with false; the variants put the child's members first, and
\* leave the vector as it is.
FlatRangeProductSwapped(m, c) == c \o m
FlatRangeProduct(m, c) == m \o c

ResizeWithNone(v, n, x) == v
ResizeWith(v, n, x) == v \o [k \in 1..(n - Len(v)) |-> x]

\* joinBandsHelper: when the only child of the band at p is a band, stack
\* its members under the parent's; the child's coincident flags are reset.
JoinBandsHelper(t, p) ==
    LET st == NodeAt(t, p)
    IN  IF Len(st.children) # 1 \/ st.children[1].kind # "band"
        THEN [tree |-> t, moveChildren |-> FALSE]
        ELSE LET c == st.children[1]
             IN  [tree |-> GraftAt(t, p,
                      [st EXCEPT !.mupa = FlatRangeProduct(@, c.mupa),
                                 !.coincident = ResizeWith(@, Len(@) + Len(c.coincident), FALSE),
                                 !.unroll = @ \o c.unroll]),
                  moveChildren |-> TRUE]

\* The detach/append after a join: the grandchildren become the children.
MoveGrandchildren(t, p) == SetChildren(t, p, NodeAt(t, p).children[1].children)

SetPermutable(t, p, permutable) ==
    GraftAt(t, p, [NodeAt(t, p) EXCEPT !.permutable = permutable])

JoinBands(t, p, permutable) ==
    LET h == JoinBandsHelper(t, p)
    IN  SetPermutable(IF h.moveChildren THEN MoveGrandchildren(h.tree, p)
                      ELSE h.tree, p, permutable)

JoinBandsIterative(t, p, permutable) ==
    LET RECURSIVE Loop(_)
        Loop(u) == LET h == JoinBandsHelper(u, p)
                   IN  IF h.moveChildren THEN Loop(MoveGrandchildren(h.tree, p))
                       ELSE h.tree
    IN  SetPermutable(Loop(t), p, permutable)

\* Variant of bandSplit with the two drop calls exchanged.
BandSplitSwapped(t, p, pos) ==
    LET tree == NodeAt(t, p)
        n == Len(tree.mupa)
    IN  GraftAt(t, p, [BandDrop(tree, 0, pos) EXCEPT
                           !.children = <<BandDrop(tree, pos, n - pos)>>])

\* bandSplit: the band keeps members [0, pos); a copy of it keeping
\* [pos, n) becomes its only child and takes over its children.
BandSplit(t, p, pos) ==
    LET tree == NodeAt(t, p)
        n == Len(tree.mupa)
        newChild == BandDrop(tree, 0, pos)
    IN  GraftAt(t, p, [BandDrop(tree, pos, n - pos) EXCEPT !.children = <<newChild>>])

\* bandSplitOut: isolate member pos in a band of its own; the result
\* carries the path of that band.
BandSplitOut(t, p, pos) ==
    LET n == Len(NodeAt(t, p).mupa)
        t1 == IF pos # n - 1 THEN BandSplit(t, p, pos + 1) ELSE t
    IN  IF pos # 0 THEN [tree |-> BandSplit(t1, p, pos), path |-> p \o <<1>>]
        ELSE [tree |-> t1, path |-> p]

\* TileOptions is a flag set over {ScaleTileLoops, ShiftPointLoops}.
\* operator&: actual and wanted share a flag (a nonzero bitwise and).
HasOption(actual, wanted) == actual \cap wanted # {}

\* operator|: the flags of both.
OptionsOr(actual, wanted) == actual \cup wanted

\* bandTile's loop body: member i of the band becomes floor(m_i / ts_i)
\* (times ts_i with ScaleTileLoops); a member with tile size 0 is scaled by 0.
TileMember(f, size, options) ==
    IF size # 0
    THEN IF HasOption(options, {"ScaleTileLoops"})
         THEN ScaleVal(ScaleDownFloor(f, size), size)
         ELSE ScaleDownFloor(f, size)
    ELSE ScaleVal(f, size)

\* The origin of each tile: the tile loop, times the sizes unless
\* ScaleTileLoops already scaled it; the variant never rescales.
TileOriginUnscaled(tiled, ts, options) == tiled
TileOrigin(tiled, ts, options) ==
    IF HasOption(options, {"ScaleTileLoops"}) THEN tiled ELSE ScaleMultiVal(tiled, ts)

\* bandTile: the tiled members replace the band's.  A copy of the original
\* band, made before the tiling and shifted by the tile origin with
\* ShiftPointLoops, becomes the only child.  An empty tileSizes leaves the
\* tree unchanged.
BandTile(t, p, tileSizes, options) ==
    IF tileSizes = <<>> THEN t
    ELSE LET st == NodeAt(t, p)
             ts == Resize(tileSizes, Len(st.mupa))
             tiled == [k \in DOMAIN st.mupa |-> TileMember(st.mupa[k], ts[k], options)]
             origin == TileOrigin(tiled, ts, options)
             child == IF HasOption(options, {"ShiftPointLoops"})
                      THEN [st EXCEPT !.mupa = [k \in DOMAIN @ |-> SubUpa(@[k], origin[k])]]
                      ELSE st
         IN  GraftAt(t, p, [st EXCEPT !.mupa = tiled, !.children = <<child>>])

\* bandScale: member k times scales[k], with the padding of bandTile.
BandScale(t, p, scales) ==
    LET st == NodeAt(t, p)
    IN  GraftAt(t, p, [st EXCEPT !.mupa = ScaleMultiVal(@, Resize(scales, Len(@)))])

=============================================================================
