------------------------------ MODULE Reorder ------------------------------
(***************************************************************************)
(* Reordering and simplification in schedule_transforms.cc: gist,          *)
(* gistedFilter, orderBefore, orderAfter and                               *)
(* mergeConsecutiveMappingFilters.                                         *)
(***************************************************************************)
EXTENDS ScheduleTree

\* isl union_set gist: equal to S on the context C and, since isl matches the
\* parts of S and C by space, without the spaces C lacks.  Outside C isl may
\* keep any points of the shared spaces; S \cap C is one of its outcomes,
\* and the only points it drops are never active below the gisted node.
GistSet(S, C) == S \cap C

\* union_pw_aff gist: same values, defined only on the spaces of C.
GistUpa(f, C) == [x \in {y \in DOMAIN f : y.stmt \in Spaces(C)} |-> f[x]]

\* gist: simplify bands and filters against the context; a filter that
\* becomes empty loses its children; a sequence loses the children whose
\* filter became empty.
RECURSIVE Gist(_, _)
Gist(tree, context) ==
    LET n1 == CASE tree.kind = "band" ->
                     [tree EXCEPT !.mupa = [k \in DOMAIN @ |-> GistUpa(@[k], context)]]
                [] IsFilterBase(tree) ->
                     LET f == GistSet(tree.filter, context)
                     IN  [tree EXCEPT !.filter = f,
                                      !.children = IF f = {} THEN <<>> ELSE @]
                [] OTHER -> tree
        n2 == [n1 EXCEPT !.children = [k \in DOMAIN @ |-> Gist(@[k], context)]]
        Kept(c) == ~(IsFilterBase(c) /\ c.filter = {})
    IN  IF n2.kind = "sequence"
        THEN [n2 EXCEPT !.children = SelectSeq(@, Kept)]
        ELSE n2

GistedFilter(filter, child) == MakeFilter(filter, <<Gist(child, filter)>>)

\* Variants of orderBefore/After: the second branch not narrowed to the
\* points outside filter, and the two branches in the wrong order.
OrderBeforeNoSubtract(t, p, filter) ==
    GraftAt(t, p, MakeSequence(<<GistedFilter(filter, NodeAt(t, p)),
                                 GistedFilter(ActiveDomainPoints(t, p), NodeAt(t, p))>>))

OrderAfterSwapped(t, p, filter) ==
    LET other == ActiveDomainPoints(t, p) \ filter
    IN  GraftAt(t, p, MakeSequence(<<GistedFilter(filter, NodeAt(t, p)),
                                     GistedFilter(other, NodeAt(t, p))>>))

\* orderBefore: the points of filter, in a gisted copy of the subtree,
\* go first; the other active points, in the gisted original, second.
OrderBefore(t, p, filter) ==
    LET other == ActiveDomainPoints(t, p) \ filter
    IN  GraftAt(t, p, MakeSequence(<<GistedFilter(filter, NodeAt(t, p)),
                                     GistedFilter(other, NodeAt(t, p))>>))

OrderAfter(t, p, filter) ==
    LET other == ActiveDomainPoints(t, p) \ filter
    IN  GraftAt(t, p, MakeSequence(<<GistedFilter(other, NodeAt(t, p)),
                                     GistedFilter(filter, NodeAt(t, p))>>))

-----------------------------------------------------------------------------
\* ScheduleTree::collect(node, MappingFilter): the mapping filters of the
\* subtree at p, in depth-first preorder.
RECURSIVE MappingFiltersPreorder(_, _)
MappingFiltersPreorder(t, p) ==
    LET n == NodeAt(t, p)
        RECURSIVE Kids(_)
        Kids(k) == IF k > Len(n.children) THEN <<>>
                   ELSE MappingFiltersPreorder(t, p \o <<k>>) \o Kids(k + 1)
    IN  (IF n.kind = "mappingFilter" THEN <<p>> ELSE <<>>) \o Kids(1)

\* A mapping filter whose parent is a mapping filter, and whose intersection
\* with it keeps the number of tuples of both.
Mergeable(t, f) ==
    LET par == NodeAt(t, Parent(f)).filter
        merged == par \cap NodeAt(t, f).filter
    IN  /\ NodeAt(t, Parent(f)).kind = "mappingFilter"
        /\ NSet(merged) = NSet(par)
        /\ NSet(merged) = NSet(NodeAt(t, f).filter)

\* Variant of the merge that gives the parent the union of the filters.
MergeIntoUnion(t, f) ==
    LET fn == NodeAt(t, f)
    IN  GraftAt(t, Parent(f),
            [NodeAt(t, Parent(f)) EXCEPT !.filter = @ \cup fn.filter,
                                         !.ids = @ \cup fn.ids,
                                         !.children[Position(f)] = fn.children[1]])

\* A variant of the merge that leaves the tree as it is.
MergeIntoNothing(t, f) == t

\* One merge: the parent takes the intersection and the union of the ids,
\* and f's only child takes f's place.
MergeInto(t, f) ==
    LET fn == NodeAt(t, f)
    IN  GraftAt(t, Parent(f),
            [NodeAt(t, Parent(f)) EXCEPT !.filter = @ \cap fn.filter,
                                         !.ids = @ \cup fn.ids,
                                         !.children[Position(f)] = fn.children[1]])

\* mergeConsecutiveMappingFilters: merge the first mergeable pair in
\* preorder and rescan, until none is left.  The loop stops with "fatal" on
\* the CHECK that an id is mapped in both filters, and with "dangling" when
\* the merged filter is the node the scan starts from: the code goes on
\* collecting from a destroyed node.
MergeConsecutiveMappingFilters(t, p) ==
    LET RECURSIVE Loop(_)
        Loop(u) ==
            LET cands == SelectSeq(MappingFiltersPreorder(u, p),
                                   LAMBDA f : Mergeable(u, f))
                f == cands[1]
            IN  CASE cands = <<>> -> [tree |-> u, failure |-> "none"]
                  [] NodeAt(u, f).ids \cap NodeAt(u, Parent(f)).ids # {} ->
                       [tree |-> u, failure |-> "fatal"]
                  [] f = p -> [tree |-> MergeInto(u, f), failure |-> "dangling"]
                  [] OTHER -> Loop(MergeInto(u, f))
    IN  Loop(t)

=============================================================================
