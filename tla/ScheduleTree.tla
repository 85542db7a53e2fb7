---------------------------- MODULE ScheduleTree ----------------------------
(***************************************************************************)
(* The schedule tree of tc/core/polyhedral and the read-only queries of    *)
(* schedule_transforms.cc over it.                                         *)
(*                                                                         *)
(* A tree is a value: a node record whose "children" field is a sequence   *)
(* of node records.  A pointer to a node (ScheduleTree* in the code) is    *)
(* the path of 1-based child indices that leads to it from the root; the  *)
(* code's 0-based child positions are index - 1.                           *)
(*                                                                         *)
(* The isl algebra is abstracted to finite sets:                           *)
(*   - a statement instance is a record [stmt, it]; its isl space is stmt;  *)
(*   - an isl::union_set is a set of instances;                            *)
(*   - a union_pw_aff (one band member) is a function from instances to    *)
(*     Int, its domain being the instances it is defined on;              *)
(*   - a multi_union_pw_aff (a band's mupa_) is a sequence of members;     *)
(*   - a union_map schedule is a set of <<instance, coordinates>> pairs;   *)
(*   - an extension relation is a set of <<d, l>> pairs, each standing for *)
(*     the universe relation from the unnamed d-dimensional schedule space *)
(*     to the zero-dimensional instance l (the only relations the code     *)
(*     builds, in insertExtensionLabelAt).                                 *)
(***************************************************************************)
EXTENDS Integers, Sequences, FiniteSets

LOCAL SeqExt == INSTANCE SequencesExt

CONSTANT AllInst   \* every statement instance: domain instances and labels

Kinds == {"domain", "band", "filter", "mappingFilter", "sequence",
          "extension", "context"}

\* A node of the given kind with every field at its empty value.
Blank(kind) ==
    [kind |-> kind, children |-> <<>>, domain |-> {}, mupa |-> <<>>,
     coincident |-> <<>>, unroll |-> <<>>, permutable |-> FALSE,
     filter |-> {}, ids |-> {}, ext |-> {}, context |-> {}]

\* ScheduleTree::makeBand: a fresh band has no coincident or unrolled
\* member and is not permutable.
MakeBand(mupa, children) ==
    [Blank("band") EXCEPT !.mupa = mupa, !.children = children,
        !.coincident = [k \in DOMAIN mupa |-> FALSE],
        !.unroll = [k \in DOMAIN mupa |-> FALSE]]

MakeFilter(f, children) ==
    [Blank("filter") EXCEPT !.filter = f, !.children = children]

MakeSequence(children) == [Blank("sequence") EXCEPT !.children = children]

MakeExtension(e, children) ==
    [Blank("extension") EXCEPT !.ext = e, !.children = children]

MakeContext(c, children) ==
    [Blank("context") EXCEPT !.context = c, !.children = children]

\* elemAsBase<ScheduleTreeElemFilter>: plain and mapping filters alike.
IsFilterBase(n) == n.kind \in {"filter", "mappingFilter"}

-----------------------------------------------------------------------------
(* Navigation.                                                             *)

RECURSIVE NodeAt(_, _)
NodeAt(t, p) == IF p = <<>> THEN t ELSE NodeAt(t.children[Head(p)], Tail(p))

\* The tree t with the subtree at path p replaced by s.
RECURSIVE GraftAt(_, _, _)
GraftAt(t, p, s) ==
    IF p = <<>> THEN s
    ELSE [t EXCEPT !.children[Head(p)] = GraftAt(@, Tail(p), s)]

\* The tree t with the node at p given the children cs.
SetChildren(t, p, cs) ==
    GraftAt(t, p, [NodeAt(t, p) EXCEPT !.children = cs])

RECURSIVE PathsFrom(_)
PathsFrom(n) ==
    {<<>>} \cup UNION {{<<k>> \o q : q \in PathsFrom(n.children[k])} :
                         k \in DOMAIN n.children}

Paths(t) == PathsFrom(t)

\* ScheduleTree::ancestors(root): the paths of the ancestors of p, root first.
Ancestors(p) == [k \in 1..Len(p) |-> SubSeq(p, 1, k - 1)]

Parent(p) == SubSeq(p, 1, Len(p) - 1)

\* ScheduleTree::positionInParent, as a 1-based index.
Position(p) == p[Len(p)]

NumChildren(t, p) == Len(NodeAt(t, p).children)

\* The nullptr that ends a walk along a next function: a path that names no
\* node, as child indices start at 1.
Null == <<0>>

\* A variant of collectScheduleTreesPath whose result does not start with
\* start.
CollectScheduleTreesPathNoStart(next, start) ==
    LET RECURSIVE From(_)
        From(n) == IF n = Null THEN <<>> ELSE <<n>> \o From(next[n])
    IN  From(next[start])

\* collectScheduleTreesPath: start, then next(start), next(next(start)) and
\* so on, up to the first nullptr; next is a function over the nodes.
CollectScheduleTreesPath(next, start) ==
    LET RECURSIVE From(_)
        From(n) == IF n = Null THEN <<>> ELSE <<n>> \o From(next[n])
    IN  <<start>> \o From(next[start])

\* reversed: the elements of vec, last first.
Reversed(vec) == [i \in 1..Len(vec) |-> vec[Len(vec) + 1 - i]]

\* swapSubtree: replace "tree" in its parent's children with newTree; the
\* CHECK requires a strict relative root.
SwapSubtree(t, p, newTree) ==
    IF p = <<>> THEN "fatal" ELSE GraftAt(t, p, newTree)

-----------------------------------------------------------------------------
(* The isl algebra on finite sets.                                         *)

Spaces(X) == {x.stmt : x \in X}

\* isl::union_set::universe: every instance of every space present in X.
Universe(X) == {y \in AllInst : y.stmt \in Spaces(X)}

\* isl::union_set::n_set: isl drops empty parts, so the number of spaces.
NSet(X) == Cardinality(Spaces(X))

\* The domain of a multi_union_pw_aff: where all its members are defined.
MupaDomain(m) == {x \in AllInst : \A k \in DOMAIN m : x \in DOMAIN m[k]}

\* The coordinates a mupa gives instance x.
MupaAt(m, x) == [k \in DOMAIN m |-> m[k][x]]

\* The statement instance an extension relation maps to: the
\* zero-dimensional tuple named by the label id.
LabelInst(id) == [stmt |-> id, it |-> <<>>]

SchedRange(s) == {e[2] : e \in s}

\* Apply the extension relation e to the schedule coordinates cs.
ApplyExtension(cs, e) == {LabelInst(r[2]) : r \in {r \in e : \E c \in cs : Len(c) = r[1]}}

-----------------------------------------------------------------------------
(* Derived schedules.                                                      *)

\* extendSchedule: a band stacks its members onto the coordinates, a filter
\* restricts the domain, an extension adds the reverse of its relation on
\* the coordinates reached so far.
ExtendSchedule(n, s) ==
    CASE n.kind = "band" ->
            IF Len(n.mupa) > 0
            THEN {<<e[1], e[2] \o MupaAt(n.mupa, e[1])>> :
                      e \in {e \in s : e[1] \in MupaDomain(n.mupa)}}
            ELSE s
      [] IsFilterBase(n) -> {e \in s : e[1] \in n.filter}
      [] n.kind = "extension" ->
            s \cup {<<LabelInst(rc[1][2]), rc[2]>> :
                        rc \in {rc \in n.ext \X SchedRange(s) : Len(rc[2]) = rc[1][1]}}
      [] OTHER -> s

\* partialScheduleImpl: fold the ancestors (and the node when useNode); the
\* Domain root starts the fold with the zero-dimensional map of its domain.
RECURSIVE FoldSchedule(_, _, _)
FoldSchedule(t, ps, s) ==
    IF ps = <<>> THEN s
    ELSE LET n == NodeAt(t, Head(ps))
         IN  FoldSchedule(t, Tail(ps),
                 IF n.kind = "domain" THEN {<<x, <<>>>> : x \in n.domain}
                 ELSE ExtendSchedule(n, s))

PartialScheduleImpl(t, p, useNode) ==
    FoldSchedule(t, IF useNode THEN Ancestors(p) \o <<p>> ELSE Ancestors(p), {})

PrefixSchedule(t, p) == PartialScheduleImpl(t, p, FALSE)

PartialSchedule(t, p) == PartialScheduleImpl(t, p, TRUE)

\* activeDomainPoints: filters restrict the root domain, an extension adds
\* the image of the prefix coordinates of the points active at it.  The
\* prefix schedule is never null below a Domain root, so the code's branch
\* for a null prefix schedule is unreachable and not modelled.
RECURSIVE ActiveAlong(_, _, _)
ActiveAlong(t, ps, dom) ==
    IF ps = <<>> THEN dom
    ELSE LET n == NodeAt(t, Head(ps))
             parentSchedule == {e \in PrefixSchedule(t, Head(ps)) : e[1] \in dom}
         IN  ActiveAlong(t, Tail(ps),
                 CASE IsFilterBase(n) -> dom \cap n.filter
                   [] n.kind = "extension" ->
                         dom \cup ApplyExtension(SchedRange(parentSchedule), n.ext)
                   [] OTHER -> dom)

ActiveDomainPoints(t, p) ==
    IF p = <<>> THEN t.domain ELSE ActiveAlong(t, Ancestors(p), t.domain)

\* filterType<ScheduleTreeElemBand>: the nodes of ps that are bands, in order.
FilterType(t, ps, kind) == SelectSeq(ps, LAMBDA q : NodeAt(t, q).kind = kind)

\* foldl: value = op(st, value) for each st of vec, from the front; op is a
\* function of the node and the value.
Foldl(vec, op, init) == SeqExt!FoldLeft(LAMBDA v, st : op[st, v], init, vec)

\* prefixScheduleMupa: the flat range product of the band ancestors, folded
\* onto the zero-dimensional mupa.  Its only use in this file is its space,
\* so a mupa is modelled by its dimension and the product by addition.
PrefixScheduleMupaDim(t, p) ==
    Foldl(FilterType(t, Ancestors(p), "band"),
          [st \in Paths(t), prefix \in Nat |-> prefix + Len(NodeAt(t, st).mupa)],
          0)

=============================================================================
