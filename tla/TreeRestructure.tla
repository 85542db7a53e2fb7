-------------------------- MODULE TreeRestructure --------------------------
(***************************************************************************)
(* The restructuring operations of schedule_transforms.cc: insertBandAbove *)
(* and insertBandBelow, updateTopLevelContext, insertSequenceAbove,        *)
(* insertExtensionAbove, and the extension labels (insertExtensionLabelAt, *)
(* ...Before, ...After) that inject zero-dimensional marker statements.    *)
(***************************************************************************)
EXTENDS ScheduleTree

CONSTANT Params   \* the parameter values: the universe of a context set

LOCAL SeqExt == INSTANCE SequencesExt

InsertBandAbove(t, p, mupa) == GraftAt(t, p, MakeBand(mupa, <<NodeAt(t, p)>>))

InsertBandBelow(t, p, mupa) ==
    SetChildren(t, p, <<MakeBand(mupa, NodeAt(t, p).children)>>)

\* matchOne(domain(context(any())), root): the root's only child is a
\* context node with a single child.
HasTopLevelContext(t) ==
    /\ Len(t.children) = 1
    /\ t.children[1].kind = "context"
    /\ Len(t.children[1].children) = 1

\* updateTopLevelContext: insert a universe context under the root when
\* there is none, then intersect it with the given context.
UpdateTopLevelContext(t, context) ==
    LET t1 == IF HasTopLevelContext(t) THEN t
              ELSE [t EXCEPT !.children = <<MakeContext(Params, t.children)>>]
    IN  [t1 EXCEPT !.children[1].context = @ \cap context]

\* A variant of the filter of insertSequenceAbove that selects the active
\* points of the domain's statements only, not the universe of all spaces.
SequenceFilterDomainOnly(t, p) == ActiveDomainPoints(t, p) \cap t.domain

\* The universe of the points active at p: every space reached there,
\* those of the labels of an extension above included.
SequenceFilter(t, p) == Universe(ActiveDomainPoints(t, p))

\* insertSequenceAbove: a sequence whose one filter child selects the
\* universe of the points active at p.
InsertSequenceAbove(t, p) ==
    GraftAt(t, p, MakeSequence(<<MakeFilter(SequenceFilter(t, p),
                                            <<NodeAt(t, p)>>)>>))

InsertExtensionAbove(t, p, extension) ==
    GraftAt(t, p, MakeExtension(extension, <<NodeAt(t, p)>>))

InsertEmptyExtensionAbove(t, p) == InsertExtensionAbove(t, p, {})

\* The universe map from the dim-dimensional prefix schedule space to the
\* label id; the variant builds it from the zero-dimensional space.
LabelExtensionZeroDim(dim, id) == {<<0, id>>}
LabelExtension(dim, id) == {<<dim, id>>}

\* insertExtensionLabelAt: find, or insert, the extension node right above
\* the sequence at seqP; extend its relation with the universe map from the
\* prefix schedule space at the extension to the label; insert the filter
\* selecting the label at 0-based position pos of the sequence.
InsertExtensionLabelAt(t, seqP, pos, id) ==
    LET found == NodeAt(t, Parent(seqP)).kind = "extension"
        t1 == IF found THEN t ELSE InsertEmptyExtensionAbove(t, seqP)
        extP == IF found THEN Parent(seqP) ELSE seqP
        seq1 == IF found THEN seqP ELSE seqP \o <<1>>
        dim == PrefixScheduleMupaDim(t1, extP)
        t2 == GraftAt(t1, extP, [NodeAt(t1, extP) EXCEPT !.ext = @ \cup LabelExtension(dim, id)])
    IN  SetChildren(t2, seq1,
            SeqExt!InsertAt(NodeAt(t2, seq1).children, pos + 1,
                            MakeFilter({LabelInst(id)}, <<>>)))

\* The 0-based slot of the label next to the filter parent in its sequence:
\* positionInParent, plus one after it; the variant never adds the one.
SlotAtParentNoPlusOne(parent, after) == Position(parent) - 1
SlotAtParent(parent, after) == Position(parent) - 1 + (IF after THEN 1 ELSE 0)

\* The sequence and 0-based position insertExtensionLabelBefore/After use:
\* the node itself when it is a sequence, the sequence around its parent
\* when that parent is a plain Filter (elemAs, so not a mapping filter)
\* inside a sequence, otherwise a new sequence inserted above the node.
LabelSlot(t, p, after) ==
    LET parent == Parent(p)
    IN  CASE NodeAt(t, p).kind = "sequence" ->
                [tree |-> t, seq |-> p,
                 pos |-> IF after THEN NumChildren(t, p) ELSE 0]
          [] NodeAt(t, parent).kind = "filter"
               /\ NodeAt(t, Parent(parent)).kind = "sequence" ->
                [tree |-> t, seq |-> Parent(parent),
                 pos |-> SlotAtParent(parent, after)]
          [] OTHER ->
                [tree |-> InsertSequenceAbove(t, p), seq |-> p,
                 pos |-> IF after THEN 1 ELSE 0]

InsertExtensionLabelBefore(t, p, id) ==
    LET s == LabelSlot(t, p, FALSE)
    IN  InsertExtensionLabelAt(s.tree, s.seq, s.pos, id)

InsertExtensionLabelAfter(t, p, id) ==
    LET s == LabelSlot(t, p, TRUE)
    IN  InsertExtensionLabelAt(s.tree, s.seq, s.pos, id)

=============================================================================
