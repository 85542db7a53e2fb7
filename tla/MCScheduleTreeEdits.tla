------------------------ MODULE MCScheduleTreeEdits ------------------------
(***************************************************************************)
(* A model of ScheduleTreeEdits: two statements S[i,j] (0 <= i <= 2,       *)
(* 0 <= j <= 1) and T[i] (0 <= i <= 1, written T[i,0]) under a permutable  *)
(* two-member band (i, j), then a sequence of a filter on S and a filter   *)
(* on T.  The S branch holds two nested mapping filters over S (ids tx    *)
(* and ty) above a one-member band j, so that                             *)
(* mergeConsecutiveMappingFilters has a pair to merge.                    *)
(***************************************************************************)
EXTENDS ScheduleTreeEdits

SInst == {[stmt |-> "S", it |-> <<i, j>>] : i \in 0..2, j \in 0..1}
TInst == {[stmt |-> "T", it |-> <<i, 0>>] : i \in 0..1}
Dom == SInst \cup TInst
LabelIds == {"L1", "L2"}
MCAllInst == Dom \cup {[stmt |-> l, it |-> <<>>] : l \in LabelIds}

\* The band members i -> i and j -> j, and the constant 0.
MemberI == [x \in Dom |-> x.it[1]]
MemberJ == [x \in Dom |-> x.it[2]]
MemberZero == [x \in Dom |-> 0]

MCInitTree ==
    LET inner == [MakeBand(<<MemberJ>>, <<>>) EXCEPT !.permutable = TRUE]
        ty == [Blank("mappingFilter") EXCEPT !.filter = SInst,
                                             !.ids = {"ty"}, !.children = <<inner>>]
        tx == [Blank("mappingFilter") EXCEPT !.filter = SInst, !.ids = {"tx"},
                                             !.children = <<ty>>]
        seq == MakeSequence(<<MakeFilter(SInst, <<tx>>), MakeFilter(TInst, <<>>)>>)
        outer == [MakeBand(<<MemberI, MemberJ>>, <<seq>>) EXCEPT
                     !.permutable = TRUE, !.coincident = <<TRUE, TRUE>>,
                     !.unroll = <<FALSE, TRUE>>]
    IN  [Blank("domain") EXCEPT !.domain = Dom, !.children = <<outer>>]

\* The same tree with the j loop of the outer band reversed (member -j), so
\* that tiling meets negative schedule values.
MemberNegJ == [x \in Dom |-> -x.it[2]]
TileInitTree == [MCInitTree EXCEPT !.children[1].mupa[2] = MemberNegJ]

MCOps ==
    {"joinBands", "joinBandsIterative", "bandSplit", "bandSplitOut", "bandTile",
     "bandScale", "insertBandAbove", "insertBandBelow", "updateTopLevelContext",
     "insertSequenceAbove", "insertExtensionAbove", "insertExtensionLabelAt",
     "insertExtensionLabelBefore", "insertExtensionLabelAfter", "orderBefore",
     "orderAfter", "mergeConsecutiveMappingFilters"}

ExtArityOps == {"insertExtensionLabelBefore", "bandTile"}
ScaleOps == {"bandScale"}
MergeOps == {"mergeConsecutiveMappingFilters"}
RestructureOps ==
    {"joinBands", "joinBandsIterative", "bandSplit", "bandSplitOut",
     "updateTopLevelContext", "insertSequenceAbove", "insertExtensionAbove",
     "insertExtensionLabelAt", "insertExtensionLabelBefore",
     "insertExtensionLabelAfter", "mergeConsecutiveMappingFilters"}
JoinOps == {"joinBands", "joinBandsIterative", "bandSplit"}
LabelReorderOps == {"insertExtensionLabelBefore", "insertExtensionLabelAfter",
                    "orderBefore", "orderAfter"}

TileOps == {"bandTile", "bandSplit", "joinBands", "bandScale"}

MCMupaChoices == {<<MemberZero>>, <<MemberI>>}
MCTileSizeChoices == {<<>>, <<2>>, <<0, 2>>, <<2, 2, 2>>}
\* Sizes 1 (the identity tiling), 3 (one tile over i in 0..2), 2 with a
\* remainder tile, 0 and the padding with 0, and a vector longer than the band.
TileTileSizeChoices == {<<1, 1>>, <<3>>, <<2>>, <<0, 2>>, <<2, 2, 2>>}
MCScaleChoices == {<<2>>, <<2, 2>>}
MCOptionChoices == {{}, {"ScaleTileLoops"}, {"ShiftPointLoops"},
                    OptionsOr({"ScaleTileLoops"}, {"ShiftPointLoops"})}
MCContextChoices == {{0}}
MCFilterChoices == {{x \in Dom : x.it[1] = 0}, TInst}

=============================================================================
