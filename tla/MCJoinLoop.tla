----------------------------- MODULE MCJoinLoop -----------------------------
(***************************************************************************)
(* joinBandsIterative on chains of up to three bands over S[i, j]          *)
(* (0 <= i, j <= 1), each band with no member, member i, member j or both, *)
(* ending in a leaf or in a sequence of two filters; the call is made on   *)
(* every band of every chain.                                              *)
(***************************************************************************)
EXTENDS JoinLoop

Dom == {[stmt |-> "S", it |-> <<i, j>>] : i, j \in 0..1}
MCAllInst == Dom

MemberI == [x \in Dom |-> x.it[1]]
MemberJ == [x \in Dom |-> x.it[2]]
Mupas == {<<>>, <<MemberI>>, <<MemberJ>>, <<MemberJ, MemberI>>}

Root(kids) == [Blank("domain") EXCEPT !.domain = Dom, !.children = kids]
Ends == {<<>>, <<MakeSequence(<<MakeFilter({x \in Dom : x.it[1] = 0}, <<>>),
                                 MakeFilter({x \in Dom : x.it[1] = 1}, <<>>)>>)>>}

\* Domain -> band m[1] -> ... -> band m[n] -> end.
RECURSIVE Bands(_, _)
Bands(m, end) == IF m = <<>> THEN end
                 ELSE <<MakeBand(Head(m), Bands(Tail(m), end))>>

MCTrees == {Root(Bands(m, e)) : m \in UNION {[1..n -> Mupas] : n \in 1..3}, e \in Ends}

=============================================================================
