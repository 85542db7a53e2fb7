---------------------------- MODULE MCMergeLoop ----------------------------
(***************************************************************************)
(* The merge loop on chains of three mapping filters below the domain of  *)
(* S[0], S[1] and T[0], each filter one of four sets, so that the chains   *)
(* hold mergeable pairs, pairs with different tuple counts and filters     *)
(* that select nothing; plus a chain under a sequence, and a chain whose   *)
(* two filters map the same id.                                           *)
(***************************************************************************)
EXTENDS MergeLoop

S0 == [stmt |-> "S", it |-> <<0>>]
S1 == [stmt |-> "S", it |-> <<1>>]
T0 == [stmt |-> "T", it |-> <<0>>]
Dom == {S0, S1, T0}
MCAllInst == Dom

MF(ids, f, kids) == [Blank("mappingFilter") EXCEPT !.ids = ids, !.filter = f,
                                                   !.children = kids]
\* The mapping filters sit above a subtree; here a band with no members.
Leaf == <<MakeBand(<<>>, <<>>)>>

Root(kids) == [Blank("domain") EXCEPT !.domain = Dom, !.children = kids]

FilterSets == {Dom, {S0, S1}, {S0}, {T0}}

\* Domain -> MF{m1}(f[1]) -> MF{m2}(f[2]) -> MF{m3}(f[3]) -> band.
Chain(f) == Root(<<MF({"m1"}, f[1], <<MF({"m2"}, f[2], <<MF({"m3"}, f[3], Leaf)>>)>>)>>)

SeqTree ==
    Root(<<MF({"m1"}, Dom,
              <<MakeSequence(<<MakeFilter({S0, S1}, <<MF({"m2"}, {S0, S1},
                                                   <<MF({"m3"}, {S0}, Leaf)>>)>>),
                               MakeFilter({T0}, <<MF({"m4"}, {T0}, Leaf)>>)>>)>>)>>)

CollisionTree == Root(<<MF({"m1"}, Dom, <<MF({"m1", "m2"}, Dom, Leaf)>>)>>)

MCTrees == {Chain(f) : f \in [1..3 -> FilterSets]} \cup {SeqTree, CollisionTree}

=============================================================================
