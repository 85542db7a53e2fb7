------------------------- MODULE ScheduleSemantics -------------------------
(***************************************************************************)
(* Reference semantics of a schedule tree, written from the meaning of the *)
(* node kinds rather than from schedule_transforms.cc: the properties of   *)
(* ScheduleTreeEdits compare the code's trees against it.                  *)
(*                                                                         *)
(* An execution is a record [leaf, inst, pre, ts]: instance inst runs at   *)
(* leaf with band coordinates pre and full timestamp ts.  The timestamp    *)
(* interleaves band coordinates with the child index taken at every       *)
(* sequence; executions run in the lexicographic order of timestamps.  An  *)
(* extension adds its target instance once for every band coordinate      *)
(* tuple of the right dimension reached at it.                            *)
(***************************************************************************)
EXTENDS ScheduleTree

RECURSIVE Walk(_, _, _)
Walk(n, path, S) ==
    LET S1 ==
          CASE n.kind = "domain" ->
                 {[inst |-> x, pre |-> <<>>, ts |-> <<>>] : x \in n.domain}
            [] n.kind = "band" ->
                 {[r EXCEPT !.pre = @ \o MupaAt(n.mupa, r.inst),
                            !.ts = @ \o MupaAt(n.mupa, r.inst)] :
                      r \in {r \in S : r.inst \in MupaDomain(n.mupa)}}
            [] IsFilterBase(n) -> {r \in S : r.inst \in n.filter}
            [] n.kind = "extension" ->
                 S \cup {[inst |-> LabelInst(e[1][2]), pre |-> e[2].pre, ts |-> e[2].ts] :
                            e \in {e \in n.ext \X S : Len(e[2].pre) = e[1][1]}}
            [] OTHER -> S
        Child(k) == IF n.kind = "sequence"
                    THEN {[r EXCEPT !.ts = @ \o <<k>>] : r \in S1}
                    ELSE S1
    IN  IF n.children = <<>>
        THEN IF n.kind = "sequence" THEN {}
             ELSE {[leaf |-> path, inst |-> r.inst, pre |-> r.pre, ts |-> r.ts] : r \in S1}
        ELSE UNION {Walk(n.children[k], path \o <<k>>, Child(k)) : k \in DOMAIN n.children}

Executions(t) == Walk(t, <<>>, {})

\* The leaves at which instance x runs.
LeavesOf(E, x) == {e.leaf : e \in {e \in E : e.inst = x}}

\* Strict lexicographic order; a proper prefix is not ordered.
LexLess(a, b) ==
    \E k \in 1..Len(a) :
        /\ k <= Len(b)
        /\ a[k] < b[k]
        /\ \A j \in 1..(k - 1) : a[j] = b[j]

\* The execution order of the domain instances: x runs before y.
ExecOrder(t) ==
    LET E == Executions(t)
    IN  {xy \in t.domain \X t.domain :
           \E ex, ey \in E : ex.inst = xy[1] /\ ey.inst = xy[2] /\ LexLess(ex.ts, ey.ts)}

=============================================================================
