----------------------------- MODULE MCSubscribers -----------------------------
(***************************************************************************)
(* Instances of Subscribers for TLC: two inputs, two derived nodes.        *)
(***************************************************************************)
EXTENDS Subscribers, TLC

CONSTANTS i1, i2, d1, d2, h1, h2, throw, none

MCInput   == {i1, i2}
MCDerived == {d1, d2}
MCValue   == {0, 1}
MCHandle  == {h1, h2}
HandleSymmetry == Permutations(MCHandle)

\* A compute gets sel and then hi or lo, which may branch once more, or throws.
Branch(sel, hi, lo) == [sel |-> sel, hi |-> hi, lo |-> lo]
Chosen(q, v)  == IF v[q.sel] = 1 THEN q.hi ELSE q.lo
Forks(q, v)   == Chosen(q, v) \notin Node \cup {throw}
Leaf(q, v)    == IF Forks(q, v) THEN Chosen(Chosen(q, v), v) ELSE Chosen(q, v)
MCReads(q, v) == ({q.sel, Leaf(q, v)} \ {throw})
                   \cup (IF Forks(q, v) THEN {Chosen(q, v).sel} ELSE {})
MCEval(q, v)  == IF Leaf(q, v) = throw THEN throw ELSE v[Leaf(q, v)]

MCPrograms == {Branch(i1, i1, i1), Branch(i1, Branch(d1, d1, i2), i1),
               Branch(d1, i2, throw), Branch(i1, d2, i2)}
Cyclic     == {Branch(i1, d2, i2), Branch(d1, d1, d1)}

Single(x, transient) == [nodes |-> {x}, many |-> FALSE, transient |-> transient]
Many(xs, transient)  == [nodes |-> xs, many |-> TRUE, transient |-> transient]

MCWatch   == {Single(i1, FALSE), Single(d2, FALSE), Single(d2, TRUE), Many({i1, d2}, TRUE)}
MCSingles == {Single(d2, FALSE)}
MCGroups  == {Many({i1, i2}, FALSE)}
=============================================================================
