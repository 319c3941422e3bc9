--------------------------- MODULE MCRecomputeOrder ----------------------------
(***************************************************************************)
(* Recompute in the code's own order, for TLC: the compute functions of    *)
(* its instances.  A compute is a two-way branch: it gets sel and then hi  *)
(* or lo; a strict one gets all three first; one with boom throws when sel *)
(* and hi are 1.                                                           *)
(***************************************************************************)
EXTENDS RecomputeOrder

CONSTANTS a, b, m, n, p, throw, none

MCInput == {a, b}
MCDerived == {m, n, p}
MCValue == {0, 1}

Prog(sel, hi, lo, strict, boom) ==
  [sel |-> sel, hi |-> hi, lo |-> lo, strict |-> strict, boom |-> boom]

MCReads(q, v) ==
  IF q.strict THEN {q.sel, q.hi, q.lo}
  ELSE {q.sel, IF v[q.sel] = 1 THEN q.hi ELSE q.lo}

MCEval(q, v) ==
  IF q.boom /\ v[q.sel] = 1 /\ v[q.hi] = 1 THEN throw
  ELSE IF v[q.sel] = 1 THEN v[q.hi] ELSE v[q.lo]

\* Two chains, a join that always reads both sides, and two computes that
\* choose which derived node to read.
Programs ==
  { Prog(a, a, a, TRUE, FALSE),
    Prog(m, m, m, TRUE, FALSE),
    Prog(b, m, n, TRUE, FALSE),
    Prog(a, n, b, FALSE, FALSE),
    Prog(a, b, p, FALSE, TRUE) }
=============================================================================
