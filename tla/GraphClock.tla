----------------------------- MODULE GraphClock -----------------------------
(***************************************************************************)
(* The graph as its clients see it from outside packages/core: a clock     *)
(* that every commit moves by exactly one.  commit refuses to be called    *)
(* again from an observer, so a client's own commit is one indivisible     *)
(* step; between two steps of a client anybody may commit.                 *)
(***************************************************************************)
EXTENDS Integers

CONSTANT MaxTime   \* bound on the graph clock

ASSUME MaxTimeAssumption == MaxTime \in Nat

VARIABLE now       \* graph.now

Time == 0 .. MaxTime

\* A commit that publishes: Phase C moves the clock by one.
Tick ==
  /\ now < MaxTime
  /\ now' = now + 1
=============================================================================
