------------------------------- MODULE Recompute -------------------------------
(***************************************************************************)
(* The derived side of packages/core/src/graph.ts: the dependency edges,   *)
(* kept in both directions (DerivedEntry.deps and the dependents index),   *)
(* registration and disposal of nodes, and Phase D, which walks the part   *)
(* of the graph downstream of the changed inputs in the topological order  *)
(* of the edges the pass started with, re-recording every dependency it    *)
(* recomputes and skipping what an unchanged value cannot reach.           *)
(*                                                                         *)
(* A compute function is a member of Program: Reads(p, v) is the set of    *)
(* nodes it gets and Eval(p, v) its result when the nodes have the values  *)
(* v; Throw stands for an exception.                                       *)
(***************************************************************************)
EXTENDS Integers, FiniteSets

CONSTANTS Input, Derived, Value, Program, Reads(_, _), Eval(_, _), Throw, None

Node == Input \cup Derived
Valuation == [Node -> Value]

ASSUME NodesAssumption == Input \cap Derived = {}
ASSUME ThrowAssumption == Throw \notin Value

\* SPEC.md 15.1: a compute is a pure function of what it reads.
ASSUME PurityAssumption ==
  \A p \in Program, v, w \in Valuation :
    /\ Reads(p, v) \subseteq Node
    /\ Eval(p, v) \in Value \cup {Throw}
    /\ (\A n \in Reads(p, v) : v[n] = w[n]) =>
         Reads(p, w) = Reads(p, v) /\ Eval(p, w) = Eval(p, v)

VARIABLES
  entries,        \* the registered nodes
  compute,        \* DerivedEntry.compute
  val,            \* the value of every entry
  deps,           \* DerivedEntry.deps
  dependents,     \* the reverse index: one bucket of derived nodes per node
  hasDependents,  \* InputEntry.hasDependents
  phase,          \* "idle", or where the frame is
  mode,           \* commit or simulate
  seed,           \* the changed inputs Phase D starts from
  plan,           \* plan[d]: what d waits for, for the affected nodes only
  todo,           \* the affected nodes not walked yet
  stable,         \* cutoffStable
  changed,        \* changedThisCommit
  undo            \* the rollback record of every input and derived touched

graph  == <<entries, compute, deps, dependents, hasDependents>>
pass   == <<mode, seed, plan, todo, stable, changed>>
vars   == <<graph, val, phase, pass, undo>>

Affected == DOMAIN plan

TypeOK ==
  /\ entries \subseteq Node
  /\ compute \in [Derived -> Program \cup {None}]
  /\ val \in Valuation
  /\ deps \in [Derived -> SUBSET Node]
  /\ dependents \in [Node -> SUBSET Derived]
  /\ hasDependents \in [Input -> BOOLEAN]
  /\ phase \in {"idle", "walk", "failed"}
  /\ mode \in {"commit", "simulate"}
  /\ seed \subseteq Input
  /\ \E A \in SUBSET Derived : plan \in [A -> SUBSET A]
  /\ todo \subseteq Affected /\ stable \subseteq Affected
  /\ changed \subseteq Affected
  /\ \E A \in SUBSET Node : undo \in [A -> [value : Value, deps : SUBSET Node]]

-----------------------------------------------------------------------------

\* A set of derived nodes closed under "is read by".
ClosedDownstream(S, start) ==
  \A n \in S \cup start : dependents[n] \subseteq S

\* The breadth-first walk from the changed inputs over the dependents index.
Downstream(start) ==
  {d \in Derived : \A S \in SUBSET Derived : ClosedDownstream(S, start) => d \in S}

\* findCyclePathFrom: d is reachable from d along the live deps.
Upstream(edges, d) ==
  {n \in Node : \A S \in SUBSET Node :
     (edges[d] \subseteq S /\ \A m \in S \cap Derived : edges[m] \subseteq S) => n \in S}

\* setDeps, setDepsFromArray: the edges of d are replaced in both directions.
\* hasDependents follows the bucket of an input when it empties or fills.
BucketsJoined(d, next) ==
  [n \in Node |-> IF n \in next THEN dependents[n] \cup {d} ELSE dependents[n]]

RewiredBuckets(d, next) ==
  [n \in Node |-> IF n \in next THEN dependents[n] \cup {d}
                  ELSE IF n \in deps[d] THEN dependents[n] \ {d}
                  ELSE dependents[n]]

SetDeps(d, next) ==
  LET buckets == RewiredBuckets(d, next)
  IN /\ deps' = [deps EXCEPT ![d] = next]
     /\ dependents' = buckets
     /\ hasDependents' = [i \in Input |->
          IF i \in deps[d] \ next /\ buckets[i] = {} THEN FALSE
          ELSE IF i \in next /\ dependents[i] = {} THEN TRUE
          ELSE hasDependents[i]]

\* What running the compute of d now would read, return, or fail on: a get of
\* a node that is not registered throws.
ReadsNow(d)  == Reads(compute[d], val)
ResultNow(d) == Eval(compute[d], val)

ReadsUnknown(d) == ~(ReadsNow(d) \subseteq entries)
ThrowsNow(d)    == ResultNow(d) = Throw \/ ReadsUnknown(d)

Settled(d) == val[d] = ResultNow(d) /\ deps[d] = ReadsNow(d)

-----------------------------------------------------------------------------

Init ==
  /\ entries = Input
  /\ compute = [d \in Derived |-> None]
  /\ val \in {v \in Valuation : \A n, m \in Derived : v[n] = v[m]}
  /\ deps = [d \in Derived |-> {}]
  /\ dependents = [n \in Node |-> {}]
  /\ hasDependents = [i \in Input |-> FALSE]
  /\ phase = "idle" /\ mode = "commit"
  /\ seed = {} /\ plan = [d \in {} |-> {}] /\ todo = {}
  /\ stable = {} /\ changed = {} /\ undo = [n \in {} |-> {}]

\* input(id, initial).
RegisterInput(i, v) ==
  /\ phase = "idle"
  /\ i \notin entries
  /\ entries' = entries \cup {i}
  /\ val' = [val EXCEPT ![i] = v]
  /\ hasDependents' = [hasDependents EXCEPT ![i] = FALSE]
  /\ UNCHANGED <<compute, deps, dependents, phase, pass, undo>>

\* derived(id, compute): the node is computed before the call returns.  When
\* that throws (a user error, an unknown node, a read of itself) the entry is
\* deleted again and nothing has changed.
RegisterDerived(d, p) ==
  /\ phase = "idle"
  /\ d \notin entries
  /\ Reads(p, val) \subseteq entries
  /\ Eval(p, val) # Throw
  /\ entries' = entries \cup {d}
  /\ compute' = [compute EXCEPT ![d] = p]
  /\ val' = [val EXCEPT ![d] = Eval(p, val)]
  /\ SetDeps(d, Reads(p, val))
  /\ UNCHANGED <<phase, pass, undo>>

\* _dispose throws while committing and on a node that still has dependents.
Dispose(n) ==
  /\ phase = "idle"
  /\ n \in entries
  /\ dependents[n] = {}
  /\ entries' = entries \ {n}
  /\ IF n \in Derived THEN SetDeps(n, {}) ELSE UNCHANGED <<deps, dependents, hasDependents>>
  /\ UNCHANGED <<compute, val, phase, pass, undo>>

\* Phases A to C of commit or simulate publish new input values, and Phase D
\* starts: the affected nodes and what each of them waits for are fixed here,
\* from the edges as they are now.
Begin(m, w) ==
  /\ phase = "idle"
  /\ LET changes  == {i \in Input : w[i] # val[i]}
         affected == Downstream(changes)
     IN /\ changes # {} /\ changes \subseteq entries
        /\ seed' = changes
        /\ val' = [n \in Node |-> IF n \in changes THEN w[n] ELSE val[n]]
        /\ undo' = [i \in changes |-> [value |-> val[i], deps |-> {}]]
        /\ plan' = [d \in affected |-> {e \in affected : d \in dependents[e]}]
        /\ todo' = affected
  /\ phase' = "walk"
  /\ mode' = m
  /\ stable' = {} /\ changed' = {}
  /\ UNCHANGED graph

\* The walk takes the affected nodes in an order of Kahn's algorithm: any node
\* whose planned predecessors are done.  The order of the FIFO queue within
\* that is the insertion order of the buckets, which is left open.
Ready(d) == d \in todo /\ plan[d] \cap todo = {}

\* Equality cutoff: no dependency of d changed in this pass.
NoInputChanged(d) == deps[d] \cap seed = {}
AllStable(d) ==
  \A n \in deps[d] : n \notin seed /\ (n \in Affected => n \in stable)

Skip(d) ==
  /\ phase = "walk" /\ Ready(d) /\ AllStable(d)
  /\ stable' = stable \cup {d}
  /\ todo' = todo \ {d}
  /\ UNCHANGED <<graph, val, phase, mode, seed, plan, changed, undo>>

\* captureDerivedSnapshot: the first time d is touched, before its recompute.
RecordNewEdges(d) ==
  undo' = [n \in DOMAIN undo \cup {d} |->
             IF n \in DOMAIN undo THEN undo[n]
             ELSE [value |-> val[d], deps |-> ReadsNow(d)]]

Record(d) ==
  undo' = [n \in DOMAIN undo \cup {d} |->
             IF n \in DOMAIN undo THEN undo[n]
             ELSE [value |-> val[d], deps |-> deps[d]]]

\* computeDerived throws before it stores anything.
ComputeThrows(d) ==
  /\ phase = "walk" /\ Ready(d) /\ ~AllStable(d)
  /\ ThrowsNow(d)
  /\ Record(d)
  /\ phase' = "failed"
  /\ UNCHANGED <<graph, val, pass>>

\* The probe runs only when the node gained an edge.
ReadsItself(d) == d \in ReadsNow(d)
ClosesCycle(d) ==
  /\ ~(ReadsNow(d) \subseteq deps[d])
  /\ d \in Upstream([deps EXCEPT ![d] = ReadsNow(d)], d)

Store(d) ==
  /\ Record(d)
  /\ val' = [val EXCEPT ![d] = ResultNow(d)]
  /\ SetDeps(d, ReadsNow(d))

\* The comparison that decides what the nodes downstream see.
AlwaysChanges(d) == TRUE
ValueChanges(d)  == val[d] # ResultNow(d)

\* The compute returns; its value and edges are stored, and a change of the
\* value is what the nodes downstream will see.
Compute(d) ==
  /\ phase = "walk" /\ Ready(d) /\ ~AllStable(d)
  /\ ~ThrowsNow(d) /\ ~ClosesCycle(d)
  /\ Store(d)
  /\ todo' = todo \ {d}
  /\ IF ValueChanges(d)
     THEN changed' = changed \cup {d} /\ UNCHANGED stable
     ELSE stable' = stable \cup {d} /\ UNCHANGED changed
  /\ UNCHANGED <<entries, compute, phase, mode, seed, plan>>

\* The compute returns, but the node gained an edge and can reach itself: the
\* probe throws CycleError after the value and the edges are stored.
CycleThrows(d) ==
  /\ phase = "walk" /\ Ready(d) /\ ~AllStable(d)
  /\ ~ThrowsNow(d) /\ ClosesCycle(d)
  /\ Store(d)
  /\ phase' = "failed"
  /\ UNCHANGED <<entries, compute, pass>>

\* In the catch arm the window stays open.
EndPassOfCommit ==
  /\ phase' = IF phase = "walk" THEN "idle" ELSE phase
  /\ seed' = {} /\ plan' = [d \in {} |-> {}] /\ todo' = {}
  /\ stable' = {} /\ changed' = {}
  /\ UNCHANGED mode

EndPass ==
  /\ phase' = "idle"
  /\ seed' = {} /\ plan' = [d \in {} |-> {}] /\ todo' = {}
  /\ stable' = {} /\ changed' = {}
  /\ UNCHANGED mode

\* The walk is complete and the commit publishes (Phase E on).
Publish ==
  /\ phase = "walk" /\ todo = {} /\ mode = "commit"
  /\ EndPass
  /\ undo' = [n \in {} |-> {}]
  /\ UNCHANGED <<graph, val>>

\* simulate never publishes, and a commit does not when a commit-metadata
\* compute throws (Phase F.5): a complete walk is undone like a failed one.
LeaveUnpublished ==
  /\ phase = "walk" /\ todo = {}
  /\ phase' = "failed"
  /\ UNCHANGED <<graph, val, pass, undo>>

\* The catch arm: inputs first, then value and edges of one recorded derived
\* node after the other.
RestoreInputs ==
  /\ phase = "failed"
  /\ DOMAIN undo \cap Input # {}
  /\ val' = [n \in Node |-> IF n \in DOMAIN undo \cap Input THEN undo[n].value ELSE val[n]]
  /\ undo' = [n \in DOMAIN undo \ Input |-> undo[n]]
  /\ UNCHANGED <<graph, phase, pass>>

RestoreDerived(d) ==
  /\ phase = "failed"
  /\ DOMAIN undo \cap Input = {}
  /\ d \in DOMAIN undo
  /\ val' = [val EXCEPT ![d] = undo[d].value]
  /\ SetDeps(d, undo[d].deps)
  /\ undo' = [n \in DOMAIN undo \ {d} |-> undo[n]]
  /\ UNCHANGED <<entries, compute, phase, pass>>

Abort ==
  /\ phase = "failed" /\ DOMAIN undo = {}
  /\ EndPass
  /\ UNCHANGED <<graph, val, undo>>

Walk(d) == Skip(d) \/ Compute(d) \/ ComputeThrows(d) \/ CycleThrows(d)

Next ==
  \/ \E i \in Input, v \in Value : RegisterInput(i, v)
  \/ \E d \in Derived, p \in Program : RegisterDerived(d, p)
  \/ \E n \in Node : Dispose(n)
  \/ \E m \in {"commit", "simulate"}, w \in [Input -> Value] : Begin(m, w)
  \/ \E d \in Derived : Walk(d) \/ RestoreDerived(d)
  \/ Publish \/ LeaveUnpublished \/ RestoreInputs \/ Abort

Spec == Init /\ [][Next]_vars

-----------------------------------------------------------------------------
(* Correctness.                                                            *)

Live == entries \cap Derived

\* deps and the dependents index are one edge relation written twice by every
\* registration, recompute, rollback and disposal; an orphan edge would wake a
\* node for nothing, a missing one would leave it stale for ever.  The flag
\* that lets tx.set bypass staging says exactly "my bucket is not empty".
EdgesMirror ==
  /\ \A n \in Node, d \in Derived : d \in dependents[n] <=> n \in deps[d]
  /\ \A i \in Input : hasDependents[i] <=> dependents[i] # {}
  /\ \A d \in Derived : deps[d] \subseteq (IF d \in entries THEN entries ELSE {})

\* SPEC.md 15.1, cycle-detection completeness: no cycle survives the commit
\* that closes it, even when several nodes rewire in one pass.
NoCycle ==
  phase # "failed" => \A d \in Derived : d \notin Upstream(deps, d)

\* Computes that read the same derived nodes whatever the values are; they may
\* branch on inputs.
StaticProgram ==
  {p \in Program : \A v, w \in Valuation : Reads(p, v) \cap Derived = Reads(p, w) \cap Derived}
Static == {d \in Live : compute[d] \in StaticProgram}

\* SPEC.md 3, Theorem 2, as far as the code keeps it: between commits the value
\* of a derived node is its compute applied to the current values of what it
\* reads, and its edges are exactly those reads, although the walk skips nodes
\* and other nodes change their edges under it.  It holds of every node that
\* does not itself change which derived nodes it reads.
GlitchFree == phase = "idle" => \A d \in Static : Settled(d)

\* The same of every node, as the text has it (graph.ts:3683: "by the time the
\* commit publishes, every derived's value is its true post-commit value").
EveryValueIsCurrent == phase = "idle" => \A d \in Live : Settled(d)

\* The value and edges every node had when the frame was opened.
Before == [n \in Node |->
  IF n \in DOMAIN undo
  THEN IF n \in Input THEN <<undo[n].value, {}>> ELSE <<undo[n].value, undo[n].deps>>
  ELSE IF n \in Input THEN <<val[n], {}>> ELSE <<val[n], deps[n]>>]

\* A failed or simulated pass leaves every value and every edge as it was: at
\* each step from the opening of the frame until publication the state before
\* the frame can be rebuilt.
InFrame == phase # "idle"
RolledBackExactly ==
  [][(InFrame \/ InFrame') /\ ~Publish => Before' = Before]_vars

\* changedNodes is the set of nodes whose value differs from before the
\* commit, no more (an equal recompute) and no less (a skipped node).
ChangedExact ==
  phase = "walk" /\ todo = {} =>
    changed = {d \in Derived : val[d] # Before[d][1]}

\* The planned order never runs dry: Kahn's residue (graph.ts throws CycleError
\* for it) is unreachable, and every pass ends.
PassEnds == phase # "idle" ~> phase = "idle"

\* The valuations the new inputs admit in which every node is settled and the
\* edges have no cycle.
SettledValuations ==
  {u \in Valuation :
     /\ \A n \in Node \ Live : u[n] = val[n]
     /\ \A d \in Live : u[d] = Eval(compute[d], u)
     /\ LET edges == [d \in Derived |-> IF d \in Live THEN Reads(compute[d], u) ELSE {}]
        IN \A d \in Live : edges[d] \subseteq entries /\ d \notin Upstream(edges, d)}

\* errors.ts: CycleError is "Raised when a derivation graph closes a cycle on
\* commit": a commit that has an acyclic outcome is not refused as cyclic.
CycleErrorNamesACycle ==
  [][(\E d \in Derived : CycleThrows(d)) => SettledValuations = {}]_vars
=============================================================================
