---------------------------- MODULE RecomputeProofs ----------------------------
(***************************************************************************)
(* Proofs about Recompute for every graph, every set of compute functions  *)
(* that are pure (PurityAssumption) and any number of frames.              *)
(*                                                                         *)
(* The invariant IInv needs nothing else.  SettledInv, which says that the *)
(* walk leaves no stale value, is about the nodes whose compute always     *)
(* reads the same derived nodes (Static), whatever the other nodes do: the *)
(* run recompute_glitch shows that it fails for the others.                *)
(***************************************************************************)
EXTENDS Recompute, FiniteSetTheorems, WellFoundedInduction, TLAPS

\* What a node had when the frame was opened.
ValBefore(n)  == IF n \in DOMAIN undo THEN undo[n].value ELSE val[n]
DepsBefore(d) == IF d \in DOMAIN undo THEN undo[d].deps ELSE deps[d]
ValuesBefore  == [n \in Node |-> ValBefore(n)]

PlanType == Affected \subseteq Derived /\ plan \in [Affected -> SUBSET Affected]
UndoType == /\ DOMAIN undo \subseteq Node
            /\ undo \in [DOMAIN undo -> [value : Value, deps : SUBSET Node]]

LiveOK == \A d \in Live : compute[d] \in Program

FrameOK ==
  /\ phase = "idle" => /\ seed = {} /\ Affected = {} /\ todo = {} /\ stable = {}
                       /\ changed = {} /\ DOMAIN undo = {}
  /\ seed \cup Affected \subseteq entries
  /\ DOMAIN undo \subseteq seed \cup Affected
  /\ \A d \in DOMAIN undo \cap Derived : undo[d].deps \subseteq entries
  /\ phase = "walk" => seed \subseteq DOMAIN undo /\ todo \cap DOMAIN undo = {}

OutcomesOK ==
  phase = "walk" =>
    /\ stable \cap todo = {} /\ changed \cap todo = {}
    /\ Affected \ todo \subseteq stable \cup changed
    /\ \A d \in stable : val[d] = ValBefore(d)
    /\ \A d \in changed : val[d] # ValBefore(d)

IInv == TypeOK /\ EdgesMirror /\ LiveOK /\ FrameOK /\ OutcomesOK

\* The static nodes were settled before the frame; of those the walk has come
\* past, and of those it will not visit, every one is settled and waits for
\* nobody.
SettledBefore ==
  \A d \in Static : /\ ValBefore(d) = Eval(compute[d], ValuesBefore)
                    /\ DepsBefore(d) = Reads(compute[d], ValuesBefore)
DoneSettled ==
  phase = "walk" =>
    /\ \A d \in todo : deps[d] \cap Affected \subseteq plan[d]
    /\ \A d \in Static \ todo : Settled(d) /\ deps[d] \cap todo = {}
SettledInv == SettledBefore /\ DoneSettled
-----------------------------------------------------------------------------
(* Types.                                                                  *)

LEMMA TypesUnfold == TypeOK => PlanType /\ UndoType
<1> SUFFICES ASSUME TypeOK PROVE PlanType /\ UndoType
  OBVIOUS
<1>1. PlanType
  <2>1. PICK A \in SUBSET Derived : plan \in [A -> SUBSET A]
    BY DEF TypeOK
  <2>2. DOMAIN plan = A
    BY <2>1
  <2> QED
    BY <2>1, <2>2 DEF PlanType, Affected
<1>2. UndoType
  <2>1. PICK A \in SUBSET Node : undo \in [A -> [value : Value, deps : SUBSET Node]]
    BY DEF TypeOK
  <2>2. DOMAIN undo = A
    BY <2>1
  <2> QED
    BY <2>1, <2>2 DEF UndoType
<1> QED
  BY <1>1, <1>2

\* TypeOK without its existential quantifiers.
Types ==
  /\ entries \subseteq Node
  /\ compute \in [Derived -> Program \cup {None}]
  /\ val \in Valuation
  /\ deps \in [Derived -> SUBSET Node]
  /\ dependents \in [Node -> SUBSET Derived]
  /\ hasDependents \in [Input -> BOOLEAN]
  /\ phase \in {"idle", "walk", "failed"}
  /\ mode \in {"commit", "simulate"}
  /\ seed \subseteq Input
  /\ todo \subseteq Affected /\ stable \subseteq Affected
  /\ changed \subseteq Affected
  /\ PlanType /\ UndoType

LEMMA TypesSuffice == Types => TypeOK
BY DEF Types, TypeOK, PlanType, UndoType

LEMMA TypesFollow == TypeOK => Types
BY TypesUnfold DEF Types, TypeOK

LEMMA TypesNext == Types' => TypeOK'
BY TypesSuffice, PTL

LEMMA NodeKinds == /\ Input \subseteq Node /\ Derived \subseteq Node
                   /\ \A n \in Node : n \in Input <=> n \notin Derived
BY NodesAssumption DEF Node

\* What a pure compute reads and returns.
LEMMA ComputeResult ==
  ASSUME Types, NEW d \in Derived, compute[d] \in Program
  PROVE  /\ ReadsNow(d) \subseteq Node
         /\ ~ThrowsNow(d) => ResultNow(d) \in Value /\ ReadsNow(d) \subseteq entries
BY PurityAssumption DEF Types, ReadsNow, ResultNow, ThrowsNow, ReadsUnknown

-----------------------------------------------------------------------------
(* Edges.                                                                  *)

LEMMA SetDepsTypes ==
  ASSUME Types, NEW d \in Derived, NEW next \in SUBSET Node, SetDeps(d, next)
  PROVE  /\ deps' \in [Derived -> SUBSET Node]
         /\ dependents' \in [Node -> SUBSET Derived]
         /\ hasDependents' \in [Input -> BOOLEAN]
         /\ deps'[d] = next
         /\ \A e \in Derived : e # d => deps'[e] = deps[e]
<1>1. dependents' = RewiredBuckets(d, next) /\ deps' = [deps EXCEPT ![d] = next]
  BY DEF SetDeps
<1>2. dependents' \in [Node -> SUBSET Derived]
  BY <1>1 DEF Types, RewiredBuckets
<1>3. hasDependents' \in [Input -> BOOLEAN]
  BY DEF SetDeps, Types
<1> QED
  BY <1>1, <1>2, <1>3 DEF Types

\* The two conjuncts of EdgesMirror that relate the copies of the edges.
Mirrored == /\ \A n \in Node, d \in Derived : d \in dependents[n] <=> n \in deps[d]
            /\ \A i \in Input : hasDependents[i] <=> dependents[i] # {}

LEMMA SetDepsMirrors ==
  ASSUME Types, Mirrored, NEW d \in Derived, NEW next \in SUBSET Node, SetDeps(d, next)
  PROVE  Mirrored'
<1>1. \A n \in Node : dependents'[n] =
         IF n \in next THEN dependents[n] \cup {d}
         ELSE IF n \in deps[d] THEN dependents[n] \ {d} ELSE dependents[n]
  BY DEF SetDeps, RewiredBuckets
<1>2. deps'[d] = next /\ \A e \in Derived : e # d => deps'[e] = deps[e]
  BY SetDepsTypes
<1>3. \A n \in Node, e \in Derived : e \in dependents'[n] <=> n \in deps'[e]
  <2> SUFFICES ASSUME NEW n \in Node, NEW e \in Derived
               PROVE  e \in dependents'[n] <=> n \in deps'[e]
    OBVIOUS
  <2>1. e \in dependents[n] <=> n \in deps[e]
    BY DEF Mirrored
  <2>2. CASE e = d
    BY <1>1, <1>2, <2>1, <2>2
  <2>3. CASE e # d
    BY <1>1, <1>2, <2>1, <2>3
  <2> QED
    BY <2>2, <2>3
<1>4. ASSUME NEW i \in Input PROVE hasDependents'[i] <=> dependents'[i] # {}
  <2> DEFINE emptied == i \in deps[d] \ next /\ dependents'[i] = {}
             filled  == i \in next /\ dependents[i] = {}
  <2>1. hasDependents'[i] = IF emptied THEN FALSE ELSE IF filled THEN TRUE
                            ELSE hasDependents[i]
    BY DEF SetDeps
  <2>2. i \in Node
    BY NodeKinds
  <2>3. CASE i \in next
    BY <1>1, <2>1, <2>2, <2>3 DEF Mirrored
  <2>4. CASE i \notin next /\ i \in deps[d]
    <3>1. dependents[i] # {}
      BY <2>2, <2>4 DEF Mirrored
    <3> QED
      BY <2>1, <2>4, <3>1 DEF Mirrored
  <2>5. CASE i \notin next /\ i \notin deps[d]
    <3>1. dependents'[i] = dependents[i]
      BY <1>1, <2>2, <2>5
    <3> QED
      BY <2>1, <2>5, <3>1 DEF Mirrored
  <2> QED
    BY <2>3, <2>4, <2>5
<1> QED
  BY <1>3, <1>4 DEF Mirrored

DepsKnown == \A d \in Derived : deps[d] \subseteq (IF d \in entries THEN entries ELSE {})

LEMMA EdgesParts == EdgesMirror <=> Mirrored /\ DepsKnown
BY DEF EdgesMirror, Mirrored, DepsKnown

LEMMA SetDepsKnown ==
  ASSUME Types, DepsKnown, NEW d \in Live, NEW next \in SUBSET entries, SetDeps(d, next),
         entries' = entries
  PROVE  DepsKnown'
<1>1. d \in Derived /\ next \in SUBSET Node
  BY DEF Live, Types
<1> QED
  BY <1>1, SetDepsTypes DEF DepsKnown, Live

\* What is reached from registered inputs is registered, and is closed under
\* "is read by".
LEMMA DownstreamLive ==
  ASSUME Types, EdgesMirror, NEW start \in SUBSET Node
  PROVE  /\ Downstream(start) \subseteq Live
         /\ ClosedDownstream(Downstream(start), start)
<1>1. ClosedDownstream(Live, start)
  <2> SUFFICES ASSUME NEW n \in Live \cup start PROVE dependents[n] \subseteq Live
    BY DEF ClosedDownstream
  <2>1. n \in Node
    BY NodeKinds DEF Live
  <2>2. ASSUME NEW d \in dependents[n] PROVE d \in Live
    <3>1. d \in Derived /\ n \in deps[d]
      BY <2>1, <2>2 DEF Types, EdgesMirror
    <3> QED
      BY <3>1 DEF EdgesMirror, Live
  <2> QED
    BY <2>2
<1>2. Downstream(start) \subseteq Live
  BY <1>1 DEF Downstream, Live
<1>3. ClosedDownstream(Downstream(start), start)
  <2> SUFFICES ASSUME NEW n \in Downstream(start) \cup start, NEW d \in dependents[n],
                      NEW S \in SUBSET Derived, ClosedDownstream(S, start)
               PROVE  d \in Derived /\ d \in S
    <3>1. \A n \in Downstream(start) \cup start : dependents[n] \subseteq Derived
      BY NodeKinds DEF Types, Downstream
    <3> QED
      BY <3>1 DEF ClosedDownstream, Downstream
  <2>1. n \in S \cup start
    BY DEF Downstream
  <2>2. n \in Node
    BY <2>1, NodeKinds
  <2> QED
    BY <2>1, <2>2 DEF ClosedDownstream, Types
<1> QED
  BY <1>2, <1>3

-----------------------------------------------------------------------------
(* The invariant is inductive: one lemma per action.                       *)

LEMMA Facts ==
  ASSUME IInv
  PROVE  /\ Types /\ Mirrored /\ DepsKnown
         /\ \A d \in Live : d \in Derived /\ d \in Node /\ d \in entries
         /\ Affected \subseteq Live /\ todo \subseteq Live
BY TypesFollow, EdgesParts, NodeKinds
   DEF IInv, Live, FrameOK, PlanType, Types

LEMMA Rejoin ==
  ASSUME Types', Mirrored', DepsKnown', LiveOK', FrameOK', OutcomesOK'
  PROVE  IInv'
<1>1. TypeOK'
  BY TypesNext
<1>2. EdgesMirror'
  BY DEF EdgesMirror, Mirrored, DepsKnown
<1> QED
  BY <1>1, <1>2 DEF IInv

LEMMA InitKeeps == Init => IInv
<1> SUFFICES ASSUME Init PROVE IInv
  OBVIOUS
<1>1. Affected = {} /\ DOMAIN undo = {} /\ Live = {}
  BY NodeKinds DEF Init, Affected, Live
<1>2. Types
  BY <1>1, NodeKinds DEF Init, Types, PlanType, UndoType, Affected
<1>3. EdgesMirror
  BY NodeKinds DEF Init, EdgesMirror
<1>4. LiveOK /\ FrameOK /\ OutcomesOK
  BY <1>1 DEF Init, LiveOK, FrameOK, OutcomesOK
<1> QED
  BY <1>2, <1>3, <1>4, TypesSuffice DEF IInv

\* Between frames the pass variables are empty, and stay so.
LEMMA QuietFrame ==
  ASSUME IInv, phase = "idle", UNCHANGED <<phase, pass, undo>>, entries' \subseteq Node
  PROVE  /\ PlanType' /\ UndoType' /\ FrameOK' /\ OutcomesOK'
         /\ seed' \subseteq Input /\ todo' \subseteq Affected'
         /\ stable' \subseteq Affected' /\ changed' \subseteq Affected'
         /\ phase' \in {"idle", "walk", "failed"} /\ mode' \in {"commit", "simulate"}
<1>1. Affected' = Affected
  BY DEF pass, Affected
<1>2. PlanType' /\ UndoType'
  BY <1>1, Facts DEF Types, PlanType, UndoType, pass
<1>3. FrameOK' /\ OutcomesOK'
  BY <1>1 DEF IInv, FrameOK, OutcomesOK, pass
<1> QED
  BY <1>1, <1>2, <1>3, Facts DEF Types, pass

LEMMA RegisterInputKeeps ==
  ASSUME IInv, NEW i \in Input, NEW v \in Value, RegisterInput(i, v)
  PROVE  IInv'
<1>1. Types /\ Mirrored /\ DepsKnown
  BY Facts
<1>2. /\ phase = "idle" /\ i \notin entries /\ entries' = entries \cup {i}
      /\ val' = [val EXCEPT ![i] = v]
      /\ hasDependents' = [hasDependents EXCEPT ![i] = FALSE]
      /\ UNCHANGED <<compute, deps, dependents, phase, pass, undo>>
  BY DEF RegisterInput
<1>3. i \in Node /\ entries' \subseteq Node
  BY <1>1, <1>2, NodeKinds DEF Types
<1>4. dependents[i] = {}
  <2>1. \A d \in Derived : i \notin deps[d]
    BY <1>1, <1>2 DEF DepsKnown
  <2> QED
    BY <1>1, <1>3, <2>1 DEF Mirrored, Types
<1>5. Types'
  BY <1>1, <1>2, <1>3, QuietFrame DEF Types, Valuation
<1>6. Mirrored'
  BY <1>1, <1>2, <1>4 DEF Mirrored, Types
<1>7. DepsKnown'
  BY <1>1, <1>2 DEF DepsKnown
<1>8. LiveOK'
  BY <1>2, NodeKinds DEF IInv, LiveOK, Live
<1> QED
  BY <1>2, <1>3, <1>5, <1>6, <1>7, <1>8, QuietFrame, Rejoin

LEMMA RegisterDerivedKeeps ==
  ASSUME IInv, NEW d \in Derived, NEW p \in Program, RegisterDerived(d, p)
  PROVE  IInv'
<1> DEFINE next == Reads(p, val)
<1>1. Types /\ Mirrored /\ DepsKnown
  BY Facts
<1>2. /\ phase = "idle" /\ d \notin entries /\ entries' = entries \cup {d}
      /\ compute' = [compute EXCEPT ![d] = p]
      /\ val' = [val EXCEPT ![d] = Eval(p, val)]
      /\ next \subseteq entries /\ Eval(p, val) # Throw
      /\ SetDeps(d, next)
      /\ UNCHANGED <<phase, pass, undo>>
  BY DEF RegisterDerived
<1>3. d \in Node /\ entries' \subseteq Node /\ next \in SUBSET Node
  BY <1>1, <1>2, NodeKinds DEF Types
<1>4. Eval(p, val) \in Value
  BY <1>1, <1>2, PurityAssumption DEF Types
<1> HIDE DEF next
<1>5. Types'
  BY <1>1, <1>2, <1>3, <1>4, QuietFrame, SetDepsTypes DEF Types, Valuation
<1>6. Mirrored'
  BY <1>1, <1>2, <1>3, SetDepsMirrors
<1>7. DepsKnown'
  <2>1. deps'[d] = next /\ \A e \in Derived : e # d => deps'[e] = deps[e]
    BY <1>1, <1>2, <1>3, SetDepsTypes
  <2> QED
    BY <1>1, <1>2, <2>1 DEF DepsKnown
<1>8. LiveOK'
  BY <1>1, <1>2 DEF IInv, LiveOK, Live, Types
<1> QED
  BY <1>2, <1>3, <1>5, <1>6, <1>7, <1>8, QuietFrame, Rejoin

LEMMA DisposeKeeps ==
  ASSUME IInv, NEW n \in Node, Dispose(n)
  PROVE  IInv'
<1>1. Types /\ Mirrored /\ DepsKnown
  BY Facts
<1>2. /\ phase = "idle" /\ n \in entries /\ entries' = entries \ {n}
      /\ dependents[n] = {}
      /\ UNCHANGED <<compute, val, phase, pass, undo>>
  BY DEF Dispose
<1>3. entries' \subseteq Node
  BY <1>1, <1>2 DEF Types
<1>4. \A d \in Derived : n \notin deps[d]
  BY <1>1, <1>2 DEF Mirrored
<1>5. LiveOK'
  BY <1>2 DEF IInv, LiveOK, Live
<1>6. CASE n \in Derived
  <2>1. SetDeps(n, {})
    BY <1>6 DEF Dispose
  <2>2. Types'
    BY <1>1, <1>2, <1>3, <1>6, <2>1, QuietFrame, SetDepsTypes DEF Types
  <2>3. Mirrored'
    BY <1>1, <1>6, <2>1, SetDepsMirrors
  <2>4. deps'[n] = {} /\ \A e \in Derived : e # n => deps'[e] = deps[e]
    BY <1>1, <1>6, <2>1, SetDepsTypes
  <2>5. DepsKnown'
    BY <1>1, <1>2, <1>4, <2>4 DEF DepsKnown
  <2> QED
    BY <1>2, <1>3, <1>5, <2>2, <2>3, <2>5, QuietFrame, Rejoin
<1>7. CASE n \notin Derived
  <2>1. UNCHANGED <<deps, dependents, hasDependents>>
    BY <1>7 DEF Dispose
  <2>2. Types'
    BY <1>1, <1>2, <1>3, <2>1, QuietFrame DEF Types
  <2>3. Mirrored'
    BY <1>1, <2>1 DEF Mirrored
  <2>4. DepsKnown'
    BY <1>1, <1>2, <1>4, <1>7, <2>1 DEF DepsKnown
  <2> QED
    BY <1>2, <1>3, <1>5, <2>2, <2>3, <2>4, QuietFrame, Rejoin
<1> QED
  BY <1>6, <1>7

LEMMA BeginFacts ==
  ASSUME IInv, NEW m \in {"commit", "simulate"}, NEW w \in [Input -> Value], Begin(m, w)
  PROVE  /\ phase = "idle" /\ phase' = "walk" /\ mode' = m
         /\ seed' = {i \in Input : w[i] # val[i]} /\ seed' \subseteq entries
         /\ val' = [n \in Node |-> IF n \in seed' THEN w[n] ELSE val[n]]
         /\ undo' = [i \in seed' |-> [value |-> val[i], deps |-> {}]]
         /\ Affected' = Downstream(seed')
         /\ plan' = [d \in Affected' |-> {e \in Affected' : d \in dependents[e]}]
         /\ todo' = Affected' /\ stable' = {} /\ changed' = {}
         /\ UNCHANGED graph
BY DEF Begin, Affected

LEMMA BeginKeeps ==
  ASSUME IInv, NEW m \in {"commit", "simulate"}, NEW w \in [Input -> Value], Begin(m, w)
  PROVE  IInv'
<1> DEFINE S == seed'
           A == Affected'
<1>1. Types /\ Mirrored /\ DepsKnown
  BY Facts
<1>2. /\ phase = "idle" /\ phase' = "walk" /\ mode' = m
      /\ S = {i \in Input : w[i] # val[i]} /\ S \subseteq entries
      /\ val' = [n \in Node |-> IF n \in S THEN w[n] ELSE val[n]]
      /\ undo' = [i \in S |-> [value |-> val[i], deps |-> {}]]
      /\ A = Downstream(S)
      /\ plan' = [d \in A |-> {e \in A : d \in dependents[e]}]
      /\ todo' = A /\ stable' = {} /\ changed' = {}
      /\ UNCHANGED <<entries, compute, deps, dependents, hasDependents>>
  BY BeginFacts DEF graph
<1>3. S \subseteq Input /\ S \subseteq Node
  BY <1>2, NodeKinds
<1>4. A \subseteq Live /\ A \subseteq Derived
  <2>1. Downstream(S) \subseteq Live
    BY <1>1, <1>3, DownstreamLive DEF IInv
  <2> QED
    BY <1>2, <2>1 DEF Live
<1> HIDE DEF S, A
<1>5. val' \in Valuation
  BY <1>1, <1>2, <1>3 DEF Types, Valuation
<1>6. UndoType'
  <2>1. DOMAIN undo' = S
    BY <1>2
  <2>2. \A i \in S : val[i] \in Value
    BY <1>1, <1>3 DEF Types, Valuation
  <2> QED
    BY <1>2, <1>3, <2>1, <2>2 DEF UndoType
<1>7. PlanType'
  BY <1>2, <1>4 DEF PlanType, A
<1>8. Types'
  BY <1>1, <1>2, <1>3, <1>5, <1>6, <1>7 DEF Types, S, A
<1>9. Mirrored' /\ DepsKnown' /\ LiveOK'
  BY <1>1, <1>2 DEF Mirrored, DepsKnown, LiveOK, Live, IInv
<1>10. FrameOK'
  <2>1. DOMAIN undo' = S
    BY <1>2
  <2>2. S \cap Derived = {} /\ A \cap S = {}
    BY <1>3, <1>4, NodesAssumption
  <2> QED
    BY <1>2, <1>4, <2>1, <2>2 DEF FrameOK, S, A, Live
<1>11. OutcomesOK'
  BY <1>2 DEF OutcomesOK, A
<1> QED
  BY <1>8, <1>9, <1>10, <1>11, Rejoin

LEMMA SkipKeeps ==
  ASSUME IInv, NEW d \in Derived, Skip(d)
  PROVE  IInv'
<1>1. Types /\ Mirrored /\ DepsKnown
  BY Facts
<1>2. /\ phase = "walk" /\ d \in todo /\ stable' = stable \cup {d} /\ todo' = todo \ {d}
      /\ UNCHANGED <<entries, compute, deps, dependents, hasDependents, val, phase, mode,
                     seed, plan, changed, undo>>
  BY DEF Skip, Ready, graph
<1>3. Affected' = Affected /\ d \in Affected
  BY <1>1, <1>2 DEF Affected, Types
<1>4. Types'
  BY <1>1, <1>2, <1>3 DEF Types, PlanType, UndoType
<1>5. Mirrored' /\ DepsKnown' /\ LiveOK'
  BY <1>1, <1>2 DEF Mirrored, DepsKnown, LiveOK, Live, IInv
<1>6. FrameOK'
  BY <1>2, <1>3 DEF IInv, FrameOK
<1>7. \A n : ValBefore(n)' = ValBefore(n)
  BY <1>2 DEF ValBefore
<1>8. val[d] = ValBefore(d)
  BY <1>2 DEF IInv, FrameOK, ValBefore
<1>9. OutcomesOK'
  BY <1>2, <1>3, <1>7, <1>8 DEF IInv, OutcomesOK
<1> QED
  BY <1>4, <1>5, <1>6, <1>9, Rejoin

\* The rollback record of a node that changes alone: what was before stays.
LEMMA RecordKeeps ==
  ASSUME Types, NEW d \in Derived, d \in Affected, Record(d),
         \A n \in Node : n # d => val'[n] = val[n]
  PROVE  /\ UndoType'
         /\ DOMAIN undo' = DOMAIN undo \cup {d}
         /\ \A n \in Node : ValBefore(n)' = ValBefore(n)
         /\ \A e \in DOMAIN undo : undo'[e] = undo[e]
         /\ d \notin DOMAIN undo => undo'[d].deps = deps[d]
<1>1. DOMAIN undo' = DOMAIN undo \cup {d}
  BY DEF Record
<1>2. \A n \in DOMAIN undo' :
        undo'[n] = IF n \in DOMAIN undo THEN undo[n] ELSE [value |-> val[d], deps |-> deps[d]]
  BY DEF Record
<1>3. UndoType'
  <2>1. d \in Node /\ val[d] \in Value /\ deps[d] \in SUBSET Node
    BY NodeKinds DEF Types, Valuation
  <2>2. \A n \in DOMAIN undo' : undo'[n] \in [value : Value, deps : SUBSET Node]
    BY <1>2, <2>1 DEF Types, UndoType
  <2>3. undo' = [n \in DOMAIN undo' |-> undo'[n]]
    BY DEF Record
  <2> QED
    BY <1>1, <2>1, <2>2, <2>3 DEF Types, UndoType
<1>4. \A n \in Node : ValBefore(n)' = ValBefore(n)
  BY <1>1, <1>2 DEF ValBefore
<1> QED
  BY <1>1, <1>2, <1>3, <1>4

LEMMA ComputeThrowsKeeps ==
  ASSUME IInv, NEW d \in Derived, ComputeThrows(d)
  PROVE  IInv'
<1>1. Types /\ Mirrored /\ DepsKnown
  BY Facts
<1>2. /\ phase = "walk" /\ d \in todo /\ Record(d) /\ phase' = "failed"
      /\ UNCHANGED <<entries, compute, deps, dependents, hasDependents, val, mode, seed,
                     plan, todo, stable, changed>>
  BY DEF ComputeThrows, Ready, graph, pass
<1>3. Affected' = Affected /\ d \in Affected /\ d \in Live
  BY <1>1, <1>2, Facts DEF Affected, Types
<1>4. /\ UndoType' /\ DOMAIN undo' = DOMAIN undo \cup {d}
      /\ \A e \in DOMAIN undo : undo'[e] = undo[e]
      /\ undo'[d].deps = deps[d]
  BY <1>1, <1>2, <1>3, RecordKeeps DEF IInv, FrameOK
<1>5. Types'
  BY <1>1, <1>2, <1>3, <1>4 DEF Types, PlanType
<1>6. Mirrored' /\ DepsKnown' /\ LiveOK'
  BY <1>1, <1>2 DEF Mirrored, DepsKnown, LiveOK, Live, IInv
<1>7. FrameOK'
  <2>1. deps[d] \subseteq entries
    BY <1>1, <1>3 DEF DepsKnown, Live
  <2> QED
    BY <1>2, <1>3, <1>4, <2>1 DEF IInv, FrameOK
<1>8. OutcomesOK'
  BY <1>2 DEF OutcomesOK
<1> QED
  BY <1>5, <1>6, <1>7, <1>8, Rejoin

LEMMA StoreFacts ==
  ASSUME IInv, NEW d \in Derived, phase = "walk", Ready(d), ~ThrowsNow(d), Store(d),
         UNCHANGED <<entries, compute, seed, plan>>
  PROVE  /\ Affected' = Affected /\ d \in Affected /\ d \in Live /\ d \in todo
         /\ ReadsNow(d) \in SUBSET Node /\ ReadsNow(d) \subseteq entries
         /\ val' = [val EXCEPT ![d] = ResultNow(d)] /\ val' \in Valuation
         /\ SetDeps(d, ReadsNow(d))
         /\ deps' \in [Derived -> SUBSET Node]
         /\ dependents' \in [Node -> SUBSET Derived]
         /\ hasDependents' \in [Input -> BOOLEAN]
         /\ Mirrored' /\ DepsKnown' /\ LiveOK'
         /\ UndoType' /\ DOMAIN undo' = DOMAIN undo \cup {d}
         /\ \A n \in Node : ValBefore(n)' = ValBefore(n)
         /\ \A e \in DOMAIN undo : undo'[e] = undo[e]
         /\ undo'[d].deps = deps[d] /\ deps[d] \subseteq entries
         /\ ValBefore(d) = val[d]
<1>1. Types /\ Mirrored /\ DepsKnown
  BY Facts
<1>2. Affected' = Affected /\ d \in todo /\ d \in Affected /\ d \in Live /\ d \in Node
  BY <1>1, Facts, NodeKinds DEF Ready, Affected, Types
<1>3. compute[d] \in Program
  BY <1>2 DEF IInv, LiveOK
<1>4. ReadsNow(d) \in SUBSET Node /\ ReadsNow(d) \subseteq entries /\ ResultNow(d) \in Value
  BY <1>1, <1>3, ComputeResult
<1>5. /\ val' = [val EXCEPT ![d] = ResultNow(d)] /\ SetDeps(d, ReadsNow(d)) /\ Record(d)
  BY DEF Store
<1>6. val' \in Valuation /\ \A n \in Node : n # d => val'[n] = val[n]
  BY <1>1, <1>2, <1>4, <1>5 DEF Types, Valuation
<1>7. Mirrored' /\ DepsKnown' /\ LiveOK'
  BY <1>1, <1>2, <1>4, <1>5, SetDepsMirrors, SetDepsKnown DEF IInv, LiveOK, Live
<1>8. d \notin DOMAIN undo /\ ValBefore(d) = val[d]
  BY <1>2 DEF IInv, FrameOK, ValBefore
<1>9. deps[d] \subseteq entries
  BY <1>1, <1>2 DEF DepsKnown, Live
<1> QED
  BY <1>1, <1>2, <1>4, <1>5, <1>6, <1>7, <1>8, <1>9, SetDepsTypes, RecordKeeps

LEMMA ComputeKeeps ==
  ASSUME IInv, NEW d \in Derived, Compute(d)
  PROVE  IInv'
<1>1. Types
  BY Facts
<1>2. /\ phase = "walk" /\ Ready(d) /\ ~ThrowsNow(d) /\ Store(d) /\ todo' = todo \ {d}
      /\ \/ val[d] # ResultNow(d) /\ changed' = changed \cup {d} /\ stable' = stable
         \/ val[d] = ResultNow(d) /\ stable' = stable \cup {d} /\ changed' = changed
      /\ UNCHANGED <<entries, compute, phase, mode, seed, plan>>
  BY DEF Compute, ValueChanges
<1>3. /\ Affected' = Affected /\ d \in Affected /\ d \in todo /\ val' \in Valuation
      /\ val' = [val EXCEPT ![d] = ResultNow(d)] /\ Mirrored' /\ DepsKnown' /\ LiveOK'
      /\ UndoType' /\ DOMAIN undo' = DOMAIN undo \cup {d}
      /\ \A n \in Node : ValBefore(n)' = ValBefore(n)
      /\ \A e \in DOMAIN undo : undo'[e] = undo[e]
      /\ undo'[d].deps = deps[d] /\ deps[d] \subseteq entries /\ ValBefore(d) = val[d]
      /\ deps' \in [Derived -> SUBSET Node] /\ dependents' \in [Node -> SUBSET Derived]
      /\ hasDependents' \in [Input -> BOOLEAN]
  BY <1>2, StoreFacts
<1>4. Types'
  BY <1>1, <1>2, <1>3 DEF Types, PlanType
<1>5. FrameOK'
  BY <1>2, <1>3 DEF IInv, FrameOK
<1>6. OutcomesOK'
  <2>1. val'[d] = ResultNow(d) /\ \A n \in Node : n # d => val'[n] = val[n]
    BY <1>1, <1>3, NodeKinds DEF Types, Valuation
  <2>2. stable \cup changed \subseteq Node /\ d \in Node
    BY <1>1, NodeKinds DEF Types, PlanType
  <2>3. d \notin stable /\ d \notin changed
    BY <1>2, <1>3 DEF IInv, OutcomesOK
  <2>4. \A e \in stable' : val'[e] = ValBefore(e)'
    BY <1>2, <1>3, <2>1, <2>2, <2>3 DEF IInv, OutcomesOK
  <2>5. \A e \in changed' : val'[e] # ValBefore(e)'
    BY <1>2, <1>3, <2>1, <2>2, <2>3 DEF IInv, OutcomesOK
  <2>6. /\ stable' \cap todo' = {} /\ changed' \cap todo' = {}
        /\ Affected' \ todo' \subseteq stable' \cup changed'
    BY <1>2, <1>3 DEF IInv, OutcomesOK
  <2> QED
    BY <2>4, <2>5, <2>6 DEF OutcomesOK
<1> QED
  BY <1>3, <1>4, <1>5, <1>6, Rejoin

LEMMA CycleThrowsKeeps ==
  ASSUME IInv, NEW d \in Derived, CycleThrows(d)
  PROVE  IInv'
<1>1. Types
  BY Facts
<1>2. /\ phase = "walk" /\ Ready(d) /\ ~ThrowsNow(d) /\ Store(d) /\ phase' = "failed"
      /\ UNCHANGED <<entries, compute, mode, seed, plan, todo, stable, changed>>
  BY DEF CycleThrows, pass
<1>3. /\ Affected' = Affected /\ d \in Affected /\ val' \in Valuation
      /\ Mirrored' /\ DepsKnown' /\ LiveOK'
      /\ UndoType' /\ DOMAIN undo' = DOMAIN undo \cup {d}
      /\ \A e \in DOMAIN undo : undo'[e] = undo[e]
      /\ undo'[d].deps = deps[d] /\ deps[d] \subseteq entries
      /\ deps' \in [Derived -> SUBSET Node] /\ dependents' \in [Node -> SUBSET Derived]
      /\ hasDependents' \in [Input -> BOOLEAN]
  BY <1>2, StoreFacts
<1>4. Types'
  BY <1>1, <1>2, <1>3 DEF Types, PlanType
<1>5. FrameOK'
  BY <1>2, <1>3 DEF IInv, FrameOK
<1>6. OutcomesOK'
  BY <1>2 DEF OutcomesOK
<1> QED
  BY <1>3, <1>4, <1>5, <1>6, Rejoin

LEMMA EndPassKeeps ==
  ASSUME IInv, EndPass, UNCHANGED <<graph, val>>, DOMAIN undo' = {}, UndoType'
  PROVE  IInv'
<1>1. Types /\ Mirrored /\ DepsKnown
  BY Facts
<1>2. /\ phase' = "idle" /\ seed' = {} /\ todo' = {} /\ stable' = {} /\ changed' = {}
      /\ plan' = [d \in {} |-> {}] /\ mode' = mode
      /\ UNCHANGED <<entries, compute, deps, dependents, hasDependents, val>>
  BY DEF EndPass, graph
<1>3. Affected' = {}
  BY <1>2 DEF Affected
<1>4. PlanType'
  BY <1>2, <1>3 DEF PlanType
<1>5. Types'
  BY <1>1, <1>2, <1>4 DEF Types
<1>6. Mirrored' /\ DepsKnown' /\ LiveOK'
  BY <1>1, <1>2 DEF Mirrored, DepsKnown, LiveOK, Live, IInv
<1>7. FrameOK' /\ OutcomesOK'
  BY <1>2, <1>3 DEF FrameOK, OutcomesOK
<1> QED
  BY <1>5, <1>6, <1>7, Rejoin

LEMMA EndKeeps ==
  ASSUME IInv, Publish \/ LeaveUnpublished \/ Abort
  PROVE  IInv'
<1>1. CASE Publish
  <2>1. DOMAIN undo' = {} /\ UndoType'
    BY <1>1 DEF Publish, UndoType
  <2> QED
    BY <1>1, <2>1, EndPassKeeps DEF Publish
<1>2. CASE Abort
  <2>1. DOMAIN undo' = {} /\ UndoType'
    BY <1>2, Facts DEF Abort, UndoType, Types
  <2> QED
    BY <1>2, <2>1, EndPassKeeps DEF Abort
<1>3. CASE LeaveUnpublished
  <2>1. Types /\ Mirrored /\ DepsKnown
    BY Facts
  <2>2. /\ phase' = "failed" /\ Affected' = Affected
        /\ UNCHANGED <<entries, compute, deps, dependents, hasDependents, val, mode, seed,
                       plan, todo, stable, changed, undo>>
    BY <1>3 DEF LeaveUnpublished, graph, pass, Affected
  <2>3. Types'
    BY <2>1, <2>2 DEF Types, PlanType, UndoType
  <2>4. Mirrored' /\ DepsKnown' /\ LiveOK' /\ FrameOK' /\ OutcomesOK'
    BY <2>1, <2>2 DEF Mirrored, DepsKnown, LiveOK, Live, FrameOK, OutcomesOK, IInv
  <2> QED
    BY <2>3, <2>4, Rejoin
<1> QED
  BY <1>1, <1>2, <1>3

LEMMA RestoreInputsKeeps ==
  ASSUME IInv, RestoreInputs
  PROVE  IInv'
<1>1. Types /\ Mirrored /\ DepsKnown
  BY Facts
<1>2. /\ phase = "failed" /\ phase' = "failed"
      /\ val' = [n \in Node |-> IF n \in DOMAIN undo \cap Input THEN undo[n].value ELSE val[n]]
      /\ undo' = [n \in DOMAIN undo \ Input |-> undo[n]]
      /\ Affected' = Affected
      /\ UNCHANGED <<entries, compute, deps, dependents, hasDependents, mode, seed, plan,
                     todo, stable, changed>>
  BY DEF RestoreInputs, graph, pass, Affected
<1>3. \A n \in DOMAIN undo : undo[n].value \in Value
  BY <1>1 DEF Types, UndoType
<1>4. val' \in Valuation
  BY <1>1, <1>2, <1>3 DEF Types, Valuation
<1>5. DOMAIN undo' = DOMAIN undo \ Input /\ \A n \in DOMAIN undo' : undo'[n] = undo[n]
  BY <1>2
<1>6. UndoType'
  BY <1>1, <1>2, <1>5 DEF Types, UndoType
<1>7. Types'
  BY <1>1, <1>2, <1>4, <1>6 DEF Types, PlanType
<1>8. Mirrored' /\ DepsKnown' /\ LiveOK' /\ OutcomesOK'
  BY <1>1, <1>2 DEF Mirrored, DepsKnown, LiveOK, Live, OutcomesOK, IInv
<1>9. FrameOK'
  BY <1>2, <1>5 DEF FrameOK, IInv
<1> QED
  BY <1>7, <1>8, <1>9, Rejoin

LEMMA RestoreDerivedKeeps ==
  ASSUME IInv, NEW d \in Derived, RestoreDerived(d)
  PROVE  IInv'
<1> DEFINE old == undo[d].deps
<1>1. Types /\ Mirrored /\ DepsKnown
  BY Facts
<1>2. /\ phase = "failed" /\ phase' = "failed" /\ d \in DOMAIN undo
      /\ val' = [val EXCEPT ![d] = undo[d].value]
      /\ SetDeps(d, old)
      /\ undo' = [n \in DOMAIN undo \ {d} |-> undo[n]]
      /\ Affected' = Affected
      /\ UNCHANGED <<entries, compute, mode, seed, plan, todo, stable, changed>>
  BY DEF RestoreDerived, pass, Affected
<1>3. undo[d].value \in Value /\ old \in SUBSET Node /\ old \subseteq entries
  BY <1>1, <1>2 DEF Types, UndoType, IInv, FrameOK
<1>4. d \in Live /\ d \in Node
  <2>1. d \notin Input
    BY NodesAssumption
  <2>2. d \in entries
    BY <1>2, <2>1 DEF IInv, FrameOK
  <2> QED
    BY <2>2, NodeKinds DEF Live
<1> HIDE DEF old
<1>5. val' \in Valuation
  BY <1>1, <1>2, <1>3, <1>4 DEF Types, Valuation
<1>6. DOMAIN undo' = DOMAIN undo \ {d} /\ \A n \in DOMAIN undo' : undo'[n] = undo[n]
  BY <1>2
<1>7. UndoType'
  BY <1>1, <1>2, <1>6 DEF Types, UndoType
<1>8. Types'
  BY <1>1, <1>2, <1>3, <1>5, <1>7, SetDepsTypes DEF Types, PlanType
<1>9. Mirrored' /\ DepsKnown'
  BY <1>1, <1>2, <1>3, <1>4, SetDepsMirrors, SetDepsKnown
<1>10. LiveOK' /\ OutcomesOK'
  BY <1>2 DEF LiveOK, Live, OutcomesOK, IInv
<1>11. FrameOK'
  BY <1>2, <1>6 DEF FrameOK, IInv
<1> QED
  BY <1>8, <1>9, <1>10, <1>11, Rejoin

LEMMA StutterKeeps ==
  ASSUME IInv, UNCHANGED vars
  PROVE  IInv'
<1>1. Types /\ Mirrored /\ DepsKnown
  BY Facts
<1>2. /\ Affected' = Affected
      /\ UNCHANGED <<entries, compute, deps, dependents, hasDependents, val, phase, mode,
                     seed, plan, todo, stable, changed, undo>>
  BY DEF vars, graph, pass, Affected
<1>3. Types'
  BY <1>1, <1>2 DEF Types, PlanType, UndoType
<1>4. Mirrored' /\ DepsKnown' /\ LiveOK' /\ FrameOK'
  BY <1>1, <1>2 DEF Mirrored, DepsKnown, LiveOK, Live, FrameOK, IInv
<1>5. OutcomesOK'
  BY <1>2 DEF OutcomesOK, ValBefore, IInv
<1> QED
  BY <1>3, <1>4, <1>5, Rejoin

LEMMA NextKeeps ==
  ASSUME IInv, [Next]_vars
  PROVE  IInv'
<1>1. CASE \E i \in Input, v \in Value : RegisterInput(i, v)
  BY <1>1, RegisterInputKeeps
<1>2. CASE \E d \in Derived, p \in Program : RegisterDerived(d, p)
  BY <1>2, RegisterDerivedKeeps
<1>3. CASE \E n \in Node : Dispose(n)
  BY <1>3, DisposeKeeps
<1>4. CASE \E m \in {"commit", "simulate"}, w \in [Input -> Value] : Begin(m, w)
  BY <1>4, BeginKeeps
<1>5. CASE \E d \in Derived : Walk(d) \/ RestoreDerived(d)
  BY <1>5, SkipKeeps, ComputeKeeps, ComputeThrowsKeeps, CycleThrowsKeeps,
     RestoreDerivedKeeps DEF Walk
<1>6. CASE Publish \/ LeaveUnpublished \/ RestoreInputs \/ Abort
  BY <1>6, EndKeeps, RestoreInputsKeeps
<1>7. CASE UNCHANGED vars
  BY <1>7, StutterKeeps
<1> QED
  BY <1>1, <1>2, <1>3, <1>4, <1>5, <1>6, <1>7 DEF Next

THEOREM Invariance == Spec => []IInv
<1>1. IInv /\ [Next]_vars => IInv'
  BY NextKeeps
<1> QED
  BY <1>1, InitKeeps, PTL DEF Spec

\* Every variable stays in its domain: the walk asks for nodes of the plan
\* only, and a compute that returns has returned a value.
THEOREM TypeCorrect == Spec => []TypeOK
<1>1. IInv => TypeOK
  BY DEF IInv
<1> QED
  BY <1>1, Invariance, PTL

\* deps, the dependents index and hasDependents are copies of one relation
\* over registered nodes, at every step of every pass and rollback, whatever
\* the computes read.
THEOREM EdgesMirrored == Spec => []EdgesMirror
<1>1. IInv => EdgesMirror
  BY DEF IInv
<1> QED
  BY <1>1, Invariance, PTL

\* The changed set of a commit is exact, for every pure compute and in every
\* topological order: a node whose recompute gives an equal value is not in
\* it, a node the walk skips has kept its value.
THEOREM ChangedSetExact == Spec => []ChangedExact
<1>1. ASSUME IInv, phase = "walk", todo = {}
      PROVE  changed = {d \in Derived : val[d] # Before[d][1]}
  <2>1. /\ changed \subseteq Affected /\ Affected \subseteq Derived /\ seed \subseteq Input
        /\ DOMAIN undo \subseteq seed \cup Affected
    <3>1. Types
      BY <1>1, Facts
    <3> QED
      BY <1>1, <3>1 DEF Types, PlanType, IInv, FrameOK
  <2>2. \A d \in Derived : Before[d][1] = ValBefore(d)
    <3> SUFFICES ASSUME NEW d \in Derived PROVE Before[d][1] = ValBefore(d)
      OBVIOUS
    <3>1. d \in Node /\ d \notin Input
      BY NodeKinds, NodesAssumption
    <3> QED
      BY <3>1 DEF Before, ValBefore
  <2>3. ASSUME NEW d \in Derived PROVE d \in changed <=> val[d] # ValBefore(d)
    <3>1. CASE d \in Affected
      BY <1>1, <3>1 DEF IInv, OutcomesOK
    <3>2. CASE d \notin Affected
      <4>1. d \notin DOMAIN undo
        BY <2>1, <3>2, NodesAssumption
      <4> QED
        BY <2>1, <3>2, <4>1 DEF ValBefore
    <3> QED
      BY <3>1, <3>2
  <2> QED
    BY <2>1, <2>2, <2>3
<1>2. IInv => ChangedExact
  BY <1>1 DEF ChangedExact
<1> QED
  BY <1>2, Invariance, PTL

-----------------------------------------------------------------------------
(* Rollback: what was before the frame does not move.                      *)

\* Before, node by node.
BeforeSplit ==
  /\ \A i \in Input : Before[i] = <<ValBefore(i), {}>>
  /\ \A d \in Derived : Before[d] = <<ValBefore(d), DepsBefore(d)>>

LEMMA BeforeParts == BeforeSplit
BY NodeKinds, NodesAssumption DEF BeforeSplit, Before, ValBefore, DepsBefore

LEMMA BeforePartsNext == BeforeSplit'
BY BeforeParts, PTL

LEMMA SameBefore ==
  ASSUME \A n \in Node : ValBefore(n)' = ValBefore(n),
         \A d \in Derived : DepsBefore(d)' = DepsBefore(d)
  PROVE  Before' = Before
<1>1. ASSUME NEW n \in Node PROVE Before'[n] = Before[n]
  <2>1. CASE n \in Input
    BY <2>1, BeforeParts, BeforePartsNext, NodeKinds DEF BeforeSplit
  <2>2. CASE n \in Derived
    BY <2>2, BeforeParts, BeforePartsNext, NodeKinds DEF BeforeSplit
  <2> QED
    BY <2>1, <2>2 DEF Node
<1> DEFINE Entry(n) == IF n \in DOMAIN undo
                       THEN IF n \in Input THEN <<undo[n].value, {}>>
                                           ELSE <<undo[n].value, undo[n].deps>>
                       ELSE IF n \in Input THEN <<val[n], {}>> ELSE <<val[n], deps[n]>>
<1>2. Before = [n \in Node |-> Entry(n)] /\ Before' = [n \in Node |-> Entry(n)']
  BY DEF Before
<1> HIDE DEF Entry
<1> QED
  BY <1>1, <1>2

LEMMA BeginBefore ==
  ASSUME IInv, NEW m \in {"commit", "simulate"}, NEW w \in [Input -> Value], Begin(m, w)
  PROVE  /\ \A n \in Node : ValBefore(n)' = ValBefore(n)
         /\ \A d \in Derived : DepsBefore(d)' = DepsBefore(d)
<1> DEFINE S == seed'
<1>1. /\ phase = "idle" /\ S \subseteq Input /\ deps' = deps
      /\ val' = [n \in Node |-> IF n \in S THEN w[n] ELSE val[n]]
      /\ undo' = [i \in S |-> [value |-> val[i], deps |-> {}]]
  BY BeginFacts DEF graph
<1>2. DOMAIN undo = {} /\ DOMAIN undo' = S
  BY <1>1 DEF IInv, FrameOK
<1> HIDE DEF S
<1>3. \A n \in Node : ValBefore(n)' = ValBefore(n)
  BY <1>1, <1>2 DEF ValBefore
<1>4. \A d \in Derived : DepsBefore(d)' = DepsBefore(d)
  BY <1>1, <1>2, NodesAssumption DEF DepsBefore
<1> QED
  BY <1>3, <1>4

LEMMA StoreBefore ==
  ASSUME IInv, NEW d \in Derived, phase = "walk", Ready(d), ~ThrowsNow(d), Store(d),
         UNCHANGED <<entries, compute, seed, plan>>
  PROVE  /\ \A n \in Node : ValBefore(n)' = ValBefore(n)
         /\ \A e \in Derived : DepsBefore(e)' = DepsBefore(e)
<1>1. /\ ReadsNow(d) \in SUBSET Node /\ SetDeps(d, ReadsNow(d)) /\ d \in todo
      /\ DOMAIN undo' = DOMAIN undo \cup {d}
      /\ \A n \in Node : ValBefore(n)' = ValBefore(n)
      /\ \A e \in DOMAIN undo : undo'[e] = undo[e]
      /\ undo'[d].deps = deps[d]
  BY StoreFacts
<1>2. d \notin DOMAIN undo
  BY <1>1 DEF IInv, FrameOK
<1>3. \A e \in Derived : e # d => deps'[e] = deps[e]
  BY <1>1, Facts, SetDepsTypes
<1>4. \A e \in Derived : DepsBefore(e)' = DepsBefore(e)
  BY <1>1, <1>2, <1>3 DEF DepsBefore
<1> QED
  BY <1>1, <1>4

LEMMA RestoreDerivedBefore ==
  ASSUME IInv, NEW d \in Derived, RestoreDerived(d)
  PROVE  /\ \A n \in Node : ValBefore(n)' = ValBefore(n)
         /\ \A e \in Derived : DepsBefore(e)' = DepsBefore(e)
<1>1. /\ d \in DOMAIN undo /\ val' = [val EXCEPT ![d] = undo[d].value]
      /\ SetDeps(d, undo[d].deps) /\ undo' = [n \in DOMAIN undo \ {d} |-> undo[n]]
  BY DEF RestoreDerived
<1>2. Types /\ d \in Node
  BY Facts, NodeKinds
<1>3. undo[d].deps \in SUBSET Node
  BY <1>1, <1>2 DEF Types, UndoType
<1>4. DOMAIN undo' = DOMAIN undo \ {d} /\ \A n \in DOMAIN undo' : undo'[n] = undo[n]
  BY <1>1
<1>5. val'[d] = undo[d].value /\ \A n \in Node : n # d => val'[n] = val[n]
  BY <1>1, <1>2 DEF Types, Valuation
<1>6. deps'[d] = undo[d].deps /\ \A e \in Derived : e # d => deps'[e] = deps[e]
  BY <1>1, <1>2, <1>3, SetDepsTypes
<1>7. \A n \in Node : ValBefore(n)' = ValBefore(n)
  BY <1>1, <1>4, <1>5 DEF ValBefore
<1>8. \A e \in Derived : DepsBefore(e)' = DepsBefore(e)
  BY <1>1, <1>4, <1>6 DEF DepsBefore
<1> QED
  BY <1>7, <1>8

LEMMA RestoreInputsBefore ==
  ASSUME IInv, RestoreInputs
  PROVE  /\ \A n \in Node : ValBefore(n)' = ValBefore(n)
         /\ \A e \in Derived : DepsBefore(e)' = DepsBefore(e)
<1>1. /\ val' = [n \in Node |-> IF n \in DOMAIN undo \cap Input THEN undo[n].value ELSE val[n]]
      /\ undo' = [n \in DOMAIN undo \ Input |-> undo[n]] /\ deps' = deps
  BY DEF RestoreInputs, graph
<1>2. DOMAIN undo' = DOMAIN undo \ Input /\ \A n \in DOMAIN undo' : undo'[n] = undo[n]
  BY <1>1
<1>3. \A n \in Node : ValBefore(n)' = ValBefore(n)
  BY <1>1, <1>2 DEF ValBefore
<1>4. \A e \in Derived : DepsBefore(e)' = DepsBefore(e)
  BY <1>1, <1>2, NodesAssumption DEF DepsBefore
<1> QED
  BY <1>3, <1>4

LEMMA WalkBefore ==
  ASSUME IInv, NEW d \in Derived, Walk(d)
  PROVE  /\ \A n \in Node : ValBefore(n)' = ValBefore(n)
         /\ \A e \in Derived : DepsBefore(e)' = DepsBefore(e)
<1>1. CASE Skip(d)
  BY <1>1 DEF Skip, graph, ValBefore, DepsBefore
<1>2. CASE Compute(d) \/ CycleThrows(d)
  BY <1>2, StoreBefore DEF Compute, CycleThrows, pass
<1>3. CASE ComputeThrows(d)
  <2>1. /\ Record(d) /\ UNCHANGED <<val, deps>> /\ d \in todo
    BY <1>3 DEF ComputeThrows, Ready, graph
  <2>2. DOMAIN undo' = DOMAIN undo \cup {d} /\ d \notin DOMAIN undo
    BY <1>3, <2>1 DEF Record, IInv, FrameOK, ComputeThrows
  <2>3. \A n \in DOMAIN undo' : undo'[n] = IF n \in DOMAIN undo THEN undo[n]
                                          ELSE [value |-> val[d], deps |-> deps[d]]
    BY <2>1 DEF Record
  <2> QED
    BY <2>1, <2>2, <2>3 DEF ValBefore, DepsBefore
<1> QED
  BY <1>1, <1>2, <1>3 DEF Walk

\* What there was before the frame stays what it was until it publishes.
LEMMA BeforeKept ==
  ASSUME IInv, Next, InFrame \/ InFrame', ~Publish
  PROVE  Before' = Before
<1>1. CASE \E m \in {"commit", "simulate"}, w \in [Input -> Value] : Begin(m, w)
  BY <1>1, BeginBefore, SameBefore
<1>2. CASE \E d \in Derived : Walk(d) \/ RestoreDerived(d)
  BY <1>2, WalkBefore, RestoreDerivedBefore, SameBefore
<1>3. CASE RestoreInputs
  BY <1>3, RestoreInputsBefore, SameBefore
<1>4. CASE LeaveUnpublished \/ Abort
  BY <1>4 DEF LeaveUnpublished, Abort, graph, Before
<1>5. phase = "idle" /\ phase' = "idle" => FALSE
  BY DEF InFrame
<1>6. ASSUME \/ \E i \in Input, v \in Value : RegisterInput(i, v)
             \/ \E d \in Derived, p \in Program : RegisterDerived(d, p)
             \/ \E n \in Node : Dispose(n)
      PROVE  FALSE
  BY <1>5, <1>6 DEF RegisterInput, RegisterDerived, Dispose
<1> QED
  BY <1>1, <1>2, <1>3, <1>4, <1>6 DEF Next

\* A pass that fails, in a compute or in the cycle probe, and a simulation,
\* give back every value and every edge.
THEOREM RollbackExact == Spec => RolledBackExactly
<1>1. IInv /\ [Next]_vars => [(InFrame \/ InFrame') /\ ~Publish => Before' = Before]_vars
  BY BeforeKept
<1> QED
  BY <1>1, Invariance, PTL DEF Spec, RolledBackExactly

-----------------------------------------------------------------------------
(* Glitch freedom, for computes that always read the same derived nodes.   *)

LEMMA Pure ==
  ASSUME NEW p \in Program, NEW v \in Valuation, NEW w \in Valuation,
         \A n \in Reads(p, v) : v[n] = w[n]
  PROVE  Reads(p, w) = Reads(p, v) /\ Eval(p, w) = Eval(p, v)
BY PurityAssumption

LEMMA ReadsTyped ==
  ASSUME NEW p \in Program, NEW v \in Valuation
  PROVE  Reads(p, v) \subseteq Node
BY PurityAssumption

LEMMA BeforeTyped ==
  ASSUME Types
  PROVE  ValuesBefore \in Valuation /\ \A n \in Node : ValuesBefore[n] = ValBefore(n)
<1>1. \A n \in Node : ValBefore(n) \in Value
  BY DEF Types, UndoType, Valuation, ValBefore
<1> QED
  BY <1>1 DEF ValuesBefore, Valuation

\* While no frame is open, before is now.
LEMMA BeforeIsNow ==
  ASSUME Types, DOMAIN undo = {}
  PROVE  /\ ValuesBefore = val
         /\ SettledBefore <=> \A d \in Static : Settled(d)
<1>1. \A n : ValBefore(n) = val[n] /\ DepsBefore(n) = deps[n]
  BY DEF ValBefore, DepsBefore
<1>2. ValuesBefore = val
  <2>1. val = [n \in Node |-> val[n]]
    BY DEF Types, Valuation
  <2> QED
    BY <1>1, <2>1 DEF ValuesBefore
<1> QED
  BY <1>1, <1>2 DEF SettledBefore, Settled, ResultNow, ReadsNow

BeforeNowFact == Types /\ DOMAIN undo = {} =>
                   (SettledBefore <=> \A d \in Static : Settled(d))

LEMMA BeforeIsNowNext == BeforeNowFact'
<1>1. BeforeNowFact
  BY BeforeIsNow DEF BeforeNowFact
<1> QED
  BY <1>1, PTL

\* A settled node stays so when what it reads keeps its values.
LEMMA StaysSettled ==
  ASSUME Types, Types', NEW d \in Derived, compute[d] \in Program, Settled(d),
         compute'[d] = compute[d], deps'[d] = deps[d], val'[d] = val[d],
         \A n \in deps[d] : val'[n] = val[n]
  PROVE  Settled(d)'
<1>1. val \in Valuation /\ val' \in Valuation
  BY DEF Types
<1>2. val[d] = Eval(compute[d], val) /\ deps[d] = Reads(compute[d], val)
  BY DEF Settled, ResultNow, ReadsNow
<1>3. Reads(compute[d], val') = Reads(compute[d], val) /\ Eval(compute[d], val') = Eval(compute[d], val)
  BY <1>1, <1>2, Pure
<1> QED
  BY <1>2, <1>3 DEF Settled, ResultNow, ReadsNow

LEMMA SameSettledBefore ==
  ASSUME SettledBefore, UNCHANGED <<entries, compute>>,
         \A n \in Node : ValBefore(n)' = ValBefore(n),
         \A d \in Derived : DepsBefore(d)' = DepsBefore(d)
  PROVE  SettledBefore'
<1>1. ValuesBefore' = ValuesBefore
  BY DEF ValuesBefore
<1>2. Static' = Static /\ \A d \in Static : d \in Derived /\ d \in Node
  BY NodeKinds DEF Static, Live
<1> QED
  BY <1>1, <1>2 DEF SettledBefore

LEMMA QuietSettled ==
  ASSUME IInv, IInv', SettledInv, phase = "idle", phase' = "idle", undo' = undo,
         \A d \in Static' : \/ Settled(d)'
                          \/ /\ d \in Static /\ compute'[d] = compute[d]
                             /\ deps'[d] = deps[d] /\ val'[d] = val[d]
                             /\ \A n \in deps[d] : val'[n] = val[n]
  PROVE  SettledInv'
<1>1. Types /\ Types' /\ DOMAIN undo = {} /\ DOMAIN undo' = {}
  <2>1. Types'
    BY TypesFollow, PTL DEF IInv
  <2> QED
    BY <2>1, Facts DEF IInv, FrameOK
<1>2. \A d \in Static : Settled(d) /\ d \in Derived /\ compute[d] \in Program
  BY <1>1, BeforeIsNow DEF SettledInv, IInv, LiveOK, Static, Live
<1>3. \A d \in Static' : Settled(d)'
  BY <1>1, <1>2, StaysSettled
<1>4. SettledBefore'
  BY <1>1, <1>3, BeforeIsNowNext DEF BeforeNowFact
<1> QED
  BY <1>4 DEF SettledInv, DoneSettled

LEMMA RegisterInputSettled ==
  ASSUME IInv, IInv', SettledInv, NEW i \in Input, NEW v \in Value, RegisterInput(i, v)
  PROVE  SettledInv'
<1>1. /\ phase = "idle" /\ phase' = "idle" /\ undo' = undo /\ i \notin entries
      /\ entries' = entries \cup {i} /\ val' = [val EXCEPT ![i] = v]
      /\ UNCHANGED <<compute, deps>>
  BY DEF RegisterInput
<1>2. Types /\ DepsKnown
  BY Facts
<1>3. Static' = Static
  <2>1. Live' = Live
    BY <1>1, NodesAssumption DEF Live
  <2> QED
    BY <1>1, <2>1 DEF Static
<1>4. ASSUME NEW d \in Static
      PROVE  val'[d] = val[d] /\ \A n \in deps[d] : val'[n] = val[n]
  <2>1. d \in Derived /\ d # i /\ d \in Node
    BY NodesAssumption, NodeKinds DEF Static, Live
  <2>2. i \notin deps[d] /\ deps[d] \subseteq Node
    BY <1>1, <1>2, <1>4, <2>1 DEF DepsKnown, Static, Live, Types
  <2> QED
    BY <1>1, <1>2, <2>1, <2>2 DEF Types, Valuation
<1> QED
  BY <1>1, <1>3, <1>4, QuietSettled

LEMMA RegisterDerivedSettled ==
  ASSUME IInv, IInv', SettledInv, NEW d \in Derived, NEW p \in Program, RegisterDerived(d, p)
  PROVE  SettledInv'
<1>1. /\ phase = "idle" /\ phase' = "idle" /\ undo' = undo /\ d \notin entries
      /\ entries' = entries \cup {d} /\ val' = [val EXCEPT ![d] = Eval(p, val)]
      /\ compute' = [compute EXCEPT ![d] = p]
      /\ Reads(p, val) \subseteq entries /\ SetDeps(d, Reads(p, val))
  BY DEF RegisterDerived
<1>2. Types /\ DepsKnown /\ d \in Node /\ Reads(p, val) \in SUBSET Node
  BY Facts, NodeKinds, ReadsTyped DEF Types
<1>3. Types'
  BY TypesFollow, PTL DEF IInv
<1>4. Live' = Live \cup {d} /\ d \notin Live
  BY <1>1 DEF Live
<1>5. deps'[d] = Reads(p, val) /\ \A e \in Derived : e # d => deps'[e] = deps[e]
  BY <1>1, <1>2, SetDepsTypes
<1>6. compute'[d] = p /\ \A e \in Derived : e # d => compute'[e] = compute[e]
  BY <1>1, <1>2 DEF Types
<1>7. val'[d] = Eval(p, val) /\ \A n \in Node : n # d => val'[n] = val[n]
  BY <1>1, <1>2 DEF Types, Valuation
<1>8. Settled(d)'
  <2>1. val \in Valuation /\ val' \in Valuation
    BY <1>2, <1>3 DEF Types
  <2>2. \A n \in Reads(p, val) : val[n] = val'[n]
    BY <1>1, <1>2, <1>7
  <2>3. Reads(p, val') = Reads(p, val) /\ Eval(p, val') = Eval(p, val)
    BY <2>1, <2>2, Pure
  <2> QED
    BY <1>5, <1>6, <1>7, <2>3 DEF Settled, ResultNow, ReadsNow
<1>9. ASSUME NEW e \in Static
      PROVE  /\ compute'[e] = compute[e] /\ deps'[e] = deps[e] /\ val'[e] = val[e]
             /\ \A n \in deps[e] : val'[n] = val[n]
  <2>1. e \in Derived /\ e \in Node /\ e # d
    BY <1>4, NodeKinds DEF Static, Live
  <2>2. d \notin deps[e] /\ deps[e] \subseteq Node
    BY <1>1, <1>2, <1>9, <2>1 DEF DepsKnown, Static, Live, Types
  <2> QED
    BY <1>5, <1>6, <1>7, <2>1, <2>2
<1>10. \A e \in Static' : e = d \/ e \in Static
  BY <1>4, <1>6 DEF Static, Live
<1> QED
  BY <1>1, <1>8, <1>9, <1>10, QuietSettled

LEMMA DisposeSettled ==
  ASSUME IInv, IInv', SettledInv, NEW n \in Node, Dispose(n)
  PROVE  SettledInv'
<1>1. /\ phase = "idle" /\ phase' = "idle" /\ undo' = undo /\ entries' = entries \ {n}
      /\ UNCHANGED <<compute, val>>
  BY DEF Dispose
<1>2. Static' = Static \ {n} /\ \A d \in Static : d \in Derived
  BY <1>1 DEF Static, Live
<1>3. \A d \in Static' : deps'[d] = deps[d]
  <2>1. CASE n \in Derived
    BY <1>2, <2>1, Facts, SetDepsTypes DEF Dispose
  <2>2. CASE n \notin Derived
    BY <2>2 DEF Dispose
  <2> QED
    BY <2>1, <2>2
<1> QED
  BY <1>1, <1>2, <1>3, QuietSettled

LEMMA BeginSettled ==
  ASSUME IInv, IInv', SettledInv, NEW m \in {"commit", "simulate"},
         NEW w \in [Input -> Value], Begin(m, w)
  PROVE  SettledInv'
<1> DEFINE S == seed'
           A == Affected'
<1>1. /\ phase = "idle" /\ phase' = "walk" /\ S \subseteq Input
      /\ val' = [n \in Node |-> IF n \in S THEN w[n] ELSE val[n]]
      /\ A = Downstream(S)
      /\ plan' = [d \in A |-> {e \in A : d \in dependents[e]}]
      /\ todo' = A
      /\ UNCHANGED <<entries, compute, deps, dependents>>
  BY BeginFacts DEF graph
<1>2. Types /\ Mirrored /\ Types'
  BY Facts, TypesFollow, PTL DEF IInv
<1>3. /\ S \subseteq Node /\ A \subseteq Live /\ A \subseteq Derived
      /\ \A n \in A \cup S : dependents[n] \subseteq A
  <2>1. S \in SUBSET Node
    BY <1>1, NodeKinds
  <2>2. Downstream(S) \subseteq Live /\ ClosedDownstream(Downstream(S), S)
    BY <1>2, <2>1, DownstreamLive DEF IInv
  <2> HIDE DEF S, A
  <2> QED
    BY <1>1, <2>1, <2>2 DEF ClosedDownstream, Live
<1> HIDE DEF S, A
<1>4. /\ \A d \in Live : d \in Derived /\ compute[d] \in Program /\ deps[d] \subseteq Node
      /\ \A d \in Static : d \in Live /\ Settled(d)
  BY <1>1, <1>2, BeforeIsNow DEF SettledInv, IInv, FrameOK, LiveOK, Static, Live, Types
<1>5. \A d \in todo' : deps'[d] \cap A \subseteq plan'[d]
  <2> SUFFICES ASSUME NEW d \in A, NEW n \in deps[d], n \in A PROVE n \in plan'[d]
    BY <1>1
  <2>1. n \in Node /\ d \in Derived
    BY <1>3, <1>4
  <2>2. d \in dependents[n]
    BY <1>2, <2>1 DEF Mirrored
  <2> QED
    BY <1>1, <2>2
<1>6. ASSUME NEW d \in Live \ A
      PROVE  deps[d] \cap (A \cup S) = {}
  <2>1. ASSUME NEW n \in deps[d], n \in A \cup S PROVE FALSE
    <3>1. n \in Node /\ d \in Derived
      BY <1>4
    <3>2. d \in dependents[n]
      BY <1>2, <3>1 DEF Mirrored
    <3> QED
      BY <1>3, <1>6, <2>1, <3>2
  <2> QED
    BY <2>1
<1>7. ASSUME NEW d \in Static \ A PROVE Settled(d)'
  <2>1. d \in Derived /\ d \in Node /\ d \notin S
    BY <1>1, <1>4, NodeKinds
  <2>2. val'[d] = val[d] /\ \A n \in deps[d] : val'[n] = val[n]
    BY <1>1, <1>4, <1>6, <2>1
  <2> QED
    BY <1>1, <1>2, <1>4, <2>1, <2>2, StaysSettled
<1>8. DoneSettled'
  <2>1. Static' = Static
    BY <1>1 DEF Static, Live
  <2> QED
    BY <1>1, <1>4, <1>5, <1>6, <1>7, <2>1 DEF DoneSettled, A
<1>9. SettledBefore'
  BY <1>1, BeginBefore, SameSettledBefore DEF SettledInv
<1> QED
  BY <1>8, <1>9 DEF SettledInv

\* A node of the walk whose turn has come waits for nobody.
LEMMA TurnHasCome ==
  ASSUME IInv, SettledInv, NEW d \in Derived, phase = "walk", Ready(d)
  PROVE  /\ deps[d] \cap todo = {} /\ d \in Live /\ compute[d] \in Program
         /\ DepsBefore(d) = deps[d] /\ ValBefore(d) = val[d]
         /\ d \in Static => /\ val[d] = Eval(compute[d], ValuesBefore)
                           /\ deps[d] = Reads(compute[d], ValuesBefore)
<1>1. Types /\ d \in todo /\ plan[d] \cap todo = {} /\ todo \subseteq Affected
  BY Facts DEF Ready, Types
<1>2. d \in Live /\ compute[d] \in Program
  BY <1>1, Facts DEF IInv, LiveOK
<1>3. deps[d] \cap todo = {}
  BY <1>1 DEF SettledInv, DoneSettled
<1>4. DepsBefore(d) = deps[d] /\ ValBefore(d) = val[d]
  BY <1>1 DEF IInv, FrameOK, DepsBefore, ValBefore
<1> QED
  BY <1>2, <1>3, <1>4 DEF SettledInv, SettledBefore

LEMMA SkipSettled ==
  ASSUME IInv, IInv', SettledInv, NEW d \in Derived, Skip(d)
  PROVE  SettledInv'
<1>1. /\ phase = "walk" /\ Ready(d) /\ AllStable(d) /\ todo' = todo \ {d}
      /\ UNCHANGED <<entries, compute, deps, val, plan, phase>>
  BY DEF Skip, graph
<1>2. Types /\ Types'
  BY Facts, TypesFollow, PTL DEF IInv
<1>3. /\ deps[d] \cap todo = {} /\ d \in Live /\ compute[d] \in Program
      /\ d \in Static => /\ val[d] = Eval(compute[d], ValuesBefore)
                        /\ deps[d] = Reads(compute[d], ValuesBefore)
  BY <1>1, TurnHasCome
<1>4. ValuesBefore \in Valuation /\ val \in Valuation /\ deps[d] \subseteq Node
  BY <1>2, BeforeTyped DEF Types
<1>5. \A n \in deps[d] : ValuesBefore[n] = val[n]
  <2> SUFFICES ASSUME NEW n \in deps[d] PROVE ValBefore(n) = val[n]
    BY <1>2, <1>4, BeforeTyped
  <2>1. n \notin seed /\ (n \in Affected => n \in stable)
    BY <1>1 DEF AllStable
  <2>2. CASE n \in Affected
    BY <1>1, <2>1, <2>2 DEF IInv, OutcomesOK
  <2>3. CASE n \notin Affected
    BY <2>1, <2>3 DEF IInv, FrameOK, ValBefore
  <2> QED
    BY <2>2, <2>3
<1>6. ASSUME d \in Static PROVE Settled(d)
  <2>1. Reads(compute[d], val) = deps[d] /\ Eval(compute[d], val) = val[d]
    BY <1>3, <1>4, <1>5, <1>6, Pure
  <2> QED
    BY <2>1 DEF Settled, ResultNow, ReadsNow
<1>7. Static' = Static /\ Affected' = Affected /\ \A e \in Static : Settled(e)' <=> Settled(e)
  BY <1>1 DEF Static, Live, Affected, Settled, ResultNow, ReadsNow
<1>8. DoneSettled'
  BY <1>1, <1>3, <1>6, <1>7 DEF SettledInv, DoneSettled
<1>9. SettledBefore'
  BY <1>1, WalkBefore, SameSettledBefore DEF SettledInv, Walk
<1> QED
  BY <1>8, <1>9 DEF SettledInv

LEMMA ComputeSettled ==
  ASSUME IInv, IInv', SettledInv, NEW d \in Derived, Compute(d)
  PROVE  SettledInv'
<1> DEFINE next == ReadsNow(d)
<1>1. /\ phase = "walk" /\ Ready(d) /\ ~ThrowsNow(d) /\ Store(d) /\ todo' = todo \ {d}
      /\ UNCHANGED <<entries, compute, phase, mode, seed, plan>>
  BY DEF Compute
<1>2. Types /\ Types'
  BY Facts, TypesFollow, PTL DEF IInv
<1>3. /\ deps[d] \cap todo = {} /\ d \in Live /\ compute[d] \in Program
      /\ d \in Static => deps[d] = Reads(compute[d], ValuesBefore)
  BY <1>1, TurnHasCome
<1>4. /\ val' = [val EXCEPT ![d] = ResultNow(d)] /\ val' \in Valuation /\ d \in todo
      /\ SetDeps(d, next) /\ next \in SUBSET Node
  BY <1>1, StoreFacts
<1>5. deps'[d] = next /\ \A e \in Derived : e # d => deps'[e] = deps[e]
  BY <1>2, <1>4, SetDepsTypes
<1>6. val'[d] = ResultNow(d) /\ \A n \in Node : n # d => val'[n] = val[n]
  BY <1>2, <1>4, NodeKinds DEF Types, Valuation
<1>7. ASSUME d \in Static PROVE next \cap todo = {}
  <2>1. next \cap Derived = deps[d] \cap Derived
    BY <1>2, <1>3, <1>7, BeforeTyped DEF Static, StaticProgram, ReadsNow, Types
  <2>2. todo \subseteq Derived
    BY <1>2 DEF Types, PlanType
  <2> QED
    BY <1>3, <2>1, <2>2
<1>8. ASSUME d \in Static PROVE Settled(d)'
  <2>1. d \notin next /\ next = Reads(compute[d], val)
    BY <1>4, <1>7, <1>8 DEF ReadsNow
  <2>2. \A n \in Reads(compute[d], val) : val[n] = val'[n]
    BY <1>4, <1>6, <2>1
  <2>3. Reads(compute[d], val') = next /\ Eval(compute[d], val') = ResultNow(d)
    BY <1>2, <1>3, <1>4, <2>1, <2>2, Pure DEF Types, ResultNow
  <2> QED
    BY <1>1, <1>5, <1>6, <2>3 DEF Settled, ResultNow, ReadsNow
<1>9. ASSUME NEW e \in Static, e # d, e \notin todo
      PROVE  Settled(e)' /\ deps'[e] \cap todo = {}
  <2>1. e \in Derived /\ e \in Node /\ compute[e] \in Program
    BY NodeKinds DEF Static, Live, IInv, LiveOK
  <2>2. Settled(e) /\ deps[e] \cap todo = {} /\ deps[e] \subseteq Node
    BY <1>1, <1>2, <1>9, <2>1 DEF SettledInv, DoneSettled, Types
  <2>3. \A n \in deps[e] : val'[n] = val[n]
    BY <1>4, <1>6, <2>2
  <2> QED
    BY <1>1, <1>2, <1>5, <1>6, <1>9, <2>1, <2>2, <2>3, StaysSettled
<1>10. DoneSettled'
  <2>1. Static' = Static /\ Affected' = Affected /\ todo \subseteq Derived
    BY <1>1, <1>2 DEF Static, Live, Affected, Types, PlanType
  <2>2. \A e \in todo' : deps'[e] \cap Affected' \subseteq plan'[e]
    BY <1>1, <1>5, <2>1 DEF SettledInv, DoneSettled
  <2>3. \A e \in Static' \ todo' : Settled(e)' /\ deps'[e] \cap todo' = {}
    BY <1>1, <1>5, <1>7, <1>8, <1>9, <2>1
  <2> QED
    BY <2>2, <2>3 DEF DoneSettled
<1>11. SettledBefore'
  BY <1>1, StoreBefore, SameSettledBefore DEF SettledInv
<1> QED
  BY <1>10, <1>11 DEF SettledInv

\* Steps into and within the catch arm, and the end of a failed frame.
LEMMA FailedSettled ==
  ASSUME IInv, IInv', SettledInv, phase' # "walk",
         \/ \E d \in Derived : Walk(d) \/ RestoreDerived(d)
         \/ LeaveUnpublished \/ RestoreInputs \/ Abort
  PROVE  SettledInv'
<1>1. UNCHANGED <<entries, compute>>
  BY DEF Walk, Skip, Compute, ComputeThrows, CycleThrows, RestoreDerived, LeaveUnpublished,
         RestoreInputs, Abort, graph
<1>2. /\ \A n \in Node : ValBefore(n)' = ValBefore(n)
      /\ \A d \in Derived : DepsBefore(d)' = DepsBefore(d)
  <2>1. CASE LeaveUnpublished \/ Abort
    BY <2>1 DEF LeaveUnpublished, Abort, graph, ValBefore, DepsBefore
  <2> QED
    BY <2>1, WalkBefore, RestoreDerivedBefore, RestoreInputsBefore
<1> QED
  BY <1>1, <1>2, SameSettledBefore DEF SettledInv, DoneSettled

LEMMA PublishSettled ==
  ASSUME IInv, IInv', SettledInv, Publish
  PROVE  SettledInv'
<1>1. /\ phase = "walk" /\ todo = {} /\ phase' = "idle" /\ DOMAIN undo' = {}
      /\ UNCHANGED <<entries, compute, deps, val>>
  BY DEF Publish, EndPass, graph
<1>2. Types'
  BY TypesFollow, PTL DEF IInv
<1>3. \A d \in Static' : Settled(d)'
  BY <1>1 DEF SettledInv, DoneSettled, Static, Live, Settled, ResultNow, ReadsNow
<1>4. SettledBefore'
  BY <1>1, <1>2, <1>3, BeforeIsNowNext DEF BeforeNowFact
<1> QED
  BY <1>1, <1>4 DEF SettledInv, DoneSettled

LEMMA NextSettled ==
  ASSUME IInv, IInv', SettledInv, [Next]_vars
  PROVE  SettledInv'
<1>1. CASE \E i \in Input, v \in Value : RegisterInput(i, v)
  BY <1>1, RegisterInputSettled
<1>2. CASE \E d \in Derived, p \in Program : RegisterDerived(d, p)
  BY <1>2, RegisterDerivedSettled
<1>3. CASE \E n \in Node : Dispose(n)
  BY <1>3, DisposeSettled
<1>4. CASE \E m \in {"commit", "simulate"}, w \in [Input -> Value] : Begin(m, w)
  BY <1>4, BeginSettled
<1>5. CASE \E d \in Derived : Skip(d) \/ Compute(d)
  BY <1>5, SkipSettled, ComputeSettled
<1>6. CASE \/ \E d \in Derived : ComputeThrows(d) \/ CycleThrows(d) \/ RestoreDerived(d)
           \/ LeaveUnpublished \/ RestoreInputs \/ Abort
  <2>1. phase' # "walk"
    BY <1>6 DEF ComputeThrows, CycleThrows, RestoreDerived, LeaveUnpublished, RestoreInputs,
                Abort, EndPass
  <2> QED
    BY <1>6, <2>1, FailedSettled DEF Walk
<1>7. CASE Publish
  BY <1>7, PublishSettled
<1>8. CASE UNCHANGED vars
  <2>1. SettledBefore'
    BY <1>8, SameSettledBefore DEF vars, graph, pass, SettledInv, ValBefore, DepsBefore
  <2>2. DoneSettled'
    BY <1>8 DEF vars, graph, pass, SettledInv, DoneSettled, Settled, ResultNow, ReadsNow,
                Static, Live, Affected
  <2> QED
    BY <2>1, <2>2 DEF SettledInv
<1> QED
  BY <1>1, <1>2, <1>3, <1>4, <1>5, <1>6, <1>7, <1>8 DEF Next, Walk

\* SPEC.md 3, Theorem 2, as far as the code keeps it: between commits the value
\* of every derived node that does not change which derived nodes it reads is
\* its compute applied to the current values, and its edges are what that
\* reads, over any history of commits, failures, simulations, registrations
\* and disposals, although the walk skips what it may and other nodes rewire.
THEOREM GlitchFreedom == Spec => []GlitchFree
<1>1. Init => SettledInv
  <2> SUFFICES ASSUME Init PROVE SettledInv
    OBVIOUS
  <2>1. Static = {} /\ phase = "idle"
    BY NodesAssumption DEF Init, Static, Live
  <2> QED
    BY <2>1 DEF SettledInv, SettledBefore, DoneSettled
<1>2. IInv /\ IInv' /\ SettledInv /\ [Next]_vars => SettledInv'
  BY NextSettled
<1>3. IInv /\ SettledInv => GlitchFree
  <2> SUFFICES ASSUME IInv, SettledInv, phase = "idle" PROVE \A d \in Static : Settled(d)
    BY DEF GlitchFree
  <2>1. Types /\ DOMAIN undo = {}
    BY Facts DEF IInv, FrameOK
  <2> QED
    BY <2>1, BeforeIsNow DEF SettledInv
<1> QED
  BY <1>1, <1>2, <1>3, Invariance, PTL DEF Spec

-----------------------------------------------------------------------------
(* No cycle outlives the frame that closes it.                             *)

Edges == [Derived -> SUBSET Node]

\* S has all that can be reached along the edges from it.
Closed(edges, S) == \A n \in S \cap Derived : edges[n] \subseteq S

\* There is no way from d back to d: something closed has all d reads, without d.
Avoids(edges, d) ==
  \E S \in SUBSET Node : edges[d] \subseteq S /\ Closed(edges, S) /\ d \notin S

Acyclic(edges) == \A d \in Derived : Avoids(edges, d)

EdgesBefore == [d \in Derived |-> DepsBefore(d)]

\* What a failed pass will give back has no cycle either.
CycleInv == Acyclic(EdgesBefore) /\ (phase # "failed" => Acyclic(deps))

-----------------------------------------------------------------------------
(* Reachability.                                                           *)

LEMMA NoWayBack ==
  ASSUME NEW edges, NEW d \in Derived
  PROVE  d \notin Upstream(edges, d) <=> Avoids(edges, d)
  BY NodeKinds DEF Upstream, Avoids, Closed

\* Upstream is the least closed set over what d reads.
LEMMA UpstreamIsClosed ==
  ASSUME NEW edges \in Edges, NEW d \in Derived
  PROVE  /\ Upstream(edges, d) \in SUBSET Node
         /\ edges[d] \subseteq Upstream(edges, d)
         /\ Closed(edges, Upstream(edges, d))
         /\ \A S \in SUBSET Node :
              edges[d] \subseteq S /\ Closed(edges, S) => Upstream(edges, d) \subseteq S
<1>1. edges[d] \subseteq Node /\ \A n \in Derived : edges[n] \subseteq Node
  BY DEF Edges
<1>2. Upstream(edges, d) \in SUBSET Node /\ edges[d] \subseteq Upstream(edges, d)
  BY <1>1 DEF Upstream
<1>3. \A S \in SUBSET Node :
        edges[d] \subseteq S /\ Closed(edges, S) => Upstream(edges, d) \subseteq S
  BY DEF Upstream, Closed
<1>4. Closed(edges, Upstream(edges, d))
  <2> SUFFICES ASSUME NEW n \in Upstream(edges, d) \cap Derived, NEW m \in edges[n],
                      NEW S \in SUBSET Node, edges[d] \subseteq S, Closed(edges, S)
               PROVE  m \in S
    BY <1>1 DEF Closed, Upstream
  <2>1. n \in S
    BY <1>3
  <2> QED
    BY <2>1 DEF Closed
<1> QED
  BY <1>2, <1>3, <1>4

LEMMA FewerEdges ==
  ASSUME NEW edges, NEW fewer, Acyclic(edges),
         \A d \in Derived : fewer[d] \subseteq edges[d]
  PROVE  Acyclic(fewer)
<1> SUFFICES ASSUME NEW d \in Derived PROVE Avoids(fewer, d)
  BY DEF Acyclic
<1>1. PICK S \in SUBSET Node : edges[d] \subseteq S /\ Closed(edges, S) /\ d \notin S
  BY DEF Acyclic, Avoids
<1>2. fewer[d] \subseteq S /\ Closed(fewer, S)
  BY <1>1 DEF Closed
<1> QED
  BY <1>1, <1>2 DEF Avoids

\* If d can not reach itself along its new edges then nobody can: a new way back
\* to another node would go through d, and through that node back to d.
LEMMA NewEdges ==
  ASSUME NEW edges \in Edges, NEW d \in Derived, NEW next \in SUBSET Node,
         Acyclic(edges), Avoids([edges EXCEPT ![d] = next], d)
  PROVE  Acyclic([edges EXCEPT ![d] = next])
<1> DEFINE new == [edges EXCEPT ![d] = next]
<1>1. new[d] = next /\ \A n \in Derived : n # d => new[n] = edges[n]
  BY DEF Edges
<1>2. PICK D \in SUBSET Node : next \subseteq D /\ Closed(new, D) /\ d \notin D
  BY <1>1 DEF Avoids
<1> HIDE DEF new
<1> SUFFICES ASSUME NEW e \in Derived, e # d PROVE Avoids(new, e)
  BY DEF Acyclic, new
<1> DEFINE U == Upstream(edges, e)
<1>3. U \in SUBSET Node /\ edges[e] \subseteq U /\ Closed(edges, U) /\ e \notin U
  BY UpstreamIsClosed, NoWayBack DEF Acyclic
<1>4. Closed(edges, D)
  BY <1>1, <1>2 DEF Closed
<1>5. CASE d \notin U
  <2>1. new[e] \subseteq U /\ Closed(new, U)
    BY <1>1, <1>3, <1>5 DEF Closed
  <2> QED
    BY <1>3, <2>1 DEF Avoids
<1>6. CASE d \in U
  <2>1. e \notin D
    <3>1. e \in D => edges[e] \subseteq D
      BY <1>4 DEF Closed
    <3>2. e \in D => U \subseteq D
      BY <1>4, <3>1, UpstreamIsClosed
    <3> QED
      BY <1>2, <1>6, <3>2
  <2>2. new[e] \subseteq U \cup D /\ Closed(new, U \cup D)
    BY <1>1, <1>2, <1>3 DEF Closed
  <2> QED
    BY <1>2, <1>3, <2>1, <2>2 DEF Avoids
<1> QED
  BY <1>5, <1>6

\* A node that nobody reads, itself included, closes no cycle.
LEMMA UnreadNode ==
  ASSUME NEW edges \in Edges, NEW d \in Derived, NEW next \in SUBSET Node,
         Acyclic(edges), d \notin next, \A n \in Derived : d \notin edges[n]
  PROVE  Acyclic([edges EXCEPT ![d] = next])
<1> DEFINE new == [edges EXCEPT ![d] = next]
           S == Node \ {d}
<1>1. new[d] \subseteq S /\ Closed(new, S)
  BY DEF Edges, Closed
<1>2. Avoids(new, d)
  BY <1>1 DEF Avoids
<1> QED
  BY <1>2, NewEdges

LEMMA Smallest == \A T \in SUBSET Nat : T # {} => \E x \in T : \A y \in T : x <= y
<1> SUFFICES ASSUME NEW T \in SUBSET Nat, T # {} PROVE \E x \in T : \A y \in T : x <= y
  OBVIOUS
<1>1. PICK R : R = OpToRel(<, Nat)
  BY Zenon
<1>2. IsWellFoundedOn(R, Nat)
  BY <1>1, NatLessThanWellFounded, Zenon
<1>3. PICK x \in T : \A y \in T : ~(<<y, x>> \in R)
  BY <1>2, WFMin
<1>4. \A y \in T : y < x => <<y, x>> \in R
  BY <1>1 DEF OpToRel
<1>5. \A y \in T : x \in Nat /\ y \in Nat /\ ~(y < x)
  BY <1>3, <1>4
<1>6. \A y \in T : x <= y
  BY <1>5
<1> QED
  BY <1>6

\* Of the nodes of T one has the fewest nodes of T upstream.  One that it read
\* and that is in T would have fewer.
LEMMA SomeReadNone ==
  ASSUME NEW edges \in Edges, NEW T \in SUBSET Derived, IsFiniteSet(T), T # {},
         \A d \in T : Avoids(edges, d)
  PROVE  \E d \in T : edges[d] \cap T = {}
<1> DEFINE Up(d) == Upstream(edges, d) \cap T
           N     == {Cardinality(Up(d)) : d \in T}
<1>1. \A d \in T : /\ Up(d) \in SUBSET T /\ IsFiniteSet(Up(d)) /\ Cardinality(Up(d)) \in Nat
  <2> SUFFICES ASSUME NEW d \in T PROVE IsFiniteSet(Up(d)) /\ Cardinality(Up(d)) \in Nat
    OBVIOUS
  <2>1. IsFiniteSet(Up(d))
    BY FS_Subset
  <2> QED
    BY <2>1, FS_CardinalityType
<1>2. PICK x \in N : \A y \in N : x <= y
  <2>1. N \in SUBSET Nat /\ N # {}
    BY <1>1
  <2> QED
    BY <2>1, Smallest
<1>3. PICK d \in T : Cardinality(Up(d)) = x
  BY <1>2
<1>4. ASSUME NEW e \in edges[d] \cap T PROVE FALSE
  <2>1. /\ edges[d] \subseteq Upstream(edges, d) /\ Closed(edges, Upstream(edges, d))
        /\ Upstream(edges, e) \in SUBSET Node
    BY UpstreamIsClosed
  <2>2. edges[e] \subseteq Upstream(edges, d) /\ Upstream(edges, d) \in SUBSET Node
    BY <2>1, UpstreamIsClosed DEF Closed
  <2>3. Upstream(edges, e) \subseteq Upstream(edges, d)
    BY <2>1, <2>2, UpstreamIsClosed
  <2>4. e \notin Upstream(edges, e)
    BY NoWayBack
  <2>5. Up(e) \in SUBSET Up(d) /\ Up(e) # Up(d)
    BY <2>1, <2>3, <2>4
  <2> HIDE DEF Up
  <2>6. Cardinality(Up(e)) <= Cardinality(Up(d)) /\ Cardinality(Up(e)) # Cardinality(Up(d))
    BY <1>1, <2>5, FS_Subset
  <2>7. x <= Cardinality(Up(e))
    BY <1>2
  <2> QED
    BY <1>1, <1>3, <2>6, <2>7
<1> QED
  BY <1>4

-----------------------------------------------------------------------------
(* The invariant.                                                          *)

\* While no frame is open the edges before it are the edges.
LEMMA NoFrameNoRows ==
  ASSUME IInv, DOMAIN undo = {} PROVE EdgesBefore = deps
  BY Facts DEF EdgesBefore, DepsBefore, Types

NoRowsFact == IInv /\ DOMAIN undo = {} => EdgesBefore = deps

LEMMA NoRowsNext == NoRowsFact'
<1>1. NoRowsFact
  BY NoFrameNoRows DEF NoRowsFact
<1> QED
  BY <1>1, PTL

LEMMA IdleRows == ASSUME IInv, phase = "idle" PROVE DOMAIN undo = {} /\ EdgesBefore = deps
  BY NoFrameNoRows DEF IInv, FrameOK

LEMMA SetDepsEdges ==
  ASSUME IInv, NEW d \in Derived, NEW next, SetDeps(d, next)
  PROVE  deps' = [deps EXCEPT ![d] = next] /\ deps \in Edges
  BY Facts DEF SetDeps, Types, Edges

LEMMA InitAcyclic == Init => CycleInv
<1> SUFFICES ASSUME Init PROVE CycleInv
  OBVIOUS
<1>1. Acyclic([d \in Derived |-> {}])
  <2> DEFINE none == [d \in Derived |-> {}]
  <2>1. {} \in SUBSET Node /\ Closed(none, {}) /\ \A d \in Derived : none[d] = {}
    BY DEF Closed
  <2> HIDE DEF none
  <2>2. Acyclic(none)
    BY <2>1 DEF Acyclic, Avoids
  <2> QED
    BY <2>2 DEF none
<1>2. IInv /\ DOMAIN undo = {} /\ deps = [d \in Derived |-> {}]
  BY InitKeeps DEF Init
<1> QED
  BY <1>1, <1>2, NoFrameNoRows DEF CycleInv

\* Registration and disposal, between frames.
LEMMA QuietAcyclic ==
  ASSUME IInv, IInv', CycleInv, phase = "idle", UNCHANGED <<phase, undo>>, Acyclic(deps')
  PROVE  CycleInv'
  BY IdleRows, NoRowsNext DEF NoRowsFact, CycleInv

LEMMA RegisterAcyclic ==
  ASSUME IInv, CycleInv, NEW d \in Derived, NEW p \in Program, RegisterDerived(d, p)
  PROVE  Acyclic(deps')
<1>1. /\ phase = "idle" /\ d \notin entries /\ Reads(p, val) \subseteq entries
      /\ SetDeps(d, Reads(p, val)) /\ entries \subseteq Node
  BY Facts DEF RegisterDerived, Types
<1>2. \A n \in Derived : d \notin deps[n]
  BY <1>1, Facts DEF DepsKnown
<1>3. Acyclic(deps)
  BY <1>1 DEF CycleInv
<1> QED
  BY <1>1, <1>2, <1>3, SetDepsEdges, UnreadNode

LEMMA DisposeAcyclic ==
  ASSUME IInv, CycleInv, NEW n \in Node, Dispose(n)
  PROVE  Acyclic(deps')
<1>1. Acyclic(deps)
  BY DEF CycleInv, Dispose
<1>2. CASE n \in Derived
  <2>1. deps' = [deps EXCEPT ![n] = {}] /\ deps \in Edges
    BY <1>2, SetDepsEdges DEF Dispose
  <2> QED
    BY <1>1, <2>1, FewerEdges DEF Edges
<1>3. CASE n \notin Derived
  BY <1>1, <1>3 DEF Dispose
<1> QED
  BY <1>2, <1>3

LEMMA SameEdgesBefore ==
  ASSUME \A d \in Derived : DepsBefore(d)' = DepsBefore(d)
  PROVE  EdgesBefore' = EdgesBefore
  BY DEF EdgesBefore

\* The probe of the walk.
LEMMA ComputeAcyclic ==
  ASSUME IInv, CycleInv, NEW d \in Derived, Compute(d)
  PROVE  Acyclic(deps')
<1>1. /\ phase = "walk" /\ Ready(d) /\ ~ThrowsNow(d) /\ Store(d) /\ ~ClosesCycle(d)
      /\ UNCHANGED <<entries, compute, seed, plan>>
  BY DEF Compute
<1>2. ReadsNow(d) \in SUBSET Node /\ SetDeps(d, ReadsNow(d))
  BY <1>1, StoreFacts
<1>3. deps' = [deps EXCEPT ![d] = ReadsNow(d)] /\ deps \in Edges /\ Acyclic(deps)
  BY <1>1, <1>2, SetDepsEdges DEF CycleInv
<1>4. CASE ReadsNow(d) \subseteq deps[d]
  BY <1>3, <1>4, FewerEdges DEF Edges
<1>5. CASE d \notin Upstream([deps EXCEPT ![d] = ReadsNow(d)], d)
  BY <1>2, <1>3, <1>5, NoWayBack, NewEdges
<1> QED
  BY <1>1, <1>4, <1>5 DEF ClosesCycle

LEMMA StepAcyclic ==
  ASSUME IInv, IInv', CycleInv, [Next]_vars
  PROVE  CycleInv'
<1>1. CASE \E i \in Input, v \in Value : RegisterInput(i, v)
  BY <1>1, IdleRows, QuietAcyclic DEF RegisterInput, CycleInv
<1>2. CASE \E d \in Derived, p \in Program : RegisterDerived(d, p)
  BY <1>2, RegisterAcyclic, QuietAcyclic DEF RegisterDerived
<1>3. CASE \E n \in Node : Dispose(n)
  BY <1>3, DisposeAcyclic, QuietAcyclic DEF Dispose
<1>4. CASE \E m \in {"commit", "simulate"}, w \in [Input -> Value] : Begin(m, w)
  <2>1. EdgesBefore' = EdgesBefore
    BY <1>4, BeginBefore, SameEdgesBefore
  <2>2. deps' = deps /\ phase = "idle"
    BY <1>4 DEF Begin, graph
  <2> QED
    BY <2>1, <2>2 DEF CycleInv
<1>5. CASE \E d \in Derived : Walk(d)
  <2>1. PICK d \in Derived : Walk(d)
    BY <1>5
  <2>2. EdgesBefore' = EdgesBefore
    BY <2>1, WalkBefore, SameEdgesBefore
  <2>3. CASE Skip(d)
    BY <2>2, <2>3 DEF Skip, graph, CycleInv
  <2>4. CASE Compute(d)
    BY <2>2, <2>4, ComputeAcyclic DEF CycleInv
  <2>5. CASE ComputeThrows(d) \/ CycleThrows(d)
    BY <2>2, <2>5 DEF ComputeThrows, CycleThrows, CycleInv
  <2> QED
    BY <2>1, <2>3, <2>4, <2>5 DEF Walk
<1>6. CASE (\E d \in Derived : RestoreDerived(d)) \/ RestoreInputs
  <2>1. EdgesBefore' = EdgesBefore
    BY <1>6, RestoreDerivedBefore, RestoreInputsBefore, SameEdgesBefore
  <2>2. phase' = "failed"
    BY <1>6 DEF RestoreDerived, RestoreInputs
  <2> QED
    BY <2>1, <2>2 DEF CycleInv
<1>7. CASE LeaveUnpublished
  BY <1>7 DEF LeaveUnpublished, graph, CycleInv, EdgesBefore, DepsBefore
<1>8. CASE Publish
  <2>1. deps' = deps /\ DOMAIN undo' = {} /\ phase = "walk"
    BY <1>8 DEF Publish, graph
  <2> QED
    BY <2>1, NoRowsNext DEF NoRowsFact, CycleInv
<1>9. CASE Abort
  <2>1. deps' = deps /\ undo' = undo /\ DOMAIN undo = {}
    BY <1>9 DEF Abort, graph
  <2> QED
    BY <2>1, NoFrameNoRows, NoRowsNext DEF NoRowsFact, CycleInv
<1>10. CASE UNCHANGED vars
  BY <1>10 DEF vars, graph, CycleInv, EdgesBefore, DepsBefore
<1> QED
  BY <1>1, <1>2, <1>3, <1>4, <1>5, <1>6, <1>7, <1>8, <1>9, <1>10 DEF Next

\* A cycle that a commit closes does not survive it: whatever nodes rewire in one
\* pass, the edges have no cycle unless the pass has failed, and a failed pass
\* gives back edges without one.
THEOREM CyclesDoNotSurvive == Spec => []NoCycle
<1>1. IInv /\ IInv' /\ CycleInv /\ [Next]_vars => CycleInv'
  BY StepAcyclic
<1>2. CycleInv => NoCycle
  BY NoWayBack DEF CycleInv, Acyclic, NoCycle
<1> QED
  BY <1>1, <1>2, InitAcyclic, Invariance, PTL DEF Spec
=============================================================================
