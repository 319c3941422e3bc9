------------------------------- MODULE Explain -------------------------------
(***************************************************************************)
(* explain, dependencies, dependents and exportModel of packages/core/src/ *)
(* graph.ts.  explain(n) registers a derived node of its own, once per id, *)
(* whose value is the lineage of n with the times its members were last    *)
(* written or computed; it follows the graph because building it reads     *)
(* each member.  The handle counts as a dependent of all of them.          *)
(*                                                                         *)
(* A derived node reads its gate and, if that is not 0, the rest; it holds *)
(* the parity of their sum.  A commit is one step here: what its walk does *)
(* in between is the matter of Recompute, and the values it comes to are   *)
(* those that account for each other, which the lack of cycles makes       *)
(* unique.  For the same reason a lineage is given by one frame for each   *)
(* node of it.                                                             *)
(***************************************************************************)
EXTENDS Integers, SequencesExt, FiniteSetsExt

CONSTANTS Leaf,      \* inputs
          Chain,     \* derived nodes, none reading a later one
          Gate,      \* the first node a derived node reads
          Rest,      \* what it goes on to read
          MaxClock   \* bound on the graph clock

Knots == Leaf \cup ToSet(Chain)   \* nodes

ASSUME ChainAssumption ==
  /\ Chain \in Seq(Knots \ Leaf)
  /\ \A k \in DOMAIN Chain :
       /\ IsFiniteSet(Rest[Chain[k]])
       /\ ({Gate[Chain[k]]} \cup Rest[Chain[k]]) \subseteq Leaf \cup {Chain[j] : j \in 1..(k - 1)}

ASSUME MaxClockAssumption == MaxClock \in Nat

VARIABLES
  clock,    \* graph.now
  facts,    \* the registered nodes: value, last time, deps
  handles,  \* explainHandles, for the nodes asked about: is it registered?
  told      \* the value of a registered handle, and its deps

explainVars == <<clock, facts, handles, told>>

Live == DOMAIN facts
LiveHandles == {n \in DOMAIN handles : handles[n] = "live"}

ExplainTypeOK ==
  /\ clock \in 0..MaxClock
  /\ \A n \in Live : /\ n \in Knots /\ facts[n].value \in {0, 1}
                           /\ facts[n].time \in 0..clock /\ facts[n].deps \subseteq Live
  /\ DOMAIN handles \subseteq Knots /\ DOMAIN told = LiveHandles
  /\ \A n \in LiveHandles : told[n].deps \subseteq Live

-----------------------------------------------------------------------------
(* Computing a node, and explaining one.                                   *)

Values == [n \in Live |-> facts[n].value]

ReadBy(d, held) == {Gate[d]} \cup (IF held[Gate[d]] = 0 THEN {} ELSE Rest[d])
Parity(d, held) == Cardinality({n \in ReadBy(d, held) : held[n] = 1}) % 2
Evaluated(d, held) == [value |-> Parity(d, held), time |-> clock', deps |-> ReadBy(d, held)]

\* dependenciesOf and dependentsOf
DependenciesOf(n, f) == f[n].deps
DependentsOf(n)      == {d \in Live : n \in facts[d].deps}
ExplainedBy(n)       == {h \in LiveHandles : n \in told[h].deps}

\* The members of a lineage: n and whatever its members read.
Lineage(n, f) ==
  {m \in DOMAIN f : \A T \in SUBSET DOMAIN f :
     n \in T /\ (\A k \in T : DependenciesOf(k, f) \subseteq T) => m \in T}

\* buildExplanation calls get for every member it comes to.
ReadsTargetOnly(n, f) == [frames |-> [m \in Lineage(n, f) |-> f[m]], deps |-> {n}]
BuildExplanation(n, f) == [frames |-> [m \in Lineage(n, f) |-> f[m]], deps |-> Lineage(n, f)]

-----------------------------------------------------------------------------

Joined(f, n, x) == [m \in DOMAIN f \cup {n} |-> IF m = n THEN x ELSE f[m]]

AddKnot(n) ==
  /\ n \in Knots \ Live /\ clock' = clock
  /\ \/ \E v \in {0, 1} :
          n \in Leaf /\ facts' = Joined(facts, n, [value |-> v, time |-> clock, deps |-> {}])
     \/ /\ n \notin Leaf /\ ({Gate[n]} \cup Rest[n]) \subseteq Live
        /\ facts' = Joined(facts, n, Evaluated(n, Values))
  /\ UNCHANGED <<handles, told>>

\* _dispose refuses a node that others, explanations too, have read.
DisposeKnot(n) ==
  /\ n \in Live /\ DependentsOf(n) = {} /\ ExplainedBy(n) = {}
  /\ facts' = [m \in Live \ {n} |-> facts[m]]
  /\ UNCHANGED <<clock, handles, told>>

\* explain: the cached handle comes back whatever became of it.
Ask(n) ==
  /\ n \in Live \ DOMAIN handles
  /\ handles' = Joined(handles, n, "live")
  /\ told' = Joined(told, n, BuildExplanation(n, facts))
  /\ UNCHANGED <<clock, facts>>

DisposeHandle(n) ==
  /\ n \in LiveHandles
  /\ handles' = [handles EXCEPT ![n] = "disposed"]
  /\ told' = [m \in DOMAIN told \ {n} |-> told[m]]
  /\ UNCHANGED <<clock, facts>>

\* Phase D, to the values new: a node whose deps did not move is left as it is;
\* one that reads a node that is not there fails, and with it the commit.
Moved(new)   == {n \in Live : new[n] # facts[n].value}
Touched(new) == {d \in Live \ Leaf : facts[d].deps \cap Moved(new) # {}}

Walk(S, new) ==
  /\ Moved(new) \cap Leaf = S /\ Moved(new) \subseteq S \cup Touched(new)
  /\ \A d \in Touched(new) : ReadBy(d, new) \subseteq Live /\ new[d] = Parity(d, new)

CommitWrites(S) ==
  /\ clock < MaxClock /\ clock' = clock + 1
  /\ S # {} /\ S \subseteq Leaf \cap Live
  /\ \E new \in [Live -> {0, 1}] :
       /\ Walk(S, new)
       /\ facts' = [n \in Live |->
            IF n \in Touched(new) THEN Evaluated(n, new)
            ELSE IF n \in S THEN [value |-> new[n], time |-> clock', deps |-> {}]
            ELSE facts[n]]
       /\ told' = [n \in DOMAIN told |-> IF told[n].deps \cap Moved(new) = {} THEN told[n]
                                         ELSE BuildExplanation(n, facts')]
  /\ UNCHANGED handles

\* exportModel: each entry with its deps; a handle is an entry like the others.
ExportModel ==
  [n \in Live \cup (LiveHandles \X {"explain"}) |->
     IF n \in Live THEN DependenciesOf(n, facts) ELSE told[n[1]].deps]

-----------------------------------------------------------------------------

ExplainInit == clock = 0 /\ facts = <<>> /\ handles = <<>> /\ told = <<>>

ExplainNext ==
  \/ \E n \in Knots : AddKnot(n) \/ DisposeKnot(n) \/ Ask(n) \/ DisposeHandle(n)
  \/ \E S \in SUBSET Leaf : CommitWrites(S)

-----------------------------------------------------------------------------
(* Properties.                                                             *)

\* A handle always shows the lineage the graph has now, values and times too,
\* though a node that was computed again to the same value tells nobody.
ExplanationIsCurrent ==
  \A n \in LiveHandles : told[n].frames = [m \in Lineage(n, facts) |-> facts[m]]

\* The export names no node it does not hold: nothing a node or a handle has
\* read can be disposed before it.
ExportIsClosed ==
  \A n \in DOMAIN ExportModel : ExportModel[n] \subseteq DOMAIN ExportModel

ExplainSound == ExplanationIsCurrent /\ ExportIsClosed
=============================================================================
