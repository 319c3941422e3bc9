----------------------------- MODULE MCHistory ------------------------------
(***************************************************************************)
(* What the graph keeps of the past and tells of itself: the commit log,   *)
(* with a history variable that remembers what Phases D and F.5 are about  *)
(* to change, the retained rows, snapshots with the memo they consult,     *)
(* explanations and the explainers built on them, nodes whose compute is   *)
(* replaced, the reads it watches, and the tables kept per id.  They have  *)
(* nothing in common but the graph, so each has a clock of its own, and in *)
(* a behaviour one of them moves.                                          *)
(***************************************************************************)
EXTENDS CommitLog, Retention, Snapshots, Why, LiveDerived, HeldReads,
        NodeLives

CONSTANTS i1, i2, v1, v2, opaque, l1, l2, k1, k2, u0, u1

MCInput  == {i1, i2}
MCValue  == {v1, v2, opaque}
MCOpaque == {opaque}
Alike    == Permutations(Metadata) \cup Permutations(MCInput)
            \cup Permutations({v1, v2})

\* A derived node that reads a leaf, and one that reads both and the first.
MCLeaf  == {l1, l2}
MCChain == <<k1, k2>>
MCGate  == k1 :> l1 @@ k2 :> k1
MCRest  == k1 :> {l2} @@ k2 :> {l1}

\* Computes: one that reads the input, one that does not, one that may throw.
MCSwap == {u0 :> u0 @@ u1 :> u1, u0 :> u1 @@ u1 :> u1, u0 :> u0 @@ u1 :> Oops}

VARIABLES before, \* what a frame started from
          part    \* which of them moves

Kept == <<now, history, consumers, reading, seen>>
graphVars == <<vars, before, retentionVars, snapVars, explainVars, whyVars,
               liveVars, heldVars, lifeVars, part>>

HistoryInit ==
  /\ part \in {"log", "rows", "snapshots", "explain", "why", "live", "reads",
              "lives"}
  /\ Init /\ before = Kept
  /\ RetentionInit /\ SnapInit /\ ExplainInit /\ WhyInit
  /\ LiveInit /\ HeldInit /\ LifeInit
  /\ part # "live" => input = u0
  /\ part # "reads" => shown = CHOOSE o \in Thing : TRUE

LogMoves == Next /\ before' = IF phase = "run" THEN Kept ELSE before

\* The parts that do not move stay.
OthersStay ==
  /\ part # "log" => UNCHANGED <<vars, before>>
  /\ part # "rows" => UNCHANGED retentionVars
  /\ part # "snapshots" => UNCHANGED snapVars
  /\ part \notin {"explain", "why"} => UNCHANGED explainVars
  /\ part # "why" => UNCHANGED whyVars
  /\ part # "live" => UNCHANGED liveVars
  /\ part # "reads" => UNCHANGED heldVars
  /\ part # "lives" => UNCHANGED lifeVars

HistoryNext ==
  /\ \/ part = "log" /\ LogMoves
     \/ part = "rows" /\ RetentionNext
     \/ part = "snapshots" /\ SnapNext
     \/ part = "explain" /\ ExplainNext
     \/ part = "why" /\ WhyNext
     \/ part = "live" /\ LiveNext
     \/ part = "reads" /\ HeldNext
     \/ part = "lives" /\ LifeNext
  /\ OthersStay /\ UNCHANGED part

HistorySpec == HistoryInit /\ [][HistoryNext]_graphVars

\* For TLC: of the inputs whose past is retained, one may hold what cannot be
\* serialised.
Bounds ==
  Cardinality({i \in Input : \E t \in 0..tick' :
                 i \in DOMAIN past'[t] /\ past'[t][i] \in Opaque}) <= 1

BoundedSpec == HistoryInit /\ [][HistoryNext /\ Bounds]_graphVars

\* A frame that is taken back, by the catch arm of commit or the finally arm
\* of simulate, leaves the clock, the ring, the counter, the dependency sets
\* and the values as the tx body left them.
FrameLeavesNoTrace ==
  [][phase' = "idle" /\ phase \in {"compute", "failed"} => Kept' = before']_graphVars

\* Neither a frame that is taken back nor one that is published disturbs what
\* the graph remembers of earlier ones.
PastIsKept == FrameLeavesNoTrace /\ PastIsStable

\* What is told of a node, by the graph, by the explainers that read the log and
\* by a node whose compute is replaced, is so.
TellingsSound ==
  /\ part \in {"explain", "why"} => ExplainSound
  /\ part = "why" => WhySound
  /\ part = "live" => LiveSound

\* The variables of every part stay within their types.
HistoryTypeOK ==
  CASE part = "log"       -> TypeOK
    [] part = "rows"      -> RetentionTypeOK
    [] part = "snapshots" -> SnapTypeOK
    [] part = "explain"   -> ExplainTypeOK
    [] part = "why"       -> ExplainTypeOK /\ WhyTypeOK
    [] part = "live"      -> LiveTypeOK
    [] part = "reads"     -> HeldTypeOK
    [] part = "lives"     -> LifeTypeOK
=============================================================================
