----------------------------- MODULE MCListeners ------------------------------
(***************************************************************************)
(* Those who hear of a commit: observers of nodes, on the instance of      *)
(* MCSubscribers, observers of what a projection reads, and the observer   *)
(* by which persistedInput writes a node through to a storage.  Each has a *)
(* graph of its own, and in a behaviour one of them moves.  The first      *)
(* moves in two ways: by itself, and as a part of whole commits.           *)
(***************************************************************************)
EXTENDS MCSubscribers, CommitGraph, ReadSets, PersistedInput

CONSTANTS pa, pb, w0, w1, bad

\* A projection with a branch, and one that is a branch of the other way round.
MCProjection ==
  {[first |-> pa, rest |-> [w \in Worth |-> IF w = w0 THEN {pb} ELSE {}]],
   [first |-> pb, rest |-> [w \in Worth |-> IF w = w1 THEN {pa} ELSE {}]]}

\* i2 refuses 1.
MCAllowed == [i \in MCInput |-> IF i = i2 THEN {0} ELSE MCValue]

Alike == Permutations(MCHandle) \cup Permutations(Page)

VARIABLE part        \* which of them moves

listenVars == <<commitVars, readVars, persistVars, part>>

ListenInit ==
  /\ part \in {"commits", "nodes", "reads", "storage"}
  /\ SubInit /\ C!Init /\ ReadInit /\ PersistInit
  /\ \A i \in Input : cell[i] = 0
  /\ part # "nodes" => \A i \in Node : val[i] = 0
  /\ part # "reads" => \A c \in Place : held[c] = w0
  /\ part # "storage" =>
       /\ slot = Marker("absent") /\ ~honest /\ ~preserve
       /\ \A p \in Page : pages[p].options = CHOOSE o \in Options : TRUE

\* The parts that do not move stay.
ListenNext ==
  /\ \/ part = "commits" /\ CommitNext
     \/ part = "nodes" /\ SubNext
     \/ part = "reads" /\ ReadNext
     \/ part = "storage" /\ PersistNext
  /\ part # "commits" => UNCHANGED inputSide
  /\ part \notin {"commits", "nodes"} => UNCHANGED allVars
  /\ part # "reads" => UNCHANGED readVars
  /\ part # "storage" => UNCHANGED persistVars
  /\ UNCHANGED part

ListenSpec == ListenInit /\ [][ListenNext]_listenVars

-----------------------------------------------------------------------------
(* The bounds TLC checks it within, by what handles watch after the step.  *)

OpenHandles == {h \in Handle : group'[h] # NoWatch}
Subscribed  == {group'[h] : h \in OpenHandles}
MutualReads == \E d \in Derived : compute'[d] = Branch(i1, d2, i2)

\* Whole commits are observed by one subscription to one node, and without the
\* compute that can make a circle of two nodes: a node that comes to read itself
\* is circle enough.
CommitBounds ==
  /\ Cardinality(OpenHandles) <= 1 /\ Subscribed \subseteq {Single(d2, FALSE)}
  /\ ~MutualReads

\* What is observed by itself is observed by two who watch different things, an
\* input alone by one who has the graph to itself (a group watches it beside
\* others), and a circle of two nodes by one who watches a node.
NodeBounds ==
  /\ Cardinality(Subscribed) = Cardinality(OpenHandles)
  /\ Single(i1, FALSE) \in Subscribed => Cardinality(Subscribed) = 1
  /\ MutualReads => Subscribed \subseteq {Single(d2, FALSE)}

Bounds == /\ part = "commits" => CommitBounds
          /\ part = "nodes" => NodeBounds

BoundedSpec == ListenInit /\ [][ListenNext /\ Bounds]_listenVars

-----------------------------------------------------------------------------
\* A commit is all or nothing, it is told once, and what a page has saved
\* outlives it.
AtomicToldOnceKept == FrameIsAtomic /\ CalledOnce /\ SavedIsKept

\* Where frames move as a whole, their two sides agree.
SidesAgree == part = "commits" => LayersAgree

\* The variables of every part stay within their types.
ListenersTypeOK ==
  CASE part = "commits" -> SubTypeOK /\ C!TypeOK
    [] part = "nodes"   -> SubTypeOK
    [] part = "reads"   -> ReadTypeOK
    [] part = "storage" -> PersistTypeOK
=============================================================================
