--------------------------- MODULE SubscribersProofs ---------------------------
(***************************************************************************)
(* Observers do not disturb the graph: with any of them the edges, values  *)
(* and frames behave as Recompute says.  Phase G calls an observer at most *)
(* once per commit, whoever subscribes and leaves in those calls.  The     *)
(* refcounts are the numbers of paths to the subscriptions, and what an    *)
(* observer of a node was shown last is what that node holds.              *)
(***************************************************************************)
EXTENDS Subscribers, RecomputeProofs, FunctionTheorems, SequenceTheorems

GroupsOK ==
  /\ group \in [Handle -> Watch \cup {NoWatch}]
  /\ \A e \in Entries : /\ e \in Handle \X Node /\ Open(e[1])
                        /\ e[2] \in group[e[1]].nodes

\* Of the calls of a commit only those that could be repeated must leave a mark.
CallsMarked ==
  /\ stage # "dispatch" => called = {}
  /\ called \subseteq Handle
  /\ \A h \in called : Open(h) => /\ group[h].many => h \in fired
                                  /\ ~group[h].many => EntriesOf(h) \subseteq visited
                                  /\ group[h].transient => h \in drops

WindowOK == phase # "idle" => stage # "dispatch"

CallInv == GroupsOK /\ CallsMarked /\ WindowOK

-----------------------------------------------------------------------------
(* The graph under the observers.                                          *)

LEMMA StepOfGraph == [SubNext]_allVars => [Next]_vars
<1> SUFFICES ASSUME [SubNext]_allVars PROVE [Next]_vars
  OBVIOUS
<1>1. CASE \E h \in Handle : Unsubscribe(h) \/ \E w \in Watch : Subscribe(h, w)
  BY <1>1 DEF Unsubscribe, Subscribe
<1>2. CASE \E n \in Node : DisposeNode(n)
  BY <1>2 DEF DisposeNode, Next
<1>3. CASE Register
  BY <1>3 DEF Register, Next
<1>4. CASE \E m \in {"commit", "simulate"}, w \in [Input -> Value] :
             BeginFrame(m, w) \/ \E h \in Handle, watch \in Watch : SubscribeInBody(m, w, h, watch)
  BY <1>4 DEF BeginFrame, SubscribeInBody, Next
<1>5. CASE FrameStep
  BY <1>5 DEF FrameStep, WalkNode, RestoreNode, Spin, PublishFrame, TakenBack, Deliver,
              EndDispatch, Next, Walk
<1>6. CASE UNCHANGED allVars
  BY <1>6 DEF allVars
<1> QED
  BY <1>1, <1>2, <1>3, <1>4, <1>5, <1>6 DEF SubNext

\* Whatever observers do, and wherever they do it, the graph takes a step of
\* Recompute or none.
THEOREM GraphUndisturbed == SubSpec => Spec
<1>1. SubInit => Init
  BY DEF SubInit
<1> QED
  BY <1>1, StepOfGraph, PTL DEF SubSpec, Spec

\* So what is proved of the graph alone holds of the graph with observers.
THEOREM WatchedGraphSound ==
  SubSpec => /\ [](TypeOK /\ EdgesMirror /\ GlitchFree /\ ChangedExact)
             /\ RolledBackExactly
  BY GraphUndisturbed, TypeCorrect, EdgesMirrored, GlitchFreedom, ChangedSetExact,
     RollbackExact, PTL

-----------------------------------------------------------------------------
(* Calls.                                                                  *)

LEMMA InitCalls == SubInit => CallInv
  BY DEF SubInit, Init, CallInv, GroupsOK, CallsMarked, WindowOK, Entries

\* A handle that is not in use gets its entries.
LEMMA AddCalls ==
  ASSUME CallInv, NEW h \in Handle, NEW w \in Watch, NEW shown, AddEntries(h, w, shown),
         UNCHANGED <<called, visited, fired, drops>>
  PROVE  GroupsOK' /\ (CallsMarked' \/ stage' # stage)
<1>1. /\ group' = [group EXCEPT ![h] = w] /\ h \notin called
      /\ Entries' = Entries \cup ({h} \X w.nodes) /\ ~Open(h)
  BY DEF AddEntries, Entries
<1>2. w.nodes \subseteq Node /\ w # NoWatch
  BY WatchAssumption
<1>3. group'[h] = w /\ \A g \in Handle : g # h => group'[g] = group[g]
  BY <1>1 DEF CallInv, GroupsOK
<1>4. \A e \in Entries : e[1] \in Handle /\ e[1] # h
  BY <1>1 DEF CallInv, GroupsOK
<1>5. GroupsOK'
  <2>1. group' \in [Handle -> Watch \cup {NoWatch}]
    BY <1>1 DEF CallInv, GroupsOK
  <2>2. ASSUME NEW e \in Entries
        PROVE  e \in Handle \X Node /\ Open(e[1])' /\ e[2] \in group'[e[1]].nodes
    BY <1>3, <1>4 DEF CallInv, GroupsOK, Open
  <2>3. ASSUME NEW e \in {h} \X w.nodes
        PROVE  e \in Handle \X Node /\ Open(e[1])' /\ e[2] \in group'[e[1]].nodes
    BY <1>2, <1>3 DEF Open
  <2> QED
    BY <1>1, <2>1, <2>2, <2>3 DEF GroupsOK
<1>6. ASSUME stage' = stage PROVE CallsMarked'
  <2>1. \A g \in called : EntriesOf(g)' = EntriesOf(g)
    BY <1>1 DEF EntriesOf
  <2>2. \A g \in called : g \in Handle /\ group'[g] = group[g]
    BY <1>1, <1>3 DEF CallInv, CallsMarked
  <2> QED
    BY <1>6, <2>1, <2>2 DEF CallInv, CallsMarked, Open
<1> QED
  BY <1>5, <1>6

\* Entries that leave take no mark from those that stay.
LEMMA RemoveCalls ==
  ASSUME CallInv, NEW gone, Remove(gone)
  PROVE  /\ GroupsOK'
         /\ \A h \in Handle : Open(h)' => Open(h) /\ group'[h] = group[h]
         /\ \A h \in Handle : EntriesOf(h)' \subseteq EntriesOf(h)
<1>1. /\ group' = [h \in Handle |-> IF EntriesOf(h) \subseteq gone THEN NoWatch ELSE group[h]]
      /\ Entries' = Entries \ gone
  BY DEF Remove, Entries
<1>2. \A h \in Handle : Open(h)' => Open(h) /\ group'[h] = group[h]
  BY <1>1 DEF Open
<1>3. \A e \in Entries' : e \in EntriesOf(e[1]) \ gone
  BY <1>1 DEF EntriesOf
<1>4. \A e \in Entries' : group'[e[1]] = group[e[1]] /\ e \in Entries
  BY <1>1, <1>3 DEF CallInv, GroupsOK
<1>5. GroupsOK'
  BY <1>1, <1>4 DEF CallInv, GroupsOK, Open
<1> QED
  BY <1>1, <1>2, <1>5 DEF EntriesOf

\* Who is called is marked by its bucket if it has one node, by its group else.
LEMMA DeliverCalls ==
  ASSUME CallInv, NEW e \in Handle \X Node, Deliver(e)
  PROVE  CallInv'
<1> DEFINE h == e[1]
<1>1. /\ e \in Entries /\ stage = "dispatch" /\ visited' = visited \cup {e}
      /\ UNCHANGED <<vars, group, stage>> /\ h \in Handle
  BY DEF Deliver, Waiting
<1>2. /\ Entries' = Entries /\ called' \subseteq called \cup {h}
      /\ h \in called' \ called => Fires(e)
      /\ fired \subseteq fired' /\ drops \subseteq drops'
      /\ Fires(e) => /\ group[h].many => h \in fired'
                     /\ group[h].transient => h \in drops'
  BY <1>1 DEF Deliver, Call, Entries
<1>3. GroupsOK'
  BY <1>1, <1>2 DEF CallInv, GroupsOK, Open
<1>4. ~group[h].many => EntriesOf(h) = {e}
  <2> SUFFICES ASSUME ~group[h].many, NEW x \in EntriesOf(h) PROVE x = e
    BY <1>1 DEF EntriesOf
  <2>1. group[h] \in Watch
    BY <1>1 DEF CallInv, GroupsOK, Open
  <2>2. PICK n \in Node : group[h].nodes = {n}
    BY <2>1, WatchAssumption
  <2>3. x \in Handle \X Node /\ x[1] = h /\ x[2] = n /\ e[2] = n
    BY <1>1, <2>2 DEF CallInv, GroupsOK, EntriesOf
  <2> QED
    BY <2>3
<1>5. \A g \in Handle : EntriesOf(g)' = EntriesOf(g) /\ (Open(g)' <=> Open(g))
  BY <1>1, <1>2 DEF EntriesOf, Open
<1>6. CallsMarked'
  BY <1>1, <1>2, <1>4, <1>5 DEF CallInv, CallsMarked
<1>7. WindowOK'
  BY <1>1 DEF CallInv, WindowOK, vars
<1> QED
  BY <1>3, <1>6, <1>7 DEF CallInv

LEMMA EndDispatchCalls ==
  ASSUME CallInv, EndDispatch
  PROVE  CallInv'
<1> DEFINE gone == UNION {EntriesOf(h) : h \in drops}
<1>1. /\ Remove(gone) /\ stage' = "quiet"
      /\ called' = {h \in called : Open(h) /\ group[h].transient /\ ~(EntriesOf(h) \subseteq gone)}
  BY DEF EndDispatch
<1>2. called' = {}
  BY <1>1 DEF CallInv, CallsMarked
<1>3. GroupsOK'
  BY <1>1, RemoveCalls
<1> QED
  BY <1>1, <1>2, <1>3 DEF CallInv, CallsMarked, WindowOK

\* The other steps move neither groups nor marks.
LEMMA QuietCalls ==
  ASSUME CallInv, UNCHANGED <<group, last, called, fired, visited, drops>>,
         stage' = "dispatch" => stage = "dispatch" \/ called = {},
         stage' # "dispatch" => called = {}, WindowOK'
  PROVE  CallInv'
<1>1. Entries' = Entries
  BY DEF Entries
<1>2. \A h : EntriesOf(h)' = EntriesOf(h) /\ (Open(h)' <=> Open(h))
  BY <1>1 DEF EntriesOf, Open
<1> QED
  BY <1>1, <1>2 DEF CallInv, GroupsOK, CallsMarked, Open

LEMMA CallerCalls ==
  ASSUME CallInv, \E h \in Handle : Unsubscribe(h) \/ \E w \in Watch : Subscribe(h, w)
  PROVE  CallInv'
<1>1. ASSUME NEW h \in Handle, Unsubscribe(h) PROVE CallInv'
  <2>1. /\ Remove(EntriesOf(h)) /\ called' \subseteq called
        /\ UNCHANGED <<vars, stage, fired, visited, drops>>
    BY <1>1 DEF Unsubscribe, deliver
  <2>2. CallsMarked'
    BY <2>1, RemoveCalls DEF CallInv, CallsMarked
  <2>3. WindowOK'
    BY <2>1 DEF CallInv, WindowOK, vars
  <2> QED
    BY <2>1, <2>2, <2>3, RemoveCalls DEF CallInv
<1>2. ASSUME NEW h \in Handle, NEW w \in Watch, Subscribe(h, w) PROVE CallInv'
  <2>1. AddEntries(h, w, val) /\ UNCHANGED <<vars, stage, called, visited, fired, drops>>
    BY <1>2 DEF Subscribe, deliver
  <2>2. WindowOK'
    BY <2>1 DEF CallInv, WindowOK, vars
  <2> QED
    BY <2>1, <2>2, AddCalls DEF CallInv
<1> QED
  BY <1>1, <1>2

LEMMA DisposeCalls ==
  ASSUME CallInv, NEW n \in Node, DisposeNode(n)
  PROVE  CallInv'
<1>1. /\ Remove({e \in Entries : e[2] = n}) /\ called' \subseteq called /\ stage = "quiet"
      /\ stage' = stage
  BY DEF DisposeNode
<1>2. called' = {}
  BY <1>1 DEF CallInv, CallsMarked
<1> QED
  BY <1>1, <1>2, RemoveCalls DEF CallInv, CallsMarked, WindowOK

LEMMA BeginCalls ==
  ASSUME CallInv, NEW m \in {"commit", "simulate"}, NEW w \in [Input -> Value],
         BeginFrame(m, w) \/ \E h \in Handle, watch \in Watch : SubscribeInBody(m, w, h, watch)
  PROVE  CallInv'
<1>1. stage = "quiet" /\ stage' = "quiet" /\ called = {} /\ WindowOK'
  BY DEF BeginFrame, SubscribeInBody, subVars, CallInv, CallsMarked, WindowOK
<1>2. CASE BeginFrame(m, w)
  BY <1>1, <1>2, QuietCalls DEF BeginFrame, subVars, subs, deliver, history
<1>3. ASSUME NEW h \in Handle, NEW watch \in Watch, SubscribeInBody(m, w, h, watch)
      PROVE  CallInv'
  BY <1>1, <1>3, AddCalls DEF SubscribeInBody, deliver, CallInv
<1> QED
  BY <1>2, <1>3

LEMMA FrameCalls ==
  ASSUME CallInv, FrameStep
  PROVE  CallInv'
<1>1. ASSUME NEW d \in Derived, WalkNode(d) PROVE CallInv'
  <2>1. phase = "walk" /\ stage' = stage
    BY <1>1 DEF WalkNode, Skip, Compute, ComputeThrows, CycleThrows
  <2> QED
    BY <1>1, <2>1, QuietCalls DEF WalkNode, subs, deliver, history, CallInv, CallsMarked, WindowOK
<1>2. ASSUME NEW d \in Derived, RestoreNode(d) \/ Spin(d) PROVE CallInv'
  <2>1. phase = "failed" /\ stage' # "dispatch" /\ called = {}
    BY <1>2 DEF RestoreNode, RestoreDerived, Spin, CallInv, CallsMarked, WindowOK
  <2> QED
    BY <1>2, <2>1, QuietCalls DEF RestoreNode, Spin, subs, deliver, history, WindowOK
<1>3. CASE PublishFrame
  <2>1. phase = "walk" /\ phase' = "idle" /\ called = {}
    BY <1>3 DEF PublishFrame, Publish, EndPass, CallInv, CallsMarked, WindowOK
  <2> QED
    BY <1>3, <2>1, QuietCalls DEF PublishFrame, subs, WindowOK
<1>4. CASE (LeaveUnpublished \/ RestoreInputs) /\ stage # "hung" /\ UNCHANGED subVars
  <2>1. phase # "idle" /\ stage' = stage /\ stage # "dispatch" /\ called = {}
    BY <1>4 DEF LeaveUnpublished, RestoreInputs, subVars, CallInv, CallsMarked, WindowOK
  <2> QED
    BY <1>4, <2>1, QuietCalls DEF subVars, subs, deliver, history, WindowOK
<1>5. CASE TakenBack
  <2>1. phase = "failed" /\ stage' = stage /\ stage # "dispatch" /\ called = {}
    BY <1>5 DEF TakenBack, Abort, CallInv, CallsMarked, WindowOK
  <2> QED
    BY <1>5, <2>1, QuietCalls DEF TakenBack, subs, deliver, WindowOK
<1>6. CASE \E e \in Handle \X Node : Deliver(e)
  BY <1>6, DeliverCalls
<1>7. CASE EndDispatch
  BY <1>7, EndDispatchCalls
<1> QED
  BY <1>1, <1>2, <1>3, <1>4, <1>5, <1>6, <1>7 DEF FrameStep

LEMMA StepCalls == CallInv /\ [SubNext]_allVars => CallInv'
<1> SUFFICES ASSUME CallInv, [SubNext]_allVars PROVE CallInv'
  OBVIOUS
<1>1. CASE Register
  <2>1. phase' = "idle" /\ UNCHANGED subVars
    BY <1>1 DEF Register, CallerRuns, RegisterInput, RegisterDerived
  <2> QED
    BY <2>1, QuietCalls DEF subVars, subs, deliver, history, WindowOK, CallInv, CallsMarked
<1>2. CASE UNCHANGED allVars
  <2>1. WindowOK'
    BY <1>2 DEF allVars, vars, subVars, WindowOK, CallInv
  <2> QED
    BY <1>2, <2>1, QuietCalls DEF allVars, subVars, subs, deliver, history, CallInv, CallsMarked
<1> QED
  BY <1>1, <1>2, CallerCalls, DisposeCalls, BeginCalls, FrameCalls DEF SubNext

\* Phase G never calls an observer that was called in the same commit, a group
\* too when several of its nodes changed, nor a transient one that was called in
\* an earlier commit.
THEOREM OneCallPerCommit == SubSpec => CalledOnce
<1>1. ASSUME CallInv, NEW e \in Entries, Deliver(e), Fires(e) PROVE e[1] \notin called
  <2>1. e \notin visited /\ e \in EntriesOf(e[1]) /\ Open(e[1])
    BY <1>1 DEF Deliver, Waiting, EntriesOf, CallInv, GroupsOK
  <2> QED
    BY <1>1, <2>1 DEF Fires, GroupHasFired, CallInv, CallsMarked
<1>2. CallInv /\ [SubNext]_allVars =>
        [\A e \in Entries : Deliver(e) /\ Fires(e) => e[1] \notin called]_allVars
  BY <1>1
<1> QED
  BY InitCalls, StepCalls, <1>2, PTL DEF SubSpec, CalledOnce

-----------------------------------------------------------------------------
(* Paths.                                                                  *)

\* What can be reached along the edges from S.
Reach(edges, S) ==
  {n \in Node : \A T \in SUBSET Node : S \subseteq T /\ Closed(edges, T) => n \in T}

\* Nothing that can be reached from S can reach itself.
AcyclicFrom(edges, S) == \A d \in Derived \cap Reach(edges, S) : Avoids(edges, d)

\* Routes without their bound.
IsPath(edges, S, p, n) ==
  /\ p \in Seq(Derived)
  /\ Stop(p, n, 1) \in S
  /\ \A i \in 1..Len(p) : Stop(p, n, i + 1) \in edges[p[i]]

LEMMA DerivedFinite == /\ IsFiniteSet(Derived) /\ Cardinality(Derived) \in Nat
                       /\ Derived \subseteq Node /\ \A S \in SUBSET Node : IsFiniteSet(S)
<1>1. \A S \in SUBSET Node : IsFiniteSet(S)
  BY FiniteGraph, FS_Subset
<1>2. IsFiniteSet(Derived)
  BY <1>1, NodeKinds
<1> QED
  BY <1>1, <1>2, NodeKinds, FS_CardinalityType

LEMMA StopIs ==
  ASSUME NEW p \in Seq(Derived), NEW n
  PROVE  /\ Len(p) \in Nat
         /\ \A i \in 1..Len(p) : Stop(p, n, i) = p[i] /\ p[i] \in Derived
         /\ Stop(p, n, Len(p) + 1) = n
  BY DEF Stop

LEMMA RouteIs ==
  ASSUME NEW edges, NEW S, NEW n, NEW p
  PROVE  p \in Routes(edges, S, n) <=> IsPath(edges, S, p, n) /\ Len(p) <= Cardinality(Derived)
<1> DEFINE U == UNION {[1..k -> Derived] : k \in 0..Cardinality(Derived)}
<1>1. p \in U <=> p \in Seq(Derived) /\ Len(p) <= Cardinality(Derived)
  <2>1. ASSUME p \in U PROVE p \in Seq(Derived) /\ Len(p) <= Cardinality(Derived)
    <3>1. PICK k \in 0..Cardinality(Derived) : p \in [1..k -> Derived]
      BY <2>1
    <3>2. k \in Nat /\ k <= Cardinality(Derived)
      BY DerivedFinite
    <3>3. p \in Seq(Derived) /\ Len(p) = k
      BY <3>1, <3>2
    <3> QED
      BY <3>2, <3>3
  <2>2. ASSUME p \in Seq(Derived), Len(p) <= Cardinality(Derived) PROVE p \in U
    <3>1. p \in [1..Len(p) -> Derived] /\ Len(p) \in 0..Cardinality(Derived)
      BY <2>2, DerivedFinite
    <3> QED
      BY <3>1
  <2> QED
    BY <2>1, <2>2
<1> HIDE DEF U
<1>2. Routes(edges, S, n) = {q \in U : /\ Stop(q, n, 1) \in S
                                       /\ \A i \in 1..Len(q) : Stop(q, n, i + 1) \in edges[q[i]]}
  BY DEF Routes, U
<1> QED
  BY <1>1, <1>2 DEF IsPath

LEMMA ReachIs ==
  ASSUME NEW edges \in Edges, NEW S \in SUBSET Node
  PROVE  /\ Reach(edges, S) \in SUBSET Node
         /\ S \subseteq Reach(edges, S)
         /\ Closed(edges, Reach(edges, S))
         /\ \A T \in SUBSET Node : S \subseteq T /\ Closed(edges, T) => Reach(edges, S) \subseteq T
<1>1. Reach(edges, S) \in SUBSET Node /\ S \subseteq Reach(edges, S)
  BY DEF Reach
<1>2. \A T \in SUBSET Node : S \subseteq T /\ Closed(edges, T) => Reach(edges, S) \subseteq T
  BY DEF Reach
<1>3. Closed(edges, Reach(edges, S))
  <2> SUFFICES ASSUME NEW m \in Reach(edges, S) \cap Derived, NEW n \in edges[m],
                      NEW T \in SUBSET Node, S \subseteq T, Closed(edges, T)
               PROVE  n \in T
    BY DEF Closed, Reach, Edges
  <2>1. m \in T
    BY <1>2
  <2> QED
    BY <2>1 DEF Closed
<1> QED
  BY <1>1, <1>2, <1>3

\* What is closed keeps a path from the first of its stops it has.
LEMMA Carried ==
  ASSUME NEW edges, NEW n, NEW p \in Seq(Derived),
         \A i \in 1..Len(p) : Stop(p, n, i + 1) \in edges[p[i]],
         NEW U, Closed(edges, U), NEW j \in 1..Len(p) + 1, Stop(p, n, j) \in U
  PROVE  \A i \in j..Len(p) + 1 : Stop(p, n, i) \in U
<1> DEFINE T == {i \in j..Len(p) + 1 : Stop(p, n, i) \notin U}
<1> SUFFICES ASSUME T # {} PROVE FALSE
  OBVIOUS
<1>1. PICK k \in Nat : k = Len(p)
  BY StopIs
<1>2. j \in 1..k + 1 /\ j \in Nat
  BY <1>1
<1>3. T \in SUBSET Nat
  BY <1>1, <1>2
<1> HIDE DEF T
<1>4. PICK i \in T : \A y \in T : i <= y
  BY <1>3, Smallest
<1>5. i \in j..k + 1 /\ Stop(p, n, i) \notin U
  BY <1>1, <1>4 DEF T
<1>6. i # j /\ i - 1 \in 1..k /\ i - 1 \in j..k + 1 /\ (i - 1) + 1 = i /\ ~(i <= i - 1)
  BY <1>2, <1>5
<1>7. i - 1 \notin T
  BY <1>4, <1>6
<1>8. Stop(p, n, i - 1) \in U
  BY <1>1, <1>6, <1>7 DEF T
<1>9. p[i - 1] \in U \cap Derived /\ Stop(p, n, i) \in edges[p[i - 1]]
  BY <1>1, <1>6, <1>8, StopIs
<1> QED
  BY <1>5, <1>9 DEF Closed

LEMMA OnPath ==
  ASSUME NEW edges \in Edges, NEW S \in SUBSET Node, NEW n, NEW p, IsPath(edges, S, p, n)
  PROVE  \A i \in 1..Len(p) + 1 : Stop(p, n, i) \in Reach(edges, S)
<1>1. p \in Seq(Derived) /\ Len(p) \in Nat /\ 1 \in 1..Len(p) + 1
  BY DEF IsPath
<1>2. Stop(p, n, 1) \in Reach(edges, S) /\ Closed(edges, Reach(edges, S))
  BY ReachIs DEF IsPath
<1>3. \A i \in 1..Len(p) + 1 : Stop(p, n, i) \in Reach(edges, S)
  BY <1>1, <1>2, Carried DEF IsPath
<1> QED
  BY <1>3

\* A path from where no cycle can be reached visits no node twice.
LEMMA PathsSimple ==
  ASSUME NEW edges \in Edges, NEW S \in SUBSET Node, NEW n, NEW p, IsPath(edges, S, p, n),
         AcyclicFrom(edges, S)
  PROVE  \A i \in 1..Len(p) : \A j \in i + 1..Len(p) + 1 : Stop(p, n, j) # p[i]
<1> SUFFICES ASSUME NEW i \in 1..Len(p) PROVE \A j \in i + 1..Len(p) + 1 : Stop(p, n, j) # p[i]
  OBVIOUS
<1>1. PICK k \in Nat : k = Len(p) /\ p \in Seq(Derived)
  BY DEF IsPath
<1>2. i \in 1..k + 1 /\ i + 1 \in 1..k + 1
  BY <1>1
<1>3. p[i] \in Derived /\ p[i] \in Reach(edges, S)
  BY <1>1, <1>2, OnPath, StopIs
<1>4. PICK U \in SUBSET Node : edges[p[i]] \subseteq U /\ Closed(edges, U) /\ p[i] \notin U
  BY <1>3 DEF AcyclicFrom, Avoids
<1>5. Stop(p, n, i + 1) \in U
  BY <1>4 DEF IsPath
<1>6. \A j \in i + 1..Len(p) + 1 : Stop(p, n, j) \in U
  BY <1>1, <1>2, <1>4, <1>5, Carried DEF IsPath
<1> QED
  BY <1>4, <1>6

LEMMA PathsShort ==
  ASSUME NEW edges \in Edges, NEW S \in SUBSET Node, NEW n, NEW p, IsPath(edges, S, p, n),
         AcyclicFrom(edges, S)
  PROVE  p \in Routes(edges, S, n)
<1>1. PICK k \in Nat : k = Len(p) /\ p \in Seq(Derived)
  BY DEF IsPath
<1>2. \A i \in 1..k : \A j \in i + 1..k + 1 : Stop(p, n, j) # p[i]
  BY <1>1, PathsSimple
<1>3. \A i, j \in 1..k : i < j => p[i] # p[j]
  <2> SUFFICES ASSUME NEW i \in 1..k, NEW j \in 1..k, i < j PROVE p[i] # p[j]
    OBVIOUS
  <2>1. j \in i + 1..k + 1
    OBVIOUS
  <2> QED
    BY <1>1, <1>2, <2>1, StopIs
<1>4. \A i, j \in 1..k : i # j => p[i] # p[j]
  <2> SUFFICES ASSUME NEW i \in 1..k, NEW j \in 1..k, i # j PROVE p[i] # p[j]
    OBVIOUS
  <2>1. i < j \/ j < i
    OBVIOUS
  <2> QED
    BY <1>3, <2>1
<1>5. p \in [1..k -> Derived]
  BY <1>1
<1>6. IsFiniteSet(1..k) /\ Cardinality(1..k) = k
  BY FS_Interval
<1>7. ~(Cardinality(Derived) < k)
  BY <1>4, <1>5, <1>6, DerivedFinite, FS_PigeonHole
<1> QED
  BY <1>1, <1>7, RouteIs, DerivedFinite

LEMMA PathTo ==
  ASSUME NEW edges \in Edges, NEW S \in SUBSET Node, NEW n \in Reach(edges, S)
  PROVE  \E p : IsPath(edges, S, p, n)
<1> DEFINE R == {m \in Node : \E p : IsPath(edges, S, p, m)}
<1>1. S \subseteq R
  <2> SUFFICES ASSUME NEW m \in S PROVE IsPath(edges, S, <<>>, m)
    OBVIOUS
  <2>1. <<>> \in Seq(Derived) /\ Len(<<>>) = 0 /\ Stop(<<>>, m, 1) = m
    BY DEF Stop
  <2> QED
    BY <2>1 DEF IsPath
<1>2. Closed(edges, R)
  <2> SUFFICES ASSUME NEW d \in R \cap Derived, NEW m \in edges[d] PROVE m \in R
    BY DEF Closed
  <2>1. PICK p : IsPath(edges, S, p, d)
    OBVIOUS
  <2>2. PICK q : q = Append(p, d)
    OBVIOUS
  <2>3. PICK k \in Nat : k = Len(p) /\ p \in Seq(Derived)
    BY <2>1 DEF IsPath
  <2>4. q \in Seq(Derived) /\ Len(q) = k + 1 /\ \A i \in 1..k : q[i] = p[i]
    BY <2>2, <2>3
  <2>5. q[k + 1] = d
    BY <2>2, <2>3
  <2>6. \A i \in 1..k + 1 : Stop(q, m, i) = q[i] /\ Stop(p, d, i) = q[i]
    <3> SUFFICES ASSUME NEW i \in 1..k + 1 PROVE Stop(q, m, i) = q[i] /\ Stop(p, d, i) = q[i]
      OBVIOUS
    <3>1. CASE i <= k
      BY <2>3, <2>4, <3>1 DEF Stop
    <3>2. CASE i = k + 1
      BY <2>3, <2>4, <2>5, <3>2 DEF Stop
    <3> QED
      BY <3>1, <3>2
  <2>7. Stop(q, m, (k + 1) + 1) = m
    BY <2>4 DEF Stop
  <2>8. \A i \in 1..k + 1 : Stop(q, m, i + 1) \in edges[q[i]]
    <3> SUFFICES ASSUME NEW i \in 1..k + 1 PROVE Stop(q, m, i + 1) \in edges[q[i]]
      OBVIOUS
    <3>1. CASE i <= k
      <4>1. i \in 1..k /\ i + 1 \in 1..k + 1
        BY <3>1
      <4>2. Stop(q, m, i + 1) = Stop(p, d, i + 1) /\ p[i] = q[i]
        BY <2>4, <2>6, <4>1
      <4> QED
        BY <2>1, <2>3, <4>1, <4>2 DEF IsPath
    <3>2. CASE i = k + 1
      BY <2>5, <2>7, <3>2
    <3> QED
      BY <3>1, <3>2
  <2>9. Stop(q, m, 1) \in S
    BY <2>1, <2>6 DEF IsPath
  <2>10. IsPath(edges, S, q, m)
    BY <2>4, <2>8, <2>9 DEF IsPath
  <2> QED
    BY <2>10 DEF Edges
<1> HIDE DEF R
<1>3. n \in R
  BY <1>1, <1>2, ReachIs DEF R
<1> QED
  BY <1>3 DEF R

LEMMA RoutesFinite ==
  ASSUME NEW edges, NEW S, NEW n
  PROVE  IsFiniteSet(Routes(edges, S, n)) /\ Cardinality(Routes(edges, S, n)) \in Nat
<1> DEFINE K    == Cardinality(Derived)
           R    == Routes(edges, S, n)
           T    == SUBSET ((1..K) \X Derived)
           g(p) == {<<i, p[i]>> : i \in 1..Len(p)}
<1>1. K \in Nat /\ IsFiniteSet(1..K)
  BY DerivedFinite, FS_Interval
<1>2. IsFiniteSet((1..K) \X Derived)
  BY <1>1, DerivedFinite, FS_Product
<1>3. IsFiniteSet(T)
  BY <1>2, FS_SUBSET
<1>4. \A p \in R : p \in Seq(Derived) /\ Len(p) <= K /\ Len(p) \in Nat
  BY RouteIs DEF IsPath
<1> HIDE DEF R
<1>5. \A p \in R : g(p) \in T
  <2> SUFFICES ASSUME NEW p \in R, NEW i \in 1..Len(p) PROVE <<i, p[i]>> \in (1..K) \X Derived
    OBVIOUS
  <2>1. p[i] \in Derived /\ i \in 1..K
    BY <1>1, <1>4
  <2> QED
    BY <2>1
<1>6. ASSUME NEW p \in R, NEW q \in R, g(p) = g(q) PROVE p = q
  <2>1. \A i \in 1..Len(p) : i \in 1..Len(q) /\ q[i] = p[i]
    <3> SUFFICES ASSUME NEW i \in 1..Len(p) PROVE i \in 1..Len(q) /\ q[i] = p[i]
      OBVIOUS
    <3>1. <<i, p[i]>> \in g(q)
      BY <1>6
    <3> QED
      BY <3>1
  <2>2. \A i \in 1..Len(q) : i \in 1..Len(p)
    <3> SUFFICES ASSUME NEW i \in 1..Len(q) PROVE i \in 1..Len(p)
      OBVIOUS
    <3>1. <<i, q[i]>> \in g(p)
      BY <1>6
    <3> QED
      BY <3>1
  <2>3. PICK k \in Nat : k = Len(p)
    BY <1>4
  <2>4. PICK l \in Nat : l = Len(q)
    BY <1>4
  <2>5. k = l
    <3>1. k <= l
      <4>1. k \in 1..k => k \in 1..l
        BY <2>1, <2>3, <2>4
      <4> QED
        BY <4>1
    <3>2. l <= k
      <4>1. l \in 1..l => l \in 1..k
        BY <2>2, <2>3, <2>4
      <4> QED
        BY <4>1
    <3> QED
      BY <3>1, <3>2
  <2>6. p \in [1..k -> Derived]
    BY <1>4, <2>3
  <2>7. q \in [1..k -> Derived]
    BY <1>4, <2>4, <2>5
  <2> QED
    BY <2>1, <2>3, <2>6, <2>7
<1> DEFINE f == [p \in R |-> g(p)]
<1>7. f \in [R -> T] /\ \A p, q \in R : f[p] = f[q] => p = q
  <2> HIDE DEF g, T
  <2> QED
    BY <1>5, <1>6
<1> HIDE DEF f, T
<1>8. f \in Injection(R, T)
  BY <1>7, Fun_IsInj
<1>9. IsFiniteSet(R)
  BY <1>3, <1>8, FS_Injection
<1> QED
  BY <1>9, FS_CardinalityType DEF R

\* Edges that no path from S comes to can change.
LEMMA SameReach ==
  ASSUME NEW edges \in Edges, NEW other \in Edges, NEW S \in SUBSET Node,
         NEW x, x \notin Reach(edges, S), \A d \in Derived : d # x => other[d] = edges[d]
  PROVE  Reach(other, S) = Reach(edges, S)
<1>1. \A T \in SUBSET Node : x \notin T => (Closed(edges, T) <=> Closed(other, T))
  BY DEF Closed
<1>2. Reach(other, S) \subseteq Reach(edges, S)
  BY <1>1, ReachIs
<1>3. x \notin Reach(other, S)
  BY <1>2
<1>4. Reach(edges, S) \subseteq Reach(other, S)
  BY <1>1, <1>3, ReachIs
<1> QED
  BY <1>2, <1>4

LEMMA SamePath ==
  ASSUME NEW edges \in Edges, NEW other \in Edges, NEW S \in SUBSET Node,
         NEW x, x \notin Reach(edges, S), \A d \in Derived : d # x => other[d] = edges[d],
         NEW n, NEW p, IsPath(edges, S, p, n)
  PROVE  IsPath(other, S, p, n)
<1>1. p \in Seq(Derived) /\ Len(p) \in Nat
  BY DEF IsPath
<1>2. \A i \in 1..Len(p) : p[i] # x
  <2> SUFFICES ASSUME NEW i \in 1..Len(p) PROVE p[i] # x
    OBVIOUS
  <2>1. i \in 1..Len(p) + 1
    BY <1>1
  <2>2. Stop(p, n, i) \in Reach(edges, S)
    BY <2>1, OnPath
  <2> QED
    BY <1>1, <2>2, StopIs
<1>3. \A i \in 1..Len(p) : other[p[i]] = edges[p[i]]
  BY <1>1, <1>2, StopIs
<1> QED
  BY <1>3 DEF IsPath

LEMMA SameRoutes ==
  ASSUME NEW edges \in Edges, NEW other \in Edges, NEW S \in SUBSET Node,
         NEW x, x \notin Reach(edges, S), \A d \in Derived : d # x => other[d] = edges[d],
         NEW n
  PROVE  Routes(other, S, n) = Routes(edges, S, n)
<1>1. x \notin Reach(other, S)
  BY SameReach
<1>2. \A p : IsPath(edges, S, p, n) => IsPath(other, S, p, n)
  BY SamePath
<1>3. \A p : IsPath(other, S, p, n) => IsPath(edges, S, p, n)
  BY <1>1, SamePath
<1>4. \A p : p \in Routes(other, S, n) <=> p \in Routes(edges, S, n)
  BY <1>2, <1>3, RouteIs
<1> QED
  BY <1>4

LEMMA MorePaths ==
  ASSUME NEW edges, NEW more, NEW S, NEW n, NEW p, IsPath(edges, S, p, n),
         \A d \in Derived : edges[d] \subseteq more[d]
  PROVE  IsPath(more, S, p, n)
  BY StopIs DEF IsPath

-----------------------------------------------------------------------------
(* Two paths after one another.                                            *)

Join(q, x, s) == q \o <<x>> \o s

\* r is q, then x, then s.
Joined(q, x, s, n, k, l, r) ==
  /\ k \in Nat /\ l \in Nat /\ r \in Seq(Derived) /\ Len(r) = k + 1 + l
  /\ \A i \in 1..k + 1 : Stop(r, n, i) = Stop(q, x, i) /\ r[i] = Stop(q, x, i)
  /\ \A i \in 1..l : r[k + 1 + i] = s[i]
  /\ \A i \in 1..l + 1 : Stop(r, n, k + 1 + i) = Stop(s, n, i)

LEMMA JoinIs ==
  ASSUME NEW q \in Seq(Derived), NEW s \in Seq(Derived), NEW x \in Derived, NEW n
  PROVE  Joined(q, x, s, n, Len(q), Len(s), Join(q, x, s))
<1> PICK k : k = Len(q)
  OBVIOUS
<1> PICK l : l = Len(s)
  OBVIOUS
<1> PICK r : r = Join(q, x, s)
  OBVIOUS
<1>1. k \in Nat /\ l \in Nat
  OBVIOUS
<1>2. PICK t : t = q \o <<x>>
  OBVIOUS
<1>3. t \in Seq(Derived) /\ Len(t) = k + 1 /\ \A i \in 1..k + 1 : t[i] = IF i <= k THEN q[i] ELSE x
  BY <1>1, <1>2
<1>4. r = t \o s
  BY <1>2 DEF Join
<1>5. /\ r \in Seq(Derived) /\ Len(r) = k + 1 + l
      /\ \A i \in 1..k + 1 + l : r[i] = IF i <= k + 1 THEN t[i] ELSE s[i - (k + 1)]
  <2>1. /\ r \in Seq(Derived) /\ Len(r) = Len(t) + Len(s)
        /\ \A i \in 1..Len(t) + Len(s) : r[i] = IF i <= Len(t) THEN t[i] ELSE s[i - Len(t)]
    <3>1. t \in Seq(Derived)
      BY <1>3
    <3>2. /\ t \o s \in Seq(Derived) /\ Len(t \o s) = Len(t) + Len(s)
          /\ \A i \in 1..Len(t) + Len(s) : (t \o s)[i] = IF i <= Len(t) THEN t[i] ELSE s[i - Len(t)]
      BY <3>1, ConcatProperties
    <3> QED
      BY <1>4, <3>2
  <2>2. Len(t) = k + 1 /\ Len(s) = l
    BY <1>3
  <2>3. \A i \in 1..k + 1 + l : r[i] = IF i <= k + 1 THEN t[i] ELSE s[i - (k + 1)]
    BY <2>1, <2>2
  <2> QED
    BY <1>1, <2>1, <2>2, <2>3
<1>6. \A i \in 1..k + 1 : Stop(r, n, i) = Stop(q, x, i) /\ r[i] = Stop(q, x, i)
  <2> SUFFICES ASSUME NEW i \in 1..k + 1
               PROVE  Stop(r, n, i) = Stop(q, x, i) /\ r[i] = Stop(q, x, i)
    OBVIOUS
  <2>1. i <= k + 1 + l /\ i \in 1..k + 1 + l /\ i <= k + 1
    BY <1>1
  <2>2. r[i] = IF i <= k THEN q[i] ELSE x
    BY <1>3, <1>5, <2>1
  <2> QED
    BY <1>5, <2>1, <2>2 DEF Stop
<1>7. \A i \in 1..l : r[k + 1 + i] = s[i]
  <2> SUFFICES ASSUME NEW i \in 1..l PROVE r[k + 1 + i] = s[i]
    OBVIOUS
  <2>1. k + 1 + i \in 1..k + 1 + l /\ ~(k + 1 + i <= k + 1) /\ (k + 1 + i) - (k + 1) = i
    BY <1>1
  <2> QED
    BY <1>5, <2>1
<1>8. \A i \in 1..l + 1 : Stop(r, n, k + 1 + i) = Stop(s, n, i)
  <2> SUFFICES ASSUME NEW i \in 1..l + 1 PROVE Stop(r, n, k + 1 + i) = Stop(s, n, i)
    OBVIOUS
  <2>1. CASE i <= l
    <3>1. i \in 1..l /\ k + 1 + i <= k + 1 + l
      BY <1>1, <2>1
    <3> QED
      BY <1>5, <1>7, <2>1, <3>1 DEF Stop
  <2>2. CASE i = l + 1
    <3>1. ~(k + 1 + i <= k + 1 + l) /\ ~(i <= l)
      BY <1>1, <2>2
    <3> QED
      BY <1>5, <3>1 DEF Stop
  <2> QED
    BY <1>1, <2>1, <2>2
<1> QED
  BY <1>1, <1>5, <1>6, <1>7, <1>8 DEF Joined

LEMMA JoinPath ==
  ASSUME NEW edges, NEW S, NEW T, NEW x \in Derived, NEW n, NEW q, NEW s,
         IsPath(edges, S, q, x), IsPath(edges, T, s, n), NEW more,
         \A d \in Derived : edges[d] \subseteq more[d], T \subseteq more[x]
  PROVE  IsPath(more, S, Join(q, x, s), n)
<1>1. PICK k : k = Len(q)
  OBVIOUS
<1>2. PICK l : l = Len(s)
  OBVIOUS
<1>3. PICK r : r = Join(q, x, s)
  OBVIOUS
<1>4. q \in Seq(Derived) /\ s \in Seq(Derived)
  BY DEF IsPath
<1>5. /\ k \in Nat /\ l \in Nat /\ r \in Seq(Derived) /\ Len(r) = k + 1 + l
      /\ \A i \in 1..k + 1 : Stop(r, n, i) = Stop(q, x, i) /\ r[i] = Stop(q, x, i)
      /\ \A i \in 1..l : r[k + 1 + i] = s[i]
      /\ \A i \in 1..l + 1 : Stop(r, n, k + 1 + i) = Stop(s, n, i)
  <2>1. Joined(q, x, s, n, k, l, r)
    BY <1>1, <1>2, <1>3, <1>4, JoinIs
  <2> QED
    BY <2>1 DEF Joined
<1>6. Stop(r, n, 1) \in S
  <2>1. 1 \in 1..k + 1
    BY <1>5
  <2> QED
    BY <1>5, <2>1 DEF IsPath
<1>7. ASSUME NEW i \in 1..k + 1 + l PROVE Stop(r, n, i + 1) \in more[r[i]]
  <2>1. CASE i <= k
    <3>1. i \in 1..k /\ i \in 1..k + 1 /\ i + 1 \in 1..k + 1
      BY <1>5, <2>1
    <3>2. Stop(q, x, i + 1) \in edges[q[i]] /\ q[i] \in Derived /\ Stop(q, x, i) = q[i]
      BY <1>1, <1>4, <3>1, StopIs DEF IsPath
    <3> QED
      BY <1>5, <3>1, <3>2
  <2>2. CASE i = k + 1
    <3>1. k + 1 \in 1..k + 1 /\ 1 \in 1..l + 1 /\ i + 1 = k + 1 + 1
      BY <1>5, <2>2
    <3>2. r[i] = x /\ Stop(r, n, i + 1) = Stop(s, n, 1)
      BY <1>1, <1>4, <1>5, <2>2, <3>1, StopIs
    <3> QED
      BY <3>2 DEF IsPath
  <2>3. CASE i > k + 1
    <3>1. PICK j \in 1..l : i = k + 1 + j
      <4>1. i - (k + 1) \in 1..l /\ i = k + 1 + (i - (k + 1))
        BY <1>5, <2>3
      <4> QED
        BY <4>1
    <3>2. j + 1 \in 1..l + 1 /\ i + 1 = k + 1 + (j + 1)
      BY <1>5, <3>1
    <3>3. r[i] = s[j] /\ Stop(r, n, i + 1) = Stop(s, n, j + 1)
      BY <1>5, <3>1, <3>2
    <3>4. Stop(s, n, j + 1) \in edges[s[j]] /\ s[j] \in Derived
      BY <1>2, <1>4, <3>1, StopIs DEF IsPath
    <3> QED
      BY <3>3, <3>4
  <2> QED
    BY <1>5, <2>1, <2>2, <2>3
<1> QED
  BY <1>3, <1>5, <1>6, <1>7 DEF IsPath

\* A path over the edges that were added is a path to x, one of these edges and
\* a path from there.
LEMMA SplitPath ==
  ASSUME NEW edges \in Edges, NEW S \in SUBSET Node, NEW T \in SUBSET Node, NEW x \in Derived,
         NEW more \in Edges, more[x] = edges[x] \cup T,
         \A d \in Derived : d # x => more[d] = edges[d], AcyclicFrom(more, S),
         NEW n, NEW p, IsPath(more, S, p, n), ~IsPath(edges, S, p, n)
  PROVE  \E q, s : IsPath(edges, S, q, x) /\ IsPath(edges, T, s, n) /\ p = Join(q, x, s)
<1>1. PICK m \in Nat : m = Len(p) /\ p \in Seq(Derived)
  BY DEF IsPath
<1>2. /\ \A i \in 1..m : Stop(p, n, i) = p[i] /\ p[i] \in Derived
      /\ \A i \in 1..m : Stop(p, n, i + 1) \in more[p[i]]
      /\ Stop(p, n, 1) \in S
  BY <1>1, StopIs DEF IsPath
<1>3. more \in Edges /\ more[x] = edges[x] \cup T /\ \A d \in Derived : d # x => more[d] = edges[d]
  OBVIOUS
<1>4. PICK i \in 1..m : Stop(p, n, i + 1) \notin edges[p[i]]
  BY <1>1, <1>2 DEF IsPath
<1>5. p[i] = x /\ Stop(p, n, i + 1) \in T
  BY <1>2, <1>3, <1>4
<1>6. \A j \in 1..m : \A h \in j + 1..m + 1 : Stop(p, n, h) # p[j]
  BY <1>1, <1>3, PathsSimple
<1>7. \A j \in 1..m : j # i => p[j] # x
  <2> SUFFICES ASSUME NEW j \in 1..m, j # i PROVE p[j] # x
    OBVIOUS
  <2>1. CASE j < i
    <3>1. i \in j + 1..m + 1
      BY <2>1
    <3> QED
      BY <1>2, <1>5, <1>6, <3>1
  <2>2. CASE i < j
    <3>1. j \in i + 1..m + 1
      BY <2>2
    <3> QED
      BY <1>2, <1>5, <1>6, <3>1
  <2> QED
    BY <2>1, <2>2
<1>8. \A j \in 1..m : j # i => Stop(p, n, j + 1) \in edges[p[j]]
  BY <1>2, <1>3, <1>7
<1>9. PICK k \in Nat : k + 1 = i
  <2>1. i - 1 \in Nat /\ (i - 1) + 1 = i
    OBVIOUS
  <2> QED
    BY <2>1
<1>10. PICK l \in Nat : k + 1 + l = m
  <2>1. m - i \in Nat /\ k + 1 + (m - i) = m
    BY <1>9
  <2> QED
    BY <2>1
<1>11. PICK q : q = [j \in 1..k |-> p[j]]
  OBVIOUS
<1>12. PICK s : s = [j \in 1..l |-> p[k + 1 + j]]
  OBVIOUS
<1>13. \A j \in 1..k : j \in 1..m /\ j # i /\ j + 1 \in 1..m
  BY <1>9, <1>10
<1>14. \A j \in 1..l : k + 1 + j \in 1..m /\ k + 1 + j # i
  BY <1>9, <1>10
<1>15. q \in [1..k -> Derived] /\ \A j \in 1..k : q[j] = p[j]
  BY <1>2, <1>11, <1>13
<1>16. s \in [1..l -> Derived] /\ \A j \in 1..l : s[j] = p[k + 1 + j]
  BY <1>2, <1>12, <1>14
<1>17. q \in Seq(Derived) /\ Len(q) = k
  BY <1>15
<1>18. s \in Seq(Derived) /\ Len(s) = l
  BY <1>16
<1>19. \A j \in 1..k + 1 : Stop(q, x, j) = Stop(p, n, j)
  <2> SUFFICES ASSUME NEW j \in 1..k + 1 PROVE Stop(q, x, j) = Stop(p, n, j)
    OBVIOUS
  <2>1. CASE j <= k
    <3>1. j \in 1..k
      BY <2>1
    <3> QED
      BY <1>2, <1>13, <1>15, <1>17, <2>1, <3>1 DEF Stop
  <2>2. CASE j = k + 1
    BY <1>2, <1>5, <1>9, <1>17, <2>2, StopIs
  <2> QED
    BY <2>1, <2>2
<1>20. \A j \in 1..l + 1 : Stop(s, n, j) = Stop(p, n, k + 1 + j)
  <2> SUFFICES ASSUME NEW j \in 1..l + 1 PROVE Stop(s, n, j) = Stop(p, n, k + 1 + j)
    OBVIOUS
  <2>1. CASE j <= l
    <3>1. j \in 1..l
      BY <2>1
    <3> QED
      BY <1>1, <1>2, <1>14, <1>16, <1>18, <2>1, <3>1 DEF Stop
  <2>2. CASE j = l + 1
    <3>1. k + 1 + j = m + 1
      BY <1>10, <2>2
    <3> QED
      BY <1>1, <1>18, <2>2, <3>1, StopIs
  <2> QED
    BY <2>1, <2>2
<1>21. IsPath(edges, S, q, x)
  <2>1. Stop(q, x, 1) \in S
    <3>1. 1 \in 1..k + 1
      OBVIOUS
    <3> QED
      BY <1>2, <1>19, <3>1
  <2>2. ASSUME NEW j \in 1..k PROVE Stop(q, x, j + 1) \in edges[q[j]]
    <3>1. j + 1 \in 1..k + 1
      OBVIOUS
    <3>2. Stop(q, x, j + 1) = Stop(p, n, j + 1) /\ q[j] = p[j]
      BY <1>15, <1>19, <3>1
    <3> QED
      BY <1>8, <1>13, <3>2
  <2> QED
    BY <1>17, <2>1, <2>2 DEF IsPath
<1>22. IsPath(edges, T, s, n)
  <2>1. Stop(s, n, 1) \in T
    <3>1. 1 \in 1..l + 1 /\ k + 1 + 1 = i + 1
      BY <1>9
    <3> QED
      BY <1>5, <1>20, <3>1
  <2>2. ASSUME NEW j \in 1..l PROVE Stop(s, n, j + 1) \in edges[s[j]]
    <3>1. j + 1 \in 1..l + 1 /\ k + 1 + (j + 1) = (k + 1 + j) + 1
      OBVIOUS
    <3>2. Stop(s, n, j + 1) = Stop(p, n, (k + 1 + j) + 1) /\ s[j] = p[k + 1 + j]
      BY <1>16, <1>20, <3>1
    <3> QED
      BY <1>8, <1>14, <3>2
  <2> QED
    BY <1>18, <2>1, <2>2 DEF IsPath
<1>23. PICK r : r = Join(q, x, s)
  OBVIOUS
<1>24. /\ r \in Seq(Derived) /\ Len(r) = m
       /\ \A j \in 1..k + 1 : r[j] = Stop(q, x, j)
       /\ \A j \in 1..l : r[k + 1 + j] = s[j]
  <2>1. Joined(q, x, s, n, k, l, r)
    BY <1>17, <1>18, <1>23, JoinIs
  <2> QED
    BY <1>10, <2>1 DEF Joined
<1>25. \A j \in 1..m : r[j] = p[j]
  <2> SUFFICES ASSUME NEW j \in 1..m PROVE r[j] = p[j]
    OBVIOUS
  <2>1. CASE j <= k + 1
    <3>1. j \in 1..k + 1
      BY <2>1
    <3> QED
      BY <1>2, <1>19, <1>24, <3>1
  <2>2. CASE j > k + 1
    <3>1. j - (k + 1) \in 1..l /\ k + 1 + (j - (k + 1)) = j
      BY <1>10, <2>2
    <3> QED
      BY <1>16, <1>24, <3>1
  <2> QED
    BY <2>1, <2>2
<1>26. p \in [1..m -> Derived]
  BY <1>1
<1>27. r \in [1..m -> Derived]
  BY <1>24
<1>28. p = r
  BY <1>25, <1>26, <1>27
<1> QED
  BY <1>21, <1>22, <1>23, <1>28

\* The way over an added edge is none without it.
LEMMA JoinIsNew ==
  ASSUME NEW edges, NEW S, NEW T, NEW x \in Derived, NEW n, NEW q, NEW s,
         IsPath(edges, S, q, x), IsPath(edges, T, s, n), T \cap edges[x] = {}
  PROVE  ~IsPath(edges, S, Join(q, x, s), n)
<1>1. PICK k : k = Len(q)
  OBVIOUS
<1>2. PICK l : l = Len(s)
  OBVIOUS
<1>3. PICK r : r = Join(q, x, s)
  OBVIOUS
<1>4. q \in Seq(Derived) /\ s \in Seq(Derived)
  BY DEF IsPath
<1>5. /\ k \in Nat /\ l \in Nat /\ r \in Seq(Derived) /\ Len(r) = k + 1 + l
      /\ \A i \in 1..k + 1 : Stop(r, n, i) = Stop(q, x, i) /\ r[i] = Stop(q, x, i)
      /\ \A i \in 1..l + 1 : Stop(r, n, k + 1 + i) = Stop(s, n, i)
  <2>1. Joined(q, x, s, n, k, l, r)
    BY <1>1, <1>2, <1>3, <1>4, JoinIs
  <2> QED
    BY <2>1 DEF Joined
<1>6. k + 1 \in 1..k + 1 /\ 1 \in 1..l + 1 /\ k + 1 \in 1..k + 1 + l
  BY <1>5
<1>7. r[k + 1] = x /\ Stop(r, n, k + 1 + 1) \in T
  BY <1>1, <1>4, <1>5, <1>6, StopIs DEF IsPath
<1>8. IsPath(edges, S, r, n) => Stop(r, n, k + 1 + 1) \in edges[x]
  BY <1>5, <1>6, <1>7 DEF IsPath
<1> QED
  BY <1>3, <1>7, <1>8

LEMMA SameSteps ==
  ASSUME NEW k, NEW f \in [1..k -> Derived], NEW g \in [1..k -> Derived],
         \A i \in 1..k : f[i] = g[i]
  PROVE  f = g
<1>1. f = [i \in 1..k |-> f[i]] /\ g = [i \in 1..k |-> g[i]]
  OBVIOUS
<1>2. [i \in 1..k |-> f[i]] = [i \in 1..k |-> g[i]]
  OBVIOUS
<1> QED
  BY <1>1, <1>2

LEMMA JoinApart ==
  ASSUME NEW more \in Edges, NEW S \in SUBSET Node, AcyclicFrom(more, S), NEW x \in Derived, NEW n,
         NEW q \in Seq(Derived), NEW s \in Seq(Derived), NEW q2 \in Seq(Derived), NEW s2 \in Seq(Derived),
         Join(q, x, s) = Join(q2, x, s2), IsPath(more, S, Join(q, x, s), n)
  PROVE  q = q2 /\ s = s2
<1> PICK r : r = Join(q, x, s)
  OBVIOUS
<1>1. PICK k : k = Len(q)
  OBVIOUS
<1>2. PICK l : l = Len(s)
  OBVIOUS
<1>3. PICK k2 : k2 = Len(q2)
  OBVIOUS
<1>4. PICK l2 : l2 = Len(s2)
  OBVIOUS
<1>5. /\ k \in Nat /\ l \in Nat /\ r \in Seq(Derived) /\ Len(r) = k + 1 + l
      /\ \A i \in 1..k + 1 : Stop(r, n, i) = Stop(q, x, i) /\ r[i] = Stop(q, x, i)
      /\ \A i \in 1..l : r[k + 1 + i] = s[i]
  <2>1. Joined(q, x, s, n, k, l, r)
    BY <1>1, <1>2, JoinIs
  <2> QED
    BY <2>1 DEF Joined
<1>6. /\ k2 \in Nat /\ l2 \in Nat /\ Len(r) = k2 + 1 + l2
      /\ \A i \in 1..k2 + 1 : Stop(r, n, i) = Stop(q2, x, i) /\ r[i] = Stop(q2, x, i)
      /\ \A i \in 1..l2 : r[k2 + 1 + i] = s2[i]
  <2>1. Joined(q2, x, s2, n, k2, l2, r)
    BY <1>3, <1>4, JoinIs
  <2> QED
    BY <2>1 DEF Joined
<1>7. k + 1 \in 1..k + 1 /\ k2 + 1 \in 1..k2 + 1 /\ k + 1 \in 1..Len(r) /\ k2 + 1 \in 1..Len(r)
  BY <1>5, <1>6
<1>8. r[k + 1] = x /\ r[k2 + 1] = x /\ Stop(r, n, k + 1) = x /\ Stop(r, n, k2 + 1) = x
  BY <1>1, <1>3, <1>5, <1>6, <1>7, StopIs
<1>9. \A i \in 1..Len(r) : \A j \in i + 1..Len(r) + 1 : Stop(r, n, j) # r[i]
  BY PathsSimple
<1>10. ~(k < k2)
  <2>1. k < k2 => k2 + 1 \in (k + 1) + 1..Len(r) + 1
    BY <1>5, <1>6
  <2> QED
    BY <1>7, <1>8, <1>9, <2>1
<1>11. ~(k2 < k)
  <2>1. k2 < k => k + 1 \in (k2 + 1) + 1..Len(r) + 1
    BY <1>5, <1>6
  <2> QED
    BY <1>7, <1>8, <1>9, <2>1
<1>12. k = k2 /\ l = l2
  BY <1>5, <1>6, <1>10, <1>11
<1>13. \A i \in 1..k : q[i] = q2[i]
  <2> SUFFICES ASSUME NEW i \in 1..k PROVE q[i] = q2[i]
    OBVIOUS
  <2>1. i \in 1..k + 1 /\ i \in 1..k2 + 1
    BY <1>5, <1>12
  <2>2. Stop(q, x, i) = Stop(q2, x, i)
    BY <1>5, <1>6, <2>1
  <2>3. i <= k /\ i <= Len(q) /\ i <= Len(q2)
    BY <1>1, <1>3, <1>5, <1>12
  <2> QED
    BY <2>2, <2>3 DEF Stop
<1>14. \A i \in 1..l : s[i] = s2[i]
  BY <1>5, <1>6, <1>12
<1>15. q \in [1..k -> Derived]
  BY <1>1
<1>20. s \in [1..l -> Derived]
  BY <1>2
<1>16. q2 \in [1..k -> Derived]
  BY <1>3, <1>12
<1>17. s2 \in [1..l -> Derived]
  BY <1>4, <1>12
<1>18. q = q2
  BY <1>13, <1>15, <1>16, SameSteps
<1>19. s = s2
  BY <1>14, <1>17, <1>20, SameSteps
<1> QED
  BY <1>18, <1>19

-----------------------------------------------------------------------------
(* Counting.                                                               *)

HeadsOf(es) == {e[2] : e \in es}

\* The node an entry is for, where its paths start.
Start(e) == {e[2]}

LEMMA FewerReach ==
  ASSUME NEW edges \in Edges, NEW more \in Edges, \A d \in Derived : edges[d] \subseteq more[d],
         NEW S \in SUBSET Node, NEW T \in SUBSET Node, S \subseteq T
  PROVE  Reach(edges, S) \subseteq Reach(more, T)
<1>1. T \subseteq Reach(more, T) /\ Reach(more, T) \in SUBSET Node /\ Closed(more, Reach(more, T))
  BY ReachIs
<1>2. Closed(edges, Reach(more, T))
  BY <1>1 DEF Closed
<1> QED
  BY <1>1, <1>2, ReachIs

LEMMA FewerCycles ==
  ASSUME NEW edges \in Edges, NEW more \in Edges, \A d \in Derived : edges[d] \subseteq more[d],
         NEW S \in SUBSET Node, NEW T \in SUBSET Node, S \subseteq T, AcyclicFrom(more, T)
  PROVE  AcyclicFrom(edges, S)
<1>1. Reach(edges, S) \subseteq Reach(more, T)
  BY FewerReach
<1>2. \A d \in Derived : Avoids(more, d) => Avoids(edges, d)
  BY DEF Avoids, Closed
<1> QED
  BY <1>1, <1>2 DEF AcyclicFrom

LEMMA EntryRouteIs ==
  ASSUME NEW edges, NEW es, NEW n
  PROVE  \A c : c \in EntryRoutes(edges, es, n) <=>
                  \E e \in es : \E p \in Routes(edges, Start(e), n) : c = <<e, p>>
<1> SUFFICES ASSUME NEW c
             PROVE  c \in EntryRoutes(edges, es, n) <=>
                      \E e \in es : \E p \in Routes(edges, Start(e), n) : c = <<e, p>>
  OBVIOUS
<1>1. c \in EntryRoutes(edges, es, n) <=> \E e \in es : c \in {e} \X Routes(edges, Start(e), n)
  BY DEF EntryRoutes, Start
<1>2. ASSUME NEW e \in es
      PROVE  c \in {e} \X Routes(edges, Start(e), n) <=>
               \E p \in Routes(edges, Start(e), n) : c = <<e, p>>
  <2>1. PICK R : R = Routes(edges, Start(e), n)
    OBVIOUS
  <2>2. c \in {e} \X R <=> \E p \in R : c = <<e, p>>
    OBVIOUS
  <2> QED
    BY <2>1, <2>2
<1> QED
  BY <1>1, <1>2

\* If no entry can reach a cycle then the bound of Routes leaves no path out.
LEMMA EntryPathIs ==
  ASSUME NEW edges \in Edges, NEW es \in SUBSET (Handle \X Node), AcyclicFrom(edges, HeadsOf(es)),
         NEW n
  PROVE  /\ \A c : c \in EntryRoutes(edges, es, n) <=>
                     \E e \in es : \E p : c = <<e, p>> /\ IsPath(edges, Start(e), p, n)
         /\ \A e \in es : AcyclicFrom(edges, Start(e)) /\ Start(e) \in SUBSET Node
<1>1. ASSUME NEW e \in es
      PROVE  /\ AcyclicFrom(edges, Start(e)) /\ Start(e) \in SUBSET Node
             /\ \A p : p \in Routes(edges, Start(e), n) <=> IsPath(edges, Start(e), p, n)
  <2>1. PICK S : S = Start(e)
    OBVIOUS
  <2>2. S \in SUBSET Node /\ S \subseteq HeadsOf(es) /\ HeadsOf(es) \in SUBSET Node
    BY <2>1 DEF HeadsOf, Start
  <2>3. AcyclicFrom(edges, S)
    BY <2>2, FewerCycles
  <2>4. \A p : p \in Routes(edges, S, n) => IsPath(edges, S, p, n)
    BY RouteIs
  <2>5. \A p : IsPath(edges, S, p, n) => p \in Routes(edges, S, n)
    BY <2>2, <2>3, PathsShort
  <2> QED
    BY <2>1, <2>2, <2>3, <2>4, <2>5
<1>2. \A c : c \in EntryRoutes(edges, es, n) <=>
             \E e \in es : \E p \in Routes(edges, Start(e), n) : c = <<e, p>>
  BY EntryRouteIs
<1> QED
  BY <1>1, <1>2

LEMMA EntryRoutesFinite ==
  ASSUME NEW edges, NEW es \in SUBSET (Handle \X Node), IsFiniteSet(es), NEW n
  PROVE  /\ IsFiniteSet(EntryRoutes(edges, es, n))
         /\ Cardinality(EntryRoutes(edges, es, n)) \in Nat
<1> DEFINE R == Routes(edges, Node, n)
<1>1. IsFiniteSet(R)
  BY RoutesFinite
<1>2. \A e \in es : Routes(edges, Start(e), n) \subseteq R
  <2> SUFFICES ASSUME NEW e \in es, NEW p \in Routes(edges, Start(e), n) PROVE p \in R
    OBVIOUS
  <2>1. IsPath(edges, Start(e), p, n) /\ Len(p) <= Cardinality(Derived) /\ Start(e) \subseteq Node
    BY RouteIs DEF Start
  <2>2. IsPath(edges, Node, p, n)
    BY <2>1 DEF IsPath
  <2> QED
    BY <2>1, <2>2, RouteIs
<1> HIDE DEF R
<1>3. EntryRoutes(edges, es, n) \in SUBSET (es \X R)
  BY <1>2, EntryRouteIs
<1>4. IsFiniteSet(es \X R)
  BY <1>1, FS_Product
<1>5. IsFiniteSet(EntryRoutes(edges, es, n))
  BY <1>3, <1>4, FS_Subset
<1> QED
  BY <1>5, FS_CardinalityType

\* more has the edges from x to T too.
Adds(edges, more, x, T) ==
  /\ edges \in Edges /\ more \in Edges
  /\ T \in SUBSET Node /\ T \cap edges[x] = {}
  /\ more[x] = edges[x] \cup T
  /\ \A d \in Derived : d # x => more[d] = edges[d]

\* Edges added at x add, for every path from an entry to x, the paths that go on
\* from these edges.
LEMMA AddedEdges ==
  ASSUME NEW edges, NEW more, NEW x \in Derived, NEW T, Adds(edges, more, x, T),
         NEW es \in SUBSET (Handle \X Node), IsFiniteSet(es), AcyclicFrom(more, HeadsOf(es)),
         NEW n \in Node
  PROVE  Cardinality(EntryRoutes(more, es, n)) =
           Cardinality(EntryRoutes(edges, es, n))
             + Cardinality(EntryRoutes(edges, es, x)) * Cardinality(Routes(edges, T, n))
<1> DEFINE A == EntryRoutes(edges, es, x)
           B == Routes(edges, T, n)
           O == EntryRoutes(edges, es, n)
           M == EntryRoutes(more, es, n)
           V == M \ O
           F == [c \in A \X B |-> <<c[1][1], Join(c[1][2], x, c[2])>>]
<1>1. /\ more \in Edges /\ more[x] = edges[x] \cup T
      /\ \A d \in Derived : edges[d] \subseteq more[d]
      /\ edges \in Edges /\ T \in SUBSET Node /\ T \cap edges[x] = {}
      /\ \A d \in Derived : d # x => more[d] = edges[d]
  BY DEF Adds
<1>2. AcyclicFrom(edges, HeadsOf(es))
  <2>1. HeadsOf(es) \in SUBSET Node
    BY DEF HeadsOf
  <2> QED
    BY <1>1, <2>1, FewerCycles
<1>3. \A e \in es : AcyclicFrom(more, Start(e)) /\ Start(e) \in SUBSET Node
  BY <1>1, EntryPathIs
<1>7. \A s \in B : IsPath(edges, T, s, n)
  BY RouteIs
<1>8. \A c : c \in A <=> \E e \in es : \E p : c = <<e, p>> /\ IsPath(edges, Start(e), p, x)
  BY <1>1, <1>2, EntryPathIs
<1>9. \A c : c \in O <=> \E e \in es : \E p : c = <<e, p>> /\ IsPath(edges, Start(e), p, n)
  BY <1>1, <1>2, EntryPathIs
<1>10. \A c : c \in M <=> \E e \in es : \E p : c = <<e, p>> /\ IsPath(more, Start(e), p, n)
  BY <1>1, EntryPathIs
<1>11. IsFiniteSet(A) /\ IsFiniteSet(B) /\ IsFiniteSet(M) /\ IsFiniteSet(O)
       /\ Cardinality(A) \in Nat /\ Cardinality(B) \in Nat /\ Cardinality(O) \in Nat
       /\ Cardinality(M) \in Nat
  BY EntryRoutesFinite, RoutesFinite
<1> HIDE DEF A, B, O, M
<1>12. O \subseteq M
  <2> SUFFICES ASSUME NEW c \in O PROVE c \in M
    OBVIOUS
  <2>3. PICK e \in es : \E p : c = <<e, p>> /\ IsPath(edges, Start(e), p, n)
    BY <1>9
  <2>1. PICK p : c = <<e, p>> /\ IsPath(edges, Start(e), p, n)
    BY <2>3
  <2>2. IsPath(more, Start(e), p, n)
    BY <1>1, <2>1, MorePaths
  <2> QED
    BY <1>10, <2>1, <2>2
<1>13. ASSUME NEW a \in A, NEW s \in B
       PROVE  /\ a[1] \in es /\ IsPath(edges, Start(a[1]), a[2], x) /\ a = <<a[1], a[2]>>
              /\ IsPath(edges, T, s, n)
              /\ IsPath(more, Start(a[1]), Join(a[2], x, s), n)
              /\ <<a[1], Join(a[2], x, s)>> \in V
  <2>8. PICK e \in es : \E q : a = <<e, q>> /\ IsPath(edges, Start(e), q, x)
    BY <1>8
  <2>1. PICK q : a = <<e, q>> /\ IsPath(edges, Start(e), q, x)
    BY <2>8
  <2>2. IsPath(edges, T, s, n)
    BY <1>7
  <2>3. IsPath(more, Start(e), Join(q, x, s), n)
    BY <1>1, <2>1, <2>2, JoinPath
  <2>4. ~IsPath(edges, Start(e), Join(q, x, s), n)
    BY <1>1, <2>1, <2>2, JoinIsNew
  <2>5. <<e, Join(q, x, s)>> \in M
    BY <1>10, <2>3
  <2>6. <<e, Join(q, x, s)>> \notin O
    BY <1>9, <2>4
  <2>7. a[1] = e /\ a[2] = q
    BY <2>1
  <2> QED
    BY <2>1, <2>2, <2>3, <2>5, <2>6, <2>7
<1>14. F \in [A \X B -> V]
  <2>1. \A c \in A \X B : <<c[1][1], Join(c[1][2], x, c[2])>> \in V
    BY <1>13
  <2> QED
    BY <2>1
<1>15. ASSUME NEW c \in A \X B, NEW c2 \in A \X B, F[c] = F[c2] PROVE c = c2
  <2>1. PICK a \in A, s \in B : c = <<a, s>>
    OBVIOUS
  <2>2. PICK a2 \in A, s2 \in B : c2 = <<a2, s2>>
    OBVIOUS
  <2>3. F[c] = <<a[1], Join(a[2], x, s)>> /\ F[c2] = <<a2[1], Join(a2[2], x, s2)>>
    BY <2>1, <2>2
  <2>4. a[1] = a2[1] /\ Join(a[2], x, s) = Join(a2[2], x, s2)
    BY <1>15, <2>3
  <2>5. PICK e \in es : e = a[1]
    BY <1>13
  <2>6. PICK r : r = Join(a[2], x, s)
    OBVIOUS
  <2>7. IsPath(more, Start(e), r, n) /\ a[2] \in Seq(Derived) /\ s \in Seq(Derived)
    BY <1>13, <2>5, <2>6 DEF IsPath
  <2>8. a2[2] \in Seq(Derived) /\ s2 \in Seq(Derived) /\ r = Join(a2[2], x, s2)
    BY <1>13, <2>4, <2>6 DEF IsPath
  <2>9. a[2] = a2[2] /\ s = s2
    <3>1. PICK S : S = Start(e)
      OBVIOUS
    <3>2. S \in SUBSET Node /\ AcyclicFrom(more, S) /\ IsPath(more, S, r, n)
      BY <1>3, <2>7, <3>1
    <3>3. PICK q : q = a[2]
      OBVIOUS
    <3>4. PICK q2 : q2 = a2[2]
      OBVIOUS
    <3>5. q \in Seq(Derived) /\ q2 \in Seq(Derived) /\ r = Join(q, x, s) /\ r = Join(q2, x, s2)
      BY <2>6, <2>7, <2>8, <3>3, <3>4
    <3>6. s \in Seq(Derived) /\ s2 \in Seq(Derived)
      BY <2>7, <2>8
    <3>7. Join(q, x, s) = Join(q2, x, s2) /\ IsPath(more, S, Join(q, x, s), n)
      BY <3>2, <3>5
    <3>8. q \in Seq(Derived) /\ q2 \in Seq(Derived)
      BY <3>5
    <3>9. q = q2 /\ s = s2
      BY <1>1, <3>2, <3>6, <3>7, <3>8, JoinApart
    <3> QED
      BY <3>3, <3>4, <3>9
  <2>10. a = <<a[1], a[2]>> /\ a2 = <<a2[1], a2[2]>>
    BY <1>13
  <2> QED
    BY <2>1, <2>2, <2>4, <2>9, <2>10
<1>16. ASSUME NEW v \in V PROVE \E c \in A \X B : F[c] = v
  <2>10. PICK e \in es : \E p : v = <<e, p>> /\ IsPath(more, Start(e), p, n)
    BY <1>10 DEF V
  <2>1. PICK p : v = <<e, p>> /\ IsPath(more, Start(e), p, n)
    BY <2>10
  <2>2. ~IsPath(edges, Start(e), p, n)
    BY <1>9, <2>1
  <2>3. \E q, s : IsPath(edges, Start(e), q, x) /\ IsPath(edges, T, s, n) /\ p = Join(q, x, s)
    <3>1. PICK S : S = Start(e)
      OBVIOUS
    <3>2. S \in SUBSET Node /\ AcyclicFrom(more, S) /\ IsPath(more, S, p, n) /\ ~IsPath(edges, S, p, n)
      BY <1>3, <2>1, <2>2, <3>1
    <3>3. \E q, s : IsPath(edges, S, q, x) /\ IsPath(edges, T, s, n) /\ p = Join(q, x, s)
      BY <1>1, <3>2, SplitPath
    <3> QED
      BY <3>1, <3>3
  <2>4. PICK q, s : IsPath(edges, Start(e), q, x) /\ IsPath(edges, T, s, n) /\ p = Join(q, x, s)
    BY <2>3
  <2>5. s \in B
    <3>1. PICK S : S = Start(e)
      OBVIOUS
    <3>2. Len(p) <= Cardinality(Derived)
      <4>1. IsPath(more, S, p, n) /\ S \in SUBSET Node /\ AcyclicFrom(more, S)
        BY <1>3, <2>1, <3>1
      <4>2. p \in Routes(more, S, n)
        BY <1>1, <4>1, PathsShort
      <4> QED
        BY <4>2, RouteIs
    <3>3. q \in Seq(Derived) /\ s \in Seq(Derived)
      BY <2>4 DEF IsPath
    <3>4. Joined(q, x, s, n, Len(q), Len(s), p)
      BY <2>4, <3>3, JoinIs
    <3>5. Len(p) = Len(q) + 1 + Len(s) /\ Len(q) \in Nat /\ Len(s) \in Nat
      BY <3>4 DEF Joined
    <3>6. Len(s) <= Cardinality(Derived)
      BY <3>2, <3>5, DerivedFinite
    <3> QED
      BY <2>4, <3>6, RouteIs DEF B
  <2>6. <<e, q>> \in A
    BY <1>8, <2>4
  <2>7. PICK c : c = <<<<e, q>>, s>>
    OBVIOUS
  <2>8. c \in A \X B /\ c[1][1] = e /\ c[1][2] = q /\ c[2] = s
    BY <2>5, <2>6, <2>7
  <2>9. F[c] = v
    BY <2>1, <2>4, <2>8
  <2> QED
    BY <2>8, <2>9
<1> HIDE DEF F, V
<1>17. F \in Bijection(A \X B, V)
  BY <1>14, <1>15, <1>16, Fun_IsBij
<1>18. IsFiniteSet(A \X B) /\ Cardinality(A \X B) = Cardinality(A) * Cardinality(B)
  BY <1>11, FS_Product
<1>19. Cardinality(V) = Cardinality(A) * Cardinality(B)
  BY <1>17, <1>18, FS_Bijection DEF ExistsBijection
<1>20. Cardinality(V) = Cardinality(M) - Cardinality(M \cap O)
  BY <1>11, FS_Difference DEF V
<1>21. M \cap O = O
  BY <1>12
<1>22. PICK y : y = Cardinality(A) * Cardinality(B)
  OBVIOUS
<1>23. y = Cardinality(M) - Cardinality(O)
  BY <1>19, <1>20, <1>21, <1>22
<1>24. Cardinality(M) = Cardinality(O) + y
  BY <1>11, <1>23
<1> QED
  BY <1>22, <1>24 DEF A, B, O, M

-----------------------------------------------------------------------------
(* What setDeps does to the paths.                                         *)

\* other differs from edges at x only.
Rewires(edges, other, x) ==
  edges \in Edges /\ other \in Edges /\ \A d \in Derived : d # x => other[d] = edges[d]

LEMMA StaysAcyclic ==
  ASSUME NEW edges, NEW other, NEW x \in Derived, Rewires(edges, other, x),
         NEW S \in SUBSET Node, AcyclicFrom(edges, S), x \in Reach(edges, S),
         AcyclicFrom(edges, other[x] \ edges[x]), x \notin Reach(edges, other[x] \ edges[x])
  PROVE  AcyclicFrom(other, S)
<1> DEFINE gained == other[x] \ edges[x]
<1>1. /\ edges \in Edges /\ other \in Edges /\ \A d \in Derived : d # x => other[d] = edges[d]
      /\ edges[x] \in SUBSET Node /\ other[x] \in SUBSET Node /\ gained \in SUBSET Node
      /\ other[x] \subseteq edges[x] \cup gained
  BY DEF Rewires, Edges
<1>2. AcyclicFrom(edges, gained) /\ x \notin Reach(edges, gained)
  OBVIOUS
<1> HIDE DEF gained
<1> DEFINE A == Reach(edges, S)
           G == Reach(edges, gained)
<1>3. A \in SUBSET Node /\ S \subseteq A /\ Closed(edges, A) /\ x \in A
  BY <1>1, ReachIs
<1>4. G \in SUBSET Node /\ gained \subseteq G /\ Closed(edges, G) /\ x \notin G
  BY <1>1, <1>2, ReachIs
<1>5. \A d \in Derived \cap (A \cup G) : Avoids(edges, d)
  BY <1>2 DEF AcyclicFrom
<1> HIDE DEF A, G
<1>6. Closed(other, A \cup G)
  BY <1>1, <1>3, <1>4 DEF Closed
<1>7. Reach(other, S) \subseteq A \cup G
  BY <1>1, <1>3, <1>4, <1>6, ReachIs
<1> DEFINE U == Upstream(edges, x)
<1>8. /\ U \in SUBSET Node /\ edges[x] \subseteq U /\ Closed(edges, U) /\ x \notin U
      /\ \A T \in SUBSET Node : edges[x] \subseteq T /\ Closed(edges, T) => U \subseteq T
  BY <1>1, <1>3, <1>5, UpstreamIsClosed, NoWayBack
<1> HIDE DEF U
<1>9. other[x] \subseteq U \cup G /\ x \notin U \cup G /\ U \cup G \in SUBSET Node
  BY <1>1, <1>4, <1>8
<1>10. Closed(other, U \cup G)
  BY <1>1, <1>4, <1>8, <1>9 DEF Closed
<1>11. Avoids(other, x)
  BY <1>9, <1>10 DEF Avoids
<1>12. ASSUME NEW d \in Derived \cap (A \cup G), d # x PROVE Avoids(other, d)
  <2> DEFINE V == Upstream(edges, d)
  <2>1. /\ V \in SUBSET Node /\ edges[d] \subseteq V /\ Closed(edges, V) /\ d \notin V
        /\ \A T \in SUBSET Node : edges[d] \subseteq T /\ Closed(edges, T) => V \subseteq T
    BY <1>1, <1>5, UpstreamIsClosed, NoWayBack
  <2> HIDE DEF V
  <2>2. other[d] \subseteq V
    BY <1>1, <1>12, <2>1
  <2>3. CASE x \notin V
    <3>1. Closed(other, V)
      BY <1>1, <2>1, <2>3 DEF Closed
    <3> QED
      BY <2>1, <2>2, <3>1 DEF Avoids
  <2>4. CASE x \in V
    <3>1. Closed(other, V \cup (U \cup G))
      BY <1>1, <1>9, <1>10, <2>1 DEF Closed
    <3>2. U \subseteq V
      <4>1. edges[x] \subseteq V
        BY <2>1, <2>4 DEF Closed
      <4> QED
        BY <1>8, <2>1, <4>1
    <3>3. d \notin G
      <4>1. d \in G => edges[d] \subseteq G
        BY <1>4 DEF Closed
      <4> QED
        BY <1>4, <2>1, <2>4, <4>1
    <3>4. d \notin V \cup (U \cup G) /\ other[d] \subseteq V \cup (U \cup G)
          /\ V \cup (U \cup G) \in SUBSET Node
      BY <1>9, <2>1, <2>2, <3>2, <3>3
    <3> QED
      BY <3>1, <3>4 DEF Avoids
  <2> QED
    BY <2>3, <2>4
<1> QED
  BY <1>7, <1>11, <1>12 DEF AcyclicFrom

\* What no entry depends on can be rewired without any effect.
LEMMA UnwatchedRewired ==
  ASSUME NEW edges, NEW other, NEW x \in Derived, Rewires(edges, other, x),
         NEW S \in SUBSET Node, AcyclicFrom(edges, S), x \notin Reach(edges, S)
  PROVE  AcyclicFrom(other, S)
<1>1. edges \in Edges /\ other \in Edges /\ \A d \in Derived : d # x => other[d] = edges[d]
  BY DEF Rewires
<1> DEFINE A == Reach(edges, S)
<1>2. Reach(other, S) = A
  BY <1>1, SameReach
<1>3. A \in SUBSET Node /\ Closed(edges, A) /\ x \notin A
  BY <1>1, ReachIs
<1>4. \A d \in Derived \cap A : Avoids(edges, d)
  BY DEF AcyclicFrom
<1> HIDE DEF A
<1>5. ASSUME NEW d \in Derived \cap A PROVE Avoids(other, d)
  <2>1. PICK U \in SUBSET Node : edges[d] \subseteq U /\ Closed(edges, U) /\ d \notin U
    BY <1>4 DEF Avoids
  <2>2. other[d] \subseteq U \cap A /\ d \notin U \cap A /\ U \cap A \in SUBSET Node
    BY <1>1, <1>3, <2>1 DEF Closed
  <2>3. Closed(other, U \cap A)
    BY <1>1, <1>3, <2>1 DEF Closed
  <2> QED
    BY <2>2, <2>3 DEF Avoids
<1> QED
  BY <1>2, <1>5 DEF AcyclicFrom

LEMMA NoRouteOutside ==
  ASSUME NEW edges \in Edges, NEW S \in SUBSET Node, NEW n, n \notin Reach(edges, S)
  PROVE  Routes(edges, S, n) = {} /\ Cardinality(Routes(edges, S, n)) = 0
<1>1. \A p : ~IsPath(edges, S, p, n)
  <2> SUFFICES ASSUME NEW p, IsPath(edges, S, p, n) PROVE FALSE
    OBVIOUS
  <2>1. p \in Seq(Derived) /\ Len(p) + 1 \in 1..Len(p) + 1
    BY DEF IsPath
  <2>2. Stop(p, n, Len(p) + 1) = n
    BY <2>1, StopIs
  <2>3. Stop(p, n, Len(p) + 1) \in Reach(edges, S)
    BY <2>1, OnPath
  <2> QED
    BY <2>2, <2>3
<1>2. \A p : p \notin Routes(edges, S, n)
  BY <1>1, RouteIs
<1>3. Routes(edges, S, n) = {}
  BY <1>2
<1> QED
  BY <1>3, FS_EmptySet

LEMMA RouteInside ==
  ASSUME NEW edges \in Edges, NEW S \in SUBSET Node, AcyclicFrom(edges, S), NEW n \in Reach(edges, S)
  PROVE  Cardinality(Routes(edges, S, n)) >= 1
<1>1. PICK p : IsPath(edges, S, p, n)
  BY PathTo
<1>2. p \in Routes(edges, S, n)
  BY <1>1, PathsShort
<1>3. IsFiniteSet(Routes(edges, S, n)) /\ Cardinality(Routes(edges, S, n)) \in Nat
  BY RoutesFinite
<1>4. Cardinality(Routes(edges, S, n)) # 0
  BY <1>2, <1>3, FS_EmptySet
<1> QED
  BY <1>3, <1>4

\* A node has a count iff an entry depends on it.
LEMMA CountedIsReached ==
  ASSUME NEW edges \in Edges, NEW es \in SUBSET (Handle \X Node), IsFiniteSet(es),
         AcyclicFrom(edges, HeadsOf(es)), NEW n
  PROVE  n \in Reach(edges, HeadsOf(es)) <=> Cardinality(EntryRoutes(edges, es, n)) # 0
<1>1. IsFiniteSet(EntryRoutes(edges, es, n))
  BY EntryRoutesFinite
<1>2. Cardinality(EntryRoutes(edges, es, n)) # 0 <=> EntryRoutes(edges, es, n) # {}
  BY <1>1, FS_EmptySet
<1>3. \A c : c \in EntryRoutes(edges, es, n) <=>
                     \E e \in es : \E p : c = <<e, p>> /\ IsPath(edges, Start(e), p, n)
  BY EntryPathIs
<1>4. /\ HeadsOf(es) \in SUBSET Node
      /\ \A e \in es : Start(e) \in SUBSET Node /\ Start(e) \subseteq HeadsOf(es)
  BY DEF HeadsOf, Start
<1>5. ASSUME n \in Reach(edges, HeadsOf(es)) PROVE EntryRoutes(edges, es, n) # {}
  <2>1. PICK p : IsPath(edges, HeadsOf(es), p, n)
    BY <1>4, <1>5, PathTo
  <2>2. PICK e \in es : Stop(p, n, 1) = e[2]
    BY <2>1 DEF IsPath, HeadsOf
  <2>3. IsPath(edges, Start(e), p, n)
    BY <2>1, <2>2 DEF IsPath, Start
  <2> QED
    BY <1>3, <2>3
<1>6. ASSUME EntryRoutes(edges, es, n) # {} PROVE n \in Reach(edges, HeadsOf(es))
  <2>1. PICK e \in es : \E p : IsPath(edges, Start(e), p, n)
    BY <1>3, <1>6
  <2>2. PICK p : IsPath(edges, Start(e), p, n)
    BY <2>1
  <2>3. IsPath(edges, HeadsOf(es), p, n)
    BY <1>4, <2>2 DEF IsPath
  <2>4. p \in Seq(Derived) /\ Len(p) + 1 \in 1..Len(p) + 1
    BY <2>3 DEF IsPath
  <2>5. Stop(p, n, Len(p) + 1) = n
    BY <2>4, StopIs
  <2>6. Stop(p, n, Len(p) + 1) \in Reach(edges, HeadsOf(es))
    BY <1>4, <2>3, <2>4, OnPath
  <2> QED
    BY <2>5, <2>6
<1> QED
  BY <1>2, <1>5, <1>6

LEMMA UnwatchedCounts ==
  ASSUME NEW edges, NEW other, NEW x \in Derived, Rewires(edges, other, x),
         NEW es \in SUBSET (Handle \X Node), x \notin Reach(edges, HeadsOf(es)), NEW n
  PROVE  EntryRoutes(other, es, n) = EntryRoutes(edges, es, n)
<1>1. edges \in Edges /\ other \in Edges /\ \A d \in Derived : d # x => other[d] = edges[d]
  BY DEF Rewires
<1>2. /\ HeadsOf(es) \in SUBSET Node
      /\ \A e \in es : Start(e) \in SUBSET Node /\ Start(e) \subseteq HeadsOf(es)
  BY DEF HeadsOf, Start
<1>3. ASSUME NEW e \in es PROVE Routes(other, Start(e), n) = Routes(edges, Start(e), n)
  <2>1. Reach(edges, Start(e)) \subseteq Reach(edges, HeadsOf(es))
    BY <1>1, <1>2, FewerReach
  <2>2. x \notin Reach(edges, Start(e)) /\ Start(e) \in SUBSET Node
    BY <1>2, <2>1
  <2> QED
    BY <1>1, <2>2, SameRoutes
<1>4. \A c : c \in EntryRoutes(other, es, n) <=>
               \E e \in es : \E p \in Routes(other, Start(e), n) : c = <<e, p>>
  BY EntryRouteIs
<1>5. \A c : c \in EntryRoutes(edges, es, n) <=>
               \E e \in es : \E p \in Routes(edges, Start(e), n) : c = <<e, p>>
  BY EntryRouteIs
<1>6. \A c : c \in EntryRoutes(other, es, n) <=> c \in EntryRoutes(edges, es, n)
  BY <1>3, <1>4, <1>5
<1> QED
  BY <1>6

\* What x drops is not reached from what it drops.
LEMMA DroppedIsAhead ==
  ASSUME NEW edges \in Edges, NEW x \in Derived, NEW S \in SUBSET Node, AcyclicFrom(edges, S),
         x \in Reach(edges, S), NEW T \in SUBSET edges[x]
  PROVE  x \notin Reach(edges, T) /\ AcyclicFrom(edges, T)
<1>1. PICK U \in SUBSET Node : edges[x] \subseteq U /\ Closed(edges, U) /\ x \notin U
  BY DEF AcyclicFrom, Avoids
<1>2. T \in SUBSET Node
  BY DEF Edges
<1>3. Reach(edges, T) \subseteq U
  BY <1>1, <1>2, ReachIs
<1>4. T \subseteq Reach(edges, S) /\ Reach(edges, S) \in SUBSET Node /\ Closed(edges, Reach(edges, S))
  BY ReachIs DEF Closed
<1>5. Reach(edges, T) \subseteq Reach(edges, S)
  BY <1>2, <1>4, ReachIs
<1> QED
  BY <1>1, <1>3, <1>5 DEF AcyclicFrom

LEMMA Distribute == \A a, b, c, d, y \in Int : a = b + y * c => a + y * (d - c) = b + y * d
<1> SUFFICES ASSUME NEW a \in Int, NEW b \in Int, NEW c \in Int, NEW d \in Int, NEW y \in Int,
                    a = b + y * c
             PROVE  a + y * (d - c) = b + y * d
  OBVIOUS
<1>1. y * (d - c) = y * d - y * c
  OBVIOUS
<1> QED
  BY <1>1

\* Of the paths to n some go through an edge that x drops, and as many as there are
\* are replaced by those through an edge it gains.
LEMMA RewiredCounts ==
  ASSUME NEW edges, NEW other, NEW x \in Derived, Rewires(edges, other, x),
         NEW es \in SUBSET (Handle \X Node), IsFiniteSet(es),
         AcyclicFrom(edges, HeadsOf(es)), x \in Reach(edges, HeadsOf(es)), NEW n \in Node
  PROVE  \E k \in Nat :
           /\ Cardinality(EntryRoutes(edges, es, n)) =
                k + Cardinality(EntryRoutes(edges, es, x))
                      * Cardinality(Routes(edges, edges[x] \ other[x], n))
           /\ AcyclicFrom(other, HeadsOf(es)) /\ x \notin Reach(edges, other[x] \ edges[x]) =>
                Cardinality(EntryRoutes(other, es, n)) =
                  k + Cardinality(EntryRoutes(edges, es, x))
                        * Cardinality(Routes(edges, other[x] \ edges[x], n))
<1>1. PICK gained : gained = other[x] \ edges[x]
  OBVIOUS
<1>2. PICK dropped : dropped = edges[x] \ other[x]
  OBVIOUS
<1>3. PICK keep : keep = [edges EXCEPT ![x] = edges[x] \cap other[x]]
  OBVIOUS
<1>4. /\ edges \in Edges /\ other \in Edges /\ \A d \in Derived : d # x => other[d] = edges[d]
  BY DEF Rewires
<1>5. /\ gained \in SUBSET Node /\ dropped \in SUBSET Node /\ dropped \in SUBSET edges[x]
  BY <1>1, <1>2, <1>4 DEF Edges
<1>6. /\ keep \in Edges /\ keep[x] = edges[x] \cap other[x]
      /\ \A d \in Derived : d # x => keep[d] = edges[d]
  BY <1>3, <1>4 DEF Edges
<1>7. HeadsOf(es) \in SUBSET Node
  BY DEF HeadsOf
<1>8. x \notin Reach(edges, dropped)
  BY <1>4, <1>5, <1>7, DroppedIsAhead
<1>9. \A m : Routes(keep, dropped, m) = Routes(edges, dropped, m)
  BY <1>4, <1>5, <1>6, <1>8, SameRoutes
<1>10. \A m \in Node : Cardinality(EntryRoutes(edges, es, m)) =
         Cardinality(EntryRoutes(keep, es, m))
           + Cardinality(EntryRoutes(keep, es, x)) * Cardinality(Routes(keep, dropped, m))
  <2>1. dropped \cap keep[x] = {} /\ edges[x] = keep[x] \cup dropped
    BY <1>2, <1>6
  <2>2. Adds(keep, edges, x, dropped)
    BY <1>4, <1>5, <1>6, <2>1 DEF Adds
  <2> QED
    BY <2>2, AddedEdges
<1>11. \A m : Cardinality(EntryRoutes(keep, es, m)) \in Nat
  BY EntryRoutesFinite
<1>12. Cardinality(EntryRoutes(edges, es, x)) = Cardinality(EntryRoutes(keep, es, x))
  <2>1. Cardinality(Routes(edges, dropped, x)) = 0
    BY <1>4, <1>5, <1>8, NoRouteOutside
  <2>2. PICK y \in Nat : y = Cardinality(EntryRoutes(keep, es, x))
    BY <1>11
  <2>3. Cardinality(EntryRoutes(edges, es, x)) = y + y * 0
    BY <1>9, <1>10, <2>1, <2>2, NodeKinds
  <2> QED
    BY <2>2, <2>3
<1>13. ASSUME AcyclicFrom(other, HeadsOf(es)), x \notin Reach(edges, gained)
       PROVE  Cardinality(EntryRoutes(other, es, n)) =
                Cardinality(EntryRoutes(keep, es, n))
                  + Cardinality(EntryRoutes(keep, es, x)) * Cardinality(Routes(edges, gained, n))
  <2>1. gained \cap keep[x] = {} /\ other[x] = keep[x] \cup gained
    BY <1>1, <1>6
  <2>2. Adds(keep, other, x, gained)
    BY <1>4, <1>5, <1>6, <2>1 DEF Adds
  <2>3. Routes(keep, gained, n) = Routes(edges, gained, n)
    BY <1>4, <1>5, <1>6, <1>13, SameRoutes
  <2>4. Cardinality(EntryRoutes(other, es, n)) =
          Cardinality(EntryRoutes(keep, es, n))
            + Cardinality(EntryRoutes(keep, es, x)) * Cardinality(Routes(keep, gained, n))
    BY <1>13, <2>2, AddedEdges
  <2> QED
    BY <2>3, <2>4
<1>14. PICK k \in Nat : k = Cardinality(EntryRoutes(keep, es, n))
  BY <1>11
<1>15. PICK y : y = Cardinality(EntryRoutes(edges, es, x))
  OBVIOUS
<1>16. Cardinality(EntryRoutes(edges, es, n)) = k + y * Cardinality(Routes(edges, dropped, n))
  BY <1>9, <1>10, <1>12, <1>14, <1>15
<1>17. AcyclicFrom(other, HeadsOf(es)) /\ x \notin Reach(edges, gained) =>
         Cardinality(EntryRoutes(other, es, n)) = k + y * Cardinality(Routes(edges, gained, n))
  BY <1>12, <1>13, <1>14, <1>15
<1> QED
  BY <1>1, <1>2, <1>15, <1>16, <1>17

-----------------------------------------------------------------------------
(* A rollback may close a circle of nodes with counts: then their counts   *)
(* are wrong, and it hangs.                                                *)

Circle(edges, Z) == Z # {} /\ \A z \in Z : edges[z] \cap Z # {}

\* Where the edges have no cycle there is no circle.
LEMMA NoCircle ==
  ASSUME NEW edges \in Edges, NEW Z \in SUBSET Derived, Circle(edges, Z),
         NEW S \in SUBSET Node, AcyclicFrom(edges, S)
  PROVE  Z \cap Reach(edges, S) = {}
<1> SUFFICES ASSUME Z \cap Reach(edges, S) # {} PROVE FALSE
  OBVIOUS
<1> DEFINE T == Z \cap Reach(edges, S)
<1>1. T \in SUBSET Derived /\ T # {} /\ IsFiniteSet(T)
  BY DerivedFinite, NodeKinds
<1>2. \A d \in T : Avoids(edges, d)
  BY DEF AcyclicFrom
<1>3. \A d \in T : edges[d] \subseteq Reach(edges, S)
  BY ReachIs DEF Closed
<1>4. \A d \in T : edges[d] \cap T # {}
  BY <1>3 DEF Circle
<1> HIDE DEF T
<1>5. \E d \in T : edges[d] \cap T = {}
  BY <1>1, <1>2, SomeReadNone
<1> QED
  BY <1>4, <1>5

\* The nodes on the paths from S to x.
Between(edges, S, x) == {z \in Derived \cap Reach(edges, S) : x \in Reach(edges, {z})}

LEMMA BetweenIs ==
  ASSUME NEW edges \in Edges, NEW S \in SUBSET Node, NEW x \in Derived, x \in Reach(edges, S)
  PROVE  /\ x \in Between(edges, S, x)
         /\ S \cap Between(edges, S, x) # {}
         /\ \A z \in Between(edges, S, x) : z # x => edges[z] \cap Between(edges, S, x) # {}
<1> DEFINE B == Between(edges, S, x)
           O == {w \in Node : x \notin Reach(edges, {w})}
<1>1. \A w \in Node : {w} \in SUBSET Node
  OBVIOUS
<1>2. \A w \in Node : /\ Reach(edges, {w}) \in SUBSET Node /\ w \in Reach(edges, {w})
                      /\ Closed(edges, Reach(edges, {w}))
                      /\ \A T \in SUBSET Node :
                           {w} \subseteq T /\ Closed(edges, T) => Reach(edges, {w}) \subseteq T
  BY <1>1, ReachIs
<1>3. x \in B
  BY <1>2, NodeKinds DEF Between
<1>4. Closed(edges, O)
  <2> SUFFICES ASSUME NEW w \in O \cap Derived, NEW y \in edges[w] PROVE y \in O
    BY DEF Closed
  <2>1. w \in Node /\ y \in Node /\ x \notin Reach(edges, {w})
    BY DEF Edges
  <2>2. y \in Reach(edges, {w})
    BY <1>2, <2>1 DEF Closed
  <2>3. Reach(edges, {y}) \subseteq Reach(edges, {w})
    BY <1>2, <2>1, <2>2
  <2> QED
    BY <2>1, <2>3
<1>5. \A w \in Node : x \in Reach(edges, {w}) => w \in Derived
  <2> SUFFICES ASSUME NEW w \in Node, w \notin Derived, x \in Reach(edges, {w}) PROVE FALSE
    OBVIOUS
  <2>1. Closed(edges, {w})
    BY DEF Closed
  <2>2. Reach(edges, {w}) \subseteq {w}
    BY <1>1, <1>2, <2>1
  <2> QED
    BY <2>2
<1>6. Reach(edges, S) \in SUBSET Node /\ S \subseteq Reach(edges, S) /\ Closed(edges, Reach(edges, S))
  BY ReachIs
<1>7. \A w \in Reach(edges, S) : w \notin B => w \in O
  BY <1>5, <1>6 DEF Between
<1>8. O \in SUBSET Node /\ x \notin O
  BY <1>2, NodeKinds
<1> HIDE DEF B, O
<1>9. S \cap B # {}
  <2>1. S \cap B = {} => S \subseteq O
    BY <1>6, <1>7
  <2>2. S \subseteq O => x \in O
    BY <1>4, <1>8, ReachIs
  <2> QED
    BY <1>8, <2>1, <2>2
<1>10. ASSUME NEW z \in B, z # x PROVE edges[z] \cap B # {}
  <2>1. z \in Derived /\ z \in Node /\ z \in Reach(edges, S) /\ x \in Reach(edges, {z})
    BY NodeKinds DEF B, Between
  <2>2. edges[z] \subseteq Reach(edges, S)
    BY <1>6, <2>1 DEF Closed
  <2>3. edges[z] \cap B = {} => edges[z] \subseteq O
    BY <1>7, <2>2
  <2>4. edges[z] \subseteq O => Closed(edges, O \cup {z}) /\ O \cup {z} \in SUBSET Node
    BY <1>4, <1>8, <2>1 DEF Closed
  <2>5. Closed(edges, O \cup {z}) /\ O \cup {z} \in SUBSET Node => x \in O \cup {z}
    BY <1>2, <2>1
  <2> QED
    BY <1>8, <1>10, <2>3, <2>4, <2>5
<1> QED
  BY <1>3, <1>9, <1>10 DEF B

\* The counts and flags are those of the paths from the entries es.
Counted(edges, es, r, w) ==
  /\ AcyclicFrom(edges, HeadsOf(es))
  /\ \A n \in Node : r[n] = Cardinality(EntryRoutes(edges, es, n))
  /\ \A i \in Input : w[i] <=> r[i] > 0

\* A circle in which every node has a count: a walk from it would not end.
Lost(edges, r) == \E Z \in SUBSET Derived : Circle(edges, Z) /\ \A z \in Z : r[z] # 0

\* r2 is r as setDeps leaves it.
Moved(edges, other, x, r, r2) ==
  \A n \in Node : r2[n] = r[n] + r[x] * (Cardinality(Routes(edges, other[x] \ edges[x], n))
                                           - Cardinality(Routes(edges, edges[x] \ other[x], n)))

\* The flags of the inputs follow the counts as long as no count is negative.
Flagged(r, w, r2, w2) ==
  \A i \in Input : w2[i] = IF r2[i] = r[i] THEN w[i]
                           ELSE IF r2[i] = 0 THEN FALSE ELSE w[i] \/ r2[i] > 0

LEMMA FlagsFollow ==
  ASSUME NEW r, NEW w, NEW r2, NEW w2, Flagged(r, w, r2, w2),
         \A i \in Input : w[i] <=> r[i] > 0, \A i \in Input : r2[i] \in Nat
  PROVE  \A i \in Input : w2[i] <=> r2[i] > 0
<1> SUFFICES ASSUME NEW i \in Input PROVE w2[i] <=> r2[i] > 0
  OBVIOUS
<1>1. w2[i] = IF r2[i] = r[i] THEN w[i] ELSE IF r2[i] = 0 THEN FALSE ELSE w[i] \/ r2[i] > 0
  BY DEF Flagged
<1>2. CASE r2[i] = r[i]
  <2>1. w2[i] = w[i]
    BY <1>1, <1>2, Zenon
  <2>2. w[i] <=> r2[i] > 0
    BY <1>2, Zenon
  <2> QED
    BY <2>1, <2>2, Zenon
<1>3. CASE r2[i] # r[i] /\ r2[i] = 0
  <2>1. w2[i] = FALSE
    BY <1>1, <1>3, Zenon
  <2>2. ~(r2[i] > 0)
    BY <1>3
  <2> QED
    BY <2>1, <2>2, Zenon
<1>4. CASE r2[i] # r[i] /\ r2[i] # 0
  <2>1. w2[i] = (w[i] \/ r2[i] > 0)
    BY <1>1, <1>4, Zenon
  <2>2. r2[i] > 0
    BY <1>4
  <2> QED
    BY <2>1, <2>2, Zenon
<1> QED
  BY <1>2, <1>3, <1>4

\* setDeps on right counts: they stay right, or x now lies on a circle that counts.
LEMMA MovedRight ==
  ASSUME NEW edges, NEW other, NEW x \in Derived, Rewires(edges, other, x),
         NEW es \in SUBSET (Handle \X Node), IsFiniteSet(es),
         NEW r, NEW w, NEW r2, NEW w2, Counted(edges, es, r, w),
         r[x] # 0 => AcyclicFrom(edges, other[x] \ edges[x]),
         Moved(edges, other, x, r, r2), Flagged(r, w, r2, w2)
  PROVE  Counted(other, es, r2, w2) \/ Lost(other, r2)
<1>1. PICK gained : gained = other[x] \ edges[x]
  OBVIOUS
<1>2. PICK dropped : dropped = edges[x] \ other[x]
  OBVIOUS
<1>3. /\ edges \in Edges /\ other \in Edges /\ \A d \in Derived : d # x => other[d] = edges[d]
      /\ gained \in SUBSET Node /\ dropped \in SUBSET Node /\ gained \subseteq other[x]
      /\ HeadsOf(es) \in SUBSET Node /\ x \in Node
  BY <1>1, <1>2, NodeKinds DEF Rewires, Edges, HeadsOf
<1>4. \A n : /\ Cardinality(Routes(edges, gained, n)) \in Nat
             /\ Cardinality(Routes(edges, dropped, n)) \in Nat
  BY RoutesFinite
<1>5. \A n : /\ Cardinality(EntryRoutes(edges, es, n)) \in Nat
             /\ Cardinality(EntryRoutes(other, es, n)) \in Nat
  BY EntryRoutesFinite
<1>6. /\ AcyclicFrom(edges, HeadsOf(es))
      /\ \A n \in Node : r[n] = Cardinality(EntryRoutes(edges, es, n))
      /\ \A i \in Input : w[i] <=> r[i] > 0
  BY DEF Counted
<1>7. \A n \in Node : r2[n] = r[n] + r[x] * (Cardinality(Routes(edges, gained, n))
                                               - Cardinality(Routes(edges, dropped, n)))
  BY <1>1, <1>2 DEF Moved
<1>8. x \in Reach(edges, HeadsOf(es)) <=> r[x] # 0
  BY <1>3, <1>6, CountedIsReached
<1>9. ASSUME \A n \in Node : r2[n] = Cardinality(EntryRoutes(other, es, n)),
             AcyclicFrom(other, HeadsOf(es))
      PROVE  Counted(other, es, r2, w2)
  <2>1. \A i \in Input : r2[i] \in Nat
    BY <1>5, <1>9, NodeKinds
  <2>2. \A i \in Input : w2[i] <=> r2[i] > 0
    BY <1>6, <2>1, FlagsFollow
  <2> QED
    BY <1>9, <2>2 DEF Counted
<1>10. CASE r[x] = 0
  <2>1. x \notin Reach(edges, HeadsOf(es))
    BY <1>8, <1>10
  <2>2. AcyclicFrom(other, HeadsOf(es))
    BY <1>3, <1>6, <2>1, UnwatchedRewired
  <2>3. \A n : EntryRoutes(other, es, n) = EntryRoutes(edges, es, n)
    BY <2>1, UnwatchedCounts
  <2>4. \A n \in Node : r2[n] = r[n]
    <3> SUFFICES ASSUME NEW n \in Node PROVE r2[n] = r[n]
      OBVIOUS
    <3>1. r[n] \in Nat
      BY <1>5, <1>6
    <3>2. PICK c \in Int : c = Cardinality(Routes(edges, gained, n))
                                 - Cardinality(Routes(edges, dropped, n))
      BY <1>4
    <3>3. r2[n] = r[n] + 0 * c
      BY <1>7, <1>10, <3>2
    <3> QED
      BY <3>1, <3>2, <3>3
  <2> QED
    BY <1>6, <1>9, <2>2, <2>3, <2>4
<1>11. CASE r[x] # 0
  <2>1. x \in Reach(edges, HeadsOf(es)) /\ AcyclicFrom(edges, gained)
    BY <1>1, <1>8, <1>11
  <2>2. ASSUME NEW n \in Node
        PROVE  \E k \in Nat :
                 /\ r2[n] = k + r[x] * Cardinality(Routes(edges, gained, n))
                 /\ AcyclicFrom(other, HeadsOf(es)) /\ x \notin Reach(edges, gained) =>
                      Cardinality(EntryRoutes(other, es, n)) =
                        k + r[x] * Cardinality(Routes(edges, gained, n))
    <3>1. \E k \in Nat :
           /\ Cardinality(EntryRoutes(edges, es, n)) =
                k + Cardinality(EntryRoutes(edges, es, x)) * Cardinality(Routes(edges, dropped, n))
           /\ AcyclicFrom(other, HeadsOf(es)) /\ x \notin Reach(edges, gained) =>
                Cardinality(EntryRoutes(other, es, n)) =
                  k + Cardinality(EntryRoutes(edges, es, x)) * Cardinality(Routes(edges, gained, n))
      BY <1>1, <1>2, <1>6, <2>1, RewiredCounts
    <3>2. PICK k \in Nat :
           /\ r[n] = k + r[x] * Cardinality(Routes(edges, dropped, n))
           /\ AcyclicFrom(other, HeadsOf(es)) /\ x \notin Reach(edges, gained) =>
                Cardinality(EntryRoutes(other, es, n)) =
                  k + r[x] * Cardinality(Routes(edges, gained, n))
      BY <1>3, <1>6, <3>1
    <3>3. PICK g \in Int : g = Cardinality(Routes(edges, gained, n))
      BY <1>4
    <3>4. PICK c \in Int : c = Cardinality(Routes(edges, dropped, n))
      BY <1>4
    <3>5. PICK y \in Int : y = r[x]
      BY <1>3, <1>5, <1>6
    <3>6. PICK a \in Int : a = r[n]
      BY <1>5, <1>6
    <3>7. a = k + y * c /\ r2[n] = a + y * (g - c)
      BY <1>7, <3>2, <3>3, <3>4, <3>5, <3>6
    <3>8. k \in Int /\ a + y * (g - c) = k + y * g
      BY <3>7, Distribute
    <3>9. r2[n] = k + r[x] * Cardinality(Routes(edges, gained, n))
      BY <3>3, <3>5, <3>7, <3>8
    <3> QED
      BY <3>2, <3>9
  <2>3. CASE x \notin Reach(edges, gained)
    <3>1. AcyclicFrom(other, HeadsOf(es))
      BY <1>1, <1>3, <1>6, <2>1, <2>3, StaysAcyclic
    <3>2. \A n \in Node : r2[n] = Cardinality(EntryRoutes(other, es, n))
      BY <2>2, <2>3, <3>1
    <3> QED
      BY <1>9, <3>1, <3>2
  <2>4. CASE x \in Reach(edges, gained)
    <3>1. PICK Z : Z = Between(edges, gained, x)
      OBVIOUS
    <3>2. /\ x \in Z /\ gained \cap Z # {}
          /\ \A z \in Z : z # x => edges[z] \cap Z # {}
      BY <1>3, <2>4, <3>1, BetweenIs
    <3>3. Z \in SUBSET Derived /\ Z \subseteq Reach(edges, gained)
      BY <3>1 DEF Between
    <3>4. Circle(other, Z)
      BY <1>3, <3>2, <3>3 DEF Circle
    <3>5. ASSUME NEW z \in Z PROVE r2[z] # 0
      <4>1. z \in Node
        BY <3>3, NodeKinds
      <4>2. PICK k \in Nat : r2[z] = k + r[x] * Cardinality(Routes(edges, gained, z))
        BY <2>2, <4>1
      <4>3. Cardinality(Routes(edges, gained, z)) >= 1
        BY <1>3, <2>1, <3>3, RouteInside
      <4>4. PICK g \in Nat : g = Cardinality(Routes(edges, gained, z))
        BY <1>4
      <4>5. PICK y \in Nat : y = r[x]
        BY <1>3, <1>5, <1>6
      <4>6. y >= 1 /\ g >= 1 /\ r2[z] = k + y * g
        BY <1>11, <4>2, <4>3, <4>4, <4>5
      <4>7. y * g \in Nat /\ y * g >= 1
        BY <4>6
      <4> QED
        BY <4>6, <4>7
    <3> QED
      BY <3>3, <3>4, <3>5 DEF Lost
  <2> QED
    BY <2>3, <2>4
<1> QED
  BY <1>10, <1>11

\* A circle that counts stays one as long as no walk of setDeps leads into a cycle.
LEMMA MovedLost ==
  ASSUME NEW edges, NEW other, NEW x \in Derived, Rewires(edges, other, x),
         NEW r \in [Node -> Int], NEW r2, Lost(edges, r), Moved(edges, other, x, r, r2),
         r[x] # 0 => /\ AcyclicFrom(edges, other[x] \ edges[x])
                     /\ AcyclicFrom(edges, edges[x] \ other[x])
  PROVE  Lost(other, r2)
<1>1. PICK gained : gained = other[x] \ edges[x]
  OBVIOUS
<1>2. PICK dropped : dropped = edges[x] \ other[x]
  OBVIOUS
<1>3. /\ edges \in Edges /\ other \in Edges /\ \A d \in Derived : d # x => other[d] = edges[d]
      /\ gained \in SUBSET Node /\ dropped \in SUBSET Node /\ x \in Node
  BY <1>1, <1>2, NodeKinds DEF Rewires, Edges
<1>4. PICK Z \in SUBSET Derived : Circle(edges, Z) /\ \A z \in Z : r[z] # 0
  BY DEF Lost
<1>5. ASSUME NEW n \in Node
      PROVE  \E c \in Int : r2[n] = r[n] + r[x] * c
               /\ (Cardinality(Routes(edges, gained, n)) = 0
                   /\ Cardinality(Routes(edges, dropped, n)) = 0 => c = 0)
  <2>1. Cardinality(Routes(edges, gained, n)) \in Nat
    BY RoutesFinite
  <2>2. Cardinality(Routes(edges, dropped, n)) \in Nat
    BY RoutesFinite
  <2>3. r2[n] = r[n] + r[x] * (Cardinality(Routes(edges, gained, n))
                                 - Cardinality(Routes(edges, dropped, n)))
    BY <1>1, <1>2 DEF Moved
  <2> QED
    BY <2>1, <2>2, <2>3
<1>6. CASE r[x] = 0
  <2>1. x \notin Z
    BY <1>4, <1>6
  <2>2. Circle(other, Z)
    BY <1>3, <1>4, <2>1 DEF Circle
  <2>3. ASSUME NEW z \in Z PROVE r2[z] # 0
    <3>1. z \in Node /\ r[z] \in Int /\ r[z] # 0
      BY <1>4, NodeKinds
    <3>2. PICK c \in Int : r2[z] = r[z] + r[x] * c
      BY <1>5, <3>1
    <3>3. r2[z] = r[z] + 0 * c
      BY <1>6, <3>2
    <3> QED
      BY <3>1, <3>3
  <2> QED
    BY <2>2, <2>3 DEF Lost
<1>7. CASE r[x] # 0
  <2>1. AcyclicFrom(edges, gained) /\ AcyclicFrom(edges, dropped)
    BY <1>1, <1>2, <1>7
  <2>2. Z \cap Reach(edges, gained) = {}
    BY <1>3, <1>4, <2>1, NoCircle
  <2>3. Z \cap Reach(edges, dropped) = {}
    BY <1>3, <1>4, <2>1, NoCircle
  <2>4. ASSUME NEW z \in Z PROVE r2[z] # 0
    <3>1. z \in Node /\ r[z] \in Int /\ r[z] # 0 /\ r[x] \in Int
      BY <1>3, <1>4, NodeKinds
    <3>2. Cardinality(Routes(edges, gained, z)) = 0
      BY <1>3, <2>2, NoRouteOutside
    <3>3. Cardinality(Routes(edges, dropped, z)) = 0
      BY <1>3, <2>3, NoRouteOutside
    <3>4. r2[z] = r[z] + r[x] * 0
      BY <1>5, <3>1, <3>2, <3>3
    <3> QED
      BY <3>1, <3>4
  <2>5. dropped \subseteq Reach(edges, dropped)
    BY <1>3, ReachIs
  <2>6. edges[x] \cap Z \subseteq other[x]
    BY <1>2, <2>3, <2>5
  <2>7. Circle(other, Z)
    BY <1>3, <1>4, <2>6 DEF Circle
  <2> QED
    BY <2>4, <2>7 DEF Lost
<1> QED
  BY <1>6, <1>7

-----------------------------------------------------------------------------
(* The counts.                                                             *)

CountsOK ==
  /\ HeadsOf(Entries) \subseteq entries /\ IsFiniteSet(Entries)
  /\ refcount \in [Node -> Int] /\ watched \in [Input -> BOOLEAN]
  /\ Counted(deps, Entries, refcount, watched) \/ Lost(deps, refcount)

LEMMA EntriesTyped ==
  ASSUME GroupsOK
  PROVE  Entries \in SUBSET (Handle \X Node)
  BY DEF GroupsOK

\* Where no pass has failed there is no circle, and the counts are right.
LEMMA CountsRight ==
  ASSUME IInv, CycleInv, GroupsOK, CountsOK, phase # "failed"
  PROVE  Counted(deps, Entries, refcount, watched) /\ AcyclicFrom(deps, Node)
<1>1. deps \in Edges /\ Acyclic(deps)
  BY Facts DEF Types, Edges, CycleInv
<1>2. AcyclicFrom(deps, Node)
  BY <1>1 DEF Acyclic, AcyclicFrom
<1>3. Node \subseteq Reach(deps, Node)
  BY <1>1, ReachIs
<1>4. ~Lost(deps, refcount)
  <2> SUFFICES ASSUME NEW Z \in SUBSET Derived, Circle(deps, Z) PROVE FALSE
    BY DEF Lost
  <2>1. Z \cap Reach(deps, Node) = {}
    BY <1>1, <1>2, NoCircle
  <2> QED
    BY <1>3, <2>1, NodeKinds DEF Circle
<1> QED
  BY <1>2, <1>4 DEF CountsOK

LEMMA BumpIs ==
  ASSUME NEW D \in [Node -> Int],
         refcount \in [Node -> Int], watched \in [Input -> BOOLEAN],
         refcount' = [n \in Node |-> refcount[n] + D[n]],
         watched' = [i \in Input |-> IF D[i] = 0 THEN watched[i]
                                     ELSE IF refcount'[i] = 0 THEN FALSE
                                     ELSE watched[i] \/ refcount'[i] > 0]
  PROVE  /\ refcount' \in [Node -> Int] /\ watched' \in [Input -> BOOLEAN]
         /\ \A n \in Node : refcount'[n] = refcount[n] + D[n]
         /\ Flagged(refcount, watched, refcount', watched')
<1>1. refcount' \in [Node -> Int] /\ \A n \in Node : refcount'[n] = refcount[n] + D[n]
  OBVIOUS
<1>2. watched' \in [Input -> BOOLEAN]
  <2> DEFINE h(i) == IF D[i] = 0 THEN watched[i]
                     ELSE IF refcount'[i] = 0 THEN FALSE
                     ELSE watched[i] \/ refcount'[i] > 0
  <2>1. \A i \in Input : h(i) \in {TRUE, FALSE}
    <3>1. \A i \in Input : watched[i] \in {TRUE, FALSE}
      BY Zenon
    <3>2. \A i \in Input : (watched[i] \/ refcount'[i] > 0) \in {TRUE, FALSE}
      BY Zenon
    <3> QED
      BY <3>1, <3>2, Zenon
  <2> HIDE DEF h
  <2>2. [i \in Input |-> h(i)] \in [Input -> BOOLEAN]
    BY <2>1
  <2>3. watched' = [i \in Input |-> h(i)]
    BY Zenon DEF h
  <2> QED
    BY <2>2, <2>3
<1>3. ASSUME NEW i \in Input PROVE D[i] = 0 <=> refcount'[i] = refcount[i]
  <2>1. refcount'[i] = refcount[i] + D[i] /\ refcount[i] \in Int /\ D[i] \in Int
    BY <1>1, NodeKinds
  <2>2. PICK a \in Int, b \in Int : a = refcount[i] /\ b = D[i]
    BY <2>1
  <2>3. refcount'[i] = a + b
    BY <2>1, <2>2
  <2>4. b = 0 <=> refcount'[i] = a
    BY <2>3
  <2> QED
    BY <2>2, <2>4
<1>4. Flagged(refcount, watched, refcount', watched')
  BY <1>3, Zenon DEF Flagged
<1> QED
  BY <1>1, <1>2, <1>4

LEMMA RebindIs ==
  ASSUME NEW d \in Derived, NEW next, Rebind(d, next),
         refcount \in [Node -> Int], watched \in [Input -> BOOLEAN],
         deps'[d] = next
  PROVE  /\ refcount' \in [Node -> Int] /\ watched' \in [Input -> BOOLEAN]
         /\ Moved(deps, deps', d, refcount, refcount')
         /\ Flagged(refcount, watched, refcount', watched')
<1> DEFINE g(n) == Cardinality(Routes(deps, next \ deps[d], n))
           l(n) == Cardinality(Routes(deps, deps[d] \ next, n))
           D    == [n \in Node |-> refcount[d] * (g(n) - l(n))]
<1>1. /\ refcount' = [n \in Node |-> refcount[n] + refcount[d] * (g(n) - l(n))]
      /\ watched' = [i \in Input |-> IF refcount[d] * (g(i) - l(i)) = 0 THEN watched[i]
                                     ELSE IF refcount'[i] = 0 THEN FALSE
                                     ELSE watched[i] \/ refcount'[i] > 0]
  BY DEF Rebind, Bump, PathsFrom
<1>2. \A n : g(n) \in Int /\ l(n) \in Int
  BY RoutesFinite
<1> HIDE DEF g, l
<1>3. refcount[d] \in Int
  BY NodeKinds
<1>4. D \in [Node -> Int] /\ \A n \in Node : D[n] = refcount[d] * (g(n) - l(n))
  BY <1>2, <1>3
<1> HIDE DEF D
<1>5. refcount' = [n \in Node |-> refcount[n] + D[n]]
  BY <1>1, <1>4
<1>6. watched' = [i \in Input |-> IF D[i] = 0 THEN watched[i]
                                  ELSE IF refcount'[i] = 0 THEN FALSE
                                  ELSE watched[i] \/ refcount'[i] > 0]
  BY <1>1, <1>4, NodeKinds, Zenon
<1>7. /\ refcount' \in [Node -> Int] /\ watched' \in [Input -> BOOLEAN]
      /\ \A n \in Node : refcount'[n] = refcount[n] + D[n]
      /\ Flagged(refcount, watched, refcount', watched')
  BY <1>4, <1>5, <1>6, BumpIs
<1>8. Moved(deps, deps', d, refcount, refcount')
  BY <1>4, <1>7 DEF Moved, g, l
<1> QED
  BY <1>7, <1>8

\* The counts with more entries, and with fewer.
LEMMA MoreEntries ==
  ASSUME NEW edges, NEW es \in SUBSET (Handle \X Node), IsFiniteSet(es),
         NEW added \in SUBSET (Handle \X Node), IsFiniteSet(added), es \cap added = {}, NEW n
  PROVE  Cardinality(EntryRoutes(edges, es \cup added, n)) =
           Cardinality(EntryRoutes(edges, es, n)) + Cardinality(EntryRoutes(edges, added, n))
<1> DEFINE A == EntryRoutes(edges, es, n)
           B == EntryRoutes(edges, added, n)
           C == EntryRoutes(edges, es \cup added, n)
<1>1. \A c : c \in A <=> \E e \in es : \E p \in Routes(edges, Start(e), n) : c = <<e, p>>
  BY EntryRouteIs
<1>2. \A c : c \in B <=> \E e \in added : \E p \in Routes(edges, Start(e), n) : c = <<e, p>>
  BY EntryRouteIs
<1>3. \A c : c \in C <=> \E e \in es \cup added : \E p \in Routes(edges, Start(e), n) : c = <<e, p>>
  BY EntryRouteIs
<1>4. IsFiniteSet(A) /\ Cardinality(A) \in Nat
  BY EntryRoutesFinite
<1>5. IsFiniteSet(B) /\ Cardinality(B) \in Nat
  BY EntryRoutesFinite
<1> HIDE DEF A, B, C
<1>6. C = A \cup B
  BY <1>1, <1>2, <1>3
<1>7. A \cap B = {}
  <2> SUFFICES ASSUME NEW c \in A, c \in B PROVE FALSE
    OBVIOUS
  <2>1. PICK e \in es : \E p : c = <<e, p>>
    BY <1>1
  <2>2. PICK f \in added : \E p : c = <<f, p>>
    BY <1>2
  <2>3. c[1] = e /\ c[1] = f
    BY <2>1, <2>2
  <2> QED
    BY <2>3
<1>8. Cardinality(A \cup B) = Cardinality(A) + Cardinality(B) - Cardinality(A \cap B)
  BY <1>4, <1>5, FS_Union
<1>9. Cardinality(A \cap B) = 0
  BY <1>7, FS_EmptySet
<1>10. Cardinality(C) = Cardinality(A) + Cardinality(B)
  BY <1>4, <1>5, <1>6, <1>8, <1>9
<1> QED
  BY <1>10 DEF A, B, C

LEMMA FewerEntries ==
  ASSUME NEW edges, NEW es \in SUBSET (Handle \X Node), IsFiniteSet(es), NEW gone \in SUBSET es, NEW n
  PROVE  Cardinality(EntryRoutes(edges, es, n)) =
           Cardinality(EntryRoutes(edges, es \ gone, n)) + Cardinality(EntryRoutes(edges, gone, n))
<1>1. PICK rest : rest = es \ gone
  OBVIOUS
<1>2. /\ rest \in SUBSET (Handle \X Node) /\ gone \in SUBSET (Handle \X Node)
      /\ rest \cap gone = {} /\ rest \cup gone = es /\ IsFiniteSet(rest) /\ IsFiniteSet(gone)
  BY <1>1, FS_Subset
<1> QED
  BY <1>1, <1>2, MoreEntries

LEMMA HeadsTyped ==
  ASSUME NEW es \in SUBSET (Handle \X Node) PROVE HeadsOf(es) \in SUBSET Node
  BY DEF HeadsOf

LEMMA InitCounts == SubInit => CountsOK
<1> SUFFICES ASSUME SubInit PROVE CountsOK
  OBVIOUS
<1>1. Entries = {} /\ HeadsOf(Entries) = {} /\ IsFiniteSet(Entries)
  BY FS_EmptySet DEF SubInit, Entries, HeadsOf
<1>2. deps \in Edges /\ Acyclic(deps)
  <2>1. deps \in Edges
    BY DEF SubInit, Init, Edges
  <2>2. Acyclic(deps)
    BY <2>1, InitAcyclic DEF SubInit, CycleInv, Init
  <2> QED
    BY <2>1, <2>2
<1>3. AcyclicFrom(deps, HeadsOf(Entries))
  BY <1>2 DEF Acyclic, AcyclicFrom
<1>4. ASSUME NEW n \in Node PROVE Cardinality(EntryRoutes(deps, Entries, n)) = 0
  <2>1. EntryRoutes(deps, Entries, n) = {}
    BY <1>1 DEF EntryRoutes
  <2> QED
    BY <2>1, FS_EmptySet
<1>5. /\ refcount \in [Node -> Int] /\ watched \in [Input -> BOOLEAN]
      /\ \A n \in Node : refcount[n] = 0
      /\ \A i \in Input : ~watched[i] /\ ~(refcount[i] > 0)
  BY NodeKinds DEF SubInit
<1> QED
  BY <1>1, <1>3, <1>4, <1>5 DEF CountsOK, Counted

\* The counts as they are bumped when entries leave and when they come.
Uncount(gone) == Bump(LAMBDA n : -PathsFromEntries(gone, n))
Count(added)  == Bump(LAMBDA n : PathsFromEntries(added, n))

\* Entries leave between frames, and their paths are taken off the counts.
LEMMA RemoveCounts ==
  ASSUME IInv, CycleInv, GroupsOK, CountsOK, phase # "failed",
         NEW gone \in SUBSET Entries, Remove(gone),
         Uncount(gone)
  PROVE  /\ Entries' = Entries \ gone
         /\ Entries' \in SUBSET (Handle \X Node) /\ IsFiniteSet(Entries')
         /\ HeadsOf(Entries') \subseteq HeadsOf(Entries)
         /\ refcount' \in [Node -> Int] /\ watched' \in [Input -> BOOLEAN]
         /\ Counted(deps, Entries', refcount', watched')
<1>1. Entries' = Entries \ gone
  BY DEF Remove, Entries
<1>2. /\ Counted(deps, Entries, refcount, watched) /\ AcyclicFrom(deps, Node)
      /\ Entries \in SUBSET (Handle \X Node) /\ IsFiniteSet(Entries)
      /\ refcount \in [Node -> Int] /\ watched \in [Input -> BOOLEAN] /\ deps \in Edges
  BY CountsRight, EntriesTyped, Facts DEF CountsOK, Types, Edges
<1>3. PICK es : es = Entries
  OBVIOUS
<1>4. PICK rest : rest = es \ gone
  OBVIOUS
<1>5. /\ rest \in SUBSET (Handle \X Node) /\ IsFiniteSet(rest) /\ gone \in SUBSET es
      /\ IsFiniteSet(gone) /\ HeadsOf(rest) \subseteq HeadsOf(es) /\ HeadsOf(rest) \in SUBSET Node
      /\ gone \in SUBSET (Handle \X Node) /\ Entries' = rest
  BY <1>1, <1>2, <1>3, <1>4, FS_Subset DEF HeadsOf
<1>6. \A n : Cardinality(EntryRoutes(deps, es, n)) =
               Cardinality(EntryRoutes(deps, rest, n)) + Cardinality(EntryRoutes(deps, gone, n))
  BY <1>2, <1>3, <1>4, FewerEntries
<1>7. \A n : Cardinality(EntryRoutes(deps, rest, n)) \in Nat
  BY <1>5, EntryRoutesFinite
<1>8. \A n : Cardinality(EntryRoutes(deps, gone, n)) \in Nat
  BY <1>5, EntryRoutesFinite
<1> DEFINE c(n) == Cardinality(EntryRoutes(deps, gone, n))
           D == [n \in Node |-> -c(n)]
<1>9. /\ refcount' = [n \in Node |-> refcount[n] + -c(n)]
      /\ watched' = [i \in Input |-> IF -c(i) = 0 THEN watched[i]
                                     ELSE IF refcount'[i] = 0 THEN FALSE
                                     ELSE watched[i] \/ refcount'[i] > 0]
  BY DEF Uncount, Bump, PathsFromEntries
<1>18. \A n : c(n) \in Int
  BY <1>8
<1> HIDE DEF c
<1>19. \A n : -c(n) \in Int
  BY <1>18
<1>10. D \in [Node -> Int] /\ \A n \in Node : D[n] = -c(n)
  BY <1>19
<1> HIDE DEF D
<1>11. refcount' = [n \in Node |-> refcount[n] + D[n]]
  BY <1>9, <1>10
<1>12. watched' = [i \in Input |-> IF D[i] = 0 THEN watched[i]
                                  ELSE IF refcount'[i] = 0 THEN FALSE
                                  ELSE watched[i] \/ refcount'[i] > 0]
  BY <1>9, <1>10, NodeKinds, Zenon
<1>13. /\ refcount' \in [Node -> Int] /\ watched' \in [Input -> BOOLEAN]
       /\ \A n \in Node : refcount'[n] = refcount[n] + D[n]
       /\ Flagged(refcount, watched, refcount', watched')
  BY <1>2, <1>10, <1>11, <1>12, BumpIs
<1>14. ASSUME NEW n \in Node PROVE refcount'[n] = Cardinality(EntryRoutes(deps, rest, n))
  <2>1. refcount'[n] = refcount[n] + -c(n)
    BY <1>10, <1>13
  <2>2. refcount[n] = Cardinality(EntryRoutes(deps, es, n))
    BY <1>2, <1>3 DEF Counted
  <2>3. refcount[n] = Cardinality(EntryRoutes(deps, rest, n)) + c(n)
    BY <1>6, <2>2 DEF c
  <2>4. PICK a \in Int : a = c(n)
    BY <1>18
  <2>5. PICK k \in Nat : k = Cardinality(EntryRoutes(deps, rest, n))
    BY <1>7
  <2>6. refcount'[n] = (k + a) + -a
    BY <2>1, <2>3, <2>4, <2>5
  <2> QED
    BY <2>5, <2>6
<1>15. AcyclicFrom(deps, HeadsOf(rest))
  BY <1>2, <1>5, FewerCycles
<1>16. \A i \in Input : watched'[i] <=> refcount'[i] > 0
  <2>1. \A i \in Input : refcount'[i] \in Nat
    BY <1>7, <1>14, NodeKinds
  <2>2. \A i \in Input : watched[i] <=> refcount[i] > 0
    BY <1>2 DEF Counted
  <2>3. PICK r, w, r2, w2 : r = refcount /\ w = watched /\ r2 = refcount' /\ w2 = watched'
    OBVIOUS
  <2>4. \A i \in Input : r2[i] \in Nat
    BY <2>1, <2>3
  <2>5. Flagged(r, w, r2, w2) /\ \A i \in Input : w[i] <=> r[i] > 0
    BY <1>13, <2>2, <2>3
  <2>6. \A i \in Input : w2[i] <=> r2[i] > 0
    BY <2>4, <2>5, FlagsFollow
  <2> QED
    BY <2>3, <2>6
<1>17. Counted(deps, rest, refcount', watched')
  BY <1>14, <1>15, <1>16 DEF Counted
<1> QED
  BY <1>1, <1>3, <1>5, <1>13, <1>17

\* A handle that was not in use gets its entries, and their paths are counted.
LEMMA AddCounts ==
  ASSUME IInv, CycleInv, GroupsOK, CountsOK, phase = "idle",
         NEW h \in Handle, NEW w \in Watch, NEW shown, AddEntries(h, w, shown)
  PROVE  /\ HeadsOf(Entries') \subseteq entries /\ IsFiniteSet(Entries')
         /\ refcount' \in [Node -> Int] /\ watched' \in [Input -> BOOLEAN]
         /\ Counted(deps, Entries', refcount', watched')
<1>1. PICK added : added = {h} \X w.nodes
  OBVIOUS
<1>2. /\ Entries' = Entries \cup added /\ ~Open(h) /\ w.nodes \subseteq entries
      /\ Count(added)
  BY <1>1 DEF AddEntries, Entries, Count
<1>3. /\ Counted(deps, Entries, refcount, watched) /\ AcyclicFrom(deps, Node)
      /\ Entries \in SUBSET (Handle \X Node) /\ IsFiniteSet(Entries)
      /\ refcount \in [Node -> Int] /\ watched \in [Input -> BOOLEAN] /\ deps \in Edges
  BY CountsRight, EntriesTyped, Facts DEF CountsOK, Types, Edges
<1>4. PICK es : es = Entries
  OBVIOUS
<1>5. w.nodes \in SUBSET Node /\ IsFiniteSet(w.nodes) /\ IsFiniteSet({h})
  BY <1>2, WatchAssumption, DerivedFinite, FS_Singleton
<1>6. added \in SUBSET (Handle \X Node) /\ IsFiniteSet(added)
  BY <1>1, <1>5, FS_Product
<1>7. es \cap added = {}
  BY <1>1, <1>2, <1>4 DEF GroupsOK
<1>8. PICK all : all = es \cup added
  OBVIOUS
<1>9. all \in SUBSET (Handle \X Node) /\ IsFiniteSet(all) /\ Entries' = all
  BY <1>2, <1>3, <1>4, <1>6, <1>8, FS_Union
<1>10. HeadsOf(all) \subseteq entries
  <2>1. HeadsOf(added) \subseteq entries
    BY <1>1, <1>2 DEF HeadsOf
  <2>2. HeadsOf(es) \subseteq entries
    BY <1>4 DEF CountsOK
  <2> QED
    BY <1>8, <2>1, <2>2 DEF HeadsOf
<1>11. \A n : Cardinality(EntryRoutes(deps, all, n)) =
               Cardinality(EntryRoutes(deps, es, n)) + Cardinality(EntryRoutes(deps, added, n))
  BY <1>3, <1>4, <1>6, <1>7, <1>8, MoreEntries
<1>12. \A n : Cardinality(EntryRoutes(deps, all, n)) \in Nat
  BY <1>9, EntryRoutesFinite
<1>13. \A n : Cardinality(EntryRoutes(deps, added, n)) \in Nat
  BY <1>6, EntryRoutesFinite
<1> DEFINE c(n) == Cardinality(EntryRoutes(deps, added, n))
           D == [n \in Node |-> c(n)]
<1>14. /\ refcount' = [n \in Node |-> refcount[n] + c(n)]
       /\ watched' = [i \in Input |-> IF c(i) = 0 THEN watched[i]
                                      ELSE IF refcount'[i] = 0 THEN FALSE
                                      ELSE watched[i] \/ refcount'[i] > 0]
  BY <1>2 DEF Count, Bump, PathsFromEntries
<1>15. \A n : c(n) \in Int
  BY <1>13
<1> HIDE DEF c
<1>16. D \in [Node -> Int] /\ \A n \in Node : D[n] = c(n)
  BY <1>15
<1> HIDE DEF D
<1>17. refcount' = [n \in Node |-> refcount[n] + D[n]]
  BY <1>14, <1>16
<1>18. watched' = [i \in Input |-> IF D[i] = 0 THEN watched[i]
                                  ELSE IF refcount'[i] = 0 THEN FALSE
                                  ELSE watched[i] \/ refcount'[i] > 0]
  BY <1>14, <1>16, NodeKinds, Zenon
<1>19. /\ refcount' \in [Node -> Int] /\ watched' \in [Input -> BOOLEAN]
       /\ \A n \in Node : refcount'[n] = refcount[n] + D[n]
       /\ Flagged(refcount, watched, refcount', watched')
  BY <1>3, <1>16, <1>17, <1>18, BumpIs
<1>20. ASSUME NEW n \in Node PROVE refcount'[n] = Cardinality(EntryRoutes(deps, all, n))
  <2>1. refcount'[n] = refcount[n] + c(n)
    BY <1>16, <1>19
  <2>2. refcount[n] = Cardinality(EntryRoutes(deps, es, n))
    BY <1>3, <1>4 DEF Counted
  <2> QED
    BY <1>11, <2>1, <2>2 DEF c
<1>21. AcyclicFrom(deps, HeadsOf(all))
  <2>1. HeadsOf(all) \in SUBSET Node
    BY <1>9, HeadsTyped
  <2> QED
    BY <1>3, <2>1, FewerCycles
<1>22. \A i \in Input : watched'[i] <=> refcount'[i] > 0
  <2>1. \A i \in Input : refcount'[i] \in Nat
    BY <1>12, <1>20, NodeKinds
  <2>2. \A i \in Input : watched[i] <=> refcount[i] > 0
    BY <1>3 DEF Counted
  <2>3. PICK r, b, r2, b2 : r = refcount /\ b = watched /\ r2 = refcount' /\ b2 = watched'
    OBVIOUS
  <2>4. \A i \in Input : r2[i] \in Nat
    BY <2>1, <2>3
  <2>5. Flagged(r, b, r2, b2) /\ \A i \in Input : b[i] <=> r[i] > 0
    BY <1>19, <2>2, <2>3
  <2>6. \A i \in Input : b2[i] <=> r2[i] > 0
    BY <2>4, <2>5, FlagsFollow
  <2> QED
    BY <2>3, <2>6
<1>23. Counted(deps, all, refcount', watched')
  BY <1>20, <1>21, <1>22 DEF Counted
<1> QED
  BY <1>9, <1>10, <1>19, <1>23

\* Nobody reads x and no entry is for it: its edges are no part of a path.
LEMMA UnreadRewired ==
  ASSUME NEW edges, NEW other, NEW x \in Derived, Rewires(edges, other, x),
         NEW es \in SUBSET (Handle \X Node), NEW r, NEW w, Counted(edges, es, r, w),
         x \notin HeadsOf(es), \A d \in Derived : x \notin edges[d]
  PROVE  Counted(other, es, r, w)
<1>1. HeadsOf(es) \in SUBSET Node /\ edges \in Edges
  BY HeadsTyped DEF Rewires
<1>2. x \notin Reach(edges, HeadsOf(es))
  <2> DEFINE T == Node \ {x}
  <2>1. T \in SUBSET Node /\ HeadsOf(es) \subseteq T /\ Closed(edges, T)
    BY <1>1 DEF Closed, Edges
  <2> HIDE DEF T
  <2>2. Reach(edges, HeadsOf(es)) \subseteq T
    BY <1>1, <2>1, ReachIs
  <2> QED
    BY <2>2 DEF T
<1>3. AcyclicFrom(edges, HeadsOf(es))
  BY DEF Counted
<1>4. AcyclicFrom(other, HeadsOf(es))
  BY <1>1, <1>2, <1>3, UnwatchedRewired
<1>5. \A n : EntryRoutes(other, es, n) = EntryRoutes(edges, es, n)
  BY <1>2, UnwatchedCounts
<1> QED
  BY <1>4, <1>5 DEF Counted

LEMMA SetDepsRewires ==
  ASSUME IInv, NEW d \in Derived, NEW next \in SUBSET Node, SetDeps(d, next)
  PROVE  Rewires(deps, deps', d) /\ deps'[d] = next
<1>1. /\ deps' \in [Derived -> SUBSET Node] /\ deps'[d] = next
      /\ \A e \in Derived : e # d => deps'[e] = deps[e]
  BY Facts, SetDepsTypes
<1> QED
  BY <1>1, Facts DEF Rewires, Edges, Types

\* A step that leaves counts and entries alone.
LEMMA QuietCounts ==
  ASSUME CountsOK, UNCHANGED <<last, refcount, watched, deps>>, entries \subseteq entries'
  PROVE  CountsOK'
<1>1. Entries' = Entries
  BY DEF Entries
<1> QED
  BY <1>1 DEF CountsOK

CountInv == IInv /\ CycleInv /\ CallInv /\ CountsOK

LEMMA CallerCounts ==
  ASSUME CountInv, \E h \in Handle : Unsubscribe(h) \/ \E w \in Watch : Subscribe(h, w)
  PROVE  CountsOK'
<1>1. ASSUME NEW h \in Handle, Unsubscribe(h) PROVE CountsOK'
  <2> DEFINE gone == EntriesOf(h)
  <2>1. Remove(gone) /\ Uncount(gone)
    BY <1>1 DEF Unsubscribe, Uncount
  <2>3. gone \in SUBSET Entries
    BY DEF EntriesOf
  <2> HIDE DEF gone
  <2>2. phase = "idle" /\ deps' = deps /\ entries' = entries
    BY <1>1 DEF Unsubscribe, CallerRuns, vars, graph
  <2> QED
    BY <2>1, <2>2, <2>3, RemoveCounts DEF CountInv, CallInv, CountsOK
<1>2. ASSUME NEW h \in Handle, NEW w \in Watch, Subscribe(h, w) PROVE CountsOK'
  <2>1. phase = "idle" /\ deps' = deps /\ entries' = entries /\ AddEntries(h, w, val)
    BY <1>2 DEF Subscribe, CallerRuns, vars, graph
  <2> QED
    BY <2>1, AddCounts DEF CountInv, CallInv, CountsOK
<1> QED
  BY <1>1, <1>2

LEMMA DisposeCounts ==
  ASSUME CountInv, NEW n \in Node, DisposeNode(n)
  PROVE  CountsOK'
<1> DEFINE gone == {e \in Entries : e[2] = n}
<1>1. Remove(gone) /\ Uncount(gone)
  BY DEF DisposeNode, Uncount
<1>2. gone \in SUBSET Entries
  OBVIOUS
<1>8. \A e \in Entries : e[2] = n => e \in gone
  OBVIOUS
<1> HIDE DEF gone
<1>3. /\ phase = "idle" /\ dependents[n] = {} /\ entries' = entries \ {n}
      /\ IF n \in Derived THEN SetDeps(n, {}) ELSE deps' = deps
  BY DEF DisposeNode, Dispose
<1>4. /\ Entries' = Entries \ gone
      /\ Entries' \in SUBSET (Handle \X Node) /\ IsFiniteSet(Entries')
      /\ HeadsOf(Entries') \subseteq HeadsOf(Entries)
      /\ refcount' \in [Node -> Int] /\ watched' \in [Input -> BOOLEAN]
      /\ Counted(deps, Entries', refcount', watched')
  BY <1>1, <1>2, <1>3, RemoveCounts DEF CountInv, CallInv
<1>5. n \notin HeadsOf(Entries')
  BY <1>4, <1>8 DEF HeadsOf
<1>6. HeadsOf(Entries') \subseteq entries'
  BY <1>3, <1>4, <1>5 DEF CountInv, CountsOK
<1>7. Counted(deps', Entries', refcount', watched')
  <2>1. CASE n \in Derived
    <3>1. Rewires(deps, deps', n)
      BY <1>3, <2>1, SetDepsRewires DEF CountInv
    <3>2. \A d \in Derived : n \notin deps[d]
      BY <1>3, Facts DEF CountInv, Mirrored
    <3> QED
      BY <1>4, <1>5, <2>1, <3>1, <3>2, UnreadRewired
  <2>2. CASE n \notin Derived
    BY <1>3, <1>4, <2>2
  <2> QED
    BY <2>1, <2>2
<1> QED
  BY <1>4, <1>6, <1>7 DEF CountsOK

LEMMA RegisterCounts ==
  ASSUME CountInv, Register
  PROVE  CountsOK'
<1>1. UNCHANGED <<last, refcount, watched>>
  BY DEF Register, subVars, subs, counts
<1>2. ASSUME NEW i \in Input, NEW v \in Value, RegisterInput(i, v) PROVE CountsOK'
  BY <1>1, <1>2, QuietCounts DEF RegisterInput, CountInv
<1>3. ASSUME NEW d \in Derived, NEW p \in Program, RegisterDerived(d, p) PROVE CountsOK'
  <2>1. /\ phase = "idle" /\ d \notin entries /\ entries' = entries \cup {d}
        /\ SetDeps(d, Reads(p, val)) /\ Reads(p, val) \in SUBSET Node
    BY <1>3, Facts DEF RegisterDerived, CountInv, Types
  <2>2. Rewires(deps, deps', d)
    BY <2>1, SetDepsRewires DEF CountInv
  <2>3. \A e \in Derived : d \notin deps[e]
    BY <2>1, Facts DEF CountInv, DepsKnown
  <2>4. Counted(deps, Entries, refcount, watched) /\ Entries \in SUBSET (Handle \X Node)
    BY <2>1, CountsRight, EntriesTyped DEF CountInv, CallInv
  <2>5. d \notin HeadsOf(Entries)
    BY <2>1 DEF CountInv, CountsOK
  <2>6. Counted(deps', Entries, refcount, watched)
    BY <2>2, <2>3, <2>4, <2>5, UnreadRewired
  <2>7. Entries' = Entries
    BY <1>1 DEF Entries
  <2> QED
    BY <1>1, <2>1, <2>6, <2>7 DEF CountInv, CountsOK
<1> QED
  BY <1>2, <1>3 DEF Register

LEMMA BeginCounts ==
  ASSUME CountInv, NEW m \in {"commit", "simulate"}, NEW w \in [Input -> Value],
         BeginFrame(m, w) \/ \E h \in Handle, watch \in Watch : SubscribeInBody(m, w, h, watch)
  PROVE  CountsOK'
<1>1. CASE BeginFrame(m, w)
  BY <1>1, QuietCounts DEF BeginFrame, Begin, graph, subVars, subs, counts, CountInv
<1>2. ASSUME NEW h \in Handle, NEW watch \in Watch, SubscribeInBody(m, w, h, watch)
      PROVE  CountsOK'
  <2>1. phase = "idle" /\ deps' = deps /\ entries' = entries /\ AddEntries(h, watch, InBody(w))
    BY <1>2 DEF SubscribeInBody, Begin, graph
  <2> QED
    BY <2>1, AddCounts DEF CountInv, CallInv, CountsOK
<1> QED
  BY <1>1, <1>2

\* A walk that ends leads into no cycle.
LEMMA WalkEnds ==
  ASSUME NEW edges \in Edges, NEW S \in SUBSET Node,
         \A s \in Derived \cap S : \A c \in Derived :
           c = s \/ c \in Upstream(edges, s) => c \notin Upstream(edges, c)
  PROVE  AcyclicFrom(edges, S)
<1> DEFINE T == {n \in Node : n \in S \/ \E s \in Derived \cap S : n \in Upstream(edges, s)}
<1>1. \A s \in Derived : /\ edges[s] \subseteq Upstream(edges, s)
                         /\ Closed(edges, Upstream(edges, s)) /\ Upstream(edges, s) \in SUBSET Node
  BY UpstreamIsClosed
<1>2. T \in SUBSET Node /\ S \subseteq T
  OBVIOUS
<1>3. Closed(edges, T)
  <2> SUFFICES ASSUME NEW d \in T \cap Derived, NEW m \in edges[d] PROVE m \in T
    BY DEF Closed
  <2>1. m \in Node
    BY DEF Edges
  <2>2. CASE d \in S
    BY <1>1, <2>1, <2>2
  <2>3. ASSUME NEW s \in Derived \cap S, d \in Upstream(edges, s) PROVE m \in T
    BY <1>1, <2>1, <2>3 DEF Closed
  <2> QED
    BY <2>2, <2>3
<1>4. Reach(edges, S) \subseteq T
  BY <1>2, <1>3, ReachIs
<1>5. \A d \in T \cap Derived : d \notin Upstream(edges, d)
  OBVIOUS
<1> QED
  BY <1>4, <1>5, NoWayBack DEF AcyclicFrom

LEMMA RebindCounts ==
  ASSUME CountInv, NEW d \in Derived, NEW next \in SUBSET Node, SetDeps(d, next), Rebind(d, next),
         UNCHANGED <<last, entries>>, phase \in {"walk", "failed"},
         phase = "failed" => ~Spins(d, next)
  PROVE  CountsOK'
<1>1. Rewires(deps, deps', d) /\ deps'[d] = next /\ deps \in Edges
  BY SetDepsRewires DEF CountInv, Rewires
<1>2. /\ refcount \in [Node -> Int] /\ watched \in [Input -> BOOLEAN]
      /\ Entries \in SUBSET (Handle \X Node) /\ IsFiniteSet(Entries)
      /\ HeadsOf(Entries) \subseteq entries
  BY EntriesTyped DEF CountInv, CallInv, CountsOK
<1>3. /\ refcount' \in [Node -> Int] /\ watched' \in [Input -> BOOLEAN]
      /\ Moved(deps, deps', d, refcount, refcount')
      /\ Flagged(refcount, watched, refcount', watched')
  BY <1>1, <1>2, RebindIs
<1>4. refcount[d] # 0 => /\ AcyclicFrom(deps, deps'[d] \ deps[d])
                         /\ AcyclicFrom(deps, deps[d] \ deps'[d])
  <2>1. PICK gained : gained = next \ deps[d]
    OBVIOUS
  <2>2. PICK dropped : dropped = deps[d] \ next
    OBVIOUS
  <2>3. gained \in SUBSET Node /\ dropped \in SUBSET Node
    BY <1>1, <2>1, <2>2 DEF Edges
  <2>4. CASE phase = "walk"
    <3>1. AcyclicFrom(deps, Node)
      BY <2>4, CountsRight DEF CountInv, CallInv
    <3>2. AcyclicFrom(deps, gained)
      BY <1>1, <2>3, <3>1, FewerCycles
    <3>3. AcyclicFrom(deps, dropped)
      BY <1>1, <2>3, <3>1, FewerCycles
    <3> QED
      BY <1>1, <2>1, <2>2, <3>2, <3>3
  <2>5. CASE phase = "failed" /\ refcount[d] # 0
    <3>1. \A s \in Derived \cap (gained \cup dropped) : \A c \in Derived :
            c = s \/ c \in Upstream(deps, s) => c \notin Upstream(deps, c)
      BY <2>1, <2>2, <2>5 DEF Spins
    <3>2. AcyclicFrom(deps, gained)
      BY <1>1, <2>3, <3>1, WalkEnds
    <3>3. AcyclicFrom(deps, dropped)
      BY <1>1, <2>3, <3>1, WalkEnds
    <3> QED
      BY <1>1, <2>1, <2>2, <3>2, <3>3
  <2> QED
    BY <2>4, <2>5
<1>5. Counted(deps', Entries, refcount', watched') \/ Lost(deps', refcount')
  <2>1. CASE Counted(deps, Entries, refcount, watched)
    <3>1. PICK es : es = Entries
      OBVIOUS
    <3>2. Counted(deps', es, refcount', watched') \/ Lost(deps', refcount')
      BY <1>1, <1>2, <1>3, <1>4, <2>1, <3>1, MovedRight
    <3> QED
      BY <3>1, <3>2
  <2>2. CASE Lost(deps, refcount)
    BY <1>1, <1>2, <1>3, <1>4, <2>2, MovedLost
  <2> QED
    BY <2>1, <2>2 DEF CountInv, CountsOK
<1>6. Entries' = Entries
  BY DEF Entries
<1> QED
  BY <1>2, <1>3, <1>5, <1>6 DEF CountsOK

LEMMA FrameCounts ==
  ASSUME CountInv, FrameStep
  PROVE  CountsOK'
<1>1. ASSUME NEW d \in Derived, WalkNode(d) PROVE CountsOK'
  <2>1. phase = "walk" /\ UNCHANGED <<last, entries>>
    BY <1>1 DEF WalkNode, Skip, Compute, ComputeThrows, CycleThrows, graph, subs
  <2>2. CASE (Skip(d) \/ ComputeThrows(d)) /\ UNCHANGED counts
    BY <2>1, <2>2, QuietCounts DEF Skip, ComputeThrows, graph, counts, CountInv
  <2>3. CASE (Compute(d) \/ CycleThrows(d)) /\ Rebind(d, ReadsNow(d))
    <3>1. ReadsNow(d) \in SUBSET Node /\ SetDeps(d, ReadsNow(d))
      <4>1. Ready(d) /\ ~ThrowsNow(d) /\ SetDeps(d, ReadsNow(d))
        BY <2>3 DEF Compute, CycleThrows, Store
      <4>2. ReadsNow(d) \subseteq entries
        BY <4>1 DEF ThrowsNow, ReadsUnknown
      <4> QED
        BY <4>1, <4>2, Facts DEF CountInv, Types
    <3> QED
      BY <2>1, <2>3, <3>1, RebindCounts
  <2> QED
    BY <1>1, <2>2, <2>3 DEF WalkNode
<1>2. ASSUME NEW d \in Derived, RestoreNode(d) PROVE CountsOK'
  <2>1. /\ phase = "failed" /\ UNCHANGED <<last, entries>> /\ d \in DOMAIN undo
        /\ ~Spins(d, undo[d].deps) /\ Rebind(d, undo[d].deps) /\ SetDeps(d, undo[d].deps)
    BY <1>2 DEF RestoreNode, RestoreDerived, subs
  <2>2. undo[d].deps \in SUBSET Node
    BY <2>1, Facts DEF CountInv, Types, UndoType
  <2> QED
    BY <2>1, <2>2, RebindCounts
<1>3. ASSUME NEW d \in Derived, Spin(d) PROVE CountsOK'
  BY <1>3, QuietCounts DEF Spin, vars, graph, subs, counts, CountInv
<1>4. CASE PublishFrame
  BY <1>4, QuietCounts DEF PublishFrame, Publish, graph, subs, counts, CountInv
<1>5. CASE (LeaveUnpublished \/ RestoreInputs) /\ stage # "hung" /\ UNCHANGED subVars
  BY <1>5, QuietCounts DEF LeaveUnpublished, RestoreInputs, graph, subVars, subs, counts, CountInv
<1>6. CASE TakenBack
  BY <1>6, QuietCounts DEF TakenBack, Abort, graph, subs, counts, CountInv
<1>7. ASSUME NEW e \in Handle \X Node, Deliver(e) PROVE CountsOK'
  <2>1. UNCHANGED <<deps, entries, refcount, watched>> /\ Entries' = Entries
    BY <1>7 DEF Deliver, Waiting, vars, graph, counts, Entries
  <2> QED
    BY <2>1 DEF CountInv, CountsOK
<1>8. CASE EndDispatch
  <2> DEFINE gone == UNION {EntriesOf(h) : h \in drops}
  <2>1. Remove(gone) /\ Uncount(gone)
    BY <1>8 DEF EndDispatch, Uncount
  <2>2. gone \in SUBSET Entries
    BY DEF EntriesOf
  <2> HIDE DEF gone
  <2>3. phase = "idle" /\ deps' = deps /\ entries' = entries
    BY <1>8 DEF EndDispatch, vars, graph, CountInv, CallInv, WindowOK
  <2> QED
    BY <2>1, <2>2, <2>3, RemoveCounts DEF CountInv, CallInv, CountsOK
<1> QED
  BY <1>1, <1>2, <1>3, <1>4, <1>5, <1>6, <1>7, <1>8 DEF FrameStep

LEMMA StepCounts == CountInv /\ [SubNext]_allVars => CountsOK'
<1> SUFFICES ASSUME CountInv, [SubNext]_allVars PROVE CountsOK'
  OBVIOUS
<1>1. CASE UNCHANGED allVars
  BY <1>1, QuietCounts DEF allVars, vars, graph, subVars, subs, counts, CountInv
<1> QED
  BY <1>1, CallerCounts, DisposeCounts, RegisterCounts, BeginCounts, FrameCounts DEF SubNext

\* The edges behind CyclesDoNotSurvive, of the graph with observers.
LEMMA GraphInvariants == SubSpec => [](IInv /\ CycleInv)
<1>1. IInv /\ IInv' /\ CycleInv /\ [Next]_vars => CycleInv'
  BY StepAcyclic
<1>2. Spec => [](IInv /\ CycleInv)
  BY <1>1, InitAcyclic, Invariance, PTL DEF Spec
<1> QED
  BY <1>2, GraphUndisturbed, PTL

\* The refcount of a node is the number of paths to it from subscriptions, and the
\* flag of an input says whether there is one, whatever rewires, is rolled back,
\* registered, disposed of, subscribed or dropped.
THEOREM CountsArePaths == SubSpec => []RefcountsCountPaths
<1>1. SubInit => CountsOK /\ CallInv
  BY InitCounts, InitCalls
<1>2. IInv /\ CycleInv /\ CallInv /\ CountsOK /\ [SubNext]_allVars => CallInv' /\ CountsOK'
  BY StepCalls, StepCounts DEF CountInv
<1>3. IInv /\ CycleInv /\ CallInv /\ CountsOK => RefcountsCountPaths
  <2> SUFFICES ASSUME IInv, CycleInv, CallInv, CountsOK, phase = "idle"
               PROVE  /\ \A n \in Node : refcount[n] = PathsFromEntries(Entries, n)
                      /\ \A i \in Input : watched[i] <=> refcount[i] > 0
    BY DEF RefcountsCountPaths
  <2> QED
    BY CountsRight DEF CallInv, Counted, PathsFromEntries
<1> QED
  BY <1>1, <1>2, <1>3, GraphInvariants, PTL DEF SubSpec

-----------------------------------------------------------------------------
(* What observers of a single node have been shown.                        *)

StaleFact == StaleBefore = {d \in Live : ValBefore(d) # Eval(compute[d], ValuesBefore)}

LEMMA StaleIs == StaleFact
<1>1. \A n \in Node : Before[n][1] = ValBefore(n)
  BY BeforeParts, NodeKinds DEF BeforeSplit
<1>2. [n \in Node |-> Before[n][1]] = ValuesBefore
  BY <1>1 DEF ValuesBefore
<1>3. \A d \in Live : [n \in Node |-> Before[n][1]][d] = ValBefore(d)
  BY <1>1, NodeKinds DEF Live
<1> QED
  BY <1>2, <1>3 DEF StaleFact, StaleBefore

LEMMA StaleIsNext == StaleFact'
  BY StaleIs, PTL

LEMMA SameStale ==
  ASSUME \A n \in Node : ValBefore(n)' = ValBefore(n), UNCHANGED <<entries, compute>>
  PROVE  StaleBefore' = StaleBefore
<1>1. ValuesBefore' = ValuesBefore
  BY DEF ValuesBefore
<1>2. Live' = Live /\ \A d \in Live : d \in Node
  BY NodeKinds DEF Live
<1> QED
  BY <1>1, <1>2, StaleIs, StaleIsNext DEF StaleFact

\* A node changed because something it reads did, unless it was stale before.
CauseInv ==
  phase = "walk" => \A c \in changed : c \in StaleBefore \/ deps[c] \cap (seed \cup changed) # {}

\* The compute of a node that was not stale reads a node that has changed.
LEMMA ComputeCause ==
  ASSUME IInv, NEW d \in Derived, Compute(d), val[d] # ResultNow(d), d \notin StaleBefore
  PROVE  ReadsNow(d) \cap (seed \cup changed) # {}
<1>1. /\ Types /\ d \in Live /\ d \in todo /\ phase = "walk" /\ d \notin DOMAIN undo
      /\ compute[d] \in Program /\ val \in Valuation
  BY Facts DEF Compute, Ready, IInv, FrameOK, LiveOK, Types
<1>2. ValuesBefore \in Valuation /\ \A n \in Node : ValuesBefore[n] = ValBefore(n)
  BY <1>1, BeforeTyped
<1>3. val[d] = Eval(compute[d], ValuesBefore)
  <2>1. ValBefore(d) = Eval(compute[d], ValuesBefore)
    BY <1>1, StaleIs DEF StaleFact
  <2> QED
    BY <1>1, <2>1 DEF ValBefore
<1>4. Eval(compute[d], ValuesBefore) # Eval(compute[d], val)
  BY <1>3 DEF ResultNow
<1>5. PICK m \in ReadsNow(d) : val[m] # ValuesBefore[m]
  BY <1>1, <1>2, <1>4, Pure DEF ReadsNow
<1>6. m \in Node /\ m \in DOMAIN undo /\ val[m] # ValBefore(m)
  <2>1. m \in Node
    BY <1>1, <1>5, ReadsTyped DEF ReadsNow
  <2> QED
    BY <1>2, <1>5, <2>1 DEF ValBefore
<1>7. m \in seed \/ m \in Affected \ todo
  BY <1>1, <1>6 DEF IInv, FrameOK
<1>8. m \notin stable
  BY <1>1, <1>6 DEF IInv, OutcomesOK
<1> QED
  BY <1>1, <1>5, <1>7, <1>8 DEF IInv, OutcomesOK

LEMMA WalkCause ==
  ASSUME IInv, CauseInv, NEW d \in Derived, Walk(d)
  PROVE  CauseInv'
<1> SUFFICES ASSUME phase' = "walk" PROVE CauseInv'
  BY DEF CauseInv
<1>1. phase = "walk" /\ UNCHANGED <<entries, compute, seed>> /\ (Skip(d) \/ Compute(d))
  BY DEF Walk, Skip, Compute, ComputeThrows, CycleThrows, graph, pass
<1>2. StaleBefore' = StaleBefore
  BY <1>1, WalkBefore, SameStale
<1>3. CASE Skip(d)
  BY <1>1, <1>2, <1>3 DEF Skip, graph, CauseInv
<1>4. CASE Compute(d)
  <2>1. /\ ReadsNow(d) \in SUBSET Node /\ SetDeps(d, ReadsNow(d)) /\ d \in todo
        /\ ~ThrowsNow(d)
    <3>1. Ready(d) /\ ~ThrowsNow(d) /\ Store(d) /\ UNCHANGED <<entries, compute, seed, plan>>
      BY <1>4 DEF Compute
    <3> QED
      BY <1>1, <3>1, StoreFacts
  <2>2. deps'[d] = ReadsNow(d) /\ \A e \in Derived : e # d => deps'[e] = deps[e]
    BY <2>1, Facts, SetDepsTypes
  <2>3. /\ d \notin changed /\ changed \subseteq Derived
        /\ changed' = changed \/ (changed' = changed \cup {d} /\ val[d] # ResultNow(d))
    <3>1. d \notin changed
      BY <1>1, <2>1 DEF IInv, OutcomesOK
    <3>2. changed \subseteq Derived
      BY Facts DEF Types, PlanType
    <3> QED
      BY <1>4, <3>1, <3>2 DEF Compute, ValueChanges
  <2>4. ASSUME NEW c \in changed
        PROVE  c \in StaleBefore' \/ deps'[c] \cap (seed' \cup changed') # {}
    BY <1>1, <1>2, <2>2, <2>3 DEF CauseInv
  <2>5. ASSUME d \in changed', d \notin StaleBefore
        PROVE  deps'[d] \cap (seed' \cup changed') # {}
    <3>1. ReadsNow(d) \cap (seed \cup changed) # {}
      BY <1>4, <2>3, <2>5, ComputeCause
    <3> QED
      BY <1>1, <2>2, <2>3, <3>1
  <2> QED
    BY <1>2, <2>3, <2>4, <2>5 DEF CauseInv
<1> QED
  BY <1>1, <1>3, <1>4

LEMMA StepCause ==
  ASSUME IInv, CauseInv, [Next]_vars
  PROVE  CauseInv'
<1>1. CASE \E m \in {"commit", "simulate"}, w \in [Input -> Value] : Begin(m, w)
  BY <1>1, BeginFacts DEF CauseInv
<1>2. CASE \E d \in Derived : Walk(d)
  BY <1>2, WalkCause
<1>3. CASE UNCHANGED vars
  <2>1. UNCHANGED <<phase, changed, seed, deps, entries, compute, val, undo>>
    BY <1>3 DEF vars, graph, pass
  <2>2. \A n \in Node : ValBefore(n)' = ValBefore(n)
    BY <2>1 DEF ValBefore
  <2> QED
    BY <2>1, <2>2, SameStale DEF CauseInv
<1>4. CASE \/ \E i \in Input, v \in Value : RegisterInput(i, v)
           \/ \E d \in Derived, p \in Program : RegisterDerived(d, p)
           \/ \E n \in Node : Dispose(n)
           \/ \E d \in Derived : RestoreDerived(d)
           \/ Publish \/ LeaveUnpublished \/ RestoreInputs \/ Abort
  <2>1. phase' # "walk"
    BY <1>4 DEF RegisterInput, RegisterDerived, Dispose, RestoreDerived, Publish, EndPass,
                LeaveUnpublished, RestoreInputs, Abort
  <2> QED
    BY <2>1 DEF CauseInv
<1> QED
  BY <1>1, <1>2, <1>3, <1>4 DEF Next

\* An input that a subscription depends on has its flag up.
LEMMA FlagIsUp ==
  ASSUME CountInv, phase = "walk", NEW i \in Input, i \in Reach(deps, HeadsOf(Entries))
  PROVE  watched[i]
<1>1. /\ Counted(deps, Entries, refcount, watched)
      /\ Entries \in SUBSET (Handle \X Node) /\ IsFiniteSet(Entries) /\ deps \in Edges
  BY CountsRight, EntriesTyped, Facts DEF CountInv, CallInv, CountsOK, Types, Edges
<1>2. PICK es, r, w : es = Entries /\ r = refcount /\ w = watched
  OBVIOUS
<1>3. i \in Reach(deps, HeadsOf(es)) <=> Cardinality(EntryRoutes(deps, es, i)) # 0
  BY <1>1, <1>2, CountedIsReached DEF Counted
<1>4. Cardinality(EntryRoutes(deps, es, i)) # 0
  BY <1>2, <1>3
<1>5. Cardinality(EntryRoutes(deps, es, i)) \in Nat
  <2>1. IsFiniteSet(EntryRoutes(deps, es, i))
    BY <1>1, <1>2, EntryRoutesFinite DEF Counted
  <2> QED
    BY <2>1, FS_CardinalityType
<1>6. i \in Node
  BY NodeKinds
<1>7. r[i] > 0
  BY <1>1, <1>2, <1>4, <1>5, <1>6 DEF Counted
<1> QED
  BY <1>1, <1>2, <1>7 DEF Counted

\* If a watched node has changed, and neither it nor a node over it was stale, a
\* changed input has its flag up.
LEMMA GateOpens ==
  ASSUME CountInv, CauseInv, phase = "walk",
         NEW n \in HeadsOf(Entries), n \in seed \cup changed,
         \A d \in StaleBefore \cap changed : d # n /\ d \notin Upstream(deps, n)
  PROVE  AnyChangedInputHasSubscriber
<1>1. /\ Counted(deps, Entries, refcount, watched) /\ AcyclicFrom(deps, Node)
      /\ Entries \in SUBSET (Handle \X Node) /\ IsFiniteSet(Entries)
      /\ deps \in Edges /\ seed \subseteq Input /\ changed \subseteq Derived
  BY CountsRight, EntriesTyped, Facts DEF CountInv, CallInv, CountsOK, Types, Edges, PlanType
<1>2. n \in Node /\ HeadsOf(Entries) \in SUBSET Node
  BY <1>1 DEF HeadsOf
<1>4. /\ Reach(deps, {n}) \in SUBSET Node /\ n \in Reach(deps, {n})
      /\ Closed(deps, Reach(deps, {n}))
      /\ Reach(deps, {n}) \subseteq Reach(deps, HeadsOf(Entries))
  BY <1>1, <1>2, ReachIs
<1> DEFINE Z == changed \cap Reach(deps, {n})
<1>5. ASSUME NEW i \in seed, i \in Reach(deps, {n}) PROVE AnyChangedInputHasSubscriber
  BY <1>1, <1>4, <1>5, FlagIsUp DEF AnyChangedInputHasSubscriber
<1>6. \A z \in Z : z \notin StaleBefore
  <2>1. CASE n \in Derived
    <3>1. /\ Upstream(deps, n) \in SUBSET Node /\ deps[n] \subseteq Upstream(deps, n)
          /\ Closed(deps, Upstream(deps, n))
      BY <1>1, <2>1, UpstreamIsClosed
    <3>2. Closed(deps, Upstream(deps, n) \cup {n})
      BY <3>1 DEF Closed
    <3>3. Reach(deps, {n}) \subseteq Upstream(deps, n) \cup {n}
      BY <1>1, <1>2, <3>1, <3>2, ReachIs
    <3> QED
      BY <3>3
  <2>2. CASE n \notin Derived
    <3>1. Closed(deps, {n})
      BY <2>2 DEF Closed
    <3>2. Reach(deps, {n}) \subseteq {n}
      BY <1>1, <1>2, <3>1, ReachIs
    <3> QED
      BY <1>1, <2>2, <3>2
  <2> QED
    BY <2>1, <2>2
<1>7. CASE n \in changed /\ \A i \in seed : i \notin Reach(deps, {n})
  <2>1. Z \in SUBSET Derived /\ n \in Z
    BY <1>1, <1>4, <1>7
  <2>2. ASSUME NEW z \in Z PROVE deps[z] \cap Z # {}
    <3>1. PICK m \in deps[z] : m \in seed \cup changed
      BY <1>6, <2>2 DEF CauseInv
    <3>2. m \in Reach(deps, {n})
      BY <1>4, <2>1, <2>2, <3>1 DEF Closed
    <3> QED
      BY <1>7, <3>1, <3>2
  <2>3. Circle(deps, Z)
    BY <2>1, <2>2 DEF Circle
  <2> HIDE DEF Z
  <2>4. Z \cap Reach(deps, Node) = {}
    BY <1>1, <2>1, <2>3, NoCircle
  <2>5. Node \subseteq Reach(deps, Node)
    BY <1>1, ReachIs
  <2> QED
    BY <1>2, <2>1, <2>4, <2>5
<1> QED
  BY <1>4, <1>5, <1>7

\* h is the subscription to the one node n.
Watches(h, n) == Open(h) /\ ~group[h].many /\ n \in group[h].nodes

Indexed(h, n) == <<h, n>> \in Entries /\ last[<<h, n>>] = seen[h][n]

\* The observer has got the value of before the frame, it is about to be called,
\* or it subscribed in the body of the frame to an input written there.
Shown(h, n) ==
  \/ seen[h][n] = ValBefore(n)
  \/ stage = "dispatch" /\ <<h, n>> \in Waiting
  \/ h \in newcomers /\ (phase = "walk" => n \in Input /\ seen[h][n] = val[n])

ShownOK ==
  /\ DOMAIN seen = Handle
  /\ stage # "dispatch" => visited = {}
  /\ phase = "idle" => newcomers = {}
  /\ \A h \in Handle, n \in Node :
       Watches(h, n) => Indexed(h, n) /\ (h \in misled \/ Shown(h, n))

LEMMA WatchedNode ==
  ASSUME GroupsOK, NEW h \in Handle, NEW n \in Node, Watches(h, n)
  PROVE  group[h].nodes = {n} /\ EntriesOf(h) \subseteq {<<h, n>>}
<1>1. group[h] \in Watch
  BY DEF GroupsOK, Watches, Open
<1>2. group[h].nodes = {n}
  BY <1>1, WatchAssumption DEF Watches
<1>3. ASSUME NEW e \in EntriesOf(h) PROVE e = <<h, n>>
  <2>1. e \in Handle \X Node /\ e[1] = h /\ e[2] \in group[h].nodes
    BY <1>3 DEF EntriesOf, GroupsOK
  <2> QED
    BY <1>2, <2>1
<1> QED
  BY <1>2, <1>3

LEMMA WatchedHead ==
  ASSUME CountsOK, NEW h, NEW n, Indexed(h, n)
  PROVE  n \in HeadsOf(Entries) /\ n \in entries
<1>1. <<h, n>>[2] \in HeadsOf(Entries)
  BY DEF Indexed, HeadsOf
<1> QED
  BY <1>1 DEF CountsOK

LEMMA InitShown == SubInit => ShownOK
  BY DEF SubInit, Init, ShownOK, Watches, Open

\* Who subscribes has seen what is there, or what the body has written.
LEMMA AddShown ==
  ASSUME ShownOK, GroupsOK, NEW h \in Handle, NEW w \in Watch, NEW shown, AddEntries(h, w, shown),
         phase = "idle", \A n \in Node : ValBefore(n)' = ValBefore(n),
         UNCHANGED <<stage, round, visited, misled>>,
         phase' = "idle" => newcomers' = {},
         \A n \in w.nodes : \/ shown[n] = ValBefore(n)
                            \/ h \in newcomers' /\ n \in Input /\ shown[n] = val'[n]
  PROVE  ShownOK'
<1>1. /\ group' = [group EXCEPT ![h] = w] /\ ~Open(h)
      /\ seen' = [seen EXCEPT ![h] = [n \in w.nodes |-> shown[n]]]
      /\ Entries' = Entries \cup ({h} \X w.nodes)
      /\ \A e \in {h} \X w.nodes : last'[e] = shown[e[2]]
      /\ \A e \in Entries : e \notin {h} \X w.nodes => last'[e] = last[e]
  BY DEF AddEntries, Entries
<1>2. /\ group'[h] = w /\ \A g \in Handle : g # h => group'[g] = group[g]
      /\ seen'[h] = [n \in w.nodes |-> shown[n]] /\ \A g \in Handle : g # h => seen'[g] = seen[g]
      /\ DOMAIN seen' = Handle
  BY <1>1 DEF GroupsOK, ShownOK
<1>3. w.nodes \subseteq Node /\ newcomers = {}
  BY WatchAssumption DEF ShownOK
<1>4. ASSUME NEW n \in Node, Watches(h, n)'
      PROVE  Indexed(h, n)' /\ Shown(h, n)'
  <2>1. n \in w.nodes /\ <<h, n>> \in {h} \X w.nodes
    BY <1>2, <1>4 DEF Watches
  <2>2. last'[<<h, n>>] = shown[n] /\ seen'[h][n] = shown[n] /\ <<h, n>> \in Entries'
    BY <1>1, <1>2, <2>1
  <2> QED
    BY <2>1, <2>2 DEF Indexed, Shown
<1>5. ASSUME NEW g \in Handle, g # h, NEW n \in Node, Watches(g, n)'
      PROVE  Indexed(g, n)' /\ (g \in misled' \/ Shown(g, n)')
  <2>1. Watches(g, n)
    BY <1>2, <1>5 DEF Watches, Open
  <2>2. <<g, n>> \notin {h} \X w.nodes
    BY <1>5
  <2>3. Indexed(g, n) /\ (g \in misled \/ Shown(g, n))
    BY <2>1 DEF ShownOK
  <2>4. Indexed(g, n)'
    BY <1>1, <1>2, <1>5, <2>2, <2>3 DEF Indexed
  <2>5. Shown(g, n) => Shown(g, n)'
    BY <1>1, <1>2, <1>3, <1>5 DEF Shown, Waiting
  <2> QED
    BY <2>3, <2>4, <2>5
<1> QED
  BY <1>2, <1>4, <1>5 DEF ShownOK

\* Who stays after others have left keeps entry and value.
LEMMA RemoveShown ==
  ASSUME ShownOK, GroupsOK, NEW gone \in SUBSET Entries, Remove(gone)
  PROVE  /\ DOMAIN seen' = Handle
         /\ \A h \in Handle, n \in Node : Watches(h, n)' =>
              /\ Watches(h, n) /\ Indexed(h, n)' /\ seen'[h] = seen[h]
              /\ h \in misled => h \in misled'
<1>1. /\ group' = [h \in Handle |-> IF EntriesOf(h) \subseteq gone THEN NoWatch ELSE group[h]]
      /\ seen' = [h \in Handle |-> IF EntriesOf(h) \subseteq gone THEN <<>> ELSE seen[h]]
      /\ misled' = {h \in misled : ~(EntriesOf(h) \subseteq gone)}
      /\ Entries' = Entries \ gone /\ \A e \in Entries' : last'[e] = last[e]
  BY DEF Remove, Entries
<1>2. ASSUME NEW h \in Handle, NEW n \in Node, Watches(h, n)'
      PROVE  /\ Watches(h, n) /\ Indexed(h, n)' /\ seen'[h] = seen[h]
             /\ h \in misled => h \in misled'
  <2>1. ~(EntriesOf(h) \subseteq gone) /\ group'[h] = group[h] /\ seen'[h] = seen[h]
    BY <1>1, <1>2 DEF Watches, Open
  <2>2. Watches(h, n)
    BY <1>2, <2>1 DEF Watches, Open
  <2>3. <<h, n>> \notin gone
    BY <2>1, <2>2, WatchedNode
  <2>4. Indexed(h, n)
    BY <2>2 DEF ShownOK
  <2>5. Indexed(h, n)'
    BY <1>1, <2>1, <2>3, <2>4 DEF Indexed
  <2> QED
    BY <1>1, <2>1, <2>2, <2>5
<1> QED
  BY <1>1, <1>2

\* Steps that move no entry.
LEMMA QuietShown ==
  ASSUME ShownOK, CountsOK, UNCHANGED <<group, last, seen, round, visited, newcomers, misled>>,
         stage' = "dispatch" <=> stage = "dispatch",
         phase' = "idle" => newcomers = {},
         newcomers = {} \/ phase' # "walk" \/ (phase = "walk" /\ \A i \in Input : val'[i] = val[i]),
         \A n \in HeadsOf(Entries) : ValBefore(n)' = ValBefore(n)
  PROVE  ShownOK'
<1>1. Entries' = Entries /\ Waiting' = Waiting
  BY DEF Entries, Waiting
<1>2. ASSUME NEW h \in Handle, NEW n \in Node, Watches(h, n)'
      PROVE  Indexed(h, n)' /\ (h \in misled' \/ Shown(h, n)')
  <2>1. Indexed(h, n) /\ (h \in misled \/ Shown(h, n))
    BY <1>2 DEF Watches, Open, ShownOK
  <2>2. ValBefore(n)' = ValBefore(n)
    BY <2>1, WatchedHead
  <2>3. Shown(h, n) => Shown(h, n)'
    BY <1>1, <2>2 DEF Shown
  <2> QED
    BY <1>1, <2>1, <2>3 DEF Indexed
<1> QED
  BY <1>2 DEF ShownOK

CurrentInv == CountInv /\ CauseInv /\ ShownOK

LEMMA CallerShown ==
  ASSUME CurrentInv, \E h \in Handle : Unsubscribe(h) \/ \E w \in Watch : Subscribe(h, w)
  PROVE  ShownOK'
<1>1. ASSUME NEW h \in Handle, Unsubscribe(h) PROVE ShownOK'
  <2> DEFINE gone == EntriesOf(h)
  <2>1. /\ Remove(gone) /\ gone \in SUBSET Entries
        /\ UNCHANGED <<phase, val, undo, stage, round, visited, newcomers>>
    BY <1>1 DEF Unsubscribe, Remove, EntriesOf, vars, deliver
  <2> HIDE DEF gone
  <2>2. /\ DOMAIN seen' = Handle
        /\ \A g \in Handle, n \in Node : Watches(g, n)' =>
              /\ Watches(g, n) /\ Indexed(g, n)' /\ seen'[g] = seen[g]
              /\ g \in misled => g \in misled'
    BY <2>1, RemoveShown DEF CurrentInv, CountInv, CallInv
  <2>3. ASSUME NEW g \in Handle, NEW n \in Node, Watches(g, n)'
        PROVE  Indexed(g, n)' /\ (g \in misled' \/ Shown(g, n)')
    <3>1. Watches(g, n) /\ Indexed(g, n)' /\ seen'[g] = seen[g] /\ (g \in misled => g \in misled')
      BY <2>2, <2>3
    <3>2. g \in misled \/ Shown(g, n)
      BY <3>1 DEF CurrentInv, ShownOK
    <3>3. Shown(g, n) => Shown(g, n)'
      BY <2>1, <3>1 DEF Shown, Waiting, ValBefore, Indexed
    <3> QED
      BY <3>1, <3>2, <3>3
  <2> QED
    BY <2>1, <2>2, <2>3 DEF CurrentInv, ShownOK
<1>2. ASSUME NEW h \in Handle, NEW w \in Watch, Subscribe(h, w) PROVE ShownOK'
  <2>1. /\ AddEntries(h, w, val) /\ phase = "idle" /\ DOMAIN undo = {}
        /\ UNCHANGED <<phase, val, undo, stage, round, visited, newcomers, misled>>
    BY <1>2 DEF Subscribe, CallerRuns, deliver, vars, CurrentInv, CountInv, IInv, FrameOK
  <2>2. \A n : ValBefore(n) = val[n] /\ ValBefore(n)' = ValBefore(n)
    BY <2>1 DEF ValBefore
  <2> QED
    BY <2>1, <2>2, AddShown DEF CurrentInv, CountInv, CallInv, ShownOK
<1> QED
  BY <1>1, <1>2

LEMMA DisposeShown ==
  ASSUME CurrentInv, NEW n \in Node, DisposeNode(n)
  PROVE  ShownOK'
<1> DEFINE gone == {e \in Entries : e[2] = n}
<1>1. /\ Remove(gone) /\ gone \in SUBSET Entries /\ stage = "quiet" /\ phase = "idle"
      /\ UNCHANGED <<phase, val, undo, stage, round, visited, newcomers>>
  BY DEF DisposeNode, Dispose, Remove, deliver
<1> HIDE DEF gone
<1>2. /\ DOMAIN seen' = Handle
      /\ \A g \in Handle, m \in Node : Watches(g, m)' =>
            /\ Watches(g, m) /\ Indexed(g, m)' /\ seen'[g] = seen[g]
            /\ g \in misled => g \in misled'
  BY <1>1, RemoveShown DEF CurrentInv, CountInv, CallInv
<1>3. ASSUME NEW g \in Handle, NEW m \in Node, Watches(g, m)'
      PROVE  Indexed(g, m)' /\ (g \in misled' \/ Shown(g, m)')
  <2>1. Watches(g, m) /\ Indexed(g, m)' /\ seen'[g] = seen[g] /\ (g \in misled => g \in misled')
    BY <1>2, <1>3
  <2>2. g \in misled \/ Shown(g, m)
    BY <2>1 DEF CurrentInv, ShownOK
  <2>3. Shown(g, m) => Shown(g, m)'
    BY <1>1, <2>1 DEF Shown, ValBefore
  <2> QED
    BY <2>1, <2>2, <2>3
<1> QED
  BY <1>1, <1>2, <1>3 DEF CurrentInv, ShownOK

LEMMA RegisterShown ==
  ASSUME CurrentInv, Register
  PROVE  ShownOK'
<1>1. /\ UNCHANGED <<group, last, seen, stage, round, visited, newcomers, misled>>
      /\ phase = "idle" /\ phase' = "idle" /\ undo' = undo /\ DOMAIN undo = {}
      /\ newcomers = {}
  BY DEF Register, CallerRuns, RegisterInput, RegisterDerived, subVars, subs, deliver, history,
         CurrentInv, CountInv, IInv, FrameOK, ShownOK
<1>2. PICK m \in Node : m \notin entries /\ \E v : val' = [val EXCEPT ![m] = v]
  BY NodeKinds DEF Register, RegisterInput, RegisterDerived
<1>3. ASSUME NEW n \in HeadsOf(Entries) PROVE ValBefore(n)' = ValBefore(n)
  <2>1. n \in entries /\ n # m
    BY <1>2 DEF CurrentInv, CountInv, CountsOK
  <2>2. val'[n] = val[n]
    BY <1>2, <2>1
  <2> QED
    BY <1>1, <2>2 DEF ValBefore
<1> QED
  BY <1>1, <1>3, QuietShown DEF CurrentInv, CountInv

LEMMA BeginShown ==
  ASSUME CurrentInv, NEW m \in {"commit", "simulate"}, NEW w \in [Input -> Value],
         BeginFrame(m, w) \/ \E h \in Handle, watch \in Watch : SubscribeInBody(m, w, h, watch)
  PROVE  ShownOK'
<1>1. Begin(m, w) /\ stage = "quiet" /\ stage' = stage /\ phase = "idle" /\ phase' = "walk"
  BY DEF BeginFrame, SubscribeInBody, subVars, Begin
<1>2. \A n \in Node : ValBefore(n)' = ValBefore(n) /\ ValBefore(n) = val[n]
  <2>1. DOMAIN undo = {}
    BY <1>1 DEF CurrentInv, CountInv, IInv, FrameOK
  <2> QED
    BY <1>1, <2>1, BeginBefore DEF CurrentInv, CountInv, ValBefore
<1>3. newcomers = {} /\ HeadsOf(Entries) \subseteq Node
  BY <1>1, EntriesTyped DEF CurrentInv, ShownOK, HeadsOf, CountInv, CallInv
<1>4. CASE BeginFrame(m, w)
  <2>1. UNCHANGED <<group, last, seen, round, visited, newcomers, misled>>
    BY <1>4 DEF BeginFrame, subVars, subs, deliver, history
  <2> QED
    BY <1>1, <1>2, <1>3, <2>1, QuietShown DEF CurrentInv, CountInv
<1>5. ASSUME NEW h \in Handle, NEW watch \in Watch, SubscribeInBody(m, w, h, watch)
      PROVE  ShownOK'
  <2>1. /\ AddEntries(h, watch, InBody(w)) /\ newcomers' = {h}
        /\ UNCHANGED <<stage, round, visited, misled>>
    BY <1>5 DEF SubscribeInBody, deliver
  <2>2. val' = [n \in Node |-> IF n \in {i \in Input : w[i] # val[i]} THEN w[n] ELSE val[n]]
    BY <1>1 DEF Begin
  <2>3. \A n \in watch.nodes : \/ InBody(w)[n] = ValBefore(n)
                               \/ h \in newcomers' /\ n \in Input /\ InBody(w)[n] = val'[n]
    <3> SUFFICES ASSUME NEW n \in watch.nodes
                 PROVE  \/ InBody(w)[n] = ValBefore(n)
                        \/ h \in newcomers' /\ n \in Input /\ InBody(w)[n] = val'[n]
      OBVIOUS
    <3>1. n \in Node
      BY WatchAssumption
    <3>2. InBody(w)[n] = val[n] \/ (n \in Input /\ InBody(w)[n] = w[n])
      BY <3>1 DEF InBody
    <3>3. n \in Input => val'[n] = w[n]
      BY <2>2, <3>1
    <3> QED
      BY <1>2, <2>1, <3>1, <3>2, <3>3
  <2> QED
    BY <1>1, <1>2, <2>1, <2>3, AddShown DEF CurrentInv, CountInv, CallInv
<1> QED
  BY <1>4, <1>5

\* The commit publishes: who watches a node that changed is called, or it is
\* known that a stale node changed.
LEMMA PublishShown ==
  ASSUME CurrentInv, PublishFrame
  PROVE  ShownOK'
<1>1. /\ phase = "walk" /\ todo = {} /\ phase' = "idle" /\ undo' = [n \in {} |-> {}]
      /\ UNCHANGED <<val, group, last, visited, seen>> /\ newcomers' = {}
      /\ misled' = {h \in misled : group[h].nodes \cap (seed \cup changed) = {}} \cup PassedOver
      /\ AnyChangedInputHasSubscriber => stage' = "dispatch" /\ round' = seed \cup changed
      /\ ~AnyChangedInputHasSubscriber => stage' = stage
  BY DEF PublishFrame, Publish, EndPass, subs
<1>2. Entries' = Entries /\ visited = {} /\ stage # "dispatch" /\ visited' = {}
  BY <1>1 DEF Entries, CurrentInv, CountInv, CallInv, WindowOK, ShownOK
<1>3. \A n : ValBefore(n)' = val[n]
  BY <1>1 DEF ValBefore
<1>4. ASSUME NEW h \in Handle, NEW n \in Node, Watches(h, n)'
      PROVE  Indexed(h, n)' /\ (h \in misled' \/ Shown(h, n)')
  <2>1. Watches(h, n) /\ Indexed(h, n) /\ (h \in misled \/ Shown(h, n))
    BY <1>1, <1>4 DEF Watches, Open, CurrentInv, ShownOK
  <2>2. Indexed(h, n)'
    BY <1>1, <1>2, <2>1 DEF Indexed
  <2>3. group[h].nodes = {n} /\ n \in HeadsOf(Entries)
    BY <2>1, WatchedNode, WatchedHead DEF CurrentInv, CountInv, CallInv
  <2>4. CASE n \in seed \cup changed /\ AnyChangedInputHasSubscriber
    <3>1. <<h, n>> \in Waiting'
      BY <1>1, <1>2, <2>1, <2>4 DEF Waiting, Indexed
    <3> QED
      BY <1>1, <2>2, <2>4, <3>1 DEF Shown
  <2>5. CASE n \in seed \cup changed /\ ~AnyChangedInputHasSubscriber
    <3>1. ~(\A d \in StaleBefore \cap changed : d # n /\ d \notin Upstream(deps, n))
      BY <1>1, <2>3, <2>5, GateOpens DEF CurrentInv
    <3>2. PICK d \in StaleBefore \cap changed : d = n \/ d \in Upstream(deps, n)
      BY <3>1
    <3>3. n \notin seed
      <4>1. deps \in Edges /\ HeadsOf(Entries) \in SUBSET Node /\ seed \subseteq Input
        BY Facts, EntriesTyped DEF CurrentInv, CountInv, CallInv, Types, Edges, HeadsOf
      <4>2. n \in Reach(deps, HeadsOf(Entries))
        BY <2>3, <4>1, ReachIs
      <4> QED
        BY <1>1, <2>5, <4>1, <4>2, FlagIsUp DEF CurrentInv, AnyChangedInputHasSubscriber
    <3>4. h \in PassedOver
      BY <2>1, <2>3, <2>5, <3>2, <3>3 DEF PassedOver, Watches
    <3> QED
      BY <1>1, <2>2, <3>4
  <2>6. CASE n \notin seed \cup changed
    <3>1. val[n] = ValBefore(n)
      <4>1. CASE n \in DOMAIN undo
        <5>1. n \in stable
          BY <1>1, <2>6, <4>1 DEF CurrentInv, CountInv, IInv, FrameOK, OutcomesOK
        <5> QED
          BY <1>1, <5>1 DEF CurrentInv, CountInv, IInv, OutcomesOK
      <4> QED
        BY <4>1 DEF ValBefore
    <3>2. CASE h \in misled
      BY <1>1, <2>2, <2>3, <2>6, <3>2
    <3>3. CASE Shown(h, n)
      <4>1. seen[h][n] = val[n]
        BY <1>1, <1>2, <3>1, <3>3 DEF Shown
      <4> QED
        BY <1>1, <1>3, <2>2, <4>1 DEF Shown
    <3> QED
      BY <2>1, <3>2, <3>3
  <2> QED
    BY <2>4, <2>5, <2>6
<1> QED
  BY <1>1, <1>2, <1>4 DEF CurrentInv, ShownOK

LEMMA DeliverShown ==
  ASSUME CurrentInv, NEW e \in Handle \X Node, Deliver(e)
  PROVE  ShownOK'
<1> DEFINE g == e[1]
<1>1. /\ stage = "dispatch" /\ e \in Waiting /\ e \in Entries /\ phase = "idle"
      /\ UNCHANGED <<phase, val, undo, stage, round, group, newcomers, misled>>
      /\ visited' = visited \cup {e} /\ Entries' = Entries /\ g \in Handle
      /\ DOMAIN undo = {}
  BY DEF Deliver, Waiting, vars, CurrentInv, CountInv, CallInv, WindowOK, Entries, IInv, FrameOK
<1>2. \A n : ValBefore(n) = val[n] /\ ValBefore(n)' = val[n]
  BY <1>1 DEF ValBefore
<1>3. Waiting' = Waiting \ {e}
  BY <1>1 DEF Waiting
<1>4. /\ Fires(e) => last' = [last EXCEPT ![e] = val[e[2]]] /\ Call(g)
      /\ ~Fires(e) => UNCHANGED <<last, seen>>
  BY DEF Deliver
<1>5. DOMAIN seen = Handle
  BY DEF CurrentInv, ShownOK
<1>6. DOMAIN seen' = Handle /\ \A h \in Handle : h # g => seen'[h] = seen[h]
  BY <1>4, <1>5 DEF Call
<1>7. ASSUME NEW h \in Handle, NEW n \in Node, Watches(h, n)'
      PROVE  Indexed(h, n)' /\ (h \in misled' \/ Shown(h, n)')
  <2>1. Watches(h, n) /\ Indexed(h, n) /\ (h \in misled \/ Shown(h, n))
    BY <1>1, <1>7 DEF Watches, Open, CurrentInv, ShownOK
  <2>2. /\ group[h].nodes = {n} /\ n \in entries /\ EntriesOf(h) \subseteq {<<h, n>>}
        /\ n \in HeadsOf(Entries)
    BY <2>1, WatchedNode, WatchedHead DEF CurrentInv, CountInv, CallInv
  <2>3. CASE h = g
    <3>1. e = <<h, n>>
      BY <1>1, <2>2, <2>3 DEF EntriesOf
    <3>2. CASE Fires(e)
      <4>1. seen' = [seen EXCEPT ![h] = [x \in group[h].nodes |-> val[x]]]
        BY <1>4, <2>2, <2>3, <3>2 DEF Call
      <4>2. seen'[h][n] = val[n]
        BY <1>5, <2>2, <4>1
      <4>3. last'[<<h, n>>] = val[n]
        BY <1>1, <1>4, <3>1, <3>2 DEF Entries
      <4> QED
        BY <1>1, <1>2, <2>1, <4>2, <4>3 DEF Indexed, Shown
    <3>3. CASE ~Fires(e)
      <4>1. last[e] = val[n]
        BY <2>1, <2>3, <3>1, <3>3 DEF Fires, GroupHasFired, Watches
      <4> QED
        BY <1>1, <1>2, <1>4, <2>1, <3>1, <3>3, <4>1 DEF Indexed, Shown
    <3> QED
      BY <3>2, <3>3
  <2>4. CASE h # g
    <3>1. <<h, n>> # e /\ seen'[h] = seen[h]
      BY <1>6, <2>4
    <3>2. last'[<<h, n>>] = last[<<h, n>>]
      BY <1>4, <2>1, <3>1 DEF Indexed, Entries
    <3>3. Shown(h, n) => Shown(h, n)'
      BY <1>1, <1>2, <1>3, <3>1 DEF Shown
    <3> QED
      BY <1>1, <2>1, <3>1, <3>2, <3>3 DEF Indexed
  <2> QED
    BY <2>3, <2>4
<1> QED
  BY <1>1, <1>6, <1>7 DEF CurrentInv, ShownOK

LEMMA EndDispatchShown ==
  ASSUME CurrentInv, EndDispatch
  PROVE  ShownOK'
<1> DEFINE gone == UNION {EntriesOf(h) : h \in drops}
<1>1. /\ Remove(gone) /\ gone \in SUBSET Entries /\ Waiting = {} /\ phase = "idle"
      /\ visited' = {} /\ UNCHANGED <<phase, val, undo, newcomers>>
  BY DEF EndDispatch, Remove, EntriesOf, vars, CurrentInv, CountInv, CallInv, WindowOK
<1> HIDE DEF gone
<1>2. /\ DOMAIN seen' = Handle
      /\ \A g \in Handle, n \in Node : Watches(g, n)' =>
            /\ Watches(g, n) /\ Indexed(g, n)' /\ seen'[g] = seen[g]
            /\ g \in misled => g \in misled'
  BY <1>1, RemoveShown DEF CurrentInv, CountInv, CallInv
<1>3. ASSUME NEW g \in Handle, NEW n \in Node, Watches(g, n)'
      PROVE  Indexed(g, n)' /\ (g \in misled' \/ Shown(g, n)')
  <2>1. Watches(g, n) /\ Indexed(g, n)' /\ seen'[g] = seen[g] /\ (g \in misled => g \in misled')
    BY <1>2, <1>3
  <2>2. g \in misled \/ Shown(g, n)
    BY <2>1 DEF CurrentInv, ShownOK
  <2>3. Shown(g, n) => Shown(g, n)'
    BY <1>1, <2>1 DEF Shown, ValBefore
  <2> QED
    BY <2>1, <2>2, <2>3
<1> QED
  BY <1>1, <1>2, <1>3 DEF CurrentInv, ShownOK

LEMMA WalkShown ==
  ASSUME CurrentInv, NEW d \in Derived, WalkNode(d)
  PROVE  ShownOK'
<1>1. /\ phase = "walk" /\ phase' \in {"walk", "failed"} /\ stage' = stage
      /\ UNCHANGED <<group, last, seen, round, visited, newcomers, misled>> /\ Walk(d)
      /\ val' = val \/ val' = [val EXCEPT ![d] = ResultNow(d)]
  BY DEF WalkNode, Walk, Skip, Compute, ComputeThrows, CycleThrows, Store, graph, pass,
         subs, deliver, history
<1>2. \A i \in Input : val'[i] = val[i]
  <2>1. \A i \in Input : i # d /\ i \in DOMAIN val
    BY NodesAssumption, NodeKinds, Facts DEF CurrentInv, CountInv, Types, Valuation
  <2> QED
    BY <1>1, <2>1
<1>3. HeadsOf(Entries) \subseteq Node
  BY EntriesTyped DEF HeadsOf, CurrentInv, CountInv, CallInv
<1>4. \A n \in HeadsOf(Entries) : ValBefore(n)' = ValBefore(n)
  BY <1>1, <1>3, WalkBefore DEF CurrentInv, CountInv
<1> QED
  BY <1>1, <1>2, <1>4, QuietShown DEF CurrentInv, CountInv

LEMMA RollbackShown ==
  ASSUME CurrentInv,
         \/ \E d \in Derived : RestoreNode(d) \/ Spin(d)
         \/ (LeaveUnpublished \/ RestoreInputs) /\ stage # "hung" /\ UNCHANGED subVars
  PROVE  ShownOK'
<1>1. /\ phase # "idle" /\ phase' = "failed" /\ stage # "dispatch" /\ stage' # "dispatch"
      /\ UNCHANGED <<group, last, seen, round, visited, newcomers, misled>>
  BY DEF RestoreNode, RestoreDerived, Spin, LeaveUnpublished, RestoreInputs, vars, graph, subVars,
         subs, deliver, history, CurrentInv, CountInv, CallInv, WindowOK
<1>2. HeadsOf(Entries) \subseteq Node
  BY EntriesTyped DEF HeadsOf, CurrentInv, CountInv, CallInv
<1>3. \A n \in Node : ValBefore(n)' = ValBefore(n)
  <2>1. CASE \E d \in Derived : RestoreNode(d)
    BY <2>1, RestoreDerivedBefore DEF RestoreNode, CurrentInv, CountInv
  <2>2. CASE RestoreInputs
    BY <2>2, RestoreInputsBefore DEF CurrentInv, CountInv
  <2>3. CASE LeaveUnpublished \/ \E d \in Derived : Spin(d)
    BY <2>3 DEF LeaveUnpublished, Spin, vars, ValBefore
  <2> QED
    BY <2>1, <2>2, <2>3
<1> QED
  BY <1>1, <1>2, <1>3, QuietShown DEF CurrentInv, CountInv

\* The frame is taken back, and who subscribed in its body may have seen what
\* was never published.
LEMMA TakenBackShown ==
  ASSUME CurrentInv, TakenBack
  PROVE  ShownOK'
<1>1. /\ UNCHANGED <<val, undo, group, last, stage, visited, seen>> /\ phase' = "idle"
      /\ newcomers' = {} /\ misled' = misled \cup newcomers /\ stage # "dispatch"
  BY DEF TakenBack, Abort, EndPass, subs, deliver, CurrentInv, CountInv, CallInv, WindowOK
<1>2. ASSUME NEW h \in Handle, NEW n \in Node, Watches(h, n)'
      PROVE  Indexed(h, n)' /\ (h \in misled' \/ Shown(h, n)')
  <2>1. Indexed(h, n) /\ (h \in misled \/ Shown(h, n))
    BY <1>1, <1>2 DEF Watches, Open, CurrentInv, ShownOK
  <2> QED
    BY <1>1, <2>1 DEF Indexed, Entries, Shown, ValBefore
<1> QED
  BY <1>1, <1>2 DEF CurrentInv, ShownOK

LEMMA StepShown == CurrentInv /\ [SubNext]_allVars => ShownOK'
<1> SUFFICES ASSUME CurrentInv, [SubNext]_allVars PROVE ShownOK'
  OBVIOUS
<1>1. CASE UNCHANGED allVars
  <2>1. UNCHANGED <<group, last, seen, round, visited, newcomers, misled, stage, phase, val, undo>>
    BY <1>1 DEF allVars, vars, subVars, subs, deliver, history
  <2> QED
    BY <2>1, QuietShown DEF CurrentInv, CountInv, ValBefore, ShownOK
<1>2. CASE FrameStep
  BY <1>2, WalkShown, RollbackShown, PublishShown, TakenBackShown, DeliverShown,
     EndDispatchShown DEF FrameStep
<1> QED
  BY <1>1, <1>2, CallerShown, DisposeShown, RegisterShown, BeginShown DEF SubNext

\* Between frames an observer of a single node has the present value of its node:
\* it was called whenever the node changed, however the gate, the walk and the
\* rollbacks went, unless a stale node changed or its body was taken back.
THEOREM ObserversKeepUp == SubSpec => []ObserversAreCurrent
<1>1. SubInit => CountsOK /\ CallInv /\ CauseInv /\ ShownOK
  BY InitCounts, InitCalls, InitShown DEF SubInit, Init, CauseInv
<1>2. IInv /\ CycleInv /\ CallInv /\ CountsOK /\ CauseInv /\ ShownOK /\ [SubNext]_allVars
        => CallInv' /\ CountsOK' /\ ShownOK'
  BY StepCalls, StepCounts, StepShown DEF CountInv, CurrentInv
<1>3. [SubNext]_allVars => [Next]_vars
  BY StepOfGraph
<1>4. IInv /\ CauseInv /\ [SubNext]_allVars => CauseInv'
  BY <1>3, StepCause
<1>5. IInv /\ CallInv /\ CountsOK /\ ShownOK => ObserversAreCurrent
  <2> SUFFICES ASSUME IInv, CallInv, CountsOK, ShownOK, AtRest,
                      NEW h \in Handle \ misled, Open(h), ~group[h].many,
                      NEW n \in group[h].nodes \cap entries
               PROVE  seen[h][n] = val[n]
    BY DEF ObserversAreCurrent, Current
  <2>1. n \in Node /\ DOMAIN undo = {} /\ newcomers = {} /\ stage # "dispatch"
    BY Facts DEF Types, AtRest, IInv, FrameOK, ShownOK
  <2>2. Watches(h, n)
    BY DEF Watches
  <2>3. Shown(h, n)
    BY <2>1, <2>2 DEF ShownOK
  <2> QED
    BY <2>1, <2>3 DEF Shown, ValBefore
<1> QED
  BY <1>1, <1>2, <1>4, <1>5, GraphInvariants, PTL DEF SubSpec

-----------------------------------------------------------------------------
(* Types.                                                                  *)

SubShapes ==
  /\ last \in [Entries -> Value] /\ unfired \subseteq Entries
  /\ stage \in {"quiet", "dispatch", "hung"}
  /\ round \subseteq Node /\ visited \subseteq Handle \X Node
  /\ fired \subseteq Handle /\ drops \subseteq Handle
  /\ newcomers \subseteq Handle /\ misled \subseteq Handle
  /\ \A h \in Handle : Open(h) => seen[h] \in [group[h].nodes -> Value]

TypedInv == CurrentInv /\ SubShapes

LEMMA ValTyped == ASSUME IInv PROVE \A n \in Node : val[n] \in Value
  BY Facts DEF Types, Valuation

LEMMA AddShapes ==
  ASSUME TypedInv, NEW h \in Handle, NEW w \in Watch, NEW shown, AddEntries(h, w, shown),
         \A n \in w.nodes : shown[n] \in Value,
         UNCHANGED <<stage, round, visited, fired, drops, misled>>, newcomers' \subseteq Handle
  PROVE  SubShapes'
<1> DEFINE added == {h} \X w.nodes
<1>1. /\ group' = [group EXCEPT ![h] = w]
      /\ seen' = [seen EXCEPT ![h] = [n \in w.nodes |-> shown[n]]]
      /\ last' = [e \in Entries \cup added |-> IF e \in added THEN shown[e[2]] ELSE last[e]]
      /\ unfired' \in {unfired, unfired \cup added} /\ Entries' = Entries \cup added
  BY DEF AddEntries, Entries
<1>2. /\ group'[h] = w /\ \A g \in Handle : g # h => group'[g] = group[g]
      /\ seen'[h] = [n \in w.nodes |-> shown[n]] /\ \A g \in Handle : g # h => seen'[g] = seen[g]
  BY <1>1 DEF TypedInv, CurrentInv, CountInv, CallInv, GroupsOK, ShownOK
<1>3. last' \in [Entries' -> Value] /\ unfired' \subseteq Entries'
  <2>1. \A e \in added : shown[e[2]] \in Value
    OBVIOUS
  <2>2. \A e \in Entries : last[e] \in Value
    BY DEF TypedInv, SubShapes
  <2> HIDE DEF added
  <2> QED
    BY <1>1, <2>1, <2>2 DEF TypedInv, SubShapes
<1>4. \A g \in Handle : Open(g)' => seen'[g] \in [group'[g].nodes -> Value]
  BY <1>2 DEF TypedInv, SubShapes, Open
<1> QED
  BY <1>3, <1>4 DEF TypedInv, SubShapes

LEMMA RemoveShapes ==
  ASSUME TypedInv, NEW gone, Remove(gone), stage' \in {"quiet", "dispatch", "hung"},
         round' \subseteq round, visited' \subseteq visited, fired' \subseteq fired,
         drops' \subseteq drops
  PROVE  SubShapes'
<1>1. /\ last' = [e \in Entries \ gone |-> last[e]] /\ unfired' = unfired \ gone
      /\ group' = [h \in Handle |-> IF EntriesOf(h) \subseteq gone THEN NoWatch ELSE group[h]]
      /\ seen' = [h \in Handle |-> IF EntriesOf(h) \subseteq gone THEN <<>> ELSE seen[h]]
      /\ misled' \subseteq misled /\ newcomers' = newcomers /\ Entries' = Entries \ gone
  BY DEF Remove, Entries
<1>2. last' \in [Entries' -> Value] /\ unfired' \subseteq Entries'
  BY <1>1 DEF TypedInv, SubShapes
<1>3. \A h \in Handle : Open(h)' => seen'[h] = seen[h] /\ group'[h] = group[h] /\ Open(h)
  BY <1>1 DEF Open
<1> QED
  BY <1>1, <1>2, <1>3 DEF TypedInv, SubShapes

LEMMA QuietShapes ==
  ASSUME TypedInv, UNCHANGED <<group, last, unfired, seen, visited, fired, drops>>,
         stage' \in {"quiet", "dispatch", "hung"}, round' \subseteq Node,
         newcomers' \subseteq Handle, misled' \subseteq Handle
  PROVE  SubShapes'
<1>1. Entries' = Entries
  BY DEF Entries
<1> QED
  BY <1>1 DEF TypedInv, SubShapes, Open

LEMMA DeliverShapes ==
  ASSUME TypedInv, NEW e \in Handle \X Node, Deliver(e)
  PROVE  SubShapes'
<1>1. /\ UNCHANGED <<group, stage, round, newcomers, misled, entries>> /\ Entries' = Entries
      /\ visited' = visited \cup {e} /\ e \in Entries
      /\ fired' \subseteq fired \cup {e[1]} /\ drops' \subseteq drops \cup {e[1]}
      /\ unfired' \subseteq unfired
  BY DEF Deliver, vars, graph, Entries, Waiting
<1>2. \A n \in Node : val[n] \in Value
  BY ValTyped DEF TypedInv, CurrentInv, CountInv
<1>3. last' \in [Entries' -> Value]
  BY <1>1, <1>2 DEF Deliver, TypedInv, SubShapes
<1>4. ASSUME NEW h \in Handle, Open(h)' PROVE seen'[h] \in [group'[h].nodes -> Value]
  <2>1. Open(h) /\ group'[h] = group[h] /\ seen[h] \in [group[h].nodes -> Value]
    BY <1>1, <1>4 DEF Open, TypedInv, SubShapes
  <2>2. group[h].nodes \subseteq Node
    BY <2>1, WatchAssumption DEF Open, TypedInv, CurrentInv, CountInv, CallInv, GroupsOK
  <2>3. seen' = seen \/ seen' = [seen EXCEPT ![e[1]] = [n \in group[e[1]].nodes |-> val[n]]]
    BY DEF Deliver, Call
  <2>4. seen'[h] = seen[h] \/ seen'[h] = [n \in group[h].nodes |-> val[n]]
    BY <2>3 DEF TypedInv, CurrentInv, ShownOK
  <2>5. CASE seen'[h] = [n \in group[h].nodes |-> val[n]]
    BY <1>2, <2>1, <2>2, <2>5
  <2> QED
    BY <2>1, <2>4, <2>5
<1> QED
  BY <1>1, <1>3, <1>4 DEF TypedInv, SubShapes

LEMMA FrameShapes == ASSUME TypedInv, FrameStep PROVE SubShapes'
<1>1. CASE \E d \in Derived : WalkNode(d) \/ RestoreNode(d) \/ Spin(d)
  BY <1>1, QuietShapes
  DEF WalkNode, RestoreNode, Spin, subs, deliver, history, TypedInv, SubShapes
<1>2. CASE PublishFrame
  <2>1. /\ UNCHANGED <<group, last, unfired, seen, visited, fired, drops>> /\ newcomers' = {}
        /\ stage' \in {"dispatch", stage} /\ round' \in {seed \cup changed, round}
        /\ misled' \subseteq misled \cup PassedOver
    BY <1>2 DEF PublishFrame, subs
  <2>2. PassedOver \subseteq Handle /\ seed \cup changed \subseteq Node
    BY Facts, NodeKinds DEF PassedOver, TypedInv, CurrentInv, CountInv, Types, PlanType
  <2> QED
    BY <2>1, <2>2, QuietShapes DEF TypedInv, SubShapes
<1>3. CASE (LeaveUnpublished \/ RestoreInputs) /\ stage # "hung" /\ UNCHANGED subVars
  BY <1>3, QuietShapes DEF subVars, subs, deliver, history, TypedInv, SubShapes
<1>4. CASE TakenBack
  BY <1>4, QuietShapes DEF TakenBack, subs, deliver, TypedInv, SubShapes
<1>5. CASE EndDispatch
  <2> DEFINE gone == UNION {EntriesOf(h) : h \in drops}
  <2>1. /\ Remove(gone) /\ stage' = "quiet"
        /\ round' = {} /\ visited' = {} /\ fired' = {} /\ drops' = {}
    BY <1>5 DEF EndDispatch
  <2> HIDE DEF gone
  <2> QED
    BY <2>1, RemoveShapes
<1> QED
  BY <1>1, <1>2, <1>3, <1>4, <1>5, DeliverShapes DEF FrameStep

LEMMA StepShapes == TypedInv /\ [SubNext]_allVars => SubShapes'
<1> SUFFICES ASSUME TypedInv, [SubNext]_allVars PROVE SubShapes'
  OBVIOUS
<1>1. ASSUME NEW h \in Handle, NEW w \in Watch, Subscribe(h, w) PROVE SubShapes'
  <2>1. AddEntries(h, w, val) /\ UNCHANGED <<stage, round, visited, fired, drops, misled, newcomers>>
    BY <1>1 DEF Subscribe, deliver
  <2>2. \A n \in w.nodes : val[n] \in Value
    BY ValTyped, WatchAssumption DEF TypedInv, CurrentInv, CountInv
  <2> QED
    BY <2>1, <2>2, AddShapes DEF TypedInv, SubShapes
<1>2. ASSUME NEW h \in Handle, Unsubscribe(h) PROVE SubShapes'
  <2>1. Remove(EntriesOf(h)) /\ UNCHANGED <<stage, round, visited, fired, drops>>
    BY <1>2 DEF Unsubscribe, deliver
  <2> QED
    BY <2>1, RemoveShapes DEF TypedInv, SubShapes
<1>3. ASSUME NEW n \in Node, DisposeNode(n) PROVE SubShapes'
  <2>1. /\ Remove({e \in Entries : e[2] = n})
        /\ UNCHANGED <<stage, round, visited, fired, drops>>
    BY <1>3 DEF DisposeNode, deliver
  <2> QED
    BY <2>1, RemoveShapes DEF TypedInv, SubShapes
<1>4. ASSUME NEW m \in {"commit", "simulate"}, NEW w \in [Input -> Value],
             NEW h \in Handle, NEW watch \in Watch, SubscribeInBody(m, w, h, watch)
      PROVE  SubShapes'
  <2>1. /\ AddEntries(h, watch, InBody(w)) /\ newcomers' = {h}
        /\ UNCHANGED <<stage, round, visited, fired, drops, misled>>
    BY <1>4 DEF SubscribeInBody, deliver
  <2>2. \A n \in watch.nodes : InBody(w)[n] \in Value
    BY ValTyped, WatchAssumption DEF TypedInv, CurrentInv, CountInv, InBody
  <2> QED
    BY <2>1, <2>2, AddShapes
<1>5. ASSUME UNCHANGED subVars PROVE SubShapes'
  BY <1>5, QuietShapes DEF subVars, subs, deliver, history, TypedInv, SubShapes
<1>6. CASE FrameStep
  BY <1>6, FrameShapes
<1> QED
  BY <1>1, <1>2, <1>3, <1>4, <1>5, <1>6 DEF SubNext, Register, BeginFrame, allVars

\* What the state of the observers is made of, whoever they are.
LEMMA ObserversTyped == SubSpec => []SubTypeOK
<1>1. SubInit => CountsOK /\ CallInv /\ CauseInv /\ ShownOK /\ SubShapes
  <2>1. SubInit => SubShapes
    BY DEF SubInit, SubShapes, Entries, Open
  <2> QED
    BY <2>1, InitCounts, InitCalls, InitShown DEF SubInit, Init, CauseInv
<1>2. IInv /\ CycleInv /\ CallInv /\ CountsOK /\ CauseInv /\ ShownOK /\ SubShapes
        /\ [SubNext]_allVars => CallInv' /\ CountsOK' /\ ShownOK' /\ SubShapes'
  BY StepCalls, StepCounts, StepShown, StepShapes DEF CountInv, CurrentInv, TypedInv
<1>3. IInv /\ CauseInv /\ [SubNext]_allVars => CauseInv'
  BY StepOfGraph, StepCause
<1>4. CallInv /\ CountsOK /\ SubShapes => SubTypeOK
  BY EntriesTyped DEF CallInv, GroupsOK, CallsMarked, CountsOK, SubShapes, SubTypeOK
<1> QED
  BY <1>1, <1>2, <1>3, <1>4, GraphInvariants, PTL DEF SubSpec
=============================================================================
