------------------------------ MODULE Subscribers ------------------------------
(***************************************************************************)
(* Observers of packages/core/src/graph.ts on top of Recompute: subscribe, *)
(* subscribeMany, unsubscribe and transient subscriptions, the subscriber  *)
(* refcounts that setDeps keeps along the dependency edges, the gate that  *)
(* lets a commit skip Phase G when no changed input has a downstream       *)
(* subscriber, and Phase G itself.                                         *)
(*                                                                         *)
(* A tx body may subscribe too, and is shown what it wrote into a cell     *)
(* nothing depends on. An observer may subscribe, unsubscribe and register *)
(* nodes from inside its call. What it throws is reported and changes      *)
(* nothing but hasFired, which the first call alone can leave FALSE.       *)
(***************************************************************************)
EXTENDS Recompute, Sequences

CONSTANTS Handle,   \* one per call of subscribe or subscribeMany
          Watch,    \* what may be subscribed to, see WatchAssumption
          NoWatch

ASSUME WatchAssumption ==
  /\ Watch \subseteq [nodes : SUBSET Node, many : BOOLEAN, transient : BOOLEAN]
  /\ NoWatch \notin Watch
  /\ \A w \in Watch : w.many \/ \E n \in Node : w.nodes = {n}

\* A graph has so many nodes.
ASSUME FiniteGraph == IsFiniteSet(Node)

VARIABLES
  group,      \* the subscription behind a handle, NoWatch once disposed
  last,       \* SubscriptionEntry.lastValue, for the entries <<h, n>> present
  unfired,    \* the entries with hasFired = FALSE
  refcount,   \* subscriberRefcount
  watched,    \* InputEntry.hasDownstreamSubscriber
  stage,      \* "dispatch" in Phase G, "hung" in a walk that cannot end
  round,      \* the changed nodes Phase G runs over
  visited,    \* the entries it has come past
  fired,      \* firedManyGroups
  drops,      \* pendingTransientDrops
  seen,       \* history: the values the observer of a handle got last
  called,     \* history: who was called by Phase G, for transients ever
  newcomers,  \* history: who was shown in this frame's body what it had written
  misled      \* history: those of frames since taken back, and who was passed over,
              \* until their node changes

counts  == <<refcount, watched>>
subs    == <<group, last, unfired>>
deliver == <<round, visited, fired, drops>>
history == <<seen, called, newcomers, misled>>
subVars == <<subs, counts, stage, deliver, history>>
allVars == <<vars, subVars>>

Entries     == DOMAIN last
EntriesOf(h) == {e \in Entries : e[1] = h}
Open(h)      == group[h] # NoWatch

SubTypeOK ==
  /\ group \in [Handle -> Watch \cup {NoWatch}]
  /\ Entries \subseteq Handle \X Node /\ last \in [Entries -> Value]
  /\ unfired \subseteq Entries
  /\ refcount \in [Node -> Int] /\ watched \in [Input -> BOOLEAN]
  /\ stage \in {"quiet", "dispatch", "hung"}
  /\ round \subseteq Node /\ visited \subseteq Handle \X Node
  /\ {fired, drops, called, newcomers, misled} \subseteq SUBSET Handle
  /\ \A h \in Handle : Open(h) => seen[h] \in [group[h].nodes -> Value]

-----------------------------------------------------------------------------
(* Refcounts.  bumpSubscriberRefcountUp keeps a stack and no visited set:  *)
(* it counts the paths from its start, and ends only if they are finite.   *)

\* The paths from S to n, each as the derived nodes it goes through before n.
\* Without a cycle no node is passed twice.
Stop(p, n, i) == IF i <= Len(p) THEN p[i] ELSE n

Routes(edges, S, n) ==
  {p \in UNION {[1..k -> Derived] : k \in 0..Cardinality(Derived)} :
     /\ Stop(p, n, 1) \in S
     /\ \A i \in 1..Len(p) : Stop(p, n, i + 1) \in edges[p[i]]}

PathsFrom(starts, n) == Cardinality(Routes(deps, starts, n))

\* The paths to n from a set of entries, each a start of its own.
EntryRoutes(edges, es, n) == UNION {{e} \X Routes(edges, {e[2]}, n) : e \in es}

PathsFromEntries(es, n) == Cardinality(EntryRoutes(deps, es, n))

Bump(Delta(_)) ==
  /\ refcount' = [n \in Node |-> refcount[n] + Delta(n)]
  /\ watched' = [i \in Input |-> IF Delta(i) = 0 THEN watched[i]
                                 ELSE IF refcount'[i] = 0 THEN FALSE
                                 ELSE watched[i] \/ refcount'[i] > 0]

\* setDeps moves the count of d from the paths through the dropped edges to
\* the paths through the gained ones.
RebindGainedOnly(d, next) ==
  Bump(LAMBDA n : refcount[d] * PathsFrom(next \ deps[d], n))

Rebind(d, next) ==
  Bump(LAMBDA n : refcount[d] * (PathsFrom(next \ deps[d], n) - PathsFrom(deps[d] \ next, n)))

\* One of the walks of that setDeps starts on a path into a cycle.
Spins(d, next) ==
  /\ refcount[d] # 0
  /\ \E s \in Derived \cap ((next \ deps[d]) \cup (deps[d] \ next)) :
       \E c \in Derived : /\ c = s \/ c \in Upstream(deps, s)
                          /\ c \in Upstream(deps, c)

-----------------------------------------------------------------------------

SubInit ==
  /\ Init
  /\ group = [h \in Handle |-> NoWatch]
  /\ last = [e \in {} |-> 0] /\ unfired = {}
  /\ refcount = [n \in Node |-> 0] /\ watched = [i \in Input |-> FALSE]
  /\ stage = "quiet"
  /\ round = {} /\ visited = {} /\ fired = {} /\ drops = {}
  /\ seen = [h \in Handle |-> <<>>] /\ called = {} /\ newcomers = {} /\ misled = {}

\* Between frames, or inside a call of an observer by Phase G.
CallerRuns == /\ phase = "idle"
              /\ stage = "quiet" \/ (stage = "dispatch" /\ visited # {})

\* subscribe, subscribeMany: unknown nodes throw, the entries are added and
\* counted, and the observer gets the values it is shown at once.
AddEntries(h, w, shown) ==
  /\ ~Open(h) /\ h \notin called \cup drops
  /\ w.nodes \subseteq entries
  /\ LET added == {h} \X w.nodes
     IN /\ group' = [group EXCEPT ![h] = w]
        /\ last' = [e \in Entries \cup added |-> IF e \in added THEN shown[e[2]] ELSE last[e]]
        /\ unfired' \in {unfired, unfired \cup added}
        /\ Bump(LAMBDA n : PathsFromEntries(added, n))
  /\ seen' = [seen EXCEPT ![h] = [n \in w.nodes |-> shown[n]]]

Subscribe(h, w) ==
  /\ CallerRuns
  /\ AddEntries(h, w, val)
  /\ UNCHANGED <<vars, stage, deliver, called, newcomers, misled>>

RemoveKeepsFlags(gone) ==
  /\ last' = [e \in Entries \ gone |-> last[e]]
  /\ group' = [h \in Handle |-> IF EntriesOf(h) \subseteq gone THEN NoWatch ELSE group[h]]
  /\ seen' = [h \in Handle |-> IF EntriesOf(h) \subseteq gone THEN <<>> ELSE seen[h]]
  /\ misled' = {h \in misled : ~(EntriesOf(h) \subseteq gone)}
  /\ UNCHANGED <<unfired, newcomers>>

\* Entries leave the index; a subscription with no entry left is over.
Remove(gone) ==
  /\ last' = [e \in Entries \ gone |-> last[e]]
  /\ unfired' = unfired \ gone
  /\ group' = [h \in Handle |-> IF EntriesOf(h) \subseteq gone THEN NoWatch ELSE group[h]]
  /\ seen' = [h \in Handle |-> IF EntriesOf(h) \subseteq gone THEN <<>> ELSE seen[h]]
  /\ misled' = {h \in misled : ~(EntriesOf(h) \subseteq gone)}
  /\ UNCHANGED newcomers

\* The closure subscribe returned, and disposeManyGroup.
Unsubscribe(h) ==
  /\ CallerRuns
  /\ Open(h)
  /\ Remove(EntriesOf(h))
  /\ Bump(LAMBDA n : -PathsFromEntries(EntriesOf(h), n))
  /\ called' = IF stage = "quiet" THEN called \ {h} ELSE called
  /\ UNCHANGED <<vars, stage, deliver>>

\* _dispose drops the entries of the node: those of a group too, which stays.
DisposeNode(n) ==
  /\ stage = "quiet"
  /\ Dispose(n)
  /\ LET gone == {e \in Entries : e[2] = n}
     IN /\ Remove(gone)
        /\ Bump(LAMBDA m : -PathsFromEntries(gone, m))
        /\ called' = {h \in called : ~(EntriesOf(h) \subseteq gone)}
  /\ UNCHANGED <<stage, deliver>>

Register ==
  /\ CallerRuns
  /\ \/ \E i \in Input, v \in Value : RegisterInput(i, v)
     \/ \E d \in Derived, p \in Program : RegisterDerived(d, p)
  /\ UNCHANGED subVars

BeginFrame(m, w) == stage = "quiet" /\ Begin(m, w) /\ UNCHANGED subVars

\* The tx body subscribes after its writes.  A cell without dependents was
\* written directly and is read as it is now; other writes wait in their rows,
\* and to subscribe to what they change is as good as to have done so before.
InBody(w) ==
  [n \in Node |-> IF n \in Input /\ ~hasDependents[n] THEN w[n] ELSE val[n]]

SubscribeInBody(m, w, h, watch) ==
  /\ stage = "quiet" /\ Begin(m, w)
  /\ \E n \in watch.nodes : InBody(w)[n] # val[n]
  /\ AddEntries(h, watch, InBody(w))
  /\ newcomers' = {h}
  /\ UNCHANGED <<stage, deliver, called, misled>>

WalkNode(d) ==
  /\ \/ Skip(d) /\ UNCHANGED counts
     \/ ComputeThrows(d) /\ UNCHANGED counts
     \/ (Compute(d) \/ CycleThrows(d)) /\ Rebind(d, ReadsNow(d))
  /\ UNCHANGED <<subs, stage, deliver, history>>

\* The catch arm calls setDeps while the edges of the failed pass are there.
RestoreNode(d) ==
  /\ stage # "hung"
  /\ RestoreDerived(d)
  /\ ~Spins(d, undo[d].deps)
  /\ Rebind(d, undo[d].deps)
  /\ UNCHANGED <<subs, stage, deliver, history>>

Spin(d) ==
  /\ phase = "failed"
  /\ DOMAIN undo \cap Input = {} /\ d \in DOMAIN undo
  /\ Spins(d, undo[d].deps)
  /\ stage' = "hung"
  /\ UNCHANGED <<vars, subs, counts, deliver, history>>

\* Phase G is entered only if a changed input has a subscriber downstream.
AnyDependentChanged          == changed # {}
AnyChangedInputHasSubscriber == \E i \in seed : watched[i]

\* The nodes whose value was not what their compute gives when the frame opened
\* (see GlitchFree), and who watches one of them, or a node that depends on one,
\* in a commit that has no Phase G.
StaleBefore ==
  LET before == [n \in Node |-> Before[n][1]]
  IN {d \in Live : before[d] # Eval(compute[d], before)}

PassedOver ==
  IF AnyChangedInputHasSubscriber THEN {}
  ELSE {h \in Handle :
          /\ Open(h)
          /\ \E n \in group[h].nodes \cap changed, d \in StaleBefore \cap changed :
               d = n \/ d \in Upstream(deps, n)}

PublishFrame ==
  /\ Publish
  /\ IF AnyChangedInputHasSubscriber
     THEN stage' = "dispatch" /\ round' = seed \cup changed
     ELSE UNCHANGED <<stage, round>>
  /\ newcomers' = {}
  /\ misled' = {h \in misled : group[h].nodes \cap (seed \cup changed) = {}} \cup PassedOver
  /\ UNCHANGED <<subs, counts, visited, fired, drops, seen, called>>

\* Commit throws, or simulate returns: the entries of the body stay.
TakenBack ==
  /\ stage # "hung" /\ Abort
  /\ newcomers' = {} /\ misled' = misled \cup newcomers
  /\ UNCHANGED <<subs, counts, stage, deliver, seen, called>>

Waiting == {e \in Entries \ visited : e[2] \in round}

\* The observer is called: a group reads all its nodes first, and is not
\* called when one of them has been disposed.
Call(h) ==
  IF group[h].nodes \subseteq entries
  THEN /\ seen' = [seen EXCEPT ![h] = [n \in group[h].nodes |-> val[n]]]
       /\ called' = called \cup {h}
  ELSE UNCHANGED <<seen, called>>

GroupHasFired(h) == group[h].many /\ h \in fired

Fires(e) == ~GroupHasFired(e[1]) /\ (e \in unfired \/ last[e] # val[e[2]])

\* One entry of one bucket: inputs come first in the changed set.
Deliver(e) ==
  /\ stage = "dispatch"
  /\ e \in Waiting
  /\ e[2] \in Derived => \A x \in Waiting : x[2] \in Derived
  /\ visited' = visited \cup {e}
  /\ IF Fires(e)
     THEN /\ last' = [last EXCEPT ![e] = val[e[2]]]
          /\ unfired' = unfired \ {e}
          /\ Call(e[1])
          /\ fired' = IF group[e[1]].many THEN fired \cup {e[1]} ELSE fired
          /\ drops' = IF group[e[1]].transient THEN drops \cup {e[1]} ELSE drops
     ELSE UNCHANGED <<last, unfired, seen, called, fired, drops>>
  /\ UNCHANGED <<vars, group, counts, stage, round, newcomers, misled>>

\* The finally block drops the transient subscriptions that fired, with the
\* other entries of their group, and the commit window closes.
EndDispatch ==
  /\ stage = "dispatch"
  /\ Waiting = {}
  /\ LET gone == UNION {EntriesOf(h) : h \in drops}
     IN /\ Remove(gone)
        /\ Bump(LAMBDA n : -PathsFromEntries(gone, n))
        /\ called' = {h \in called : Open(h) /\ group[h].transient /\ ~(EntriesOf(h) \subseteq gone)}
  /\ stage' = "quiet"
  /\ round' = {} /\ visited' = {} /\ fired' = {} /\ drops' = {}
  /\ UNCHANGED vars

FrameStep ==
  \/ \E d \in Derived : WalkNode(d) \/ RestoreNode(d) \/ Spin(d)
  \/ PublishFrame
  \/ (LeaveUnpublished \/ RestoreInputs) /\ stage # "hung" /\ UNCHANGED subVars
  \/ TakenBack
  \/ \E e \in Handle \X Node : Deliver(e)
  \/ EndDispatch

SubNext ==
  \/ \E h \in Handle : Unsubscribe(h) \/ \E w \in Watch : Subscribe(h, w)
  \/ \E n \in Node : DisposeNode(n)
  \/ Register
  \/ \E m \in {"commit", "simulate"}, w \in [Input -> Value] :
       BeginFrame(m, w) \/ \E h \in Handle, watch \in Watch : SubscribeInBody(m, w, h, watch)
  \/ FrameStep

SubSpec == SubInit /\ [][SubNext]_allVars

-----------------------------------------------------------------------------
(* Correctness.                                                            *)

AtRest == phase = "idle" /\ stage = "quiet"

\* The refcount of a node is the number of paths by which a change of it can
\* reach a subscription, kept across registrations, rewiring in the walk,
\* rollbacks, simulations, disposals and transient drops; an input is flagged
\* iff there is one.  A count that is too low closes the gate of Phase G on a
\* subscriber for ever.
RefcountsCountPaths ==
  phase = "idle" =>
    /\ \A n \in Node : refcount[n] = PathsFromEntries(Entries, n)
    /\ \A i \in Input : watched[i] <=> refcount[i] > 0

Current(h) == \A n \in group[h].nodes \cap entries : seen[h][n] = val[n]

\* Between frames every observer of a single node has last been called with
\* the node's present value: no commit whose gate was closed, whose walk
\* rewired the path to the node, or that failed, left it with an old one.  There
\* are two exceptions, and each lasts no longer than to the next change of the
\* node.  Who subscribed in the body of a frame that was taken back may have been
\* shown what never was published.  And a node that was stale before a commit
\* may change in it without reading anything that changed: then the gate finds
\* no path to it, and who watches it is passed over.
ObserversAreCurrent ==
  AtRest => \A h \in Handle \ misled : Open(h) /\ ~group[h].many => Current(h)

\* Phase G calls an observer at most once per commit, a group too when many of
\* its nodes changed, and a transient one in one commit only.
CalledOnce ==
  [][\A e \in Entries : Deliver(e) /\ Fires(e) => e[1] \notin called]_allVars

\* types.ts: the observer of subscribeMany is called "once per commit during
\* which any of the registered nodes' values changed", so between frames it
\* has seen the present values, as long as none of the nodes was disposed.
GroupsAreCurrent ==
  AtRest => \A h \in Handle :
    Open(h) /\ group[h].many /\ EntriesOf(h) = {h} \X group[h].nodes => Current(h)

\* SPEC.md 5.2: "After the catch arm runs, ... the throw propagates to the
\* caller": no rollback walks for ever.
RollbackReturns == stage # "hung"
=============================================================================
