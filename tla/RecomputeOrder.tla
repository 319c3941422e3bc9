---------------------------- MODULE RecomputeOrder ----------------------------
(***************************************************************************)
(* Recompute with the order the code walks in.  Recompute takes the ready  *)
(* nodes in any order and undoes them in any order; here the buckets of    *)
(* the dependents index remember the insertion order of their members (a   *)
(* JavaScript Set), Phase D runs Kahn's algorithm over a FIFO queue, and   *)
(* the catch arm follows the order of the rollback map.                    *)
(*                                                                         *)
(* Every step is a step of Recompute with one more constraint, so a bad    *)
(* order would show as a deadlock: the queue proposing a node Recompute    *)
(* does not consider ready.                                                *)
(***************************************************************************)
EXTENDS Recompute, SequencesExt

VARIABLES
  bucket,     \* bucket[n]: the members of dependents[n] in insertion order
  ready,      \* the FIFO queue of Kahn's algorithm
  indegree,   \* the planned predecessors not yet walked, per affected node
  planned,    \* the buckets when the pass started
  recorded    \* the derived nodes of the rollback map in insertion order

orderVars == <<bucket, ready, indegree, planned, recorded>>
allVars   == <<vars, orderVars>>

OrderInit ==
  /\ Init
  /\ bucket = [n \in Node |-> <<>>]
  /\ ready = <<>> /\ indegree = [d \in {} |-> 0]
  /\ planned = bucket /\ recorded = <<>>

\* Set.delete and Set.add on the buckets of the dropped and the gained nodes.

Rewire(d, next) ==
  bucket' = [n \in Node |->
    IF n \in next
    THEN IF Contains(bucket[n], d) THEN bucket[n] ELSE Append(bucket[n], d)
    ELSE RemoveFirst(bucket[n], d)]

\* Seeding walks the buckets of the changed inputs and discovers each of the
\* direct dependents where it meets it first.
Discovered(inputs) == UNION {ToSet(bucket[i]) : i \in ToSet(inputs)}

Sooner(inputs, d, e) ==
  \E g \in DOMAIN inputs : \E h \in DOMAIN bucket[inputs[g]] :
    /\ bucket[inputs[g]][h] = d
    /\ \A j \in 1..g : \A k \in DOMAIN bucket[inputs[j]] :
         bucket[inputs[j]][k] = e => j = g /\ k > h

Enqueue(inputs, S) ==
  \E queue \in SetToSeqs(S) :
    /\ \A j, k \in DOMAIN queue : j < k => Sooner(inputs, queue[j], queue[k])
    /\ ready' = queue

\* Only nodes that wait for nothing enter the queue.
QueueAll(inputs)  == Enqueue(inputs, Discovered(inputs))
QueueIdle(inputs) == Enqueue(inputs, {d \in Discovered(inputs) : indegree'[d] = 0})

OrderedBegin(m, w) ==
  /\ Begin(m, w) /\ IsFiniteSet(seed')   \* a body makes so many writes
  /\ planned' = bucket
  /\ indegree' = [d \in DOMAIN plan' |-> Cardinality(plan'[d])]
  /\ \E inputs \in SetToSeqs(seed') : QueueIdle(inputs)
  /\ UNCHANGED <<bucket, recorded>>

\* The members of s come in the order they have in t.
InOrderOf(s, t) ==
  \A j, k \in DOMAIN s : \A g, h \in DOMAIN t :
    j < k /\ s[j] = t[g] /\ s[k] = t[h] => g < h

\* The head of the queue is walked; its planned dependents lose one
\* predecessor and join the queue when none is left.
Advance(d) ==
  /\ ready # <<>> /\ d = Head(ready)
  /\ LET downstream == planned[d]
     IN /\ indegree' = [e \in DOMAIN indegree |->
             IF Contains(downstream, e) THEN indegree[e] - 1 ELSE indegree[e]]
        /\ \E joining \in SetToSeqs({e \in ToSet(downstream) : indegree'[e] = 0}) :
             InOrderOf(joining, downstream) /\ ready' = Tail(ready) \o joining
  /\ UNCHANGED planned

Noted(d) == recorded' = IF Contains(recorded, d) THEN recorded ELSE Append(recorded, d)

OrderedWalk(d) ==
  /\ Advance(d)
  /\ \/ Skip(d) /\ UNCHANGED <<bucket, recorded>>
     \/ ComputeThrows(d) /\ Noted(d) /\ UNCHANGED bucket
     \/ (Compute(d) \/ CycleThrows(d)) /\ Noted(d) /\ Rewire(d, ReadsNow(d))

OrderedRestore(d) ==
  /\ recorded # <<>> /\ d = Head(recorded)
  /\ RestoreDerived(d)
  /\ Rewire(d, undo[d].deps)
  /\ recorded' = Tail(recorded)
  /\ UNCHANGED <<ready, indegree, planned>>

Settle ==
  /\ Publish \/ Abort
  /\ ready' = <<>> /\ indegree' = [d \in {} |-> 0]
  /\ planned' = [n \in Node |-> <<>>] /\ recorded' = <<>>
  /\ UNCHANGED bucket

OrderNext ==
  \/ \E i \in Input, v \in Value : RegisterInput(i, v) /\ UNCHANGED orderVars
  \/ \E d \in Derived, p \in Program :
       /\ RegisterDerived(d, p)
       /\ Rewire(d, Reads(p, val))
       /\ UNCHANGED <<ready, indegree, planned, recorded>>
  \/ \E n \in Node : /\ Dispose(n)
                     /\ IF n \in Derived THEN Rewire(n, {}) ELSE UNCHANGED bucket
                     /\ UNCHANGED <<ready, indegree, planned, recorded>>
  \/ \E m \in {"commit", "simulate"}, w \in [Input -> Value] : OrderedBegin(m, w)
  \/ \E d \in Derived : OrderedWalk(d) \/ OrderedRestore(d)
  \/ (LeaveUnpublished \/ RestoreInputs) /\ UNCHANGED orderVars
  \/ Settle

OrderSpec == OrderInit /\ [][OrderNext]_allVars

\* The pipeline is one synchronous call: once entered it goes on.
OrderedPassStep == \/ \E d \in Derived : OrderedWalk(d) \/ OrderedRestore(d)
                   \/ (LeaveUnpublished \/ RestoreInputs) /\ UNCHANGED orderVars
                   \/ Settle
FairOrderSpec == OrderSpec /\ WF_allVars(OrderedPassStep)

-----------------------------------------------------------------------------

\* The queue of Kahn's algorithm never offers a node before the nodes it
\* waits for and never runs dry while affected nodes remain: the residue that
\* graph.ts reports as a cycle cannot occur on a graph without one.  The buckets
\* it is fed from list each dependent once, whatever rewiring and rollback did.
QueueIsReady ==
  /\ phase = "walk" =>
       /\ \A k \in DOMAIN ready : Ready(ready[k])
       /\ todo # {} => ready # <<>>
  /\ \A n \in Node : ToSet(bucket[n]) = dependents[n] /\ IsInjective(bucket[n])
=============================================================================
