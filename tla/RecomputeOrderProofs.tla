------------------------- MODULE RecomputeOrderProofs -------------------------
(***************************************************************************)
(* That the order the code walks in is one of those of Recompute, so that  *)
(* what RecomputeProofs proves of any topological order is so of the       *)
(* code's; and that Kahn's queue has a node to offer as long as one is     *)
(* left.                                                                   *)
(***************************************************************************)
EXTENDS RecomputeOrder, RecomputeProofs, SequenceTheorems

-----------------------------------------------------------------------------
(* The code's order.                                                       *)

\* Kahn's queue over the insertion-ordered buckets, and the rollback in the order
\* of the rollback map, take no step that Recompute does not allow.
THEOREM OrderIsTopological == OrderSpec => Spec
<1>1. OrderInit => Init
  BY DEF OrderInit
<1>2. [OrderNext]_allVars => [Next]_vars
  <2> SUFFICES ASSUME [OrderNext]_allVars PROVE [Next]_vars
    OBVIOUS
  <2>1. CASE OrderNext
    BY <2>1 DEF OrderNext, Next, OrderedBegin, OrderedWalk, OrderedRestore, Settle, Walk
  <2>2. CASE UNCHANGED allVars
    BY <2>2 DEF allVars
  <2> QED
    BY <2>1, <2>2
<1> QED
  BY <1>1, <1>2, PTL DEF OrderSpec, Spec

-----------------------------------------------------------------------------
(* Listings: the buckets and the queue.                                    *)

\* s lists the members of T, once each.
Lists(s, T) ==
  /\ s \in Seq(T)
  /\ \A j, k \in 1..Len(s) : s[j] = s[k] => j = k
  /\ \A e \in T : \E k \in 1..Len(s) : s[k] = e

LEMMA ListIs ==
  ASSUME NEW s, NEW T, Lists(s, T)
  PROVE  /\ ToSet(s) = T /\ IsInjective(s) /\ Len(s) \in Nat /\ DOMAIN s = 1..Len(s)
         /\ \A k \in 1..Len(s) : s[k] \in T
         /\ \A e : Contains(s, e) <=> e \in T
<1>1. s \in Seq(T) /\ Len(s) \in Nat /\ DOMAIN s = 1..Len(s) /\ \A k \in 1..Len(s) : s[k] \in T
  BY DEF Lists
<1>2. ToSet(s) = T /\ \A e : Contains(s, e) <=> e \in T
  BY <1>1 DEF Lists, ToSet, Contains
<1>3. IsInjective(s)
  BY <1>1 DEF Lists, IsInjective
<1> QED
  BY <1>1, <1>2, <1>3

LEMMA ListEmpty == Lists(<<>>, {})
  BY DEF Lists

LEMMA ListHead ==
  ASSUME NEW s, NEW T, Lists(s, T), s # <<>>
  PROVE  Head(s) \in T /\ Lists(Tail(s), T \ {Head(s)})
<1>1. PICK n \in Nat : n = Len(s)
  BY ListIs
<1>2. /\ s \in Seq(T) /\ n > 0 /\ Head(s) = s[1] /\ \A k \in 1..n : s[k] \in T
      /\ \A j, k \in 1..n : s[j] = s[k] => j = k
      /\ \A e \in T : \E k \in 1..n : s[k] = e
  BY <1>1 DEF Lists
<1>3. /\ Tail(s) \in Seq(T) /\ Len(Tail(s)) = n - 1 /\ n - 1 \in Nat
      /\ \A k \in 1..n - 1 : Tail(s)[k] = s[k + 1]
  BY <1>1, <1>2, HeadTailProperties
<1>4. PICK t : t = Tail(s)
  OBVIOUS
<1>5. \A k \in 1..n - 1 : t[k] = s[k + 1] /\ k + 1 \in 1..n /\ 1 \in 1..n /\ k + 1 # 1
  BY <1>2, <1>3, <1>4
<1>6. \A k \in 1..n - 1 : t[k] \in T \ {s[1]}
  BY <1>2, <1>5
<1>7. t \in Seq(T \ {s[1]})
  <2>1. PICK m \in Nat : m = n - 1
    BY <1>3
  <2>2. t \in Seq(T) /\ Len(t) = m
    BY <1>3, <1>4, <2>1
  <2>3. t \in [1..m -> T]
    BY <2>2
  <2>4. t \in [1..m -> T \ {s[1]}]
    BY <1>6, <2>1, <2>3
  <2> QED
    BY <2>4
<1>8. \A j, k \in 1..n - 1 : t[j] = t[k] => j = k
  <2> SUFFICES ASSUME NEW j \in 1..n - 1, NEW k \in 1..n - 1, t[j] = t[k] PROVE j = k
    OBVIOUS
  <2>1. j + 1 = k + 1
    BY <1>2, <1>5
  <2> QED
    BY <1>2, <2>1
<1>9. ASSUME NEW e \in T \ {s[1]} PROVE \E k \in 1..n - 1 : t[k] = e
  <2>1. PICK k \in 1..n : s[k] = e
    BY <1>2
  <2>2. k # 1 /\ k - 1 \in 1..n - 1 /\ (k - 1) + 1 = k
    BY <1>2, <2>1
  <2> QED
    BY <1>5, <2>1, <2>2
<1> QED
  BY <1>2, <1>3, <1>4, <1>7, <1>8, <1>9 DEF Lists

LEMMA ListConcat ==
  ASSUME NEW s, NEW T, NEW t, NEW U, Lists(s, T), Lists(t, U), T \cap U = {}
  PROVE  Lists(s \o t, T \cup U)
<1>1. PICK m \in Nat : m = Len(s)
  BY ListIs
<1>2. PICK n \in Nat : n = Len(t)
  BY ListIs
<1>3. s \in Seq(T \cup U) /\ t \in Seq(T \cup U)
  BY DEF Lists
<1>4. PICK r : r = s \o t
  OBVIOUS
<1>5. /\ r \in Seq(T \cup U) /\ Len(r) = m + n
      /\ \A k \in 1..m + n : r[k] = IF k <= m THEN s[k] ELSE t[k - m]
  BY <1>1, <1>2, <1>3, <1>4, ConcatProperties
<1>6. /\ \A k \in 1..m : k \in 1..m + n /\ r[k] = s[k] /\ s[k] \in T
      /\ \A k \in 1..n : m + k \in 1..m + n /\ r[m + k] = t[k] /\ t[k] \in U
  <2>1. \A k \in 1..m : k \in 1..m + n /\ k <= m /\ s[k] \in T
    BY <1>1, ListIs
  <2>2. \A k \in 1..n : m + k \in 1..m + n /\ ~(m + k <= m) /\ (m + k) - m = k /\ t[k] \in U
    BY <1>2, ListIs
  <2> QED
    BY <1>5, <2>1, <2>2
<1>7. \A k \in 1..m + n : k \in 1..m \/ \E i \in 1..n : k = m + i
  <2> SUFFICES ASSUME NEW k \in 1..m + n, k \notin 1..m PROVE \E i \in 1..n : k = m + i
    OBVIOUS
  <2>1. k - m \in 1..n /\ k = m + (k - m)
    OBVIOUS
  <2> QED
    BY <2>1
<1>8. ASSUME NEW j \in 1..m + n, NEW k \in 1..m + n, r[j] = r[k] PROVE j = k
  <2>1. CASE j \in 1..m /\ k \in 1..m
    BY <1>1, <1>6, <1>8, <2>1 DEF Lists
  <2>2. CASE \E i \in 1..n : j = m + i
    <3>1. PICK i \in 1..n : j = m + i
      BY <2>2
    <3>2. r[j] \in U /\ r[j] = t[i]
      BY <1>6, <3>1
    <3>3. k \notin 1..m
      BY <1>6, <1>8, <3>2
    <3>4. PICK h \in 1..n : k = m + h
      BY <1>7, <3>3
    <3>5. t[i] = t[h]
      BY <1>6, <1>8, <3>2, <3>4
    <3>6. i = h
      BY <1>2, <3>5 DEF Lists
    <3> QED
      BY <3>1, <3>4, <3>6
  <2>3. CASE j \in 1..m /\ \E i \in 1..n : k = m + i
    <3>1. PICK i \in 1..n : k = m + i
      BY <2>3
    <3>2. r[k] \in U /\ r[j] \in T
      BY <1>6, <2>3, <3>1
    <3> QED
      BY <1>8, <3>2
  <2> QED
    BY <1>7, <2>1, <2>2, <2>3
<1>9. ASSUME NEW e \in T \cup U PROVE \E k \in 1..m + n : r[k] = e
  <2>1. CASE e \in T
    <3>1. PICK k \in 1..m : s[k] = e
      BY <1>1, <2>1 DEF Lists
    <3> QED
      BY <1>6, <3>1
  <2>2. CASE e \in U
    <3>1. PICK k \in 1..n : t[k] = e
      BY <1>2, <2>2 DEF Lists
    <3> QED
      BY <1>6, <3>1
  <2> QED
    BY <2>1, <2>2
<1> QED
  BY <1>4, <1>5, <1>8, <1>9 DEF Lists

LEMMA ListOne == ASSUME NEW e PROVE Lists(<<e>>, {e})
  BY DEF Lists

LEMMA ListAppend ==
  ASSUME NEW s, NEW T, NEW e, Lists(s, T), e \notin T
  PROVE  Lists(Append(s, e), T \cup {e})
<1>1. Lists(s \o <<e>>, T \cup {e})
  BY ListOne, ListConcat
<1>2. Append(s, e) = s \o <<e>>
  BY AppendIsConcat, ListOne DEF Lists
<1> QED
  BY <1>1, <1>2

\* A listing of a finite set, in any order.
LEMMA ListOf ==
  ASSUME NEW T, IsFiniteSet(T), NEW s \in SetToSeqs(T)
  PROVE  Lists(s, T)
<1>1. PICK n \in Nat : n = Cardinality(T)
  BY FS_CardinalityType
<1>2. s \in [1..n -> T] /\ \A j, k \in 1..n : j # k => s[j] # s[k]
  BY <1>1 DEF SetToSeqs
<1>3. s \in Seq(T) /\ Len(s) = n
  BY <1>2
<1>4. s \in Injection(1..n, T)
  BY <1>2 DEF Injection, IsInjective
<1>5. Cardinality(1..n) = n /\ n = Cardinality(T)
  BY <1>1, FS_Interval
<1>6. s \in Surjection(1..n, T)
  BY <1>4, <1>5, FS_Injection
<1>7. \A e \in T : \E k \in 1..n : s[k] = e
  BY <1>6 DEF Surjection
<1> QED
  BY <1>2, <1>3, <1>7 DEF Lists

LEMMA RemoveAtParts ==
  ASSUME NEW S, NEW s \in Seq(S), NEW i \in 1..Len(s)
  PROVE  /\ RemoveAt(s, i) \in Seq(S) /\ Len(RemoveAt(s, i)) = Len(s) - 1
         /\ \A k \in 1..Len(s) - 1 : k < i => RemoveAt(s, i)[k] = s[k]
         /\ \A k \in 1..Len(s) - 1 : k >= i => RemoveAt(s, i)[k] = s[k + 1]
<1> DEFINE f == SubSeq(s, 1, i - 1)
           g == SubSeq(s, i + 1, Len(s))
<1>1. /\ f \in Seq(S) /\ Len(f) = i - 1
      /\ \A k \in 1..i - 1 : f[k] = s[k]
  OBVIOUS
<1>2. PICK l \in Nat : l = Len(s)
  OBVIOUS
<1>3. /\ g \in Seq(S) /\ Len(g) = l - i
      /\ \A k \in 1..l - i : g[k] = s[k + i]
  BY <1>2
<1>4. RemoveAt(s, i) = f \o g
  BY DEF RemoveAt
<1> HIDE DEF f, g
<1>5. /\ f \o g \in Seq(S) /\ Len(f \o g) = l - 1
      /\ \A k \in 1..l - 1 : (f \o g)[k] = IF k <= i - 1 THEN f[k] ELSE g[k - (i - 1)]
  BY <1>1, <1>2, <1>3, ConcatProperties
<1>6. ASSUME NEW k \in 1..l - 1, k < i PROVE (f \o g)[k] = s[k]
  BY <1>1, <1>2, <1>5, <1>6
<1>7. ASSUME NEW k \in 1..l - 1, k >= i PROVE (f \o g)[k] = s[k + 1]
  <2>1. (f \o g)[k] = g[k - (i - 1)] /\ k - (i - 1) \in 1..l - i
    BY <1>2, <1>5, <1>7
  <2>2. g[k - (i - 1)] = s[k - (i - 1) + i] /\ k - (i - 1) + i = k + 1
    BY <1>2, <1>3, <2>1
  <2> QED
    BY <2>1, <2>2
<1> QED
  BY <1>2, <1>4, <1>5, <1>6, <1>7

LEMMA ListWithoutAt ==
  ASSUME NEW s, NEW T, Lists(s, T), NEW i \in 1..Len(s)
  PROVE  Lists(RemoveAt(s, i), T \ {s[i]})
<1>1. PICK n \in Nat : n = Len(s)
  BY ListIs
<1>2. PICK t : t = RemoveAt(s, i)
  OBVIOUS
<1>3. i \in 1..n /\ s \in Seq(T)
  BY <1>1 DEF Lists
<1>4. /\ t \in Seq(T) /\ Len(t) = n - 1
      /\ \A k \in 1..n - 1 : k < i => t[k] = s[k]
      /\ \A k \in 1..n - 1 : k >= i => t[k] = s[k + 1]
  BY <1>1, <1>2, <1>3, RemoveAtParts
<1>5. PICK m \in Nat : m = n - 1
  BY <1>3
\* Position k of the shorter sequence is position At(k) of the longer one.
<1> DEFINE At(k) == IF k < i THEN k ELSE k + 1
<1>6. \A k \in 1..m : At(k) \in 1..n /\ At(k) # i /\ t[k] = s[At(k)]
  BY <1>3, <1>4, <1>5
<1>7. \A j, k \in 1..m : At(j) = At(k) => j = k
  BY <1>3
<1>8. \A h \in 1..n : h # i => \E k \in 1..m : At(k) = h
  <2> SUFFICES ASSUME NEW h \in 1..n, h # i PROVE \E k \in 1..m : At(k) = h
    OBVIOUS
  <2>1. CASE h < i
    <3>1. h \in 1..m /\ At(h) = h
      BY <1>3, <1>5, <2>1
    <3> QED
      BY <3>1
  <2>2. CASE h > i
    <3>1. h - 1 \in 1..m /\ ~(h - 1 < i) /\ (h - 1) + 1 = h
      BY <1>3, <1>5, <2>2
    <3> QED
      BY <3>1
  <2> QED
    BY <1>3, <2>1, <2>2
<1> HIDE DEF At
<1>9. /\ \A j, k \in 1..n : s[j] = s[k] => j = k
      /\ \A e \in T : \E k \in 1..n : s[k] = e
      /\ \A k \in 1..n : s[k] \in T
  BY <1>1, ListIs DEF Lists
<1>10. t \in Seq(T \ {s[i]})
  <2>1. t \in Seq(T) /\ Len(t) = m
    BY <1>4, <1>5
  <2>2. t \in [1..m -> T]
    BY <2>1
  <2>3. \A k \in 1..m : t[k] \in T \ {s[i]}
    BY <1>3, <1>6, <1>9
  <2>4. t \in [1..m -> T \ {s[i]}]
    BY <2>2, <2>3
  <2> QED
    BY <2>4
<1>11. Len(t) = m
  BY <1>4, <1>5
<1>12. \A j, k \in 1..m : t[j] = t[k] => j = k
  BY <1>6, <1>7, <1>9
<1>13. \A e \in T \ {s[i]} : \E k \in 1..m : t[k] = e
  <2> SUFFICES ASSUME NEW e \in T, e # s[i] PROVE \E k \in 1..m : t[k] = e
    OBVIOUS
  <2>1. PICK h \in 1..n : s[h] = e
    BY <1>9
  <2>2. PICK k \in 1..m : At(k) = h
    BY <1>8, <2>1
  <2> QED
    BY <1>6, <2>1, <2>2
<1> QED
  BY <1>2, <1>10, <1>11, <1>12, <1>13 DEF Lists

LEMMA ListWithout ==
  ASSUME NEW s, NEW T, NEW e, Lists(s, T)
  PROVE  Lists(RemoveFirst(s, e), T \ {e})
<1>1. CASE e \notin T
  <2>1. ~(\E i \in 1..Len(s) : s[i] = e)
    BY <1>1, ListIs
  <2>2. RemoveFirst(s, e) = s /\ T \ {e} = T
    BY <1>1, <2>1 DEF RemoveFirst
  <2> QED
    BY <2>2
<1>2. CASE e \in T
  <2>1. PICK i \in 1..Len(s) : s[i] = e
    BY <1>2 DEF Lists
  <2>2. {k \in 1..Len(s) : s[k] = e} = {i} /\ i \in Nat
    BY <2>1 DEF Lists
  <2>3. SelectInSeq(s, LAMBDA v : v = e) = i
    <3>1. Min({i}) = i
      BY <2>2 DEF Min
    <3>2. SelectInSeq(s, LAMBDA v : v = e) = Min({i})
      BY <2>2 DEF SelectInSeq
    <3> QED
      BY <3>1, <3>2
  <2>4. RemoveFirst(s, e) = RemoveAt(s, i)
    BY <2>1, <2>3 DEF RemoveFirst
  <2> QED
    BY <2>1, <2>4, ListWithoutAt
<1> QED
  BY <1>1, <1>2


-----------------------------------------------------------------------------
(* Kahn's algorithm: the queue has just the nodes that wait for nothing,   *)
(* and among those that are left there always is one.                      *)

Waiting(d) == plan[d] \cap todo

PlanIsSound ==
  /\ \A d \in Affected : Lists(planned[d], {e \in Affected : d \in plan[e]})
  /\ \A T \in SUBSET Affected : T # {} => \E d \in T : plan[d] \cap T = {}

QueueIsExact ==
  /\ indegree = [d \in Affected |-> Cardinality(Waiting(d))]
  /\ Lists(ready, {d \in todo : Waiting(d) = {}})
  /\ \A d \in Affected \ todo : Waiting(d) = {}

KahnInv ==
  /\ IsFiniteSet(Live)
  /\ \A n \in Node : Lists(bucket[n], dependents[n])
  /\ phase = "walk" => PlanIsSound /\ QueueIsExact

LEMMA KahnInit == OrderInit => KahnInv
<1> SUFFICES ASSUME OrderInit PROVE KahnInv
  OBVIOUS
<1>1. Live = {}
  BY NodeKinds DEF OrderInit, Init, Live
<1>2. \A n \in Node : Lists(bucket[n], dependents[n])
  BY ListEmpty DEF OrderInit, Init
<1> QED
  BY <1>1, <1>2, FS_EmptySet DEF OrderInit, Init, KahnInv

LEMMA KahnIsReady == ASSUME IInv, KahnInv PROVE QueueIsReady
<1>1. \A n \in Node : ToSet(bucket[n]) = dependents[n] /\ IsInjective(bucket[n])
  BY ListIs DEF KahnInv
<1>2. ASSUME phase = "walk" PROVE \A k \in DOMAIN ready : Ready(ready[k])
  BY <1>2, ListIs DEF KahnInv, QueueIsExact, Waiting, Ready
<1>3. ASSUME phase = "walk", todo # {} PROVE ready # <<>>
  <2>1. PICK d \in todo : plan[d] \cap todo = {}
    BY <1>3, Facts DEF KahnInv, PlanIsSound, Types
  <2>2. d \in {e \in todo : Waiting(e) = {}}
    BY <2>1 DEF Waiting
  <2>3. \E k \in 1..Len(ready) : ready[k] = d
    BY <1>3, <2>2 DEF KahnInv, QueueIsExact, Lists
  <2> QED
    BY <2>3
<1> QED
  BY <1>1, <1>2, <1>3 DEF QueueIsReady

\* The buckets follow the edges.
LEMMA RewireKeeps ==
  ASSUME IInv, KahnInv, NEW d \in Derived, NEW next \in SUBSET Node,
         SetDeps(d, next), Rewire(d, next)
  PROVE  \A n \in Node : Lists(bucket'[n], dependents'[n])
<1> SUFFICES ASSUME NEW n \in Node PROVE Lists(bucket'[n], dependents'[n])
  OBVIOUS
<1>1. Lists(bucket[n], dependents[n]) /\ (d \in dependents[n] <=> n \in deps[d])
  BY Facts DEF KahnInv, Mirrored
<1>2. CASE n \in next
  <2>1. dependents'[n] = dependents[n] \cup {d}
    BY <1>2 DEF SetDeps, RewiredBuckets
  <2>2. CASE d \in dependents[n]
    <3>1. bucket'[n] = bucket[n]
      BY <1>1, <1>2, <2>2, ListIs DEF Rewire
    <3>2. dependents'[n] = dependents[n]
      BY <2>1, <2>2
    <3> QED
      BY <1>1, <3>1, <3>2
  <2>3. CASE d \notin dependents[n]
    <3>1. bucket'[n] = Append(bucket[n], d)
      BY <1>1, <1>2, <2>3, ListIs DEF Rewire
    <3> QED
      BY <1>1, <2>1, <2>3, <3>1, ListAppend
  <2> QED
    BY <2>2, <2>3
<1>3. CASE n \notin next
  <2>1. bucket'[n] = RemoveFirst(bucket[n], d)
    BY <1>3 DEF Rewire
  <2>2. dependents'[n] = dependents[n] \ {d}
    BY <1>1, <1>3 DEF SetDeps, RewiredBuckets
  <2> QED
    BY <1>1, <2>1, <2>2, ListWithout
<1> QED
  BY <1>2, <1>3


\* Begin plans over the edges of now, which have no cycle, and queues those of
\* the affected nodes that read none of the others.
LEMMA BeginPlans ==
  ASSUME IInv, CycleInv, KahnInv,
         NEW m \in {"commit", "simulate"}, NEW w \in [Input -> Value], OrderedBegin(m, w)
  PROVE  PlanIsSound' /\ QueueIsExact'
<1>1. PICK A : A = Affected'
  OBVIOUS
<1>2. PICK S : S = seed'
  OBVIOUS
<1>3. /\ phase = "idle" /\ S \subseteq Input /\ IsFiniteSet(S) /\ A = Downstream(S)
      /\ plan' = [d \in A |-> {e \in A : d \in dependents[e]}]
      /\ todo' = A /\ planned' = bucket
      /\ Begin(m, w)
  BY <1>1, <1>2, BeginFacts DEF OrderedBegin
<1>4. A \subseteq Live /\ ClosedDownstream(A, S) /\ S \in SUBSET Node /\ A \in SUBSET Derived
  BY <1>3, Facts, NodeKinds, DownstreamLive DEF IInv
<1>5. IsFiniteSet(A) /\ \A T \in SUBSET A : IsFiniteSet(T)
  BY <1>4, FS_Subset DEF KahnInv
<1>6. \A d \in A, e \in Derived : d \in dependents[e] <=> e \in deps[d]
  BY <1>4, Facts, NodeKinds DEF Mirrored
<1>7. \A d \in A : plan'[d] = {e \in A : d \in dependents[e]} /\ plan'[d] \in SUBSET A
  BY <1>3
<1>8. PlanIsSound'
  <2>1. ASSUME NEW d \in A PROVE Lists(planned'[d], {e \in A : d \in plan'[e]})
    <3>1. dependents[d] = {e \in A : d \in plan'[e]}
      BY <1>4, <1>7 DEF ClosedDownstream
    <3>2. Lists(bucket[d], dependents[d])
      BY <1>4, NodeKinds DEF KahnInv
    <3> QED
      BY <1>3, <3>1, <3>2
  <2>2. ASSUME NEW T \in SUBSET A, T # {} PROVE \E d \in T : plan'[d] \cap T = {}
    <3>1. deps \in Edges /\ Acyclic(deps)
      BY <1>3, Facts DEF Types, Edges, CycleInv
    <3>2. T \in SUBSET Derived /\ IsFiniteSet(T) /\ T # {} /\ \A d \in T : Avoids(deps, d)
      BY <1>4, <1>5, <2>2, <3>1 DEF Acyclic
    <3>3. PICK d \in T : deps[d] \cap T = {}
      BY <3>1, <3>2, SomeReadNone
    <3>4. plan'[d] \subseteq deps[d]
      BY <1>4, <1>6, <1>7
    <3> QED
      BY <3>3, <3>4
  <2> QED
    BY <1>1, <2>1, <2>2 DEF PlanIsSound
<1>9. indegree' = [d \in A |-> Cardinality(plan'[d])]
  BY <1>3 DEF OrderedBegin
<1>10. \A d \in A : plan'[d] \cap todo' = plan'[d]
  BY <1>3, <1>7
<1>11. Lists(ready', {d \in A : plan'[d] = {}})
  <2>1. PICK inputs \in SetToSeqs(S) : QueueIdle(inputs)
    BY <1>2 DEF OrderedBegin
  <2>2. ToSet(inputs) = S
    BY <1>3, ListOf, ListIs
  <2>3. PICK D : D = UNION {dependents[i] : i \in S}
    OBVIOUS
  <2>4. Discovered(inputs) = D
    <3>1. \A i \in S : ToSet(bucket[i]) = dependents[i]
      BY <1>4, ListIs DEF KahnInv
    <3> QED
      BY <2>2, <2>3, <3>1 DEF Discovered
  <2>5. D \subseteq A
    BY <1>4, <2>3 DEF ClosedDownstream
  <2>6. {d \in D : indegree'[d] = 0} = {d \in A : plan'[d] = {}}
    <3>1. \A d \in A : indegree'[d] = 0 <=> plan'[d] = {}
      BY <1>5, <1>7, <1>9, FS_EmptySet
    <3>2. ASSUME NEW d \in A, plan'[d] = {}, d \notin D PROVE FALSE
      <4>1. ClosedDownstream(A \ {d}, S)
        <5> SUFFICES ASSUME NEW n \in (A \ {d}) \cup S PROVE dependents[n] \subseteq A \ {d}
          BY DEF ClosedDownstream
        <5>1. dependents[n] \subseteq A
          BY <1>4 DEF ClosedDownstream
        <5>2. d \notin dependents[n]
          BY <1>7, <2>3, <3>2
        <5> QED
          BY <5>1, <5>2
      <4>2. A \ {d} \in SUBSET Derived
        BY <1>4
      <4>3. A \subseteq A \ {d}
        BY <1>3, <4>1, <4>2 DEF Downstream
      <4> QED
        BY <4>3
    <3> QED
      BY <2>5, <3>1, <3>2
  <2>7. Enqueue(inputs, {d \in D : indegree'[d] = 0})
    BY <2>1, <2>4 DEF QueueIdle
  <2>8. ready' \in SetToSeqs({d \in A : plan'[d] = {}})
    BY <2>6, <2>7 DEF Enqueue
  <2> QED
    BY <1>5, <2>8, ListOf
<1>12. QueueIsExact'
  <2>1. indegree' = [d \in A |-> Cardinality(plan'[d] \cap todo')]
    BY <1>9, <1>10
  <2>2. {d \in todo' : plan'[d] \cap todo' = {}} = {d \in A : plan'[d] = {}}
    BY <1>3, <1>10
  <2> QED
    BY <1>1, <1>3, <1>11, <2>1, <2>2 DEF QueueIsExact, Waiting
<1> QED
  BY <1>8, <1>12

\* The head of the queue leaves; of the nodes that waited for it those that now
\* wait for nothing join.
LEMMA AdvanceKeeps ==
  ASSUME IInv, KahnInv, phase = "walk", NEW d \in Derived, Advance(d),
         UNCHANGED plan, todo' = todo \ {d}
  PROVE  PlanIsSound' /\ QueueIsExact'
<1>1. PICK A : A = Affected
  OBVIOUS
<1>2. PICK before : before = [e \in A |-> plan[e] \cap todo]
  OBVIOUS
<1>3. PICK after : after = [e \in A |-> plan[e] \cap (todo \ {d})]
  OBVIOUS
<1>4. /\ IsFiniteSet(A) /\ todo \subseteq A /\ Affected' = A
      /\ \A e \in A : plan[e] \in SUBSET A
      /\ \A T \in SUBSET A : IsFiniteSet(T)
  <2>1. A \subseteq Live /\ todo \subseteq A /\ Affected' = A /\ \A e \in A : plan[e] \in SUBSET A
    BY <1>1, Facts DEF Types, PlanType, Affected
  <2> QED
    BY <2>1, FS_Subset DEF KahnInv
<1>5. PICK R : R = {e \in todo : before[e] = {}}
  OBVIOUS
<1>6. /\ indegree = [e \in A |-> Cardinality(before[e])]
      /\ Lists(ready, R)
      /\ \A e \in A \ todo : before[e] = {}
  <2>1. QueueIsExact
    BY DEF KahnInv
  <2>2. {e \in todo : Waiting(e) = {}} = R
    BY <1>2, <1>4, <1>5 DEF Waiting
  <2> QED
    BY <1>1, <1>2, <2>1, <2>2 DEF QueueIsExact, Waiting
<1>7. d \in R /\ d \in todo /\ d \in A /\ before[d] = {} /\ Lists(Tail(ready), R \ {d})
  <2>1. ready # <<>> /\ d = Head(ready)
    BY DEF Advance
  <2>2. d \in R /\ Lists(Tail(ready), R \ {d})
    BY <1>6, <2>1, ListHead
  <2> QED
    BY <1>4, <1>5, <2>2
<1>8. Lists(planned[d], {e \in A : d \in plan[e]})
  BY <1>1, <1>7 DEF KahnInv, PlanIsSound
<1>9. /\ ToSet(planned[d]) = {e \in A : d \in plan[e]}
      /\ \A e : Contains(planned[d], e) <=> e \in {f \in A : d \in plan[f]}
  BY <1>8, ListIs
<1>10. \A e \in A : /\ after[e] = before[e] \ {d}
                    /\ d \in before[e] <=> d \in plan[e]
                    /\ after[e] \in SUBSET A /\ before[e] \in SUBSET A
  BY <1>2, <1>3, <1>4, <1>7
<1>11. \A e \in A : Cardinality(after[e]) = IF d \in plan[e] THEN Cardinality(before[e]) - 1
                                                             ELSE Cardinality(before[e])
  BY <1>4, <1>10, FS_RemoveElement
<1>12. indegree' = [e \in A |-> Cardinality(after[e])]
  <2>1. indegree' = [e \in A |-> IF Contains(planned[d], e) THEN indegree[e] - 1 ELSE indegree[e]]
    BY <1>6 DEF Advance
  <2> QED
    BY <1>6, <1>9, <1>11, <2>1
<1>13. PICK J : J = {e \in A : d \in plan[e] /\ after[e] = {}}
  OBVIOUS
<1>14. {e \in ToSet(planned[d]) : indegree'[e] = 0} = J
  <2>1. \A e \in A : indegree'[e] = 0 <=> after[e] = {}
    BY <1>4, <1>10, <1>12, FS_EmptySet
  <2> QED
    BY <1>9, <1>13, <2>1
<1>15. PICK joining \in SetToSeqs(J) : ready' = Tail(ready) \o joining
  BY <1>14 DEF Advance
<1>16. Lists(joining, J)
  BY <1>4, <1>13, ListOf
<1>17. (R \ {d}) \cap J = {}
  BY <1>5, <1>10, <1>13
<1>18. Lists(ready', (R \ {d}) \cup J)
  BY <1>7, <1>15, <1>16, <1>17, ListConcat
<1>19. (R \ {d}) \cup J = {e \in todo' : after[e] = {}}
  <2>1. \A e \in J : e \in todo /\ e # d
    BY <1>6, <1>7, <1>10, <1>13
  <2> QED
    BY <1>4, <1>5, <1>10, <1>13, <2>1
<1>20. \A e \in A \ todo' : after[e] = {}
  BY <1>6, <1>7, <1>10
<1>21. \A e \in A : Waiting(e)' = after[e]
  BY <1>3 DEF Waiting
<1>22. QueueIsExact'
  <2>1. {e \in todo' : Waiting(e)' = {}} = {e \in todo' : after[e] = {}}
    BY <1>4, <1>21
  <2>2. indegree' = [e \in A |-> Cardinality(Waiting(e)')]
    BY <1>12, <1>21
  <2>3. \A e \in A \ todo' : Waiting(e)' = {}
    BY <1>20, <1>21
  <2> QED
    BY <1>4, <1>18, <1>19, <2>1, <2>2, <2>3 DEF QueueIsExact
<1>23. PlanIsSound'
  <2>1. PlanIsSound /\ planned' = planned /\ plan' = plan /\ Affected' = Affected
    BY <1>1, <1>4 DEF KahnInv, Advance
  <2>2. \A e \in A : {f \in Affected' : e \in plan'[f]} = {f \in Affected : e \in plan[f]}
    BY <2>1
  <2>3. /\ \A e \in A : Lists(planned'[e], {f \in Affected' : e \in plan'[f]})
        /\ \A T \in SUBSET A : T # {} => \E e \in T : plan'[e] \cap T = {}
    BY <1>1, <2>1, <2>2 DEF PlanIsSound
  <2> QED
    BY <1>4, <2>3 DEF PlanIsSound
<1> QED
  BY <1>22, <1>23


LEMMA WalkKahn ==
  ASSUME IInv, KahnInv, NEW d \in Derived, OrderedWalk(d)
  PROVE  KahnInv'
<1>1. Advance(d) /\ phase = "walk" /\ entries' = entries
  BY DEF OrderedWalk, Skip, Compute, ComputeThrows, CycleThrows, graph
<1>2. IsFiniteSet(Live') /\ \A n \in Node : Lists(bucket[n], dependents[n])
  BY <1>1 DEF KahnInv, Live
<1>3. CASE Skip(d) /\ UNCHANGED bucket
  <2>1. PlanIsSound' /\ QueueIsExact'
    BY <1>1, <1>3, AdvanceKeeps DEF Skip
  <2>2. dependents' = dependents
    BY <1>3 DEF Skip, graph
  <2> QED
    BY <1>2, <1>3, <2>1, <2>2 DEF KahnInv
<1>4. CASE ComputeThrows(d) /\ UNCHANGED bucket
  <2>1. dependents' = dependents /\ phase' = "failed"
    BY <1>4 DEF ComputeThrows, graph
  <2> QED
    BY <1>2, <1>4, <2>1 DEF KahnInv
<1>5. CASE Compute(d) /\ Rewire(d, ReadsNow(d))
  <2>1. PlanIsSound' /\ QueueIsExact'
    BY <1>1, <1>5, AdvanceKeeps DEF Compute
  <2>2. ReadsNow(d) \in SUBSET Node /\ SetDeps(d, ReadsNow(d))
    BY <1>5, StoreFacts DEF Compute
  <2>3. \A n \in Node : Lists(bucket'[n], dependents'[n])
    BY <1>5, <2>2, RewireKeeps
  <2> QED
    BY <1>2, <2>1, <2>3 DEF KahnInv
<1>6. CASE CycleThrows(d) /\ Rewire(d, ReadsNow(d))
  <2>1. ReadsNow(d) \in SUBSET Node /\ SetDeps(d, ReadsNow(d)) /\ phase' = "failed"
    BY <1>6, StoreFacts DEF CycleThrows, pass
  <2>2. \A n \in Node : Lists(bucket'[n], dependents'[n])
    BY <1>6, <2>1, RewireKeeps
  <2> QED
    BY <1>2, <2>1, <2>2 DEF KahnInv
<1> QED
  BY <1>3, <1>4, <1>5, <1>6 DEF OrderedWalk

LEMMA RestoreKahn ==
  ASSUME IInv, KahnInv, NEW d \in Derived, OrderedRestore(d)
  PROVE  KahnInv'
<1>1. /\ phase' = "failed" /\ entries' = entries /\ d \in DOMAIN undo
      /\ SetDeps(d, undo[d].deps) /\ Rewire(d, undo[d].deps)
  BY DEF OrderedRestore, RestoreDerived
<1>2. undo[d].deps \in SUBSET Node
  BY <1>1, Facts DEF Types, UndoType
<1>3. \A n \in Node : Lists(bucket'[n], dependents'[n])
  BY <1>1, <1>2, RewireKeeps
<1> QED
  BY <1>1, <1>3 DEF KahnInv, Live

\* Registration and disposal, between frames.
LEMMA RegisterKahn ==
  ASSUME IInv, KahnInv, NEW d \in Derived, NEW p \in Program,
         RegisterDerived(d, p), Rewire(d, Reads(p, val))
  PROVE  KahnInv'
<1>1. /\ phase = "idle" /\ phase' = phase /\ entries' = entries \cup {d}
      /\ Reads(p, val) \in SUBSET Node /\ SetDeps(d, Reads(p, val))
  BY Facts DEF RegisterDerived, Types
<1>2. Live' = Live \cup {d}
  BY <1>1 DEF Live
<1>3. IsFiniteSet(Live')
  BY <1>2, FS_AddElement DEF KahnInv
<1> QED
  BY <1>1, <1>3, RewireKeeps DEF KahnInv

LEMMA DisposeKahn ==
  ASSUME IInv, KahnInv, NEW n \in Node, Dispose(n),
         IF n \in Derived THEN Rewire(n, {}) ELSE UNCHANGED bucket
  PROVE  KahnInv'
<1>1. phase = "idle" /\ phase' = phase /\ entries' = entries \ {n}
  BY DEF Dispose
<1>2. IsFiniteSet(Live')
  <2>1. Live' \in SUBSET Live
    BY <1>1 DEF Live
  <2> QED
    BY <2>1, FS_Subset DEF KahnInv
<1>3. CASE n \in Derived
  <2>1. SetDeps(n, {}) /\ Rewire(n, {}) /\ {} \in SUBSET Node
    BY <1>3 DEF Dispose
  <2>2. \A m \in Node : Lists(bucket'[m], dependents'[m])
    BY <1>3, <2>1, RewireKeeps
  <2> QED
    BY <1>1, <1>2, <2>2 DEF KahnInv
<1>4. CASE n \notin Derived
  <2>1. dependents' = dependents /\ bucket' = bucket
    BY <1>4 DEF Dispose
  <2> QED
    BY <1>1, <1>2, <2>1 DEF KahnInv
<1> QED
  BY <1>3, <1>4

LEMMA StepKahn ==
  ASSUME IInv, CycleInv, KahnInv, [OrderNext]_allVars
  PROVE  KahnInv'
<1>1. CASE \E i \in Input, v \in Value : RegisterInput(i, v) /\ UNCHANGED orderVars
  <2>1. PICK i \in Input : /\ phase = "idle" /\ phase' = phase /\ entries' = entries \cup {i}
                           /\ dependents' = dependents /\ bucket' = bucket
    BY <1>1 DEF RegisterInput, orderVars
  <2>2. Live' = Live
    BY <2>1, NodesAssumption DEF Live
  <2> QED
    BY <2>1, <2>2 DEF KahnInv
<1>2. CASE \E d \in Derived, p \in Program : RegisterDerived(d, p) /\ Rewire(d, Reads(p, val))
  BY <1>2, RegisterKahn
<1>3. CASE \E n \in Node : Dispose(n) /\ IF n \in Derived THEN Rewire(n, {}) ELSE UNCHANGED bucket
  BY <1>3, DisposeKahn
<1>4. CASE \E m \in {"commit", "simulate"}, w \in [Input -> Value] : OrderedBegin(m, w)
  <2>1. PlanIsSound' /\ QueueIsExact'
    BY <1>4, BeginPlans
  <2>2. entries' = entries /\ dependents' = dependents /\ bucket' = bucket
    BY <1>4 DEF OrderedBegin, Begin, graph
  <2> QED
    BY <2>1, <2>2 DEF KahnInv, Live
<1>5. CASE \E d \in Derived : OrderedWalk(d)
  BY <1>5, WalkKahn
<1>6. CASE \E d \in Derived : OrderedRestore(d)
  BY <1>6, RestoreKahn
<1>7. CASE (LeaveUnpublished \/ RestoreInputs) /\ UNCHANGED orderVars
  <2>1. phase' = "failed" /\ entries' = entries /\ dependents' = dependents /\ bucket' = bucket
    BY <1>7 DEF LeaveUnpublished, RestoreInputs, graph, orderVars
  <2> QED
    BY <2>1 DEF KahnInv, Live
<1>8. CASE Settle
  <2>1. phase' = "idle" /\ entries' = entries /\ dependents' = dependents /\ bucket' = bucket
    BY <1>8 DEF Settle, Publish, Abort, EndPass, graph
  <2> QED
    BY <2>1 DEF KahnInv, Live
<1>9. CASE UNCHANGED allVars
  <2>1. /\ entries' = entries /\ dependents' = dependents /\ bucket' = bucket /\ phase' = phase
        /\ plan' = plan /\ todo' = todo /\ planned' = planned /\ ready' = ready
        /\ indegree' = indegree
    BY <1>9 DEF allVars, vars, graph, pass, orderVars
  <2>2. PlanIsSound /\ QueueIsExact => PlanIsSound' /\ QueueIsExact'
    <3>1. Affected' = Affected /\ \A d \in Affected : Waiting(d)' = Waiting(d)
      BY <2>1 DEF Affected, Waiting
    <3>2. \A d : {e \in Affected' : d \in plan'[e]} = {e \in Affected : d \in plan[e]}
      BY <2>1, <3>1
    <3>3. PlanIsSound => PlanIsSound'
      BY <2>1, <3>1, <3>2 DEF PlanIsSound
    <3>4. todo \subseteq Affected
      BY Facts DEF Types
    <3>5. {d \in todo' : Waiting(d)' = {}} = {d \in todo : Waiting(d) = {}}
      BY <2>1, <3>1, <3>4
    <3>6. QueueIsExact => QueueIsExact'
      BY <2>1, <3>1, <3>5 DEF QueueIsExact
    <3> QED
      BY <3>3, <3>6
  <2> QED
    BY <2>1, <2>2 DEF KahnInv, Live
<1> QED
  BY <1>1, <1>2, <1>3, <1>4, <1>5, <1>6, <1>7, <1>8, <1>9 DEF OrderNext

\* The queue of Kahn's algorithm offers only nodes that wait for nothing and never
\* runs dry while affected nodes remain, whatever graph, computes and number of
\* changed inputs: graph.ts never reports a residue as a cycle.  The buckets it is
\* fed from list each dependent once.
THEOREM QueueNeverRunsDry == OrderSpec => []QueueIsReady
<1>1. OrderInit => KahnInv
  BY KahnInit
<1>2. IInv /\ CycleInv /\ KahnInv /\ [OrderNext]_allVars => KahnInv'
  BY StepKahn
<1>3. IInv /\ KahnInv => QueueIsReady
  BY KahnIsReady
<1>4. OrderSpec => [](IInv /\ CycleInv)
  <2>1. Spec => [](IInv /\ CycleInv)
    <3>1. Init => CycleInv
      BY InitAcyclic
    <3>2. IInv /\ IInv' /\ CycleInv /\ [Next]_vars => CycleInv'
      BY StepAcyclic
    <3> QED
      BY <3>1, <3>2, Invariance, PTL DEF Spec
  <2> QED
    BY <2>1, OrderIsTopological, PTL
<1> QED
  BY <1>1, <1>2, <1>3, <1>4, PTL DEF OrderSpec

-----------------------------------------------------------------------------

\* So what is proved of any topological order holds of the order in the code.
THEOREM OrderedPassSound ==
  OrderSpec => /\ [](TypeOK /\ EdgesMirror /\ NoCycle /\ GlitchFree /\ ChangedExact)
               /\ []QueueIsReady /\ RolledBackExactly
  BY OrderIsTopological, TypeCorrect, EdgesMirrored, CyclesDoNotSurvive, GlitchFreedom,
     ChangedSetExact, QueueNeverRunsDry, RollbackExact, PTL
=============================================================================
