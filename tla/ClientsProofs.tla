--------------------------- MODULE ClientsProofs ----------------------------
(***************************************************************************)
(* What surrounds the graph, for every value of the constants: packages/   *)
(* sync with any number of calls and conflicts, the link of the devtools   *)
(* panel with any number of mounts, the engines behind a graph and the     *)
(* components of a page.                                                   *)
(***************************************************************************)
EXTENDS Statecharts, Loader, DevtoolsBridge, Registries,
        FiniteSetTheorems, SequenceTheorems, TLAPS

-----------------------------------------------------------------------------
(* Sync: a resource and a conflict registry on one graph.                  *)

\* A call that has begun to load did so one tick after it was called.
CallsAreDated ==
  \A f \in Started : /\ fetches[f].loadingAt = fetches[f].origin + 1
                     /\ fetches[f].loadingAt <= now

\* The answer of a settled promise is applied once; whoever awaits it is in the
\* queue behind the answer.
IsTask(k, kind, f) == microtasks[k].kind = kind /\ microtasks[k].fetch = f

QueueInOrder ==
  /\ \A k \in DOMAIN microtasks : \A f \in Fetch :
       IsTask(k, "apply", f) =>
         /\ fetches[f].stage = "settled"
         /\ \A j \in DOMAIN microtasks : IsTask(j, "apply", f) => j = k
  /\ \A k \in DOMAIN microtasks : \A f \in Fetch :
       IsTask(k, "suspense", f) => \E j \in DOMAIN microtasks : j > k /\ IsTask(j, "apply", f)
  /\ \A k \in DOMAIN microtasks : \A f \in Fetch :
       IsTask(k, "wake", f) => \/ fetches[f].stage \in {"served", "refused"}
                               \/ \E j \in DOMAIN microtasks : j < k /\ IsTask(j, "apply", f)

OutcomesAreKnown ==
  \A f \in Fetch : fetches[f].stage = "settled" => fetches[f].outcome \in {"value", "error"}

\* The last edge led to the state the node is in.
LabelIsTrue ==
  /\ node.state = "loading" <=> label = "start"
  /\ node.state = "loaded"  <=> label = "loaded"
  /\ node.state = "stale"   <=> label \in {"stale", "invalidate"}
  /\ node.state = "errored" <=> label \in {"error", "fail"}

NodeInv ==
  /\ ResourceTypeOK /\ now \in Time
  /\ CallsAreDated /\ OutcomesAreKnown /\ LabelIsTrue
  /\ LoadedIsAuthoritative /\ OriginIsOfTheLastFetch /\ LoadingIsAwaited

ConflictsInv == ConflictTypeOK /\ now \in Time /\ openAt[now] = emitted /\ VerdictsWereTakenWhileOpen

SyncInv == NodeInv /\ QueueInOrder /\ WokenRendererMovesOn /\ ConflictsInv

NodeRecord == [state : States, origin : Time, promise : Fetch \cup {NoFetch},
               value : Fetch \cup {NoFetch}, at : Time]

LEMMA NodeIs ==
  \A n : n \in NodeStates <=> /\ n \in NodeRecord
                              /\ n.promise # NoFetch <=> n.state = "loading"
                              /\ n.value # NoFetch <=> n.state \in {"loaded", "stale"}
BY DEF NodeStates, NodeRecord

LEMMA SyncTimes == MaxTime \in Nat /\ NoFetch \notin Fetch
BY MaxTimeAssumption, NoFetchAssumption

LEMMA SyncInitHolds == SyncInit => SyncInv
<1> SUFFICES ASSUME SyncInit PROVE SyncInv
  OBVIOUS
<1>1. now \in Time /\ 0 \in Time
  BY SyncTimes DEF Time, SyncInit
<1>2. node = Idle /\ node \in NodeStates
  BY <1>1, NodeIs, SyncTimes DEF SyncInit, ResourceInit, Idle, NodeRecord, States
<1>3. \A f \in Fetch : fetches[f] = [stage |-> "unborn", origin |-> 0, loadingAt |-> 0, outcome |-> "none"]
  BY DEF SyncInit, ResourceInit
<1>4. ResourceTypeOK
  <2>1. fetches \in [Fetch -> Calls]
    BY <1>1 DEF SyncInit, ResourceInit, Calls
  <2>2. microtasks \in Seq([kind : {"suspense", "apply", "wake"}, fetch : Fetch])
        /\ label \in Labels /\ woken \in {"nobody", "answer", "same-promise"} /\ guarded \in BOOLEAN
    BY DEF SyncInit, ResourceInit, Labels
  <2> QED BY <1>2, <2>1, <2>2 DEF ResourceTypeOK
<1>5. Started = {}
  BY <1>3 DEF Started
<1>6. NodeInv
  BY <1>1, <1>2, <1>3, <1>4, <1>5 DEF NodeInv, CallsAreDated, OutcomesAreKnown, LabelIsTrue,
     LoadedIsAuthoritative, OriginIsOfTheLastFetch, LoadingIsAwaited, Idle, SyncInit, ResourceInit
<1>7. QueueInOrder /\ WokenRendererMovesOn
  BY DEF QueueInOrder, WokenRendererMovesOn, SyncInit, ResourceInit
<1>8. ConflictsInv
  BY <1>1 DEF ConflictsInv, ConflictTypeOK, VerdictsWereTakenWhileOpen, SyncInit, ConflictInit, Kinds
<1> QED BY <1>6, <1>7, <1>8 DEF SyncInv

-----------------------------------------------------------------------------
(* The registry.                                                           *)

LEMMA RegistryKeeps == ConflictsInv /\ (ConflictNext \/ (ConflictsStay /\ (now' = now \/ Tick))) => ConflictsInv'
<1> SUFFICES ASSUME ConflictsInv, ConflictNext \/ (ConflictsStay /\ (now' = now \/ Tick))
             PROVE  ConflictsInv'
  OBVIOUS
<1> USE DEF ConflictsInv, ConflictTypeOK, VerdictsWereTakenWhileOpen
<1>0. /\ now \in Nat /\ (Tick => now' \in Time /\ now' = now + 1)
  BY SyncTimes DEF Time, Tick
<1>1. ASSUME NEW set \in SUBSET Conflict, Reemit(set) PROVE ConflictsInv'
  <2>1. /\ now' \in Time /\ now' = now + 1 /\ records' = records /\ refusedFor' = refusedFor
        /\ emitted' = set /\ openAt' = [openAt EXCEPT ![now'] = set]
    BY <1>0, <1>1 DEF Reemit
  <2>2. openAt' \in [Time -> SUBSET Conflict] /\ openAt'[now'] = set
        /\ \A t \in Time \ {now'} : openAt'[t] = openAt[t]
    BY <2>1
  <2>3. ASSUME NEW c \in Conflict, records[c] # NoRecord
        PROVE  records[c].at < now' /\ c \in openAt'[records[c].at]
    <3>1. records[c].at < now /\ c \in openAt[records[c].at] /\ records[c].at \in Time
      BY <2>3 DEF Record
    <3>2. records[c].at \in Nat
      BY <3>1 DEF Time
    <3> QED BY <1>0, <2>1, <2>2, <3>1, <3>2
  <2> QED BY <2>1, <2>2, <2>3
<1>2. ASSUME NEW c \in Conflict, NEW verdict \in Verdicts, NEW by \in Conflict \cup {NoRecord},
             Decide(c, verdict, by)
      PROVE  ConflictsInv'
  <2>1. CASE MayLeave(CurrentKindOf(c))
    <3>1. /\ now' \in Time /\ now' = now + 1 /\ refusedFor' = refusedFor /\ emitted' = emitted
          /\ records' = [records EXCEPT ![c] = Verdict(verdict, by)]
          /\ openAt' = [openAt EXCEPT ![now'] = emitted]
      BY <1>0, <1>2, <2>1 DEF Decide
    <3>2. openAt' \in [Time -> SUBSET Conflict] /\ openAt'[now'] = emitted
          /\ \A t \in Time \ {now'} : openAt'[t] = openAt[t]
      BY <3>1
    <3>3. Verdict(verdict, by) \in Record /\ Verdict(verdict, by).at = now
      BY <1>2 DEF Verdict, Record, Decide
    <3>4. c \in emitted
      BY <2>1 DEF MayLeave, CurrentKindOf, Record, Verdicts
    <3>5. /\ records' \in [Conflict -> Record \cup {NoRecord}] /\ records'[c] = Verdict(verdict, by)
          /\ \A d \in Conflict \ {c} : records'[d] = records[d]
      BY <3>1, <3>3
    <3>6. ASSUME NEW d \in Conflict, records'[d] # NoRecord
          PROVE  records'[d].at < now' /\ d \in openAt'[records'[d].at]
      <4>1. CASE d = c
        <5>1. records'[d].at = now /\ now \in Time /\ now # now' /\ now < now'
          BY <1>0, <3>1, <3>3, <3>5, <4>1
        <5> QED BY <3>2, <3>4, <4>1, <5>1
      <4>2. CASE d # c
        <5>1. records'[d] = records[d] /\ records[d].at < now /\ d \in openAt[records[d].at]
              /\ records[d].at \in Time
          BY <3>5, <3>6, <4>2 DEF Record
        <5>2. records[d].at \in Nat
          BY <5>1 DEF Time
        <5> QED BY <1>0, <3>1, <3>2, <5>1, <5>2
      <4> QED BY <4>1, <4>2
    <3> QED BY <3>1, <3>2, <3>5, <3>6
  <2>2. CASE ~MayLeave(CurrentKindOf(c))
    <3>1. refusedFor' \in Kinds
      BY <1>2, <2>2 DEF Decide, CurrentKindOf, Kinds, Record
    <3> QED BY <1>2, <2>2, <3>1 DEF Decide
  <2> QED BY <2>1, <2>2
<1>3. CASE ConflictsStay /\ now' = now
  BY <1>3 DEF ConflictsStay
<1>4. CASE ConflictsStay /\ Tick
  <2>1. /\ now' \in Time /\ now' = now + 1 /\ now' # now /\ records' = records
        /\ refusedFor' = refusedFor /\ emitted' = emitted
        /\ openAt' = [openAt EXCEPT ![now'] = emitted]
    BY <1>0, <1>4 DEF ConflictsStay
  <2>2. openAt' \in [Time -> SUBSET Conflict] /\ openAt'[now'] = emitted
        /\ \A t \in Time \ {now'} : openAt'[t] = openAt[t]
    BY <2>1
  <2>3. ASSUME NEW c \in Conflict, records[c] # NoRecord
        PROVE  records[c].at < now' /\ c \in openAt'[records[c].at]
    <3>1. records[c].at < now /\ c \in openAt[records[c].at] /\ records[c].at \in Time
      BY <2>3 DEF Record
    <3>2. records[c].at \in Nat
      BY <3>1 DEF Time
    <3> QED BY <1>0, <2>1, <2>2, <3>1, <3>2
  <2> QED BY <2>1, <2>2, <2>3
<1> QED BY <1>1, <1>2, <1>3, <1>4 DEF ConflictNext

-----------------------------------------------------------------------------
(* The resource: what a step does to a call and to the node.               *)

LEMMA CallsAre ==
  ASSUME NodeInv
  PROVE  /\ now \in Nat /\ now \in Time /\ node \in NodeRecord /\ guarded \in BOOLEAN
         /\ node.promise # NoFetch <=> node.state = "loading"
         /\ node.value # NoFetch <=> node.state \in {"loaded", "stale"}
         /\ fetches \in [Fetch -> Calls]
         /\ microtasks \in Seq([kind : {"suspense", "apply", "wake"}, fetch : Fetch])
<1>1. node \in NodeStates /\ now \in Time /\ now \in Nat
  BY SyncTimes DEF NodeInv, ResourceTypeOK, Time
<1> QED BY <1>1, NodeIs DEF NodeInv, ResourceTypeOK

\* A step of the clock keeps what it may have moved past.
LEMMA ClockMoves == ASSUME now \in Time, Tick PROVE now' \in Time /\ now' = now + 1
BY SyncTimes DEF Time, Tick

LEMMA StartKeepsNode ==
  ASSUME NodeInv, NEW f \in Fetch, StartFetch(f)
  PROVE  NodeInv'
<1>1. /\ now \in Nat /\ now \in Time /\ fetches \in [Fetch -> Calls]
  BY CallsAre
<1>2. /\ now' \in Time /\ now' = now + 1 /\ node' = Loading(f, now) /\ label' = "start"
      /\ guarded' = guarded /\ microtasks' = microtasks /\ woken' = woken
  BY <1>1, ClockMoves DEF StartFetch, SetState
<1>3. /\ node'.state = "loading" /\ node'.origin = now /\ node'.promise = f
      /\ node'.value = NoFetch /\ node'.at = 0 /\ node' \in NodeStates
  <2>1. /\ node'.state = "loading" /\ node'.origin = now /\ node'.promise = f
        /\ node'.value = NoFetch /\ node'.at = 0 /\ node' \in NodeRecord
    <3>1. node' = [state |-> "loading", origin |-> now, promise |-> f, value |-> NoFetch, at |-> 0]
      BY <1>2 DEF Loading, Idle
    <3>2. 0 \in Time
      BY SyncTimes DEF Time
    <3> QED BY <1>1, <3>1, <3>2 DEF NodeRecord, States
  <2>2. node'.promise # NoFetch
    BY <2>1, SyncTimes
  <2>3. node' \in NodeStates <=> /\ node' \in NodeRecord
                                 /\ node'.promise # NoFetch <=> node'.state = "loading"
                                 /\ node'.value # NoFetch <=> node'.state \in {"loaded", "stale"}
    BY NodeIs
  <2> QED BY <2>1, <2>2, <2>3
<1>4. /\ fetches' \in [Fetch -> Calls]
      /\ fetches'[f] = [stage |-> "pending", origin |-> now, loadingAt |-> now', outcome |-> "none"]
      /\ \A g \in Fetch \ {f} : fetches'[g] = fetches[g]
  <2>1. [stage |-> "pending", origin |-> now, loadingAt |-> now', outcome |-> "none"] \in Calls
    BY <1>1, <1>2 DEF Calls
  <2> QED BY <1>1, <2>1 DEF StartFetch
<1>5. Started' = Started \cup {f} /\ f \notin Started
  BY <1>4 DEF Started, StartFetch
<1>6. ResourceTypeOK'
  BY <1>2, <1>3, <1>4 DEF NodeInv, ResourceTypeOK, Labels
<1>7. CallsAreDated'
  <2> SUFFICES ASSUME NEW g \in Started'
               PROVE  fetches'[g].loadingAt = fetches'[g].origin + 1 /\ fetches'[g].loadingAt <= now'
    BY DEF CallsAreDated
  <2>1. CASE g = f
    BY <1>1, <1>2, <1>4, <2>1
  <2>2. CASE g # f
    <3>1. /\ fetches[g].loadingAt = fetches[g].origin + 1 /\ fetches[g].loadingAt <= now
          /\ fetches'[g] = fetches[g] /\ fetches[g].loadingAt \in Time
      BY <1>1, <1>4, <1>5, <2>2 DEF NodeInv, CallsAreDated, Calls, Started
    <3>2. fetches[g].loadingAt \in Nat
      BY <3>1 DEF Time
    <3> QED BY <1>1, <1>2, <3>1, <3>2
  <2> QED BY <2>1, <2>2
<1>8. OutcomesAreKnown'
  BY <1>4 DEF NodeInv, OutcomesAreKnown
<1>9. OriginIsOfTheLastFetch'
  <2>1. ASSUME NEW g \in Started' PROVE fetches'[g].origin <= node'.origin
    <3>1. CASE g = f
      BY <1>1, <1>3, <1>4, <3>1
    <3>2. CASE g # f
      <4>1. /\ fetches[g].loadingAt = fetches[g].origin + 1 /\ fetches[g].loadingAt <= now
            /\ fetches'[g] = fetches[g] /\ fetches[g].origin \in Time
        BY <1>1, <1>4, <1>5, <3>2 DEF NodeInv, CallsAreDated, Calls, Started
      <4>2. fetches[g].origin \in Nat
        BY <4>1 DEF Time
      <4> QED BY <1>1, <1>3, <4>1, <4>2
    <3> QED BY <3>1, <3>2
  <2>2. fetches'[f].origin = node'.origin /\ f \in Started'
    BY <1>3, <1>4, <1>5
  <2> QED BY <2>1, <2>2 DEF OriginIsOfTheLastFetch
<1>10. LabelIsTrue' /\ LoadedIsAuthoritative' /\ LoadingIsAwaited'
  BY <1>2, <1>3, <1>4 DEF LabelIsTrue, LoadedIsAuthoritative, LoadingIsAwaited
<1> QED BY <1>2, <1>6, <1>7, <1>8, <1>9, <1>10 DEF NodeInv

\* The stage of a call moves on, and its outcome may be set; nothing else.
LEMMA StageKeepsNode ==
  ASSUME NodeInv, NEW f \in Fetch, UNCHANGED <<node, guarded, label, now>>,
         fetches' \in [Fetch -> Calls],
         \A g \in Fetch \ {f} : fetches'[g] = fetches[g],
         fetches'[f].origin = fetches[f].origin, fetches'[f].loadingAt = fetches[f].loadingAt,
         f \in Started <=> f \in Started',
         microtasks' \in Seq([kind : {"suspense", "apply", "wake"}, fetch : Fetch]),
         woken' \in {"nobody", "answer", "same-promise"},
         OutcomesAreKnown', LoadingIsAwaited'
  PROVE  NodeInv'
<1>1. Started' = Started /\ Started \subseteq Fetch
  BY DEF Started
<1>2. \A g \in Fetch : fetches'[g].origin = fetches[g].origin
                       /\ fetches'[g].loadingAt = fetches[g].loadingAt
  OBVIOUS
<1>3. ResourceTypeOK'
  BY DEF NodeInv, ResourceTypeOK
<1>4. CallsAreDated' /\ LabelIsTrue' /\ OriginIsOfTheLastFetch'
  BY <1>1, <1>2 DEF NodeInv, CallsAreDated, LabelIsTrue, OriginIsOfTheLastFetch
<1>5. LoadedIsAuthoritative'
  <2>1. node.state = "loaded" => node.value \in Fetch
    BY CallsAre DEF NodeRecord
  <2> QED BY <1>2, <2>1 DEF NodeInv, LoadedIsAuthoritative
<1> QED BY <1>3, <1>4, <1>5 DEF NodeInv

\* A commit of the node that is no start: the origin stays, no promise is left.
LEMMA CommitKeepsNode ==
  ASSUME NodeInv, NEW next \in NodeStates, NEW edge \in Labels, SetState(next, edge),
         next.state \in {"loaded", "stale", "errored"}, next.origin = node.origin,
         node.state # "idle", LabelIsTrue',
         fetches' \in [Fetch -> Calls],
         \A g \in Fetch : /\ fetches'[g].origin = fetches[g].origin
                          /\ fetches'[g].loadingAt = fetches[g].loadingAt,
         Started' = Started, OutcomesAreKnown', UNCHANGED guarded,
         microtasks' \in Seq([kind : {"suspense", "apply", "wake"}, fetch : Fetch]),
         woken' \in {"nobody", "answer", "same-promise"},
         guarded /\ next.state = "loaded" =>
           fetches[next.value].origin = node.origin /\ fetches[next.value].loadingAt = next.at
  PROVE  NodeInv'
<1>1. /\ now \in Nat /\ now' \in Time /\ now' = now + 1 /\ node' = next /\ label' = edge
  BY CallsAre, ClockMoves DEF SetState
<1>2. ResourceTypeOK'
  BY <1>1 DEF NodeInv, ResourceTypeOK
<1>3. CallsAreDated'
  <2> SUFFICES ASSUME NEW g \in Started
               PROVE  fetches'[g].loadingAt = fetches'[g].origin + 1 /\ fetches'[g].loadingAt <= now'
    BY DEF CallsAreDated
  <2>1. /\ fetches[g].loadingAt = fetches[g].origin + 1 /\ fetches[g].loadingAt <= now
        /\ g \in Fetch /\ fetches[g].loadingAt \in Time
    BY CallsAre DEF NodeInv, CallsAreDated, Calls, Started
  <2>2. fetches[g].loadingAt \in Nat
    BY <2>1 DEF Time
  <2> QED BY <1>1, <2>1, <2>2
<1>4. OriginIsOfTheLastFetch'
  <2>1. Started \subseteq Fetch
    BY DEF Started
  <2> QED BY <1>1, <2>1 DEF NodeInv, OriginIsOfTheLastFetch
<1>5. LoadedIsAuthoritative'
  <2>1. next.state = "loaded" => next.value \in Fetch
    BY NodeIs DEF NodeRecord
  <2> QED BY <1>1, <2>1 DEF LoadedIsAuthoritative
<1>6. LoadingIsAwaited'
  BY <1>1 DEF LoadingIsAwaited
<1> QED BY <1>1, <1>2, <1>3, <1>4, <1>5, <1>6 DEF NodeInv

-----------------------------------------------------------------------------
(* The microtasks.                                                         *)

Tasks == [kind : {"suspense", "apply", "wake"}, fetch : Fetch]

LEMMA QueueTail ==
  ASSUME NodeInv, microtasks # <<>>
  PROVE  /\ Len(microtasks) \in Nat /\ Len(microtasks) >= 1 /\ Head(microtasks) = microtasks[1]
         /\ DOMAIN microtasks = 1 .. Len(microtasks) /\ microtasks[1] \in Tasks
         /\ Tail(microtasks) \in Seq(Tasks) /\ Len(Tail(microtasks)) = Len(microtasks) - 1
         /\ DOMAIN Tail(microtasks) = 1 .. Len(microtasks) - 1
         /\ \A k \in 1 .. Len(microtasks) - 1 : Tail(microtasks)[k] = microtasks[k + 1]
<1>1. microtasks \in Seq(Tasks)
  BY CallsAre DEF Tasks
<1> HIDE DEF Tasks
<1>2. Len(microtasks) \in Nat /\ Len(microtasks) >= 1 /\ DOMAIN microtasks = 1 .. Len(microtasks)
  BY <1>1, EmptySeq
<1>3. Tail(microtasks) \in Seq(Tasks) /\ Len(Tail(microtasks)) = Len(microtasks) - 1
      /\ \A k \in 1 .. Len(microtasks) - 1 : Tail(microtasks)[k] = microtasks[k + 1]
  BY <1>1, HeadTailProperties
<1>4. Head(microtasks) = microtasks[1] /\ microtasks[1] \in Tasks
  BY <1>1, <1>2
<1>5. DOMAIN Tail(microtasks) = 1 .. Len(microtasks) - 1
  BY <1>3
<1> QED BY <1>2, <1>3, <1>4, <1>5

LEMMA SettleKeepsQueue ==
  ASSUME NodeInv, QueueInOrder, NEW f \in Fetch, NEW outcome \in {"value", "error"}, Settle(f, outcome)
  PROVE  QueueInOrder' /\ microtasks' \in Seq(Tasks)
<1>1. /\ microtasks \in Seq(Tasks) /\ fetches \in [Fetch -> Calls]
  BY CallsAre DEF Tasks
<1>2. PICK n \in Nat : n = Len(microtasks)
  BY <1>1
<1>3. Task("suspense", f) \in Tasks /\ Task("apply", f) \in Tasks
  BY DEF Task, Tasks
<1>4. Reactions(f) \in Seq(Tasks) /\ Len(Reactions(f)) = 2 /\ Reactions(f)[1] = Task("suspense", f)
      /\ Reactions(f)[2] = Task("apply", f)
  BY <1>3 DEF Reactions
<1>5. /\ microtasks' \in Seq(Tasks) /\ Len(microtasks') = n + 2 
      /\ \A k \in 1 .. n : microtasks'[k] = microtasks[k]
      /\ microtasks'[n + 1] = Task("suspense", f) /\ microtasks'[n + 2] = Task("apply", f)
  <2>1. microtasks' = microtasks \o Reactions(f)
    BY DEF Settle
  <2>2. /\ microtasks \o Reactions(f) \in Seq(Tasks) /\ Len(microtasks \o Reactions(f)) = n + 2
        /\ \A k \in 1 .. n + 2 : (microtasks \o Reactions(f))[k] =
                                   IF k <= n THEN microtasks[k] ELSE Reactions(f)[k - n]
    <3>1. PICK r \in Seq(Tasks) : r = Reactions(f)
      BY <1>4
    <3>2. /\ microtasks \o r \in Seq(Tasks) /\ Len(microtasks \o r) = Len(microtasks) + Len(r)
          /\ \A k \in 1 .. Len(microtasks) + Len(r) : (microtasks \o r)[k] =
                IF k <= Len(microtasks) THEN microtasks[k] ELSE r[k - Len(microtasks)]
      BY <1>1, ConcatProperties
    <3> QED BY <1>2, <1>4, <3>1, <3>2
  <2>3. 1 .. n \subseteq 1 .. n + 2 /\ n + 1 \in 1 .. n + 2 /\ n + 2 \in 1 .. n + 2
        /\ (n + 1) - n = 1 /\ (n + 2) - n = 2 /\ ~ n + 1 <= n /\ ~ n + 2 <= n
    OBVIOUS
  <2>4. \A k \in 1 .. n : microtasks'[k] = microtasks[k]
    BY <2>1, <2>2, <2>3
  <2>5. microtasks'[n + 1] = Reactions(f)[1] /\ microtasks'[n + 2] = Reactions(f)[2]
    BY <2>1, <2>2, <2>3
  <2> QED BY <1>4, <2>1, <2>2, <2>4, <2>5
<1>6. DOMAIN microtasks = 1 .. n /\ DOMAIN microtasks' = 1 .. n + 2
  BY <1>1, <1>2, <1>5
<1>7. /\ fetches[f].stage = "pending" /\ fetches'[f].stage = "settled"
      /\ \A g \in Fetch \ {f} : fetches'[g] = fetches[g]
  BY <1>1 DEF Settle, Calls
<1>8. \A k \in 1 .. n : ~IsTask(k, "apply", f)
  BY <1>6, <1>7 DEF QueueInOrder
<1>9. \A k \in 1 .. n + 2 : k \in 1 .. n \/ k = n + 1 \/ k = n + 2
  OBVIOUS
<1>10. /\ \A k \in 1 .. n, g \in Fetch, kind \in {"suspense", "apply", "wake"} :
            IsTask(k, kind, g)' <=> IsTask(k, kind, g)
       /\ \A g \in Fetch, kind \in {"suspense", "apply", "wake"} :
            /\ IsTask(n + 1, kind, g)' <=> kind = "suspense" /\ g = f
            /\ IsTask(n + 2, kind, g)' <=> kind = "apply" /\ g = f
  BY <1>5 DEF IsTask, Task
<1>11. ASSUME NEW k \in 1 .. n + 2, NEW g \in Fetch, IsTask(k, "apply", g)'
       PROVE  fetches'[g].stage = "settled" /\ \A j \in 1 .. n + 2 : IsTask(j, "apply", g)' => j = k
  <2>1. CASE k \in 1 .. n
    <3>1. IsTask(k, "apply", g) /\ g # f
      BY <1>8, <1>10, <1>11, <2>1
    <3>2. fetches[g].stage = "settled" /\ \A j \in 1 .. n : IsTask(j, "apply", g) => j = k
      BY <1>6, <2>1, <3>1 DEF QueueInOrder
    <3>3. ASSUME NEW j \in 1 .. n + 2, IsTask(j, "apply", g)' PROVE j = k
      <4>1. j \in 1 .. n
        BY <1>9, <1>10, <3>1, <3>3
      <4> QED BY <1>10, <3>2, <3>3, <4>1
    <3> QED BY <1>7, <3>1, <3>2, <3>3
  <2>2. CASE k = n + 1
    BY <1>10, <1>11, <2>2
  <2>3. CASE k = n + 2
    BY <1>7, <1>8, <1>9, <1>10, <1>11, <2>3
  <2> QED BY <1>9, <2>1, <2>2, <2>3
<1>12. ASSUME NEW k \in 1 .. n + 2, NEW g \in Fetch, IsTask(k, "suspense", g)'
       PROVE  \E j \in 1 .. n + 2 : j > k /\ IsTask(j, "apply", g)'
  <2>1. CASE k \in 1 .. n
    <3>1. PICK j \in 1 .. n : j > k /\ IsTask(j, "apply", g)
      BY <1>6, <1>10, <1>12, <2>1 DEF QueueInOrder
    <3> QED BY <1>10, <3>1
  <2>2. CASE k = n + 1
    BY <1>10, <1>12, <2>2
  <2>3. CASE k = n + 2
    BY <1>10, <1>12, <2>3
  <2> QED BY <1>9, <2>1, <2>2, <2>3
<1>13. ASSUME NEW k \in 1 .. n + 2, NEW g \in Fetch, IsTask(k, "wake", g)'
       PROVE  \/ fetches'[g].stage \in {"served", "refused"}
              \/ \E j \in 1 .. n + 2 : j < k /\ IsTask(j, "apply", g)'
  <2>1. CASE k \in 1 .. n
    <3>1. IsTask(k, "wake", g)
      BY <1>10, <1>13, <2>1
    <3>2. CASE fetches[g].stage \in {"served", "refused"}
      BY <1>7, <3>2
    <3>3. CASE \E j \in 1 .. n : j < k /\ IsTask(j, "apply", g)
      BY <1>10, <3>3
    <3> QED BY <1>6, <2>1, <3>1, <3>2, <3>3 DEF QueueInOrder
  <2>2. CASE k = n + 1
    BY <1>10, <1>13, <2>2
  <2>3. CASE k = n + 2
    BY <1>10, <1>13, <2>3
  <2> QED BY <1>9, <2>1, <2>2, <2>3
<1> QED BY <1>5, <1>6, <1>11, <1>12, <1>13 DEF QueueInOrder

LEMMA SuspenseKeepsQueue ==
  ASSUME NodeInv, QueueInOrder, SettleSuspense
  PROVE  QueueInOrder' /\ microtasks' \in Seq(Tasks)
<1>1. microtasks \in Seq(Tasks) /\ microtasks # <<>>
  BY CallsAre DEF Tasks, SettleSuspense
<1>2. PICK n \in Nat : n = Len(microtasks)
  BY <1>1
<1>3. PICK f \in Fetch : f = microtasks[1].fetch
  BY <1>1, QueueTail DEF Tasks
<1>4. /\ n >= 1 /\ DOMAIN microtasks = 1 .. n /\ IsTask(1, "suspense", f)
      /\ Tail(microtasks) \in Seq(Tasks) /\ Len(Tail(microtasks)) = n - 1
      /\ \A k \in 1 .. n - 1 : Tail(microtasks)[k] = microtasks[k + 1]
      /\ microtasks' = Append(Tail(microtasks), Task("wake", f))
  BY <1>1, <1>2, <1>3, QueueTail DEF SettleSuspense, IsTask
<1>5. Task("wake", f) \in Tasks
  BY DEF Task, Tasks
<1>6. /\ microtasks' \in Seq(Tasks) /\ Len(microtasks') = n
      /\ \A k \in 1 .. n - 1 : microtasks'[k] = microtasks[k + 1]
      /\ microtasks'[n] = Task("wake", f)
  BY <1>4, <1>5
<1>7. /\ \A k \in 1 .. n - 1, g \in Fetch, kind \in {"suspense", "apply", "wake"} :
            IsTask(k, kind, g)' <=> IsTask(k + 1, kind, g)
      /\ \A g \in Fetch, kind \in {"suspense", "apply", "wake"} :
            IsTask(n, kind, g)' <=> kind = "wake" /\ g = f
  BY <1>6 DEF IsTask, Task
<1>8. /\ \A k \in 1 .. n : k = n \/ (k \in 1 .. n - 1 /\ k + 1 \in 1 .. n)
      /\ \A j \in 1 .. n : j # 1 => j - 1 \in 1 .. n - 1 /\ (j - 1) + 1 = j
      /\ n \in 1 .. n /\ 1 \in 1 .. n
  BY <1>4
<1>9. ~ IsTask(1, "apply", f) /\ \A g \in Fetch : ~ IsTask(1, "apply", g)
  BY <1>4 DEF IsTask
<1>10. DOMAIN microtasks' = 1 .. n /\ fetches' = fetches
  BY <1>6 DEF SettleSuspense
<1>11. ASSUME NEW k \in 1 .. n, NEW g \in Fetch, IsTask(k, "apply", g)'
       PROVE  fetches'[g].stage = "settled" /\ \A j \in 1 .. n : IsTask(j, "apply", g)' => j = k
  <2>1. k \in 1 .. n - 1 /\ k + 1 \in 1 .. n /\ IsTask(k + 1, "apply", g)
    BY <1>7, <1>8, <1>11
  <2>2. fetches[g].stage = "settled" /\ \A j \in 1 .. n : IsTask(j, "apply", g) => j = k + 1
    BY <1>4, <2>1 DEF QueueInOrder
  <2>3. ASSUME NEW j \in 1 .. n, IsTask(j, "apply", g)' PROVE j = k
    <3>1. j \in 1 .. n - 1 /\ j + 1 \in 1 .. n /\ IsTask(j + 1, "apply", g)
      BY <1>7, <1>8, <2>3
    <3>2. j + 1 = k + 1
      BY <2>2, <3>1
    <3> QED BY <3>2
  <2> QED BY <1>10, <2>2, <2>3
<1>12. ASSUME NEW k \in 1 .. n, NEW g \in Fetch, IsTask(k, "suspense", g)'
       PROVE  \E j \in 1 .. n : j > k /\ IsTask(j, "apply", g)'
  <2>1. k \in 1 .. n - 1 /\ k + 1 \in 1 .. n /\ IsTask(k + 1, "suspense", g)
    BY <1>7, <1>8, <1>12
  <2>2. PICK j \in 1 .. n : j > k + 1 /\ IsTask(j, "apply", g)
    BY <1>4, <2>1 DEF QueueInOrder
  <2>3. j - 1 \in 1 .. n - 1 /\ (j - 1) + 1 = j /\ j - 1 \in 1 .. n /\ j - 1 > k
    BY <2>1, <2>2
  <2>4. IsTask(j - 1, "apply", g)' <=> IsTask(j, "apply", g)
    BY <1>7, <2>3
  <2> QED BY <2>2, <2>3, <2>4
<1>13. ASSUME NEW k \in 1 .. n, NEW g \in Fetch, NEW j \in 1 .. n, j # 1, IsTask(j, "apply", g), j < k + 1
       PROVE  \E i \in 1 .. n : i < k /\ IsTask(i, "apply", g)'
  <2>1. j - 1 \in 1 .. n - 1 /\ (j - 1) + 1 = j /\ j - 1 \in 1 .. n /\ j - 1 < k
    BY <1>13
  <2>2. IsTask(j - 1, "apply", g)' <=> IsTask(j, "apply", g)
    BY <1>7, <2>1
  <2> QED BY <1>13, <2>1, <2>2
<1>14. ASSUME NEW k \in 1 .. n, NEW g \in Fetch, IsTask(k, "wake", g)'
       PROVE  \/ fetches'[g].stage \in {"served", "refused"}
              \/ \E j \in 1 .. n : j < k /\ IsTask(j, "apply", g)'
  <2>1. CASE k = n
    <3>1. g = f
      BY <1>7, <1>14, <2>1
    <3>2. PICK j \in 1 .. n : j > 1 /\ IsTask(j, "apply", g)
      BY <1>4, <1>8, <3>1 DEF QueueInOrder
    <3>3. j # 1 /\ j < k + 1
      BY <2>1, <3>2
    <3> QED BY <1>13, <3>2, <3>3
  <2>2. CASE k # n
    <3>1. k \in 1 .. n - 1 /\ k + 1 \in 1 .. n /\ IsTask(k + 1, "wake", g)
      BY <1>7, <1>8, <1>14, <2>2
    <3>2. CASE fetches[g].stage \in {"served", "refused"}
      BY <1>10, <3>2
    <3>3. CASE \E j \in 1 .. n : j < k + 1 /\ IsTask(j, "apply", g)
      <4>1. PICK j \in 1 .. n : j < k + 1 /\ IsTask(j, "apply", g)
        BY <3>3
      <4>2. j # 1
        BY <1>9, <4>1
      <4> QED BY <1>13, <4>1, <4>2
    <3> QED BY <1>4, <3>1, <3>2, <3>3 DEF QueueInOrder
  <2> QED BY <2>1, <2>2
<1> QED BY <1>6, <1>10, <1>11, <1>12, <1>14 DEF QueueInOrder


\* The queue loses its head, which is the answer of a call that is then done.
LEMMA TailKeepsQueue ==
  ASSUME NodeInv, QueueInOrder, microtasks # <<>>, microtasks' = Tail(microtasks),
         \A g \in Fetch : ~IsTask(1, "apply", g) => fetches'[g] = fetches[g],
         \A g \in Fetch : IsTask(1, "apply", g) => fetches'[g].stage \in {"served", "refused"}
  PROVE  QueueInOrder' /\ microtasks' \in Seq(Tasks)
<1>2. PICK n \in Nat : n = Len(microtasks)
  BY QueueTail
<1>4. /\ n >= 1 /\ DOMAIN microtasks = 1 .. n /\ DOMAIN microtasks' = 1 .. n - 1
      /\ microtasks' \in Seq(Tasks)
      /\ \A k \in 1 .. n - 1 : microtasks'[k] = microtasks[k + 1]
  BY <1>2, QueueTail
<1>7. \A k \in 1 .. n - 1, g \in Fetch, kind \in {"suspense", "apply", "wake"} :
        IsTask(k, kind, g)' <=> IsTask(k + 1, kind, g)
  BY <1>4 DEF IsTask
<1>8. /\ \A k \in 1 .. n - 1 : k + 1 \in 1 .. n /\ k + 1 # 1 /\ k \in 1 .. n
      /\ \A j \in 1 .. n : j # 1 => j - 1 \in 1 .. n - 1 /\ (j - 1) + 1 = j
      /\ 1 \in 1 .. n
  BY <1>4
<1>9. ASSUME NEW k \in 1 .. n, NEW g \in Fetch, IsTask(k, "apply", g), k # 1
      PROVE  ~IsTask(1, "apply", g) /\ fetches'[g] = fetches[g]
  <2>1. IsTask(1, "apply", g) => 1 = k
    BY <1>4, <1>8, <1>9 DEF QueueInOrder
  <2> QED BY <1>9, <2>1
<1>11. ASSUME NEW k \in 1 .. n - 1, NEW g \in Fetch, IsTask(k, "apply", g)'
       PROVE  fetches'[g].stage = "settled" /\ \A j \in 1 .. n - 1 : IsTask(j, "apply", g)' => j = k
  <2>1. k + 1 \in 1 .. n /\ k + 1 # 1 /\ IsTask(k + 1, "apply", g)
    BY <1>7, <1>8, <1>11
  <2>2. fetches[g].stage = "settled" /\ \A j \in 1 .. n : IsTask(j, "apply", g) => j = k + 1
    BY <1>4, <2>1 DEF QueueInOrder
  <2>3. ASSUME NEW j \in 1 .. n - 1, IsTask(j, "apply", g)' PROVE j = k
    <3>1. j + 1 \in 1 .. n /\ IsTask(j + 1, "apply", g)
      BY <1>7, <1>8, <2>3
    <3>2. j + 1 = k + 1
      BY <2>2, <3>1
    <3> QED BY <3>2
  <2>4. fetches'[g] = fetches[g]
    BY <1>9, <2>1
  <2> QED BY <2>2, <2>3, <2>4
<1>12. ASSUME NEW k \in 1 .. n - 1, NEW g \in Fetch, IsTask(k, "suspense", g)'
       PROVE  \E j \in 1 .. n - 1 : j > k /\ IsTask(j, "apply", g)'
  <2>1. k + 1 \in 1 .. n /\ IsTask(k + 1, "suspense", g)
    BY <1>7, <1>8, <1>12
  <2>2. PICK j \in 1 .. n : j > k + 1 /\ IsTask(j, "apply", g)
    BY <1>4, <2>1 DEF QueueInOrder
  <2>3. j - 1 \in 1 .. n - 1 /\ (j - 1) + 1 = j /\ j - 1 > k
    BY <2>1, <2>2
  <2>4. IsTask(j - 1, "apply", g)' <=> IsTask(j, "apply", g)
    BY <1>7, <2>3
  <2> QED BY <2>2, <2>3, <2>4
<1>14. ASSUME NEW k \in 1 .. n - 1, NEW g \in Fetch, IsTask(k, "wake", g)'
       PROVE  \/ fetches'[g].stage \in {"served", "refused"}
              \/ \E j \in 1 .. n - 1 : j < k /\ IsTask(j, "apply", g)'
  <2>1. k + 1 \in 1 .. n /\ IsTask(k + 1, "wake", g)
    BY <1>7, <1>8, <1>14
  <2>2. CASE IsTask(1, "apply", g)
    BY <2>2
  <2>3. CASE ~IsTask(1, "apply", g)
    <3>1. CASE fetches[g].stage \in {"served", "refused"}
      BY <2>3, <3>1
    <3>2. CASE \E j \in 1 .. n : j < k + 1 /\ IsTask(j, "apply", g)
      <4>1. PICK j \in 1 .. n : j < k + 1 /\ IsTask(j, "apply", g)
        BY <3>2
      <4>2. j # 1
        BY <2>3, <4>1
      <4>3. j - 1 \in 1 .. n - 1 /\ (j - 1) + 1 = j /\ j - 1 < k
        BY <4>1, <4>2
      <4>4. IsTask(j - 1, "apply", g)' <=> IsTask(j, "apply", g)
        BY <1>7, <4>3
      <4> QED BY <4>1, <4>3, <4>4
    <3> QED BY <1>4, <2>1, <3>1, <3>2 DEF QueueInOrder
  <2> QED BY <2>2, <2>3
<1> QED BY <1>4, <1>11, <1>12, <1>14 DEF QueueInOrder

\* What a step that leaves the queue alone does to no call in it.
LEMMA OthersKeepQueue ==
  ASSUME NodeInv, QueueInOrder, microtasks' = microtasks,
         \A g \in Fetch : fetches'[g] = fetches[g] \/ fetches[g].stage = "unborn"
  PROVE  QueueInOrder' /\ microtasks' \in Seq(Tasks)
<1>1. microtasks' \in Seq(Tasks)
  BY CallsAre DEF Tasks
<1>2. \A k \in DOMAIN microtasks : \A g \in Fetch : IsTask(k, "apply", g) => fetches'[g] = fetches[g]
  BY DEF QueueInOrder
<1>3. \A g \in Fetch : fetches[g].stage \in {"served", "refused"} => fetches'[g] = fetches[g]
  OBVIOUS
<1>4. \A k, kind, g : IsTask(k, kind, g)' <=> IsTask(k, kind, g)
  BY DEF IsTask
<1> QED BY <1>1, <1>2, <1>3, <1>4 DEF QueueInOrder

-----------------------------------------------------------------------------
(* The answer at the head of the queue.                                    *)

\* An answer that is not stale belongs to the call the node is loading.
LEMMA FreshIsOfTheNode ==
  ASSUME NodeInv, NEW f \in Fetch, f \in Started, node.state = "loading", now <= fetches[f].loadingAt
  PROVE  fetches[f].origin = node.origin /\ fetches[f].loadingAt = now
<1>1. /\ fetches[f].loadingAt = fetches[f].origin + 1 /\ fetches[f].loadingAt <= now
      /\ fetches[f].origin <= node.origin
  BY DEF NodeInv, CallsAreDated, OriginIsOfTheLastFetch
<1>2. PICK g \in Started : fetches[g].origin = node.origin
  BY DEF NodeInv, OriginIsOfTheLastFetch
<1>3. fetches[g].loadingAt = fetches[g].origin + 1 /\ fetches[g].loadingAt <= now
  BY DEF NodeInv, CallsAreDated
<1>4. /\ now \in Nat /\ fetches[f].origin \in Time /\ fetches[f].loadingAt \in Time
      /\ fetches[g].origin \in Time /\ fetches[g].loadingAt \in Time
  BY CallsAre DEF Calls, Started
<1>5. /\ fetches[f].origin \in Nat /\ fetches[f].loadingAt \in Nat
      /\ fetches[g].origin \in Nat /\ fetches[g].loadingAt \in Nat
  BY <1>4 DEF Time
<1> QED BY <1>1, <1>2, <1>3, <1>4, <1>5

LEMMA ApplyKeepsNode ==
  ASSUME NodeInv, QueueInOrder, ApplyAnswer
  PROVE  NodeInv' /\ QueueInOrder'
<1>1. PICK f \in Fetch : f = Head(microtasks).fetch
  BY QueueTail DEF Tasks, ApplyAnswer
<1>2. IsTask(1, "apply", f) /\ 1 \in DOMAIN microtasks /\ microtasks # <<>> /\ fetches \in [Fetch -> Calls]
      /\ \A g \in Fetch : IsTask(1, "apply", g) => g = f
  BY <1>1, QueueTail, CallsAre DEF ApplyAnswer, IsTask
<1>3. fetches[f].stage = "settled" /\ fetches[f].outcome \in {"value", "error"} /\ f \in Started
  BY <1>2 DEF QueueInOrder, NodeInv, OutcomesAreKnown, Started
<1>4. PICK done \in {"served", "refused"} :
        /\ fetches' = [fetches EXCEPT ![f].stage = done]
        /\ done = "served" <=> LegalAnswer
  BY <1>1 DEF ApplyAnswer
<1>5. /\ fetches' \in [Fetch -> Calls] /\ fetches'[f].stage = done
      /\ fetches'[f].origin = fetches[f].origin /\ fetches'[f].loadingAt = fetches[f].loadingAt
      /\ \A g \in Fetch \ {f} : fetches'[g] = fetches[g]
  BY <1>2, <1>4 DEF Calls
<1>6. QueueInOrder' /\ microtasks' \in Seq(Tasks)
  BY <1>2, <1>5, TailKeepsQueue DEF ApplyAnswer
<1>7. Started' = Started
  BY <1>3, <1>5 DEF Started
<1>8. OutcomesAreKnown'
  BY <1>5 DEF OutcomesAreKnown, NodeInv
<1>9. woken' = woken /\ guarded' = guarded /\ woken \in {"nobody", "answer", "same-promise"}
  BY DEF ApplyAnswer, NodeInv, ResourceTypeOK
<1>10. CASE ~LegalAnswer
  <2>1. UNCHANGED <<node, label, now>>
    BY <1>1, <1>10 DEF ApplyAnswer
  <2>2. node.state # "loading" /\ LoadingIsAwaited'
    BY <1>10, <2>1 DEF LegalAnswer, LoadingIsAwaited
  <2>3. NodeInv'
    BY <1>3, <1>5, <1>6, <1>7, <1>8, <1>9, <2>1, <2>2, StageKeepsNode DEF Tasks
  <2> QED BY <1>6, <2>3
<1>11. CASE LegalAnswer
  <2>0. /\ node.state = "loading" /\ now \in Time /\ now \in Nat /\ node \in NodeRecord
        /\ fetches[f].loadingAt \in Time /\ fetches[f].loadingAt \in Nat
    <3>1. node.state = "loading" /\ now \in Time /\ now \in Nat /\ node \in NodeRecord
      BY <1>11, CallsAre DEF LegalAnswer
    <3>2. fetches[f].loadingAt \in Time
      BY <1>2 DEF Calls
    <3> QED BY <3>1, <3>2 DEF Time
  <2>1. CASE fetches[f].outcome = "value"
    <3>1. SetState(Answered(f, fetches[f].loadingAt), Intent(fetches[f]))
      BY <1>1, <1>11, <2>1 DEF ApplyAnswer
    <3>2. PICK next : next = Answered(f, fetches[f].loadingAt)
      OBVIOUS
    <3>3. /\ next.state = (IF IsStale(fetches[f].loadingAt) THEN "stale" ELSE "loaded")
          /\ next.origin = node.origin /\ next.promise = NoFetch /\ next.value = f /\ next.at = now
          /\ next \in NodeRecord
      BY <2>0, <3>2 DEF Answered, NodeRecord, States
    <3>4. next \in NodeStates
      <4>1. next \in NodeStates <=> /\ next \in NodeRecord
                                    /\ next.promise # NoFetch <=> next.state = "loading"
                                    /\ next.value # NoFetch <=> next.state \in {"loaded", "stale"}
        BY NodeIs
      <4> QED BY <3>3, <4>1, SyncTimes
    <3>5. guarded /\ next.state = "loaded" =>
            fetches[next.value].origin = node.origin /\ fetches[next.value].loadingAt = next.at
      <4>1. SUFFICES ASSUME guarded, next.state = "loaded"
                     PROVE  fetches[f].origin = node.origin /\ fetches[f].loadingAt = now
        BY <3>3
      <4>2. now <= fetches[f].loadingAt
        BY <2>0, <3>3, <4>1 DEF IsStale
      <4> QED BY <1>3, <2>0, <4>2, FreshIsOfTheNode
    <3>6. PICK edge \in {"stale", "loaded"} :
            edge = Intent(fetches[f]) /\ (edge = "stale" <=> IsStale(fetches[f].loadingAt))
      BY DEF Intent, IsStale
    <3>7. node' = next /\ label' = edge /\ SetState(next, edge) /\ edge \in Labels
      BY <3>1, <3>2, <3>6 DEF SetState, Labels
    <3>8. LabelIsTrue'
      BY <3>3, <3>6, <3>7 DEF LabelIsTrue
    <3>9. NodeInv'
      BY <1>5, <1>6, <1>7, <1>8, <1>9, <2>0, <3>3, <3>4, <3>5, <3>7, <3>8, CommitKeepsNode DEF Tasks
    <3> QED BY <1>6, <3>9
  <2>2. CASE fetches[f].outcome # "value"
    <3>1. SetState(Errored, "error")
      BY <1>1, <1>11, <2>2 DEF ApplyAnswer
    <3>2. PICK next : next = Errored
      OBVIOUS
    <3>3. /\ next.state = "errored" /\ next.origin = node.origin /\ next.promise = NoFetch
          /\ next.value = NoFetch /\ next.at = now /\ next \in NodeRecord
      BY <2>0, <3>2 DEF Errored, NodeRecord, States
    <3>4. next \in NodeStates
      <4>1. next \in NodeStates <=> /\ next \in NodeRecord
                                    /\ next.promise # NoFetch <=> next.state = "loading"
                                    /\ next.value # NoFetch <=> next.state \in {"loaded", "stale"}
        BY NodeIs
      <4> QED BY <3>3, <4>1
    <3>7. node' = next /\ label' = "error" /\ SetState(next, "error") /\ "error" \in Labels
      BY <3>1, <3>2 DEF SetState, Labels
    <3>8. LabelIsTrue'
      BY <3>3, <3>7 DEF LabelIsTrue
    <3>9. NodeInv'
      BY <1>5, <1>6, <1>7, <1>8, <1>9, <2>0, <3>3, <3>4, <3>7, <3>8, CommitKeepsNode DEF Tasks
    <3> QED BY <1>6, <3>9
  <2> QED BY <2>1, <2>2
<1> QED BY <1>10, <1>11


-----------------------------------------------------------------------------
(* The other steps.                                                        *)

LEMMA SettleKeepsNode ==
  ASSUME NodeInv, NEW f \in Fetch, NEW outcome \in {"value", "error"}, Settle(f, outcome),
         microtasks' \in Seq(Tasks)
  PROVE  NodeInv'
<1>1. /\ fetches \in [Fetch -> Calls] /\ fetches[f].stage = "pending"
      /\ UNCHANGED <<node, guarded, label, woken, now>>
  BY CallsAre DEF Settle
<1>2. /\ fetches' \in [Fetch -> Calls]
      /\ fetches'[f].stage = "settled" /\ fetches'[f].outcome = outcome
      /\ fetches'[f].origin = fetches[f].origin /\ fetches'[f].loadingAt = fetches[f].loadingAt
      /\ \A g \in Fetch \ {f} : fetches'[g] = fetches[g]
  BY <1>1 DEF Settle, Calls
<1>3. f \in Started /\ f \in Started'
  BY <1>1, <1>2 DEF Started
<1>4. OutcomesAreKnown'
  BY <1>2 DEF NodeInv, OutcomesAreKnown
<1>5. LoadingIsAwaited'
  <2>1. node.state = "loading" => node.promise \in Fetch
    BY CallsAre DEF NodeRecord
  <2> QED BY <1>1, <1>2, <2>1 DEF NodeInv, LoadingIsAwaited
<1>6. woken' \in {"nobody", "answer", "same-promise"}
  BY <1>1 DEF NodeInv, ResourceTypeOK
<1> QED BY <1>1, <1>2, <1>3, <1>4, <1>5, <1>6, StageKeepsNode DEF Tasks

LEMMA ThrowKeepsNode ==
  ASSUME NodeInv, NEW f \in Fetch, LoaderThrows(f)
  PROVE  NodeInv'
<1>1. /\ fetches \in [Fetch -> Calls] /\ fetches[f].stage = "unborn"
      /\ UNCHANGED <<node, guarded, microtasks, label, woken, now>>
  BY CallsAre DEF LoaderThrows
<1>2. /\ fetches' \in [Fetch -> Calls] /\ fetches'[f].stage = "threw"
      /\ fetches'[f].origin = fetches[f].origin /\ fetches'[f].loadingAt = fetches[f].loadingAt
      /\ \A g \in Fetch \ {f} : fetches'[g] = fetches[g]
  BY <1>1 DEF LoaderThrows, Calls
<1>3. f \notin Started /\ f \notin Started'
  BY <1>1, <1>2 DEF Started
<1>4. OutcomesAreKnown'
  BY <1>2 DEF NodeInv, OutcomesAreKnown
<1>5. LoadingIsAwaited'
  <2>1. node.state = "loading" => node.promise \in Fetch
    BY CallsAre DEF NodeRecord
  <2> QED BY <1>1, <1>2, <2>1 DEF NodeInv, LoadingIsAwaited
<1>6. woken' \in {"nobody", "answer", "same-promise"}
      /\ microtasks' \in Seq([kind : {"suspense", "apply", "wake"}, fetch : Fetch])
  BY <1>1, CallsAre DEF NodeInv, ResourceTypeOK
<1> QED BY <1>1, <1>2, <1>3, <1>4, <1>5, <1>6, StageKeepsNode

\* The node and its history stay, whatever the queue and the clock do.
LEMMA QueueKeepsNode ==
  ASSUME NodeInv, UNCHANGED <<node, guarded, fetches, label>>, now' = now \/ Tick,
         microtasks' \in Seq(Tasks), woken' \in {"nobody", "answer", "same-promise"}
  PROVE  NodeInv'
<1>1. now \in Nat /\ now' \in Time /\ (now' = now \/ now' = now + 1)
  BY CallsAre, ClockMoves
<1>2. Started' = Started
  BY DEF Started
<1>3. CallsAreDated'
  <2> SUFFICES ASSUME NEW g \in Started
               PROVE  fetches[g].loadingAt = fetches[g].origin + 1 /\ fetches[g].loadingAt <= now'
    BY <1>2 DEF CallsAreDated
  <2>1. /\ fetches[g].loadingAt = fetches[g].origin + 1 /\ fetches[g].loadingAt <= now
        /\ g \in Fetch /\ fetches[g].loadingAt \in Time
    BY CallsAre DEF NodeInv, CallsAreDated, Calls, Started
  <2>2. fetches[g].loadingAt \in Nat
    BY <2>1 DEF Time
  <2> QED BY <1>1, <2>1, <2>2
<1>4. ResourceTypeOK'
  BY DEF NodeInv, ResourceTypeOK, Tasks
<1>5. OutcomesAreKnown' /\ LabelIsTrue' /\ LoadedIsAuthoritative' /\ LoadingIsAwaited'
  BY DEF NodeInv, OutcomesAreKnown, LabelIsTrue, LoadedIsAuthoritative, LoadingIsAwaited
<1>6. OriginIsOfTheLastFetch'
  BY <1>2 DEF NodeInv, OriginIsOfTheLastFetch
<1> QED BY <1>1, <1>3, <1>4, <1>5, <1>6 DEF NodeInv

LEMMA MutatorKeepsNode ==
  ASSUME NodeInv, Invalidate \/ Fail
  PROVE  NodeInv'
<1>1. /\ now \in Time /\ node \in NodeRecord /\ fetches' = fetches /\ guarded' = guarded
      /\ microtasks' \in Seq([kind : {"suspense", "apply", "wake"}, fetch : Fetch])
      /\ woken' \in {"nobody", "answer", "same-promise"}
  BY CallsAre DEF Invalidate, Fail, NodeInv, ResourceTypeOK
<1>2. Started' = Started /\ OutcomesAreKnown' /\ fetches' \in [Fetch -> Calls]
  BY <1>1, CallsAre DEF Started, NodeInv, OutcomesAreKnown
<1>3. CASE Invalidate
  <2>1. PICK next : next = [node EXCEPT !.state = "stale"]
    OBVIOUS
  <2>2. /\ node.state = "loaded" /\ node.promise = NoFetch /\ node.value # NoFetch
        /\ next.state = "stale" /\ next.origin = node.origin /\ next.promise = NoFetch
        /\ next.value = node.value /\ next \in NodeRecord
    <3>1. node.state = "loaded" /\ node.promise = NoFetch /\ node.value # NoFetch
      BY <1>3, CallsAre DEF Invalidate
    <3> QED BY <1>1, <2>1, <3>1 DEF NodeRecord, States
  <2>3. next \in NodeStates
    <3>1. next \in NodeStates <=> /\ next \in NodeRecord
                                  /\ next.promise # NoFetch <=> next.state = "loading"
                                  /\ next.value # NoFetch <=> next.state \in {"loaded", "stale"}
      BY NodeIs
    <3> QED BY <2>2, <3>1
  <2>4. node' = next /\ label' = "invalidate" /\ SetState(next, "invalidate") /\ "invalidate" \in Labels
    BY <1>3, <2>1 DEF Invalidate, SetState, Labels
  <2>5. LabelIsTrue'
    BY <2>2, <2>4 DEF LabelIsTrue
  <2> QED BY <1>1, <1>2, <2>2, <2>3, <2>4, <2>5, CommitKeepsNode
<1>4. CASE Fail
  <2>1. PICK next : next = Errored
    OBVIOUS
  <2>2. /\ next.state = "errored" /\ next.origin = node.origin /\ next.promise = NoFetch
        /\ next.value = NoFetch /\ next \in NodeRecord /\ node.state \in {"loading", "loaded"}
    BY <1>1, <1>4, <2>1 DEF Errored, NodeRecord, States, Fail
  <2>3. next \in NodeStates
    <3>1. next \in NodeStates <=> /\ next \in NodeRecord
                                  /\ next.promise # NoFetch <=> next.state = "loading"
                                  /\ next.value # NoFetch <=> next.state \in {"loaded", "stale"}
      BY NodeIs
    <3> QED BY <2>2, <3>1
  <2>4. node' = next /\ label' = "fail" /\ SetState(next, "fail") /\ "fail" \in Labels
    BY <1>4, <2>1 DEF Fail, SetState, Labels
  <2>5. LabelIsTrue'
    BY <2>2, <2>4 DEF LabelIsTrue
  <2> QED BY <1>1, <1>2, <2>2, <2>3, <2>4, <2>5, CommitKeepsNode
<1> QED BY <1>3, <1>4

\* Whoever is woken finds the answer of his call given.
LEMMA WakeKeepsNode ==
  ASSUME NodeInv, QueueInOrder, WokenRendererMovesOn, WakeRenderer
  PROVE  NodeInv' /\ QueueInOrder' /\ WokenRendererMovesOn'
<1>1. PICK f \in Fetch : f = Head(microtasks).fetch
  BY QueueTail DEF Tasks, WakeRenderer
<1>2. /\ IsTask(1, "wake", f) /\ microtasks # <<>> /\ UNCHANGED <<node, guarded, fetches, label, now>>
      /\ DOMAIN microtasks = 1 .. Len(microtasks) /\ 1 \in DOMAIN microtasks /\ Len(microtasks) \in Nat
      /\ \A g \in Fetch : ~IsTask(1, "apply", g)
  BY <1>1, QueueTail DEF WakeRenderer, IsTask
<1>3. \A j \in DOMAIN microtasks : ~ j < 1
  BY <1>2
<1>4. fetches[f].stage \in {"served", "refused"}
  BY <1>2, <1>3 DEF QueueInOrder
<1>5. node.promise # f
  <2>1. SUFFICES ASSUME node.promise = f PROVE FALSE
    OBVIOUS
  <2>2. node.state = "loading"
    BY <2>1, CallsAre, SyncTimes
  <2> QED BY <1>4, <2>1, <2>2 DEF NodeInv, LoadingIsAwaited
<1>6. woken' = "answer"
  BY <1>1, <1>5 DEF WakeRenderer
<1>7. microtasks' = Tail(microtasks)
  BY DEF WakeRenderer
<1>8. QueueInOrder' /\ microtasks' \in Seq(Tasks)
  BY <1>2, <1>7, TailKeepsQueue
<1>9. NodeInv'
  BY <1>2, <1>6, <1>8, QueueKeepsNode
<1> QED BY <1>6, <1>8, <1>9 DEF WokenRendererMovesOn

LEMMA SyncStepKeeps == SyncInv /\ [SyncNext]_syncVars => SyncInv'
<1> SUFFICES ASSUME SyncInv, [SyncNext]_syncVars PROVE SyncInv'
  OBVIOUS
<1>0. /\ NodeInv /\ QueueInOrder /\ WokenRendererMovesOn /\ ConflictsInv
      /\ woken \in {"nobody", "answer", "same-promise"}
  BY DEF SyncInv, NodeInv, ResourceTypeOK
<1>1. ASSUME ResourceNext, ConflictsStay
      PROVE  NodeInv' /\ QueueInOrder' /\ WokenRendererMovesOn' /\ (now' = now \/ Tick)
  <2>1. ASSUME NEW f \in Fetch, StartFetch(f) PROVE NodeInv' /\ QueueInOrder' /\ WokenRendererMovesOn' /\ Tick
    <3>1. NodeInv'
      BY <1>0, <2>1, StartKeepsNode
    <3>2. \A g \in Fetch : fetches'[g] = fetches[g] \/ fetches[g].stage = "unborn"
      BY <1>0, <2>1, CallsAre DEF StartFetch
    <3>3. microtasks' = microtasks /\ woken' = woken /\ Tick
      BY <2>1 DEF StartFetch, SetState
    <3> QED BY <1>0, <3>1, <3>2, <3>3, OthersKeepQueue DEF WokenRendererMovesOn
  <2>2. ASSUME NEW f \in Fetch, LoaderThrows(f)
        PROVE  NodeInv' /\ QueueInOrder' /\ WokenRendererMovesOn' /\ now' = now
    <3>1. NodeInv'
      BY <1>0, <2>2, ThrowKeepsNode
    <3>2. \A g \in Fetch : fetches'[g] = fetches[g] \/ fetches[g].stage = "unborn"
      BY <1>0, <2>2, CallsAre DEF LoaderThrows
    <3>3. microtasks' = microtasks /\ woken' = woken /\ now' = now
      BY <2>2 DEF LoaderThrows
    <3> QED BY <1>0, <3>1, <3>2, <3>3, OthersKeepQueue DEF WokenRendererMovesOn
  <2>3. ASSUME NEW f \in Fetch, NEW outcome \in {"value", "error"}, Settle(f, outcome)
        PROVE  NodeInv' /\ QueueInOrder' /\ WokenRendererMovesOn' /\ now' = now
    <3>1. QueueInOrder' /\ microtasks' \in Seq(Tasks)
      BY <1>0, <2>3, SettleKeepsQueue
    <3>2. NodeInv'
      BY <1>0, <2>3, <3>1, SettleKeepsNode
    <3>3. woken' = woken /\ now' = now
      BY <2>3 DEF Settle
    <3> QED BY <1>0, <3>1, <3>2, <3>3 DEF WokenRendererMovesOn
  <2>4. CASE SettleSuspense
    <3>1. QueueInOrder' /\ microtasks' \in Seq(Tasks)
      BY <1>0, <2>4, SuspenseKeepsQueue
    <3>2. UNCHANGED <<node, guarded, fetches, label, woken, now>>
      BY <2>4 DEF SettleSuspense
    <3>3. NodeInv'
      BY <1>0, <3>1, <3>2, QueueKeepsNode
    <3> QED BY <1>0, <3>1, <3>2, <3>3 DEF WokenRendererMovesOn
  <2>5. CASE ApplyAnswer
    <3>1. NodeInv' /\ QueueInOrder'
      BY <1>0, <2>5, ApplyKeepsNode
    <3>2. woken' = woken /\ (now' = now \/ Tick)
      BY <2>5 DEF ApplyAnswer, SetState
    <3> QED BY <1>0, <3>1, <3>2 DEF WokenRendererMovesOn
  <2>6. CASE WakeRenderer
    <3>1. now' = now
      BY <2>6 DEF WakeRenderer
    <3> QED BY <1>0, <2>6, <3>1, WakeKeepsNode
  <2>7. CASE Invalidate \/ Fail
    <3>1. NodeInv'
      BY <1>0, <2>7, MutatorKeepsNode
    <3>2. fetches' = fetches /\ microtasks' = microtasks /\ woken' = woken /\ Tick
      BY <2>7 DEF Invalidate, Fail, SetState
    <3> QED BY <1>0, <3>1, <3>2, OthersKeepQueue DEF WokenRendererMovesOn
  <2> QED BY <1>1, <2>1, <2>2, <2>3, <2>4, <2>5, <2>6, <2>7 DEF ResourceNext
<1>2. ASSUME ConflictNext, UNCHANGED resourceVars
      PROVE  NodeInv' /\ QueueInOrder' /\ WokenRendererMovesOn'
  <2>1. UNCHANGED <<node, guarded, fetches, microtasks, label, woken>>
    BY <1>2 DEF resourceVars
  <2>2. now' = now \/ Tick
    BY <1>2 DEF ConflictNext, Reemit, Decide
  <2>3. QueueInOrder' /\ microtasks' \in Seq(Tasks)
    BY <1>0, <2>1, OthersKeepQueue
  <2> QED BY <1>0, <2>1, <2>2, <2>3, QueueKeepsNode DEF WokenRendererMovesOn
<1>3. ASSUME UNCHANGED syncVars PROVE SyncInv'
  <2>1. UNCHANGED <<now, node, guarded, fetches, microtasks, label, woken>> /\ UNCHANGED conflictVars
    BY <1>3 DEF syncVars, resourceVars
  <2>2. QueueInOrder' /\ microtasks' \in Seq(Tasks)
    BY <1>0, <2>1, OthersKeepQueue
  <2>3. NodeInv'
    BY <1>0, <2>1, <2>2, QueueKeepsNode
  <2>4. ConflictsStay /\ now' = now
    BY <2>1 DEF ConflictsStay, conflictVars
  <2>5. ConflictsInv'
    BY <1>0, <2>4, RegistryKeeps
  <2> QED BY <1>0, <2>1, <2>2, <2>3, <2>5 DEF SyncInv, WokenRendererMovesOn
<1>4. CASE ResourceStep
  <2>1. ResourceNext /\ ConflictsStay
    BY <1>4 DEF ResourceStep
  <2>2. NodeInv' /\ QueueInOrder' /\ WokenRendererMovesOn' /\ (now' = now \/ Tick)
    BY <1>1, <2>1
  <2>3. ConflictsInv'
    BY <1>0, <2>1, <2>2, RegistryKeeps
  <2> QED BY <2>2, <2>3 DEF SyncInv
<1>5. CASE ConflictStep
  <2>1. ConflictNext /\ UNCHANGED resourceVars
    BY <1>5 DEF ConflictStep
  <2>2. NodeInv' /\ QueueInOrder' /\ WokenRendererMovesOn'
    BY <1>2, <2>1
  <2>3. ConflictsInv'
    BY <1>0, <2>1, RegistryKeeps
  <2> QED BY <2>2, <2>3 DEF SyncInv
<1> QED BY <1>3, <1>4, <1>5 DEF SyncNext

LEMMA SyncInvIsSound == SyncInv => SyncSound
<1> SUFFICES ASSUME SyncInv PROVE SyncSound
  OBVIOUS
<1>1. NodeInv /\ WokenRendererMovesOn /\ ConflictsInv
  BY DEF SyncInv
<1>2. ReasonIsTrue
  <2>1. LabelIsTrue /\ label \in Labels
    BY <1>1 DEF NodeInv, ResourceTypeOK
  <2> QED BY <2>1 DEF ReasonIsTrue, WhyUpdated, LabelIsTrue, Labels
<1>3. ShownOpenIsDecidable
  <2> SUFFICES ASSUME NEW c \in Conflict
               PROVE  MayLeave(CurrentKindOf(c)) <=> c \in emitted /\ Overlay[c] = "open"
    BY DEF ShownOpenIsDecidable
  <2>1. CASE records[c] = NoRecord
    BY <2>1 DEF MayLeave, CurrentKindOf, Overlay
  <2>2. CASE records[c] # NoRecord
    <3>1. records[c].kind \in {"resolved", "ignored", "superseded"}
      BY <1>1, <2>2 DEF ConflictsInv, ConflictTypeOK, Record, Verdicts
    <3> QED BY <2>2, <3>1 DEF MayLeave, CurrentKindOf, Overlay
  <2> QED BY <2>1, <2>2
<1> QED BY <1>1, <1>2, <1>3 DEF SyncSound, ResourceSound, ConflictsSound, NodeInv, ConflictsInv

THEOREM SyncIsSound == SyncSpec => []SyncSound
<1>1. SyncInit => SyncInv
  BY SyncInitHolds
<1>2. SyncInv /\ [SyncNext]_syncVars => SyncInv'
  BY SyncStepKeeps
<1>3. SyncInv => SyncSound
  BY SyncInvIsSound
<1> QED BY <1>1, <1>2, <1>3, PTL DEF SyncSpec


-----------------------------------------------------------------------------
(* The charts of the engine.                                               *)

\* What the engine answers about the node, event by event.
LEMMA ResourceCharts ==
  /\ \A e : EvaluateStatechart(OfResource(e)) = EvaluateResource(node, e, now)
  /\ \A f \in Fetch : EvaluateResource(node, Ask(f), now) =
        Permit([state |-> "loading", origin |-> now, promise |-> f, value |-> NoFetch, at |-> 0])
  /\ \A f \in Fetch : fetches[f].outcome = "error" =>
        EvaluateResource(node, Answer(f), now) = FetchReject(node, now)
  /\ \A f \in Fetch : fetches[f].outcome # "error" =>
        EvaluateResource(node, Answer(f), now) = FetchResolve(node, Answer(f), now)
  /\ EvaluateResource(node, [kind |-> "invalidate"], now) = InvalidateEdge(node)
  /\ EvaluateResource(node, [kind |-> "fail"], now) = FailEdge(node, now)
<1>1. \A e : EvaluateStatechart(OfResource(e)) = EvaluateResource(node, e, now)
  BY DEF EvaluateStatechart, OfResource
<1>2. ASSUME NEW f \in Fetch
      PROVE  EvaluateResource(node, Ask(f), now) =
        Permit([state |-> "loading", origin |-> now, promise |-> f, value |-> NoFetch, at |-> 0])
  BY DEF EvaluateResource, Ask, FetchStart
<1>3. ASSUME NEW f \in Fetch, fetches[f].outcome = "error"
      PROVE  EvaluateResource(node, Answer(f), now) = FetchReject(node, now)
  <2>1. Answer(f).kind = "fetch-reject"
    BY <1>3 DEF Answer
  <2> QED BY <2>1 DEF EvaluateResource
<1>4. ASSUME NEW f \in Fetch, fetches[f].outcome # "error"
      PROVE  EvaluateResource(node, Answer(f), now) = FetchResolve(node, Answer(f), now)
  <2>1. Answer(f).kind = "fetch-resolve"
    BY <1>4 DEF Answer
  <2> QED BY <2>1 DEF EvaluateResource
<1>5. EvaluateResource(node, [kind |-> "invalidate"], now) = InvalidateEdge(node)
  BY DEF EvaluateResource
<1>6. EvaluateResource(node, [kind |-> "fail"], now) = FailEdge(node, now)
  BY DEF EvaluateResource
<1> QED BY <1>1, <1>2, <1>3, <1>4, <1>5, <1>6

LEMMA StatesDiffer ==
  ASSUME NEW a, NEW b, a.state # b.state
  PROVE  ~StructurallyEqual(a, b)
BY DEF StructurallyEqual

\* What the node is before and after its steps.
LEMMA NodeFollows ==
  ASSUME NodeInv, QueueInOrder, ResourceNext
  PROVE  NodeFollowsTheChart
<1>0. /\ now \in Nat /\ now \in Time /\ node \in NodeRecord /\ fetches \in [Fetch -> Calls]
      /\ node.promise # NoFetch <=> node.state = "loading"
  BY CallsAre
<1>1. ASSUME NEW f \in Fetch, StartFetch(f) PROVE NodeFollowsTheChart
  <2>1. node' = [state |-> "loading", origin |-> now, promise |-> f, value |-> NoFetch, at |-> 0]
    BY <1>1 DEF StartFetch, SetState, Loading, Idle
  <2>2. Ask(f) \in ResourceEvents
    BY <1>1 DEF ResourceEvents, StartFetch
  <2>3. EvaluateStatechart(OfResource(Ask(f))) = Permit(node')
    BY <2>1, ResourceCharts
  <2>4. ~StructurallyEqual(node, node')
    <3>1. CASE node.state # "loading"
      <4>1. node.state # node'.state
        BY <2>1, <3>1
      <4> QED BY <4>1 DEF StructurallyEqual
    <3>2. CASE node.state = "loading"
      <4>1. fetches[node.promise].stage # "unborn" /\ fetches[f].stage = "unborn"
        BY <1>1, <3>2 DEF StartFetch, NodeInv, LoadingIsAwaited
      <4>2. node.promise # f /\ node'.promise = f
        BY <2>1, <4>1
      <4>3. FieldsOf(node) = {"origin", "promise"}
        BY <3>2 DEF FieldsOf
      <4> QED BY <4>2, <4>3 DEF StructurallyEqual
    <3> QED BY <3>1, <3>2
  <2> QED BY <2>2, <2>3, <2>4 DEF NodeFollowsTheChart
<1>2. ASSUME NEW f \in Fetch, LoaderThrows(f) PROVE NodeFollowsTheChart
  BY <1>2 DEF LoaderThrows, NodeFollowsTheChart
<1>3. ASSUME NEW f \in Fetch, NEW outcome \in {"value", "error"}, Settle(f, outcome)
      PROVE  NodeFollowsTheChart
  BY <1>3 DEF Settle, NodeFollowsTheChart
<1>4. CASE SettleSuspense \/ WakeRenderer
  BY <1>4 DEF SettleSuspense, WakeRenderer, NodeFollowsTheChart
<1>5. CASE ApplyAnswer
  <2>1. PICK f \in Fetch : f = Head(microtasks).fetch
    BY <1>5, QueueTail DEF Tasks, ApplyAnswer
  <2>2. IsTask(1, "apply", f) /\ 1 \in DOMAIN microtasks
    BY <1>5, <2>1, QueueTail DEF ApplyAnswer, IsTask
  <2>3. fetches[f].stage = "settled" /\ fetches[f].outcome \in {"value", "error"}
    BY <2>2 DEF QueueInOrder, NodeInv, OutcomesAreKnown
  <2>4. Answer(f) \in ResourceEvents
    BY <2>3 DEF ResourceEvents
  <2>5. CASE ~LegalAnswer
    BY <1>5, <2>1, <2>5 DEF ApplyAnswer, NodeFollowsTheChart
  <2>6. CASE LegalAnswer
    <3>1. node.state = "loading"
      BY <2>6 DEF LegalAnswer
    <3>2. CASE fetches[f].outcome = "value"
      <4>1. node' = Answered(f, fetches[f].loadingAt)
        BY <1>5, <2>1, <2>6, <3>2 DEF ApplyAnswer, SetState
      <4>2. Answer(f) = [kind |-> "fetch-resolve", value |-> f, loadingAt |-> fetches[f].loadingAt,
                         stalenessGuard |-> guarded]
        BY <3>2 DEF Answer
      <4>3. FetchResolve(node, Answer(f), now) = Permit(node')
        <5>1. (Answer(f).stalenessGuard /\ now > Answer(f).loadingAt) <=> IsStale(fetches[f].loadingAt)
          BY <4>2 DEF IsStale
        <5> QED BY <3>1, <4>1, <4>2, <5>1 DEF FetchResolve, Answered, Permit
      <4>4. EvaluateStatechart(OfResource(Answer(f))) = Permit(node')
        BY <3>2, <4>3, ResourceCharts
      <4>5. node'.state # "loading"
        BY <4>1 DEF Answered
      <4>6. ~StructurallyEqual(node, node')
        BY <3>1, <4>5 DEF StructurallyEqual
      <4> QED BY <2>4, <4>4, <4>6 DEF NodeFollowsTheChart
    <3>3. CASE fetches[f].outcome # "value"
      <4>1. node' = Errored /\ fetches[f].outcome = "error"
        BY <1>5, <2>1, <2>3, <2>6, <3>3 DEF ApplyAnswer, SetState
      <4>2. node' = FailedAt(node, now) /\ node'.state # "loading"
        BY <1>0, <4>1 DEF Errored, FailedAt, NodeRecord
      <4>3. EvaluateStatechart(OfResource(Answer(f))) = Permit(node')
        BY <3>1, <4>1, <4>2, ResourceCharts DEF FetchReject
      <4>4. ~StructurallyEqual(node, node')
        BY <3>1, <4>2 DEF StructurallyEqual
      <4> QED BY <2>4, <4>3, <4>4 DEF NodeFollowsTheChart
    <3> QED BY <3>2, <3>3
  <2> QED BY <2>5, <2>6
<1>6. CASE Invalidate
  <2>1. node.state = "loaded" /\ node' = [node EXCEPT !.state = "stale"]
    BY <1>6 DEF Invalidate, SetState
  <2>2. node'.state = "stale"
    BY <1>0, <2>1 DEF NodeRecord
  <2>3. EvaluateStatechart(OfResource([kind |-> "invalidate"])) = Permit(node')
    BY <2>1, ResourceCharts DEF InvalidateEdge
  <2>4. ~StructurallyEqual(node, node') /\ [kind |-> "invalidate"] \in ResourceEvents
    BY <2>1, <2>2 DEF StructurallyEqual, ResourceEvents
  <2> QED BY <2>3, <2>4 DEF NodeFollowsTheChart
<1>7. CASE Fail
  <2>1. node.state \in {"loading", "loaded"} /\ node' = Errored
    BY <1>7 DEF Fail, SetState
  <2>2. node' = FailedAt(node, now) /\ node'.state = "errored"
    BY <1>0, <2>1 DEF Errored, FailedAt, NodeRecord
  <2>3. EvaluateStatechart(OfResource([kind |-> "fail"])) = Permit(node')
    BY <2>1, <2>2, ResourceCharts DEF FailEdge
  <2>4. ~StructurallyEqual(node, node') /\ [kind |-> "fail"] \in ResourceEvents
    BY <2>1, <2>2 DEF StructurallyEqual, ResourceEvents
  <2> QED BY <2>3, <2>4 DEF NodeFollowsTheChart
<1> QED BY <1>1, <1>2, <1>3, <1>4, <1>5, <1>6, <1>7 DEF ResourceNext

LEMMA AnswersFollow ==
  ASSUME NodeInv, QueueInOrder, ResourceNext \/ UNCHANGED resourceVars
  PROVE  AnswersAreJudged
<1> SUFFICES ASSUME NEW f \in Fetch, fetches[f].stage = "settled", fetches'[f].stage \in {"served", "refused"}
             PROVE  fetches'[f].stage = "refused" <=> Forbidden(EvaluateStatechart(OfResource(Answer(f))))
  BY DEF AnswersAreJudged
<1>0. fetches \in [Fetch -> Calls] /\ fetches[f].outcome \in {"value", "error"}
  BY CallsAre DEF NodeInv, OutcomesAreKnown
<1>1. /\ ~(UNCHANGED resourceVars) /\ ~ SettleSuspense /\ ~WakeRenderer /\ ~Invalidate /\ ~Fail
  BY DEF resourceVars, SettleSuspense, WakeRenderer, Invalidate, Fail
<1>2. \A g \in Fetch : ~StartFetch(g) /\ ~LoaderThrows(g) /\ \A outcome \in {"value", "error"} : ~Settle(g, outcome)
  BY <1>0 DEF StartFetch, LoaderThrows, Settle, Calls
<1>3. ApplyAnswer
  BY <1>1, <1>2 DEF ResourceNext
<1>4. PICK g \in Fetch : g = Head(microtasks).fetch
  BY <1>3, QueueTail DEF Tasks, ApplyAnswer
<1>5. fetches' = [fetches EXCEPT ![g].stage = IF LegalAnswer THEN "served" ELSE "refused"]
  BY <1>3, <1>4 DEF ApplyAnswer
<1>6. g = f
  BY <1>0, <1>5
<1>7. fetches'[f].stage = "refused" <=> node.state # "loading"
  BY <1>0, <1>5, <1>6 DEF LegalAnswer, Calls
<1>8. CASE fetches[f].outcome = "error"
  <2>1. EvaluateStatechart(OfResource(Answer(f))) = FetchReject(node, now)
    BY <1>8, ResourceCharts
  <2> QED BY <1>7, <2>1 DEF FetchReject, Forbidden, Permit, Forbid
<1>9. CASE fetches[f].outcome # "error"
  <2>1. EvaluateStatechart(OfResource(Answer(f))) = FetchResolve(node, Answer(f), now)
    BY <1>9, ResourceCharts
  <2> QED BY <1>7, <2>1 DEF FetchResolve, Forbidden, Permit, Forbid
<1> QED BY <1>8, <1>9

LEMMA RecordsFollow ==
  ASSUME ConflictsInv, ConflictNext \/ UNCHANGED <<records, refusedFor>>
  PROVE  /\ RecordsFollowTheChart
         /\ \A c \in Conflict : records[c] # NoRecord => records'[c] = records[c]
<1>0. records \in [Conflict -> Record \cup {NoRecord}]
  BY DEF ConflictsInv, ConflictTypeOK
<1>1. CASE UNCHANGED <<records, refusedFor>>
  BY <1>1 DEF RecordsFollowTheChart
<1>2. ASSUME NEW set \in SUBSET Conflict, Reemit(set)
      PROVE  UNCHANGED <<records, refusedFor>>
  BY <1>2 DEF Reemit
<1>3. ASSUME NEW c \in Conflict, NEW verdict \in Verdicts, NEW by \in Conflict \cup {NoRecord},
             Decide(c, verdict, by)
      PROVE  /\ RecordsFollowTheChart
             /\ \A d \in Conflict : records[d] # NoRecord => records'[d] = records[d]
  <2>1. PICK event \in ConflictEvents :
          /\ ConflictTarget(event) = verdict
          /\ by = (IF event.kind = "supersede" THEN event.bySupersedingId ELSE NoRecord)
    <3>0. (verdict = "superseded" <=> by # NoRecord) /\ verdict \in {"resolved", "ignored", "superseded"}
      BY <1>3 DEF Decide, Verdicts
    <3>1. CASE verdict = "resolved"
      <4>1. [kind |-> "resolve"] \in ConflictEvents /\ ConflictTarget([kind |-> "resolve"]) = verdict
            /\ [kind |-> "resolve"].kind # "supersede"
        BY <3>1 DEF ConflictEvents, ConflictTarget
      <4> QED BY <3>0, <3>1, <4>1
    <3>2. CASE verdict = "ignored"
      <4>1. [kind |-> "ignore"] \in ConflictEvents /\ ConflictTarget([kind |-> "ignore"]) = verdict
            /\ [kind |-> "ignore"].kind # "supersede"
        BY <3>2 DEF ConflictEvents, ConflictTarget
      <4> QED BY <3>0, <3>2, <4>1
    <3>3. CASE verdict = "superseded"
      <4>0. by \in Conflict
        BY <3>0, <3>3
      <4>1. PICK e : e = [kind |-> "supersede", bySupersedingId |-> by]
        OBVIOUS
      <4>2. e \in ConflictEvents /\ ConflictTarget(e) = verdict /\ e.kind = "supersede" /\ e.bySupersedingId = by
        BY <3>3, <4>0, <4>1 DEF ConflictEvents, ConflictTarget
      <4> QED BY <4>2
    <3> QED BY <3>0, <3>1, <3>2, <3>3
  <2>2. \A state : EvaluateStatechart(OfConflict(state, event)) = EvaluateConflict(state, event, now)
    BY DEF EvaluateStatechart, OfConflict
  <2>3. CASE MayLeave(CurrentKindOf(c))
    <3>1. records[c] = NoRecord /\ CurrentKindOf(c) = "open"
      BY <1>0, <2>3 DEF MayLeave, CurrentKindOf, Record, Verdicts
    <3>2. records' = [records EXCEPT ![c] = Verdict(verdict, by)] /\ refusedFor' = refusedFor
      BY <1>3, <2>3 DEF Decide
    <3>3. EvaluateConflict("open", event, now) = Permit(Verdict(verdict, by))
      BY <2>1 DEF EvaluateConflict, Verdict, Permit
    <3>4. PICK result : result = EvaluateStatechart(OfConflict(CurrentKindOf(c), event))
      OBVIOUS
    <3>5. result = Permit(Verdict(verdict, by))
      BY <2>2, <3>1, <3>3, <3>4
    <3>6. ~Forbidden(result) /\ records' = [records EXCEPT ![c] = result.next]
      BY <3>2, <3>5 DEF Forbidden, Permit
    <3>7. \A d \in Conflict : records[d] # NoRecord => records'[d] = records[d]
      BY <1>0, <3>1, <3>2
    <3> QED BY <3>2, <3>4, <3>6, <3>7 DEF RecordsFollowTheChart
  <2>4. CASE ~MayLeave(CurrentKindOf(c))
    <3>1. records' = records /\ refusedFor' = CurrentKindOf(c)
      BY <1>3, <2>4 DEF Decide
    <3>2. refusedFor' # "open"
      BY <2>4, <3>1 DEF MayLeave
    <3>3. EvaluateConflict(refusedFor', event, now) = Forbid("conflict", refusedFor', ConflictTarget(event))
      BY <3>2 DEF EvaluateConflict
    <3>4. Forbidden(EvaluateStatechart(OfConflict(refusedFor', event)))
      BY <2>2, <3>3 DEF Forbidden, Forbid
    <3> QED BY <3>1, <3>4 DEF RecordsFollowTheChart
  <2> QED BY <2>3, <2>4
<1> QED BY <1>1, <1>2, <1>3 DEF ConflictNext

THEOREM ChartsAreFollowed == SyncSpec => SyncFollowsTheCharts
<1>1. SyncInit => SyncInv
  BY SyncInitHolds
<1>2. SyncInv /\ [SyncNext]_syncVars => SyncInv'
  BY SyncStepKeeps
<1>3. SyncInv /\ [SyncNext]_syncVars =>
        [\A c \in Conflict : records[c] # NoRecord => records'[c] = records[c]]_<<now, conflictVars>>
  <2> SUFFICES ASSUME SyncInv, [SyncNext]_syncVars, ~(UNCHANGED <<now, conflictVars>>)
               PROVE  \A c \in Conflict : records[c] # NoRecord => records'[c] = records[c]
    OBVIOUS
  <2>1. ConflictsInv
    BY DEF SyncInv
  <2>2. ConflictNext \/ UNCHANGED <<records, refusedFor>>
    BY DEF SyncNext, ResourceStep, ConflictStep, ConflictsStay, syncVars, conflictVars
  <2> QED BY <2>1, <2>2, RecordsFollow
<1>4. SyncInv /\ [SyncNext]_syncVars =>
        [NodeFollowsTheChart /\ AnswersAreJudged /\ RecordsFollowTheChart]_syncVars
  <2> SUFFICES ASSUME SyncInv, SyncNext
               PROVE  NodeFollowsTheChart /\ AnswersAreJudged /\ RecordsFollowTheChart
    OBVIOUS
  <2>1. NodeInv /\ QueueInOrder /\ ConflictsInv
    BY DEF SyncInv
  <2>2. ConflictNext \/ UNCHANGED <<records, refusedFor>>
    BY DEF SyncNext, ResourceStep, ConflictStep, ConflictsStay
  <2>3. ResourceNext \/ UNCHANGED resourceVars
    BY DEF SyncNext, ResourceStep, ConflictStep
  <2>4. RecordsFollowTheChart
    BY <2>1, <2>2, RecordsFollow
  <2>5. AnswersAreJudged
    BY <2>1, <2>3, AnswersFollow
  <2>6. NodeFollowsTheChart
    <3>1. CASE ResourceNext
      BY <2>1, <3>1, NodeFollows
    <3>2. CASE UNCHANGED resourceVars
      BY <3>2 DEF resourceVars, NodeFollowsTheChart
    <3> QED BY <2>3, <3>1, <3>2
  <2> QED BY <2>4, <2>5, <2>6
<1> QED BY <1>1, <1>2, <1>3, <1>4, PTL DEF SyncSpec, SyncFollowsTheCharts, VerdictsAreFinal, ShellsFollowTheCharts

-----------------------------------------------------------------------------
(* DevtoolsBridge: the mounts of a panel connect and dispose in any order. *)

\* The part of the type invariant that the count rests on.
BridgeShapes ==
  /\ now \in Time
  /\ holds \in [Holder -> {"none", "held", "noop", "spent"}]
  /\ link \in Link \cup {NoLink}

BridgeInv == BridgeShapes /\ LinkIsHeld /\ PanelMissesNothing

\* The count follows a holder that joins and one that leaves.
LEMMA HeldIsFinite == IsFiniteSet(Held)
  BY HolderAssumption, FS_Subset DEF Held

LEMMA HolderJoins ==
  ASSUME holds \in [Holder -> {"none", "held", "noop", "spent"}],
         NEW h \in Holder, holds[h] # "held",
         holds' = [holds EXCEPT ![h] = "held"]
  PROVE  /\ Held' = Held \cup {h} /\ Held' # {}
         /\ Cardinality(Held') = Cardinality(Held) + 1
         /\ Held = {} => Cardinality(Held') = 1
<1>1. Held' = Held \cup {h} /\ h \notin Held
  BY DEF Held
<1>2. Cardinality(Held \cup {h}) = Cardinality(Held) + 1
  BY <1>1, HeldIsFinite, FS_AddElement
<1>3. Cardinality({}) = 0
  BY FS_EmptySet
<1> QED
  BY <1>1, <1>2, <1>3

LEMMA HolderLeaves ==
  ASSUME holds \in [Holder -> {"none", "held", "noop", "spent"}],
         NEW h \in Holder, holds[h] = "held",
         holds' = [holds EXCEPT ![h] = "spent"]
  PROVE  /\ Held # {} /\ Cardinality(Held) \in Nat
         /\ Cardinality(Held') = Cardinality(Held) - 1
         /\ Held' = {} <=> Cardinality(Held) = 1
<1>1. Held' = Held \ {h} /\ h \in Held
  BY DEF Held
<1>2. Cardinality(Held \ {h}) = Cardinality(Held) - 1 /\ IsFiniteSet(Held \ {h})
  BY <1>1, HeldIsFinite, FS_RemoveElement
<1>3. Cardinality(Held \ {h}) = 0 <=> Held \ {h} = {}
  BY <1>2, FS_EmptySet
<1>4. Cardinality(Held) \in Nat
  BY HeldIsFinite, FS_CardinalityType
<1> QED
  BY <1>1, <1>2, <1>3, <1>4

-----------------------------------------------------------------------------
(* Initial states and steps.                                               *)

LEMMA BridgeInitHolds == BridgeInit => BridgeInv
<1> SUFFICES ASSUME BridgeInit PROVE BridgeInv
  OBVIOUS
<1>1. Held = {}
  BY DEF BridgeInit, Held
<1> QED
  BY <1>1, MaxTimeAssumption
  DEF BridgeInit, BridgeInv, BridgeShapes, LinkIsHeld, PanelMissesNothing, Time

LEMMA ConnectKeeps ==
  ASSUME BridgeInv, NEW h \in Holder, Connect(h) PROVE BridgeInv'
<1> USE DEF BridgeInv, BridgeShapes
<1>1. CASE ~extension
  <2>1. Held' = Held
    BY <1>1 DEF Connect, Held
  <2> QED
    BY <1>1, <2>1 DEF Connect, LinkIsHeld, PanelMissesNothing
<1>2. CASE extension
  <2>1. holds' = [holds EXCEPT ![h] = "held"] /\ holds[h] # "held" /\ now' = now
    BY <1>2 DEF Connect
  <2>2. /\ Held' # {} /\ Cardinality(Held') = Cardinality(Held) + 1
        /\ Held = {} => Cardinality(Held') = 1
    BY <2>1, HolderJoins
  <2>3. holds' \in [Holder -> {"none", "held", "noop", "spent"}]
    BY <2>1
  <2>4. CASE link = NoLink
    <3>1. Open
      BY <1>2, <2>4 DEF Connect
    <3>2. link' \in Link /\ link'.refcount = 1
      BY <3>1 DEF Open, Link
    <3>3. panel'.log = owed'
      BY <3>1 DEF Open
    <3> QED
      BY <2>1, <2>2, <2>3, <2>4, <3>2, <3>3, NoLinkAssumption DEF LinkIsHeld, PanelMissesNothing
  <2>5. CASE link # NoLink
    <3>1. link' = [link EXCEPT !.refcount = @ + 1] /\ panel' = panel /\ owed' = owed
      BY <1>2, <2>5 DEF Connect
    <3>2. link' \in Link /\ link'.refcount = link.refcount + 1
      BY <2>5, <3>1 DEF Link
    <3> QED
      BY <2>1, <2>2, <2>3, <2>5, <3>1, <3>2, NoLinkAssumption
      DEF LinkIsHeld, PanelMissesNothing
  <2> QED
    BY <2>4, <2>5
<1> QED
  BY <1>1, <1>2

LEMMA DisposeKeeps ==
  ASSUME BridgeInv, NEW h \in Holder, Dispose(h) PROVE BridgeInv'
<1> USE DEF BridgeInv, BridgeShapes
<1>1. /\ holds[h] = "held" /\ holds' = [holds EXCEPT ![h] = "spent"]
      /\ now' = now /\ panel' = panel /\ owed' = owed
  BY DEF Dispose
<1>2. /\ Held # {} /\ Cardinality(Held) \in Nat
      /\ Cardinality(Held') = Cardinality(Held) - 1
      /\ Held' = {} <=> Cardinality(Held) = 1
  BY <1>1, HolderLeaves
<1>3. link \in Link /\ link # NoLink /\ link.refcount = Cardinality(Held) /\ link' = Release
  BY <1>2 DEF LinkIsHeld, Dispose
<1>4. holds' \in [Holder -> {"none", "held", "noop", "spent"}]
  BY <1>1
<1>5. Cardinality(Held) >= 1
  BY <1>2, HeldIsFinite, FS_EmptySet
<1>6. CASE Cardinality(Held) = 1
  <2>1. link' = NoLink /\ Held' = {}
    BY <1>2, <1>3, <1>6 DEF Release
  <2> QED
    BY <1>1, <1>4, <2>1 DEF LinkIsHeld, PanelMissesNothing
<1>7. CASE Cardinality(Held) # 1
  <2>1. link' = [link EXCEPT !.refcount = @ - 1] /\ Held' # {}
    BY <1>2, <1>3, <1>5, <1>7 DEF Release
  <2>2. link' \in Link /\ link'.refcount = link.refcount - 1
    BY <1>2, <1>3, <1>5, <1>7, <2>1 DEF Link
  <2> QED
    BY <1>1, <1>2, <1>3, <1>4, <2>1, <2>2, NoLinkAssumption DEF LinkIsHeld, PanelMissesNothing
<1> QED
  BY <1>6, <1>7

\* A message leaves the count alone, and the panel and what it is owed go
\* back to nothing together.
LEMMA ReceiveKeeps ==
  ASSUME BridgeInv, NEW m \in Message, Receive(m) PROVE BridgeInv'
<1> USE DEF BridgeInv, BridgeShapes
<1>1. link \in Link /\ link # NoLink /\ holds' = holds /\ now' = now /\ panel.log = owed
  BY DEF Receive, PanelMissesNothing
<1>2. Held' = Held
  BY <1>1 DEF Held
<1>3. Handles(m)
  BY DEF Receive
<1>4. link' \in Link /\ link'.refcount = link.refcount /\ panel'.log = owed'
  <2> USE <1>1
  <2>1. CASE \E t : Shows(t)
    BY <2>1 DEF Shows
  <2>2. CASE m.kind = "commit"
    <3>1. link' = [link EXCEPT !.baseline = now] /\ panel'.log = <<>> /\ owed' = <<>>
      BY <1>3, <2>2 DEF Handles
    <3> QED
      BY <3>1 DEF Link
  <2>3. CASE m.kind \in {"pause_recording", "lock_changes"}
    <3>1. \E b \in BOOLEAN : \/ link' = [link EXCEPT !.paused = b]
                             \/ link' = [link EXCEPT !.locked = b]
      BY <1>3, <2>3 DEF Handles, Sets, Switched, Link
    <3> QED
      BY <1>3, <2>3, <3>1 DEF Handles, Sets, Link
  <2>4. CASE m.kind = "sweep"
    BY <1>3, <2>4 DEF Handles, Sets, Link
  <2>5. CASE m.kind = "toggle_action"
    <3>1. m.id \in ActionId
      BY <2>5 DEF Message
    <3>2. \E S \in SUBSET ActionId : link' = [link EXCEPT !.skipped = S]
      BY <1>3, <2>5, <3>1 DEF Handles, Sets, Link
    <3> QED
      BY <1>3, <2>5, <3>2 DEF Handles, Sets, Link
  <2>6. CASE m.kind = "toggle_persist"
    BY <1>3, <2>6 DEF Handles, Sets, Link
  <2> QED
    BY <1>3, <2>1, <2>2, <2>3, <2>4, <2>5, <2>6 DEF Handles
<1> QED
  BY <1>1, <1>2, <1>4, NoLinkAssumption DEF LinkIsHeld, PanelMissesNothing

LEMMA CommitKeeps == ASSUME BridgeInv, GraphCommits PROVE BridgeInv'
<1> USE DEF BridgeInv, BridgeShapes
<1>1. holds' = holds /\ link' = link /\ now' \in Time
  BY MaxTimeAssumption DEF GraphCommits, Tick, Time
<1>2. Held' = Held
  BY <1>1 DEF Held
<1>3. ASSUME link # NoLink PROVE panel'.log = owed'
  <2>1. Held # {} /\ panel.log = owed
    BY <1>3 DEF LinkIsHeld, PanelMissesNothing
  <2>2. CASE link.paused
    <3>1. panel' = panel /\ owed' = owed
      BY <1>3, <2>2 DEF GraphCommits
    <3> QED
      BY <2>1, <3>1
  <2>3. CASE ~link.paused
    <3>1. /\ panel' = [shown |-> now', log |-> Append(panel.log, now')]
          /\ owed' = Append(owed, now')
      BY <1>3, <2>1, <2>3, Zenon DEF GraphCommits
    <3> QED
      BY <2>1, <3>1
  <2> QED
    BY <2>2, <2>3
<1> QED
  BY <1>1, <1>2, <1>3 DEF LinkIsHeld, PanelMissesNothing

LEMMA BridgeStepKeeps == BridgeInv /\ [BridgeNext]_<<now, bridgeVars>> => BridgeInv'
<1> SUFFICES ASSUME BridgeInv, [BridgeNext]_<<now, bridgeVars>> PROVE BridgeInv'
  OBVIOUS
<1>1. CASE \E h \in Holder : Connect(h)
  BY <1>1, ConnectKeeps
<1>2. CASE \E h \in Holder : Dispose(h)
  BY <1>2, DisposeKeeps
<1>3. CASE \E m \in Message : Receive(m)
  BY <1>3, ReceiveKeeps
<1>4. CASE GraphCommits
  BY <1>4, CommitKeeps
<1>5. CASE Install \/ UNCHANGED <<now, bridgeVars>>
  <2>1. UNCHANGED <<now, holds, link, panel, owed>>
    BY <1>5 DEF Install, bridgeVars
  <2>2. Held' = Held
    BY <2>1 DEF Held
  <2> QED
    BY <2>1, <2>2 DEF BridgeInv, BridgeShapes, LinkIsHeld, PanelMissesNothing
<1> QED
  BY <1>1, <1>2, <1>3, <1>4, <1>5 DEF BridgeNext

\* However many mounts of the page connect, dispose, dispose again and connect
\* anew (makeDisposer, ACTIVE), and whatever the panel sends: the connection is
\* there exactly while somebody holds it, and the panel missed no commit.
THEOREM LinkSound == BridgeSpec => []BridgeLinkSound
<1>1. BridgeInv => BridgeLinkSound
  BY DEF BridgeInv, BridgeLinkSound
<1> QED
  BY BridgeInitHolds, BridgeStepKeeps, <1>1, PTL DEF BridgeSpec

-----------------------------------------------------------------------------
(* BatchedFlush: the queue before an engine and the mirror of its inputs.  *)

Settings  == [afterN : 1..MaxAfterN, timed : BOOLEAN,
              mode : {"js-ssot", "rust-ssot"}, batches : BOOLEAN]
InputMaps == UNION {[D -> Json \cup {Wrong}] : D \in SUBSET Slot}
Mirrors   == [inputs : InputMaps, now : Nat]
Tallies   == [compared : Nat, promoted : Nat, diverged : Nat]

BatchShapes ==
  /\ settings \in Settings /\ cells \in [Slot -> Json] /\ now \in Time
  /\ buffer \in Seq(Queued) /\ Len(buffer) < settings.afterN
  /\ jsCommits \in Seq(Time) /\ baseNow \in Time
  /\ mirror \in Mirrors
  /\ timerArmed \in BOOLEAN /\ downgraded \in BOOLEAN
  /\ error \in {"none", "threw", "downgraded"}
  /\ tally \in Tallies
  /\ enqueued \in Seq(Time) /\ flushed \in Seq(Time)
  /\ trouble \subseteq Troubles

\* Unless a commit went round the queue, those in it are the last of the graph.
DatedFrom(batch, from) == \A k \in DOMAIN batch : batch[k].time = from + k

QueueDates ==
  "bypassed" \notin trouble =>
    /\ DatedFrom(buffer, baseNow)
    /\ buffer # <<>> => now = baseNow + Len(buffer)

\* What the mirror misses is in the queue.
OneAtATime == settings.afterN = 1 \/ ~settings.batches

MirrorFollows ==
  trouble = {} /\ OneAtATime =>
    /\ cells = Overlaid(mirror.inputs, buffer)
    /\ mirror.now = Len(flushed) /\ now = Len(enqueued)
    /\ buffer # <<>> => baseNow = mirror.now

\* A downgrade is told of, and what is wrong in the mirror has its reason.
Vetted(m) == \A i \in DOMAIN m.inputs : m.inputs[i] # Wrong

DowngradeIsTold ==
  /\ downgraded => error # "none"
  /\ trouble \cap {"spoiled", "threw"} = {} => Vetted(mirror)

BatchInv ==
  /\ BatchShapes /\ EveryCommitLeavesOnce /\ TimerMatchesQueue /\ ComparedWithItsOwn
  /\ DowngradeIsEarned /\ QueueDates /\ MirrorFollows /\ DowngradeIsTold

-----------------------------------------------------------------------------
(* Batches and what they write.                                            *)

LEMMA WritesAre ==
  \A w \in Writes : /\ DOMAIN w \subseteq Slot /\ DOMAIN w # {}
                    /\ w \in [DOMAIN w -> Json]
<1> SUFFICES ASSUME NEW w \in Writes
             PROVE  DOMAIN w \subseteq Slot /\ DOMAIN w # {} /\ w \in [DOMAIN w -> Json]
  OBVIOUS
<1>1. PICK F \in {[D -> Json] : D \in (SUBSET Slot) \ {{}}} : w \in F
  BY DEF Writes, NonEmpty
<1>2. PICK D \in (SUBSET Slot) \ {{}} : F = [D -> Json]
  OBVIOUS
<1> QED BY <1>1, <1>2

LEMMA InputMapIs ==
  \A f : f \in InputMaps <=> /\ DOMAIN f \subseteq Slot
                             /\ f = [i \in DOMAIN f |-> f[i]]
                             /\ \A i \in DOMAIN f : f[i] \in Json \cup {Wrong}
<1>1. ASSUME NEW f, f \in InputMaps
      PROVE  /\ DOMAIN f \subseteq Slot /\ f = [i \in DOMAIN f |-> f[i]]
             /\ \A i \in DOMAIN f : f[i] \in Json \cup {Wrong}
  BY <1>1 DEF InputMaps
<1>2. ASSUME NEW f, DOMAIN f \subseteq Slot, f = [i \in DOMAIN f |-> f[i]],
             \A i \in DOMAIN f : f[i] \in Json \cup {Wrong}
      PROVE  f \in InputMaps
  <2>1. f \in [DOMAIN f -> Json \cup {Wrong}]
    BY <1>2
  <2> QED BY <1>2, <2>1 DEF InputMaps
<1> QED BY <1>1, <1>2

LEMMA TimesAre ==
  ASSUME NEW batch \in Seq(Queued)
  PROVE  /\ Times(batch) \in Seq(Time) /\ Len(Times(batch)) = Len(batch)
         /\ DOMAIN Times(batch) = 1 .. Len(batch)
         /\ \A k \in 1 .. Len(batch) : Times(batch)[k] = batch[k].time
<1>1. /\ Len(batch) \in Nat /\ DOMAIN batch = 1 .. Len(batch)
      /\ \A k \in 1 .. Len(batch) : batch[k] \in Queued
  OBVIOUS
<1>2. \A k \in 1 .. Len(batch) : batch[k].time \in Time
  BY <1>1 DEF Queued
<1>3. Times(batch) = [k \in 1 .. Len(batch) |-> batch[k].time]
  BY <1>1 DEF Times
<1> QED BY <1>1, <1>2, <1>3

LEMMA AppendIs ==
  ASSUME NEW S, NEW s \in Seq(S), NEW e \in S
  PROVE  /\ Append(s, e) \in Seq(S) /\ Len(Append(s, e)) = Len(s) + 1 /\ Append(s, e) # <<>>
         /\ DOMAIN Append(s, e) = 1 .. Len(s) + 1
         /\ \A k \in 1 .. Len(s) : Append(s, e)[k] = s[k]
         /\ Append(s, e)[Len(s) + 1] = e
BY AppendProperties

LEMMA TimesOfAppend ==
  ASSUME NEW batch \in Seq(Queued), NEW c \in Queued
  PROVE  Times(Append(batch, c)) = Append(Times(batch), c.time)
<1>1. c.time \in Time
  BY DEF Queued
<1>2. PICK b \in Seq(Queued) : b = Append(batch, c)
  BY AppendIs
<1>3. /\ Len(b) = Len(batch) + 1 /\ b[Len(batch) + 1] = c
      /\ \A k \in 1 .. Len(batch) : b[k] = batch[k]
  BY <1>2, AppendIs
<1>4. PICK old1 \in Seq(Time) : old1 = Times(batch)
  BY TimesAre
<1>5. Len(old1) = Len(batch) /\ \A k \in 1 .. Len(batch) : old1[k] = batch[k].time
  BY <1>4, TimesAre
<1>6. PICK t \in Seq(Time) : t = Times(b)
  BY TimesAre
<1>7. Len(t) = Len(b) /\ \A k \in 1 .. Len(b) : t[k] = b[k].time
  BY <1>6, TimesAre
<1>8. PICK u \in Seq(Time) : u = Append(old1, c.time)
  BY <1>1, AppendIs
<1>9. /\ Len(u) = Len(old1) + 1 /\ u[Len(old1) + 1] = c.time
      /\ \A k \in 1 .. Len(old1) : u[k] = old1[k]
  BY <1>1, <1>8, AppendIs
<1>10. Len(batch) \in Nat /\ \A k \in 1 .. Len(batch) + 1 : k \in 1 .. Len(batch) \/ k = Len(batch) + 1
  OBVIOUS
<1>11. \A k \in 1 .. Len(t) : t[k] = u[k]
  BY <1>3, <1>5, <1>7, <1>9, <1>10
<1>12. t = u
  <2>1. Len(t) = Len(u)
    BY <1>3, <1>5, <1>7, <1>9
  <2> QED BY <1>11, <2>1, SeqEqual
<1> QED BY <1>2, <1>4, <1>6, <1>8, <1>12

LEMMA ConcatOfAppend ==
  ASSUME NEW s \in Seq(Time), NEW u \in Seq(Time), NEW e \in Time
  PROVE  s \o Append(u, e) = Append(s \o u, e) /\ s \o <<>> = s
OBVIOUS

LEMMA OverlaidNothing == ASSUME NEW f \in InputMaps PROVE Overlaid(f, <<>>) = f
<1>1. f = [i \in DOMAIN f |-> f[i]]
  BY InputMapIs
<1>2. Overlaid(f, <<>>) = [i \in DOMAIN f |-> f[i]]
  BY DEF Overlaid
<1> QED BY <1>1, <1>2


\* The last of some commits of a batch.
LEMMA LastOfSome ==
  ASSUME NEW n \in Nat, NEW some \in SUBSET (1 .. n), some # {}
  PROVE  Max(some) \in some /\ \A m \in some : Max(some) >= m
<1> DEFINE rest == {n - m : m \in some}
<1>1. rest \subseteq Nat /\ rest # {}
  <2>1. \A m \in some : n - m \in Nat
    OBVIOUS
  <2> QED BY <2>1
<1>2. \E m \in rest : \A r \in rest : ~(<<r, m>> \in OpToRel(<, Nat))
  BY <1>1, NatLessThanWellFounded, WFMin
<1>3. PICK m \in rest : \A r \in rest : ~(<<r, m>> \in OpToRel(<, Nat))
  BY <1>2
<1>4. \A r \in rest : ~ r < m
  BY <1>1, <1>3 DEF OpToRel
<1>5. PICK k \in some : m = n - k
  OBVIOUS
<1>6. \A j \in some : k >= j
  <2> TAKE j \in some
  <2>1. n - j \in rest
    OBVIOUS
  <2>2. ~ n - j < n - k
    BY <1>4, <1>5, <2>1
  <2> QED BY <2>2
<1>7. \E x \in some : \A y \in some : x >= y
  BY <1>6
<1> QED BY <1>7, Zenon DEF Max

LEMMA LastIs ==
  ASSUME NEW n \in Nat, NEW some \in SUBSET (1 .. n), NEW last \in some, \A m \in some : last >= m
  PROVE  Max(some) = last
<1>0. some # {}
  OBVIOUS
<1>1. PICK k : k = Max(some)
  OBVIOUS
<1>2. k \in some /\ k >= last
  BY <1>0, <1>1, LastOfSome
<1>3. last >= k /\ last \in 1 .. n /\ k \in 1 .. n
  BY <1>2
<1> QED BY <1>1, <1>2, <1>3

\* The commits of a batch that write an input.
Writers(batch, i) == {k \in DOMAIN batch : i \in DOMAIN batch[k].writes}
Written(batch)    == UNION {DOMAIN batch[k].writes : k \in DOMAIN batch}

IsOverlaid(o, f, batch) ==
  /\ DOMAIN o = DOMAIN f \cup Written(batch) /\ o = [i \in DOMAIN o |-> o[i]]
  /\ \A i \in DOMAIN o : o[i] = IF Writers(batch, i) = {} THEN f[i]
                                ELSE batch[Max(Writers(batch, i))].writes[i]
  /\ \A i : i \in Written(batch) <=> Writers(batch, i) # {}

LEMMA OverlaidIs == \A f, batch : IsOverlaid(Overlaid(f, batch), f, batch)
<1> SUFFICES ASSUME NEW f, NEW batch PROVE IsOverlaid(Overlaid(f, batch), f, batch)
  OBVIOUS
<1>1. \A i : i \in Written(batch) <=> Writers(batch, i) # {}
  BY DEF Writers, Written
<1>2. Overlaid(f, batch) =
        [i \in DOMAIN f \cup Written(batch) |-> IF Writers(batch, i) = {} THEN f[i]
                                               ELSE batch[Max(Writers(batch, i))].writes[i]]
  BY DEF Overlaid, Writers, Written
<1> QED BY <1>1, <1>2 DEF IsOverlaid

LEMMA BatchIs ==
  ASSUME NEW batch \in Seq(Queued)
  PROVE  /\ Len(batch) \in Nat /\ DOMAIN batch = 1 .. Len(batch)
         /\ \A k \in 1 .. Len(batch) : /\ batch[k] \in Queued /\ DOMAIN batch[k].writes \subseteq Slot
                                       /\ \A i \in DOMAIN batch[k].writes : batch[k].writes[i] \in Json
<1>1. /\ Len(batch) \in Nat /\ DOMAIN batch = 1 .. Len(batch)
      /\ \A k \in 1 .. Len(batch) : batch[k] \in Queued
  OBVIOUS
<1>2. ASSUME NEW k \in 1 .. Len(batch)
      PROVE  /\ DOMAIN batch[k].writes \subseteq Slot
             /\ \A i \in DOMAIN batch[k].writes : batch[k].writes[i] \in Json
  <2>1. batch[k].writes \in Writes
    BY <1>1 DEF Queued
  <2>2. /\ DOMAIN batch[k].writes \subseteq Slot
        /\ batch[k].writes \in [DOMAIN batch[k].writes -> Json]
    BY <2>1, WritesAre
  <2> QED BY <2>2
<1> QED BY <1>1, <1>2

\* An overlay of inputs is one of inputs, and holds nothing wrong that was not
\* there before.
LEMMA OverlaidType ==
  ASSUME NEW f \in InputMaps, NEW batch \in Seq(Queued)
  PROVE  /\ Overlaid(f, batch) \in InputMaps
         /\ (\A i \in DOMAIN f : f[i] # Wrong)
              => \A i \in DOMAIN Overlaid(f, batch) : Overlaid(f, batch)[i] # Wrong
<1>1. /\ DOMAIN f \subseteq Slot /\ \A i \in DOMAIN f : f[i] \in Json \cup {Wrong}
  BY InputMapIs
<1>2. /\ Len(batch) \in Nat /\ DOMAIN batch = 1 .. Len(batch)
      /\ \A k \in 1 .. Len(batch) : /\ DOMAIN batch[k].writes \subseteq Slot
                                    /\ \A i \in DOMAIN batch[k].writes : batch[k].writes[i] \in Json
  BY BatchIs
<1>3. PICK o : o = Overlaid(f, batch)
  OBVIOUS
<1>4. /\ DOMAIN o = DOMAIN f \cup Written(batch) /\ o = [i \in DOMAIN o |-> o[i]]
      /\ \A i \in DOMAIN o : o[i] = IF Writers(batch, i) = {} THEN f[i]
                                    ELSE batch[Max(Writers(batch, i))].writes[i]
      /\ \A i : i \in Written(batch) <=> Writers(batch, i) # {}
  <2>1. IsOverlaid(o, f, batch)
    BY <1>3, OverlaidIs
  <2> QED BY <2>1 DEF IsOverlaid
<1>5. ASSUME NEW i \in DOMAIN o
      PROVE  i \in Slot /\ (o[i] \in Json \/ (i \in DOMAIN f /\ o[i] = f[i]))
  <2>1. CASE Writers(batch, i) = {}
    BY <1>1, <1>4, <2>1
  <2>2. CASE Writers(batch, i) # {}
    <3>1. Writers(batch, i) \in SUBSET (1 .. Len(batch))
      BY <1>2 DEF Writers
    <3>2. PICK k : k = Max(Writers(batch, i))
      OBVIOUS
    <3>3. k \in Writers(batch, i)
      BY <1>2, <2>2, <3>1, <3>2, LastOfSome
    <3>4. k \in 1 .. Len(batch) /\ i \in DOMAIN batch[k].writes
      BY <1>2, <3>3 DEF Writers
    <3>5. o[i] = batch[k].writes[i]
      BY <1>4, <2>2, <3>2
    <3> QED BY <1>2, <3>4, <3>5
  <2> QED BY <2>1, <2>2
<1>6. o \in InputMaps
  <2>1. DOMAIN o \subseteq Slot /\ \A i \in DOMAIN o : o[i] \in Json \cup {Wrong}
    BY <1>1, <1>5
  <2>2. o \in InputMaps <=> /\ DOMAIN o \subseteq Slot
                            /\ o = [i \in DOMAIN o |-> o[i]]
                            /\ \A i \in DOMAIN o : o[i] \in Json \cup {Wrong}
    BY InputMapIs
  <2> QED BY <1>4, <2>1, <2>2
<1>7. (\A i \in DOMAIN f : f[i] # Wrong) => \A i \in DOMAIN o : o[i] # Wrong
  BY <1>5, WrongAssumption
<1> QED BY <1>3, <1>6, <1>7

IsUpon(u, w, f) ==
  /\ DOMAIN u = DOMAIN w \cup DOMAIN f /\ u = [i \in DOMAIN u |-> u[i]]
  /\ \A i \in DOMAIN u : u[i] = IF i \in DOMAIN w THEN w[i] ELSE f[i]

LEMMA UponIs == \A w, f : IsUpon(Upon(w, f), w, f)
BY DEF IsUpon, Upon

\* One more commit is one more overlay.
LEMMA OverlaidAppend ==
  ASSUME NEW f, NEW batch \in Seq(Queued), NEW c \in Queued
  PROVE  Overlaid(f, Append(batch, c)) = Upon(c.writes, Overlaid(f, batch))
<1>1. PICK b \in Seq(Queued) : b = Append(batch, c)
  BY AppendIs
<1>2. PICK n \in Nat : n = Len(batch) /\ DOMAIN batch = 1 .. n
  OBVIOUS
<1>3. /\ Len(b) = n + 1 /\ DOMAIN b = 1 .. n + 1 /\ b[n + 1] = c
      /\ \A k \in 1 .. n : b[k] = batch[k]
  BY <1>1, <1>2, AppendIs
<1>4. /\ \A k \in 1 .. n + 1 : k \in 1 .. n \/ k = n + 1
      /\ \A k \in 1 .. n : k \in 1 .. n + 1 /\ k # n + 1 /\ n + 1 >= k
      /\ n + 1 \in 1 .. n + 1 /\ n + 1 >= n + 1
  OBVIOUS
<1>5. ASSUME NEW i PROVE Writers(b, i) = Writers(batch, i) \cup (IF i \in DOMAIN c.writes THEN {n + 1} ELSE {})
  BY <1>2, <1>3, <1>4 DEF Writers
<1>6. PICK o : o = Overlaid(f, batch)
  OBVIOUS
<1>7. /\ DOMAIN o = DOMAIN f \cup Written(batch)
      /\ \A i \in DOMAIN o : o[i] = IF Writers(batch, i) = {} THEN f[i]
                                    ELSE batch[Max(Writers(batch, i))].writes[i]
      /\ \A i : i \in Written(batch) <=> Writers(batch, i) # {}
  <2>1. IsOverlaid(o, f, batch)
    BY <1>6, OverlaidIs
  <2> QED BY <2>1 DEF IsOverlaid
<1>8. PICK p : p = Overlaid(f, b)
  OBVIOUS
<1>9. /\ DOMAIN p = DOMAIN f \cup Written(b) /\ p = [i \in DOMAIN p |-> p[i]]
      /\ \A i \in DOMAIN p : p[i] = IF Writers(b, i) = {} THEN f[i]
                                    ELSE b[Max(Writers(b, i))].writes[i]
      /\ \A i : i \in Written(b) <=> Writers(b, i) # {}
  <2>1. IsOverlaid(p, f, b)
    BY <1>8, OverlaidIs
  <2> QED BY <2>1 DEF IsOverlaid
<1>10. PICK q : q = Upon(c.writes, o)
  OBVIOUS
<1>11. /\ DOMAIN q = DOMAIN c.writes \cup DOMAIN o /\ q = [i \in DOMAIN q |-> q[i]]
       /\ \A i \in DOMAIN q : q[i] = IF i \in DOMAIN c.writes THEN c.writes[i] ELSE o[i]
  <2>1. IsUpon(q, c.writes, o)
    BY <1>10, UponIs
  <2> QED BY <2>1 DEF IsUpon
<1>12. DOMAIN p = DOMAIN q
  <2>1. \A i : i \in Written(b) <=> i \in Written(batch) \/ i \in DOMAIN c.writes
    BY <1>5, <1>7, <1>9
  <2> QED BY <1>7, <1>9, <1>11, <2>1
<1>13. ASSUME NEW i \in DOMAIN p PROVE p[i] = q[i]
  <2>1. Writers(b, i) \in SUBSET (1 .. n + 1) /\ Writers(batch, i) \in SUBSET (1 .. n)
    BY <1>2, <1>3 DEF Writers
  <2>2. CASE i \in DOMAIN c.writes
    <3>1. n + 1 \in Writers(b, i) /\ \A k \in Writers(b, i) : n + 1 >= k
      BY <1>4, <1>5, <2>1, <2>2
    <3>2. n + 1 \in Nat
      OBVIOUS
    <3>3. Max(Writers(b, i)) = n + 1
      BY <2>1, <3>1, <3>2, LastIs
    <3> QED BY <1>3, <1>9, <1>11, <1>12, <2>2, <3>1, <3>3
  <2>3. CASE i \notin DOMAIN c.writes
    <3>1. Writers(b, i) = Writers(batch, i)
      BY <1>5, <2>3
    <3>2. q[i] = o[i] /\ i \in DOMAIN o
      BY <1>11, <1>12, <2>3
    <3>3. CASE Writers(b, i) = {}
      BY <1>7, <1>9, <3>1, <3>2, <3>3
    <3>4. CASE Writers(b, i) # {}
      <4>1. PICK k : k = Max(Writers(batch, i))
        OBVIOUS
      <4>2. k \in 1 .. n
        BY <2>1, <3>1, <3>4, <4>1, LastOfSome
      <4> QED BY <1>3, <1>7, <1>9, <3>1, <3>2, <3>4, <4>1, <4>2
    <3> QED BY <3>3, <3>4
  <2> QED BY <2>2, <2>3
<1>14. p = q
  BY <1>9, <1>11, <1>12, <1>13
<1> QED BY <1>1, <1>6, <1>8, <1>10, <1>14


-----------------------------------------------------------------------------
(* A flush, of the queue or of the queue and one commit more.              *)

\* What is handed to a flush.
Handed(batch, made, from) ==
  /\ batch \in Seq(Queued) /\ batch # <<>> /\ made \in Seq(Time) /\ from \in Time
  /\ made = IF Armed THEN Times(batch) ELSE <<>>
  /\ "bypassed" \notin trouble => DatedFrom(batch, from)

LEMMA BatchNow ==
  ASSUME BatchShapes
  PROVE  /\ now \in Nat /\ baseNow \in Nat /\ settings.afterN \in Nat /\ settings.afterN >= 1
         /\ mirror.inputs \in InputMaps /\ mirror.now \in Nat
         /\ mirror = [inputs |-> mirror.inputs, now |-> mirror.now]
         /\ settings.batches \in BOOLEAN /\ settings.timed \in BOOLEAN
         /\ settings.mode \in {"js-ssot", "rust-ssot"}
<1>1. now \in Nat /\ baseNow \in Nat
  BY MaxTimeAssumption DEF BatchShapes, Time
<1>2. settings.afterN \in Nat /\ settings.afterN >= 1
  BY MaxAfterNAssumption DEF BatchShapes, Settings
<1>3. mirror.inputs \in InputMaps /\ mirror.now \in Nat
      /\ mirror = [inputs |-> mirror.inputs, now |-> mirror.now]
  BY DEF BatchShapes, Mirrors
<1> QED BY <1>1, <1>2, <1>3 DEF BatchShapes, Settings

LEMMA UponType ==
  ASSUME NEW f \in InputMaps, NEW w, DOMAIN w \subseteq Slot, \A i \in DOMAIN w : w[i] \in Json
  PROVE  /\ Upon(w, f) \in InputMaps
         /\ (\A i \in DOMAIN f : f[i] # Wrong) => \A i \in DOMAIN Upon(w, f) : Upon(w, f)[i] # Wrong
<1>1. /\ DOMAIN f \subseteq Slot /\ \A i \in DOMAIN f : f[i] \in Json \cup {Wrong}
  BY InputMapIs
<1>2. PICK u : u = Upon(w, f)
  OBVIOUS
<1>3. IsUpon(u, w, f)
  BY <1>2, UponIs
<1>4. /\ DOMAIN u \subseteq Slot /\ u = [i \in DOMAIN u |-> u[i]]
      /\ \A i \in DOMAIN u : u[i] \in Json \/ (i \in DOMAIN f /\ u[i] = f[i])
  BY <1>1, <1>3 DEF IsUpon
<1>5. u \in InputMaps
  <2>1. u \in InputMaps <=> /\ DOMAIN u \subseteq Slot /\ u = [i \in DOMAIN u |-> u[i]]
                            /\ \A i \in DOMAIN u : u[i] \in Json \cup {Wrong}
    BY InputMapIs
  <2> QED BY <1>1, <1>4, <2>1
<1>6. (\A i \in DOMAIN f : f[i] # Wrong) => \A i \in DOMAIN u : u[i] # Wrong
  BY <1>4, WrongAssumption
<1> QED BY <1>2, <1>5, <1>6

\* The inputs a batch ships.
LEMMA ShippedInputs ==
  ASSUME BatchShapes, NEW batch \in Seq(Queued), batch # <<>>
  PROVE  /\ BatchShipped(batch) \in InputMaps
         /\ Vetted(mirror) => \A i \in DOMAIN BatchShipped(batch) : BatchShipped(batch)[i] # Wrong
<1>1. /\ Len(batch) \in Nat /\ 1 \in 1 .. Len(batch)
  BY EmptySeq
<1>2. /\ DOMAIN batch[1].writes \subseteq Slot
      /\ \A i \in DOMAIN batch[1].writes : batch[1].writes[i] \in Json
  BY <1>1, BatchIs
<1>3. PICK f \in InputMaps : f = mirror.inputs
  BY BatchNow
<1>4. PICK w : w = batch[1].writes
  OBVIOUS
<1>5. /\ Upon(w, f) \in InputMaps
      /\ (\A i \in DOMAIN f : f[i] # Wrong) => \A i \in DOMAIN Upon(w, f) : Upon(w, f)[i] # Wrong
  BY <1>2, <1>4, UponType
<1> QED BY <1>3, <1>4, <1>5 DEF BatchShipped, Vetted

\* What the mirror is after an answer.
LEMMA AnswersAre ==
  ASSUME NEW f \in InputMaps, NEW t \in Nat, mirror' \in Answers(f, t)
  PROVE  mirror' \in Mirrors /\ mirror'.now = t
<1>1. DOMAIN f \subseteq Slot /\ f = [i \in DOMAIN f |-> f[i]] /\ \A i \in DOMAIN f : f[i] \in Json \cup {Wrong}
  BY InputMapIs
<1>2. PICK a \in {f} \cup Spoiled(f) : mirror' = [inputs |-> a, now |-> t]
  BY DEF Answers
<1>3. a \in InputMaps
  <2>1. CASE a = f
    BY <2>1
  <2>2. CASE a \in Spoiled(f)
    <3>1. PICK i \in DOMAIN f : a = [f EXCEPT ![i] = Wrong]
      BY <2>2 DEF Spoiled
    <3>2. /\ DOMAIN a = DOMAIN f /\ a = [j \in DOMAIN a |-> a[j]]
          /\ \A j \in DOMAIN a : a[j] \in Json \cup {Wrong}
      BY <1>1, <3>1
    <3>3. a \in InputMaps <=> /\ DOMAIN a \subseteq Slot /\ a = [j \in DOMAIN a |-> a[j]]
                              /\ \A j \in DOMAIN a : a[j] \in Json \cup {Wrong}
      BY InputMapIs
    <3> QED BY <1>1, <3>2, <3>3
  <2> QED BY <1>2, <2>1, <2>2
<1> QED BY <1>2, <1>3 DEF Mirrors

\* An answer that is not as it should be is to be found among the troubles.
LEMMA BlamesTold ==
  ASSUME trouble \subseteq Troubles, NEW f, Blames(f)
  PROVE  /\ trouble' \subseteq Troubles /\ trouble \subseteq trouble'
         /\ "bypassed" \in trouble' => "bypassed" \in trouble
         /\ trouble' \cap {"spoiled", "threw"} = {} => trouble \cap {"spoiled", "threw"} = {} /\ mirror'.inputs = f
<1>1. CASE mirror'.inputs = f
  BY <1>1 DEF Blames
<1>2. CASE mirror'.inputs # f
  BY <1>2 DEF Blames, Troubles
<1> QED BY <1>1, <1>2

\* The mirror after an answer that threw while it was applied.
LEMMA HalfAppliedAre ==
  ASSUME NEW w, DOMAIN w \subseteq Slot, \A i \in DOMAIN w : w[i] \in Json,
         NEW f \in InputMaps, NEW t \in Nat, mirror' \in HalfApplied(w, f, t)
  PROVE  mirror' \in Mirrors
<1>1. PICK taken \in SUBSET DOMAIN w : mirror' \in Answers(Upon([i \in taken |-> w[i]], f), t)
  BY DEF HalfApplied
<1>2. PICK v : v = [i \in taken |-> w[i]]
  OBVIOUS
<1>3. DOMAIN v \subseteq Slot /\ \A i \in DOMAIN v : v[i] \in Json
  BY <1>2
<1>4. PICK u \in InputMaps : u = Upon(v, f)
  BY <1>3, UponType
<1> QED BY <1>1, <1>2, <1>4, AnswersAre

LEMMA BreaksOffLeaves ==
  ASSUME BatchShapes, NEW batch \in Seq(Queued), batch # <<>>, NEW from \in Nat, BreaksOff(batch, from)
  PROVE  mirror' \in Mirrors
<1>1. Len(batch) \in Nat /\ Len(batch) >= 1 /\ DOMAIN batch = 1 .. Len(batch)
  BY EmptySeq
<1>2. PICK f \in InputMaps : f = mirror.inputs
  BY BatchNow
<1>3. CASE settings.batches
  <2>1. mirror' \in HalfApplied(batch[1].writes, f, from + Len(batch))
    BY <1>2, <1>3 DEF BreaksOff
  <2>2. 1 \in 1 .. Len(batch) /\ from + Len(batch) \in Nat
    BY <1>1
  <2>3. DOMAIN batch[1].writes \subseteq Slot /\ \A i \in DOMAIN batch[1].writes : batch[1].writes[i] \in Json
    BY <2>2, BatchIs
  <2> QED BY <2>1, <2>2, <2>3, HalfAppliedAre
<1>4. CASE ~settings.batches
  <2>1. PICK k \in 1 .. Len(batch) :
          mirror' \in HalfApplied(batch[k].writes, Overlaid(f, SubSeq(batch, 1, k - 1)), from + k)
    BY <1>1, <1>2, <1>4 DEF BreaksOff
  <2>2. DOMAIN batch[k].writes \subseteq Slot /\ \A i \in DOMAIN batch[k].writes : batch[k].writes[i] \in Json
    BY BatchIs
  <2>3. PICK b \in Seq(Queued) : b = SubSeq(batch, 1, k - 1)
    <3>1. SubSeq(batch, 1, k - 1) \in Seq(Queued)
      OBVIOUS
    <3> QED BY <3>1
  <2>4. PICK o \in InputMaps : o = Overlaid(f, b)
    BY OverlaidType
  <2>5. from + k \in Nat
    OBVIOUS
  <2> QED BY <2>1, <2>2, <2>3, <2>4, <2>5, HalfAppliedAre
<1> QED BY <1>3, <1>4, BatchNow

\* What a flush leaves behind, apart from the queue.
FlushLeaves(batch, from) ==
  /\ mirror' \in Mirrors /\ downgraded' \in BOOLEAN
  /\ error' \in {"none", "threw", "downgraded"} /\ tally' \in Tallies
  /\ trouble' \subseteq Troubles /\ trouble \subseteq trouble'
  /\ ("bypassed" \in trouble' => "bypassed" \in trouble)
  /\ downgraded => downgraded' /\ error' # "none" /\ tally' = tally
  /\ downgraded' => error' # "none"
  /\ trouble' \cap {"spoiled", "threw"} = {}
       => trouble \cap {"spoiled", "threw"} = {} /\ (Vetted(mirror) => Vetted(mirror'))
  /\ Armed /\ settings.batches /\ error' # "threw"
       => \/ tally'.promoted = tally.promoted + 1 /\ DatedFrom(batch, from)
          \/ \A i \in DOMAIN mirror'.inputs : mirror'.inputs[i] = mirror.inputs[i]
  /\ downgraded' => downgraded \/ trouble' \cap {"disagreed", "bypassed"} # {}
  /\ trouble' = {} /\ OneAtATime /\ (settings.afterN = 1 => Len(batch) = 1) =>
       mirror'.now = from + Len(batch) /\ mirror'.inputs = Overlaid(mirror.inputs, batch)

\* A batch of one is overlaid as it is shipped.
LEMMA OverlaidOne ==
  ASSUME BatchShapes, NEW batch \in Seq(Queued), Len(batch) = 1
  PROVE  BatchShipped(batch) = Overlaid(mirror.inputs, batch)
<1>1. PICK c \in Queued : c = batch[1]
  BY BatchIs
<1>2. <<>> \in Seq(Queued) /\ Append(<<>>, c) = batch
  <2>1. PICK b \in Seq(Queued) : b = <<>>
    BY EmptySeq
  <2>2. PICK a \in Seq(Queued) : a = Append(b, c)
    BY AppendIs
  <2>3. Len(a) = 1 /\ a[1] = c
    <3>1. Len(b) = 0 /\ Len(a) = Len(b) + 1 /\ a[Len(b) + 1] = c
      BY <2>1, <2>2, AppendIs
    <3> QED BY <3>1
  <2>4. \A k \in 1 .. Len(a) : a[k] = batch[k]
    BY <1>1, <2>3
  <2>5. a = batch
    BY <2>3, <2>4, SeqEqual
  <2> QED BY <2>1, <2>2, <2>5
<1>3. PICK f \in InputMaps : f = mirror.inputs
  BY BatchNow
<1>4. Overlaid(f, Append(<<>>, c)) = Upon(c.writes, Overlaid(f, <<>>))
  BY <1>2, OverlaidAppend
<1>5. Overlaid(f, <<>>) = f
  BY OverlaidNothing
<1> QED BY <1>1, <1>2, <1>3, <1>4, <1>5 DEF BatchShipped

LEMMA TallyMoves ==
  ASSUME tally \in Tallies
  PROVE  /\ tally' = [tally EXCEPT !.compared = tally.compared + 1, !.promoted = tally.promoted + 1]
              => tally' \in Tallies /\ tally'.promoted = tally.promoted + 1
         /\ tally' = [tally EXCEPT !.compared = tally.compared + 1, !.diverged = tally.diverged + 1]
              => tally' \in Tallies
<1>1. PICK x \in Nat : x = tally.compared + 1
  BY DEF Tallies
<1>2. PICK y \in Nat : y = tally.promoted + 1
  BY DEF Tallies
<1>3. PICK z \in Nat : z = tally.diverged + 1
  BY DEF Tallies
<1>4. tally' = [tally EXCEPT !.compared = x, !.promoted = y] => tally' \in Tallies /\ tally'.promoted = y
  BY DEF Tallies
<1>5. tally' = [tally EXCEPT !.compared = x, !.diverged = z] => tally' \in Tallies
  BY DEF Tallies
<1> QED BY <1>1, <1>2, <1>3, <1>4, <1>5

LEMMA FlushDoes ==
  ASSUME BatchShapes, DowngradeIsTold, NEW batch, NEW made, NEW from,
         Handed(batch, made, from), Flush(batch, made, from)
  PROVE  FlushLeaves(batch, from)
<1>1. /\ batch \in Seq(Queued) /\ batch # <<>> /\ made \in Seq(Time) /\ from \in Time
      /\ made = (IF Armed THEN Times(batch) ELSE <<>>)
      /\ "bypassed" \notin trouble => DatedFrom(batch, from)
  BY DEF Handed
<1>2. from \in Nat /\ Len(batch) \in Nat /\ Len(batch) >= 1 /\ DOMAIN batch = 1 .. Len(batch)
  BY <1>1, MaxTimeAssumption, EmptySeq DEF Time
<1>3. /\ tally \in Tallies /\ trouble \subseteq Troubles /\ downgraded \in BOOLEAN
      /\ error \in {"none", "threw", "downgraded"} /\ mirror \in Mirrors
      /\ (downgraded => error # "none")
  BY DEF BatchShapes, DowngradeIsTold
<1>4. /\ mirror = [inputs |-> mirror.inputs, now |-> mirror.now]
      /\ mirror.inputs \in InputMaps
  BY BatchNow
<1>5. CASE Lost(batch, from)
  <2>1. /\ error' = "threw" /\ trouble' = trouble \cup {"threw"} /\ downgraded' = downgraded /\ tally' = tally
    BY <1>5 DEF Lost
  <2>2. mirror' \in Mirrors
    <3>1. CASE mirror' = [mirror EXCEPT !.now = from]
      <4>1. mirror' = [inputs |-> mirror.inputs, now |-> from]
        BY <1>4, <3>1
      <4> QED BY <1>2, <1>4, <4>1 DEF Mirrors
    <3>2. CASE BreaksOff(batch, from)
      BY <1>1, <1>2, <3>2, BreaksOffLeaves
    <3> QED BY <1>5, <3>1, <3>2 DEF Lost
  <2> QED BY <1>3, <2>1, <2>2 DEF FlushLeaves, Troubles
<1>6. CASE Degraded(batch, from)
  <2>1. PICK f \in InputMaps : f = mirror.inputs
    BY <1>4
  <2>2. PICK o \in InputMaps : /\ o = Overlaid(f, batch)
                               /\ (\A i \in DOMAIN f : f[i] # Wrong) => \A i \in DOMAIN o : o[i] # Wrong
    BY <1>1, OverlaidType
  <2>3. /\ mirror' \in Answers(o, from + Len(batch)) /\ Blames(o) /\ UNCHANGED <<downgraded, tally>>
        /\ error' = (IF downgraded THEN error ELSE "none") /\ ~settings.batches
    BY <1>6, <2>1, <2>2 DEF Degraded
  <2>4. mirror' \in Mirrors /\ mirror'.now = from + Len(batch)
    BY <1>2, <2>3, AnswersAre
  <2>5. /\ trouble' \subseteq Troubles /\ trouble \subseteq trouble'
        /\ ("bypassed" \in trouble' => "bypassed" \in trouble)
        /\ (trouble' \cap {"spoiled", "threw"} = {} =>
              trouble \cap {"spoiled", "threw"} = {} /\ mirror'.inputs = o)
    BY <1>3, <2>3, BlamesTold
  <2>6. mirror'.inputs = o => (Vetted(mirror) => Vetted(mirror'))
    BY <2>1, <2>2 DEF Vetted
  <2>7. error' \in {"none", "threw", "downgraded"} /\ (downgraded => error' # "none")
    BY <1>3, <2>3
  <2>8. trouble' = {} => mirror'.inputs = Overlaid(mirror.inputs, batch)
    BY <2>1, <2>2, <2>5
  <2> QED BY <1>3, <2>3, <2>4, <2>5, <2>6, <2>7, <2>8 DEF FlushLeaves
<1>7. CASE settings.batches /\ Applied(batch, from)
  <2>1. PICK u \in InputMaps : u = BatchShipped(batch) /\ (Vetted(mirror) => \A i \in DOMAIN u : u[i] # Wrong)
    BY <1>1, ShippedInputs
  <2>2. /\ mirror' \in Answers(u, from + Len(batch)) /\ Blames(u) /\ UNCHANGED <<downgraded, tally>>
        /\ error' = (IF downgraded THEN error ELSE "none") /\ ~Armed
    BY <1>7, <2>1 DEF Applied
  <2>3. mirror' \in Mirrors /\ mirror'.now = from + Len(batch)
    BY <1>2, <2>2, AnswersAre
  <2>4. /\ trouble' \subseteq Troubles /\ trouble \subseteq trouble'
        /\ ("bypassed" \in trouble' => "bypassed" \in trouble)
        /\ (trouble' \cap {"spoiled", "threw"} = {} =>
              trouble \cap {"spoiled", "threw"} = {} /\ mirror'.inputs = u)
    BY <1>3, <2>2, BlamesTold
  <2>5. mirror'.inputs = u => (Vetted(mirror) => Vetted(mirror'))
    BY <2>1 DEF Vetted
  <2>6. error' \in {"none", "threw", "downgraded"} /\ (downgraded => error' # "none")
    BY <1>3, <2>2
  <2>7. trouble' = {} /\ OneAtATime /\ (settings.afterN = 1 => Len(batch) = 1) =>
           mirror'.inputs = Overlaid(mirror.inputs, batch)
    <3>1. SUFFICES ASSUME trouble' = {}, Len(batch) = 1 PROVE u = Overlaid(mirror.inputs, batch)
      BY <1>7, <2>4 DEF OneAtATime
    <3> QED BY <1>1, <2>1, <3>1, OverlaidOne
  <2> QED BY <1>3, <2>2, <2>3, <2>4, <2>5, <2>6, <2>7 DEF FlushLeaves
<1>8. CASE settings.batches /\ Promoted(batch, from, made)
  <2>1. PICK u \in InputMaps : u = BatchShipped(batch) /\ (Vetted(mirror) => \A i \in DOMAIN u : u[i] # Wrong)
    BY <1>1, ShippedInputs
  <2>2. /\ mirror' \in Answers(u, from + Len(batch)) /\ Blames(u)
        /\ error' = "none" /\ UNCHANGED downgraded /\ Armed /\ ~downgraded
        /\ tally' = [tally EXCEPT !.compared = tally.compared + 1, !.promoted = tally.promoted + 1]
        /\ SameCommits(batch, from, made)
    BY <1>8, <2>1 DEF Promoted, Armed
  <2>3. mirror' \in Mirrors /\ mirror'.now = from + Len(batch)
    BY <1>2, <2>2, AnswersAre
  <2>4. /\ trouble' \subseteq Troubles /\ trouble \subseteq trouble'
        /\ ("bypassed" \in trouble' => "bypassed" \in trouble)
        /\ (trouble' \cap {"spoiled", "threw"} = {} =>
              trouble \cap {"spoiled", "threw"} = {} /\ mirror'.inputs = u)
    BY <1>3, <2>2, BlamesTold
  <2>5. mirror'.inputs = u => (Vetted(mirror) => Vetted(mirror'))
    BY <2>1 DEF Vetted
  <2>6. tally' \in Tallies /\ tally'.promoted = tally.promoted + 1
    BY <1>3, <2>2, TallyMoves, Zenon
  <2>7. DatedFrom(batch, from)
    <3>1. made = Times(batch) /\ made = [k \in 1 .. Len(batch) |-> from + k]
      BY <1>1, <2>2 DEF SameCommits
    <3>2. Times(batch) = [k \in 1 .. Len(batch) |-> batch[k].time]
      BY <1>2 DEF Times
    <3> QED BY <1>2, <3>1, <3>2 DEF DatedFrom
  <2>8. trouble' = {} /\ OneAtATime /\ (settings.afterN = 1 => Len(batch) = 1) =>
           mirror'.inputs = Overlaid(mirror.inputs, batch)
    <3>1. SUFFICES ASSUME trouble' = {}, Len(batch) = 1 PROVE u = Overlaid(mirror.inputs, batch)
      BY <1>8, <2>4 DEF OneAtATime
    <3> QED BY <1>1, <2>1, <3>1, OverlaidOne
  <2> QED BY <1>3, <2>2, <2>3, <2>4, <2>5, <2>6, <2>7, <2>8 DEF FlushLeaves
<1>9. CASE settings.batches /\ Diverged(batch, from, made)
  <2>1. /\ mirror' = [inputs |-> mirror.inputs, now |-> from]
        /\ downgraded' = TRUE /\ error' = "downgraded" /\ ~downgraded /\ Armed
        /\ tally' = [tally EXCEPT !.compared = tally.compared + 1, !.diverged = tally.diverged + 1]
    BY <1>4, <1>9 DEF Diverged, Armed
  <2>2. \/ trouble' = trouble \cup {"disagreed"}
        \/ trouble' = trouble /\ ~SameCommits(batch, from, made)
    BY <1>9 DEF Diverged
  <2>3. "bypassed" \notin trouble => SameCommits(batch, from, made)
    <3>1. SUFFICES ASSUME "bypassed" \notin trouble PROVE SameCommits(batch, from, made)
      OBVIOUS
    <3>2. made = Times(batch) /\ \A k \in 1 .. Len(batch) : batch[k].time = from + k
      BY <1>1, <1>2, <2>1, <3>1 DEF DatedFrom
    <3>3. Times(batch) = [k \in 1 .. Len(batch) |-> batch[k].time]
      BY <1>2 DEF Times
    <3> QED BY <3>2, <3>3 DEF SameCommits
  <2>4. trouble' \cap {"disagreed", "bypassed"} # {}
    BY <2>2, <2>3
  <2>5. mirror' \in Mirrors /\ (Vetted(mirror) => Vetted(mirror')) /\ mirror'.inputs = mirror.inputs
    BY <1>2, <1>4, <2>1 DEF Mirrors, Vetted
  <2>6. tally' \in Tallies
    BY <1>3, <2>1, TallyMoves, Zenon
  <2>7. /\ trouble' \subseteq Troubles /\ trouble \subseteq trouble' /\ trouble' # {}
        /\ ("bypassed" \in trouble' => "bypassed" \in trouble)
    BY <1>3, <2>2, <2>4 DEF Troubles
  <2> QED BY <1>3, <2>1, <2>4, <2>5, <2>6, <2>7 DEF FlushLeaves
<1> QED BY <1>5, <1>6, <1>7, <1>8, <1>9 DEF Flush


-----------------------------------------------------------------------------
(* The steps.                                                              *)

LEMMA BatchInitHolds == ASSUME BatchInit PROVE BatchInv
<1>1. /\ now = 0 /\ settings \in Settings /\ buffer = <<>> /\ jsCommits = <<>> /\ baseNow = 0
      /\ timerArmed = FALSE /\ mirror = [inputs |-> cells, now |-> 0]
      /\ downgraded = FALSE /\ error = "none" /\ trouble = {}
      /\ tally = [compared |-> 0, promoted |-> 0, diverged |-> 0]
      /\ enqueued = <<>> /\ flushed = <<>>
  BY DEF BatchInit, Settings
<1>2. PICK v \in Json : cells = [i \in Slot |-> v]
  BY DEF BatchInit
<1>3. now \in Time /\ baseNow \in Time
  BY <1>1, MaxTimeAssumption DEF Time
<1>4. cells \in InputMaps /\ \A i \in Slot : cells[i] # Wrong
  <2>1. cells \in InputMaps <=> /\ DOMAIN cells \subseteq Slot /\ cells = [i \in DOMAIN cells |-> cells[i]]
                                /\ \A i \in DOMAIN cells : cells[i] \in Json \cup {Wrong}
    BY InputMapIs
  <2> QED BY <1>2, <2>1, WrongAssumption
<1>5. /\ buffer \in Seq(Queued) /\ jsCommits \in Seq(Time) /\ enqueued \in Seq(Time)
      /\ flushed \in Seq(Time) /\ Len(buffer) = 0 /\ Len(enqueued) = 0 /\ Len(flushed) = 0
  BY <1>1, EmptySeq
<1>6. Len(buffer) < settings.afterN
  BY <1>1, <1>5, MaxAfterNAssumption DEF Settings
<1>7. mirror \in Mirrors /\ tally \in Tallies /\ Vetted(mirror)
  BY <1>1, <1>2, <1>4 DEF Mirrors, Tallies, Vetted
<1>8. BatchShapes
  BY <1>1, <1>2, <1>3, <1>5, <1>6, <1>7 DEF BatchShapes
<1>9. EveryCommitLeavesOnce
  <2>1. Times(buffer) \in Seq(Time) /\ Len(Times(buffer)) = 0
    BY <1>5, TimesAre
  <2>2. PICK t \in Seq(Time) : t = Times(buffer)
    BY <2>1
  <2>3. t = <<>>
    BY <2>1, <2>2, EmptySeq
  <2> QED BY <1>1, <2>2, <2>3 DEF EveryCommitLeavesOnce
<1>10. ComparedWithItsOwn
  <2>1. Times(buffer) \in Seq(Time) /\ Len(Times(buffer)) = 0
    BY <1>5, TimesAre
  <2>2. PICK t \in Seq(Time) : t = Times(buffer)
    BY <2>1
  <2>3. t = <<>>
    BY <2>1, <2>2, EmptySeq
  <2> QED BY <1>1, <2>2, <2>3 DEF ComparedWithItsOwn
<1>11. TimerMatchesQueue /\ DowngradeIsEarned /\ DowngradeIsTold
  BY <1>1, <1>7 DEF TimerMatchesQueue, DowngradeIsEarned, DowngradeIsTold
<1>12. QueueDates
  BY <1>1 DEF QueueDates, DatedFrom
<1>13. MirrorFollows
  <2>1. PICK f \in InputMaps : f = cells
    BY <1>4
  <2>2. Overlaid(f, <<>>) = f
    BY OverlaidNothing
  <2>3. cells = Overlaid(mirror.inputs, buffer)
    BY <1>1, <2>1, <2>2
  <2> QED BY <1>1, <1>5, <2>3 DEF MirrorFollows
<1> QED BY <1>8, <1>9, <1>10, <1>11, <1>12, <1>13 DEF BatchInv

\* Nothing queued, nothing dated.
LEMMA NothingQueued == /\ <<>> \in Seq(Queued) /\ <<>> \in Seq(Time) /\ Len(<<>>) = 0
                       /\ Times(<<>>) = <<>>
<1>1. PICK e \in Seq(Queued) : e = <<>>
  BY EmptySeq
<1>2. Len(e) = 0
  BY <1>1
<1>3. PICK t \in Seq(Time) : t = Times(e)
  BY TimesAre
<1>4. Len(t) = 0
  BY <1>2, <1>3, TimesAre
<1>5. t = <<>>
  BY <1>4, EmptySeq
<1> QED BY <1>1, <1>2, <1>3, <1>5, EmptySeq

\* What a caller of flush has seen to.
HandedOver(batch, from) ==
  /\ UNCHANGED settings
  /\ now' \in Time /\ cells' \in [Slot -> Json] /\ baseNow' \in Time /\ enqueued' \in Seq(Time)
  /\ enqueued' = flushed \o Times(batch)
  /\ settings.afterN = 1 => Len(batch) = 1
  /\ trouble = {} /\ OneAtATime =>
       /\ cells' = Overlaid(mirror.inputs, batch)
       /\ from = Len(flushed) /\ now' = Len(enqueued')

LEMMA FlushKeeps ==
  ASSUME BatchInv, NEW batch, NEW made, NEW from,
         Handed(batch, made, from), HandedOver(batch, from), Flush(batch, made, from)
  PROVE  BatchInv'
<1>1. BatchShapes /\ DowngradeIsTold /\ DowngradeIsEarned
  BY DEF BatchInv
<1>2. FlushLeaves(batch, from)
  BY <1>1, FlushDoes
<1>3. /\ batch \in Seq(Queued) /\ from \in Time /\ made = (IF Armed THEN Times(batch) ELSE <<>>)
  BY DEF Handed
<1>4. /\ buffer' = <<>> /\ timerArmed' = FALSE /\ flushed' = flushed \o Times(batch)
      /\ jsCommits' = <<>>
  BY <1>3 DEF Flush, Drained
<1>5. flushed \in Seq(Time) /\ settings \in Settings /\ settings.afterN \in Nat /\ settings.afterN >= 1
  BY <1>1, BatchNow DEF BatchShapes
<1>6. PICK t \in Seq(Time) : t = Times(batch) /\ Len(t) = Len(batch)
  BY <1>3, TimesAre
<1>7. flushed' \in Seq(Time) /\ Len(flushed') = Len(flushed) + Len(batch)
  <2>1. PICK u \in Seq(Time) : u = flushed
    BY <1>5
  <2>2. u \o t \in Seq(Time) /\ Len(u \o t) = Len(u) + Len(t)
    BY ConcatProperties
  <2> QED BY <1>4, <1>6, <2>1, <2>2
<1>8. settings' = settings /\ (OneAtATime' <=> OneAtATime)
  BY DEF HandedOver, OneAtATime
<1>9. BatchShapes'
  <2>1. Len(buffer') < settings'.afterN
    BY <1>4, <1>5, <1>8, NothingQueued
  <2>2. /\ settings' \in Settings /\ cells' \in [Slot -> Json] /\ now' \in Time
        /\ buffer' \in Seq(Queued) /\ jsCommits' \in Seq(Time) /\ baseNow' \in Time
        /\ timerArmed' \in BOOLEAN /\ enqueued' \in Seq(Time)
    BY <1>4, <1>5, <1>8, NothingQueued DEF HandedOver
  <2>3. /\ mirror' \in Mirrors /\ downgraded' \in BOOLEAN /\ trouble' \subseteq Troubles
        /\ error' \in {"none", "threw", "downgraded"} /\ tally' \in Tallies
    BY <1>2 DEF FlushLeaves
  <2> QED BY <1>7, <2>1, <2>2, <2>3 DEF BatchShapes
<1>10. EveryCommitLeavesOnce'
  <2>1. PICK u \in Seq(Time) : u = flushed'
    BY <1>7
  <2>2. u \o <<>> = u
    OBVIOUS
  <2>3. enqueued' = flushed' \o Times(buffer')
    BY <1>4, <2>1, <2>2, NothingQueued DEF HandedOver
  <2> QED BY <2>3 DEF EveryCommitLeavesOnce, Times
<1>11. TimerMatchesQueue'
  BY <1>4 DEF TimerMatchesQueue
<1>12. ComparedWithItsOwn'
  <2>1. Times(buffer)' = <<>>
    BY <1>4, NothingQueued DEF Times
  <2> QED BY <1>4, <2>1 DEF ComparedWithItsOwn
<1>13. DowngradeIsEarned'
  BY <1>1, <1>2 DEF FlushLeaves, DowngradeIsEarned
<1>14. QueueDates'
  BY <1>4 DEF QueueDates, DatedFrom
<1>15. MirrorFollows'
  <2>1. SUFFICES ASSUME trouble' = {}, OneAtATime
                 PROVE  /\ cells' = Overlaid(mirror'.inputs, buffer')
                        /\ mirror'.now = Len(flushed') /\ now' = Len(enqueued')
    BY <1>4, <1>8 DEF MirrorFollows, Overlaid
  <2>2. trouble = {}
    BY <1>2, <2>1 DEF FlushLeaves
  <2>3. /\ cells' = Overlaid(mirror.inputs, batch) /\ from = Len(flushed) /\ now' = Len(enqueued')
        /\ (settings.afterN = 1 => Len(batch) = 1)
    BY <2>1, <2>2 DEF HandedOver
  <2>4. mirror'.now = from + Len(batch) /\ mirror'.inputs = Overlaid(mirror.inputs, batch)
    BY <1>2, <2>1, <2>3 DEF FlushLeaves
  <2>5. PICK f \in InputMaps : f = mirror'.inputs
    BY <1>2 DEF FlushLeaves, Mirrors
  <2>6. Overlaid(f, <<>>) = f
    BY OverlaidNothing
  <2> QED BY <1>4, <1>7, <2>3, <2>4, <2>5, <2>6
<1>16. DowngradeIsTold'
  <2>1. downgraded' => error' # "none"
    BY <1>2 DEF FlushLeaves
  <2>2. trouble' \cap {"spoiled", "threw"} = {} => Vetted(mirror')
    BY <1>1, <1>2 DEF FlushLeaves, DowngradeIsTold
  <2> QED BY <2>1, <2>2 DEF DowngradeIsTold, Vetted
<1> QED BY <1>9, <1>10, <1>11, <1>12, <1>13, <1>14, <1>15, <1>16 DEF BatchInv


\* The queue with one commit more, as it is handed on.
LEMMA CommitHandsOver ==
  ASSUME BatchInv, NEW writes \in Writes, NEW batch, NEW made,
         batch = Append(buffer, [time |-> now + 1, writes |-> writes]),
         made = Comparable(now + 1), Tick, UNCHANGED settings,
         cells' = Upon(writes, cells), enqueued' = Append(enqueued, now + 1), baseNow' = Base
  PROVE  Handed(batch, made, Base) /\ HandedOver(batch, Base) /\ Len(batch) = Len(buffer) + 1
<1>1. /\ BatchShapes /\ EveryCommitLeavesOnce /\ ComparedWithItsOwn /\ QueueDates /\ MirrorFollows
  BY DEF BatchInv
<1>2. /\ now \in Nat /\ now' = now + 1 /\ now' \in Time /\ now \in Time /\ baseNow \in Nat
      /\ settings.afterN \in Nat /\ settings.afterN >= 1 /\ mirror.inputs \in InputMaps
  <2>1. now \in Nat /\ baseNow \in Nat
    BY <1>1, BatchNow
  <2>2. now' = now + 1 /\ now' \in Time
    BY <2>1, MaxTimeAssumption DEF Tick, Time
  <2> QED BY <1>1, <2>1, <2>2, BatchNow DEF BatchShapes
<1>3. /\ buffer \in Seq(Queued) /\ Len(buffer) < settings.afterN /\ jsCommits \in Seq(Time)
      /\ enqueued \in Seq(Time) /\ flushed \in Seq(Time) /\ baseNow \in Time
      /\ cells \in [Slot -> Json] /\ Len(buffer) \in Nat /\ Len(enqueued) \in Nat
      /\ Len(flushed) \in Nat
  BY <1>1 DEF BatchShapes
<1>4. PICK c \in Queued : c = [time |-> now + 1, writes |-> writes]
  BY <1>2 DEF Queued
<1>5. c.time = now + 1 /\ c.writes = writes
  BY <1>4
<1>6. /\ batch \in Seq(Queued) /\ Len(batch) = Len(buffer) + 1 /\ batch # <<>>
      /\ DOMAIN batch = 1 .. Len(buffer) + 1 /\ batch[Len(buffer) + 1] = c
      /\ \A k \in 1 .. Len(buffer) : batch[k] = buffer[k]
  <2>1. PICK b \in Seq(Queued) : b = buffer
    BY <1>3
  <2>2. /\ Append(b, c) \in Seq(Queued) /\ Len(Append(b, c)) = Len(b) + 1 /\ Append(b, c) # <<>>
        /\ DOMAIN Append(b, c) = 1 .. Len(b) + 1
        /\ \A k \in 1 .. Len(b) : Append(b, c)[k] = b[k]
        /\ Append(b, c)[Len(b) + 1] = c
    BY AppendIs
  <2>3. batch = Append(b, c)
    BY <1>4, <2>1
  <2> QED BY <2>1, <2>2, <2>3
<1>7. Times(batch) = Append(Times(buffer), now + 1)
  <2>1. Times(Append(buffer, c)) = Append(Times(buffer), c.time)
    BY <1>3, TimesOfAppend
  <2> QED BY <1>4, <1>5, <2>1
<1>8. Base \in Time
  BY <1>2, <1>3 DEF Base
<1>9. made \in Seq(Time) /\ made = (IF Armed THEN Times(batch) ELSE <<>>)
  <2>1. CASE Armed
    <3>1. made = Append(jsCommits, now') /\ jsCommits = Times(buffer)
      BY <1>1, <1>2, <2>1 DEF Comparable, ComparedWithItsOwn
    <3>2. Append(jsCommits, now') \in Seq(Time)
      BY <1>2, <1>3, AppendIs
    <3> QED BY <1>2, <1>7, <2>1, <3>1, <3>2
  <2>2. CASE ~Armed
    BY <1>1, <1>3, <2>2 DEF Comparable, ComparedWithItsOwn
  <2> QED BY <2>1, <2>2
<1>10. "bypassed" \notin trouble => DatedFrom(batch, Base)
  <2>1. SUFFICES ASSUME "bypassed" \notin trouble, NEW k \in DOMAIN batch
                 PROVE  batch[k].time = Base + k
    BY DEF DatedFrom
  <2>2. now = Base + Len(buffer)
    <3>1. CASE buffer = <<>>
      BY <1>2, <3>1, NothingQueued DEF Base
    <3>2. CASE buffer # <<>>
      BY <1>1, <2>1, <3>2 DEF Base, QueueDates
    <3> QED BY <3>1, <3>2
  <2>3. CASE k = Len(buffer) + 1
    <3>1. batch[k].time = now + 1
      BY <1>5, <1>6, <2>3
    <3>2. Base \in Nat
      BY <1>2 DEF Base
    <3> QED BY <1>3, <2>2, <2>3, <3>1, <3>2
  <2>4. CASE k # Len(buffer) + 1
    <3>1. k \in 1 .. Len(buffer)
      BY <1>3, <1>6, <2>4
    <3>2. buffer # <<>>
      BY <1>3, <3>1, NothingQueued
    <3>3. buffer[k].time = baseNow + k
      <4>1. k \in DOMAIN buffer
        BY <1>3, <3>1
      <4> QED BY <1>1, <2>1, <4>1 DEF QueueDates, DatedFrom
    <3> QED BY <1>6, <3>1, <3>2, <3>3 DEF Base
  <2> QED BY <2>3, <2>4
<1>11. Handed(batch, made, Base)
  BY <1>6, <1>8, <1>9, <1>10 DEF Handed
<1>12. cells' \in [Slot -> Json]
  <2>1. DOMAIN writes \subseteq Slot /\ \A i \in DOMAIN writes : writes[i] \in Json
    <3>1. DOMAIN writes \subseteq Slot /\ writes \in [DOMAIN writes -> Json]
      BY WritesAre
    <3> QED BY <3>1
  <2>2. IsUpon(cells', writes, cells)
    BY UponIs
  <2> QED BY <1>3, <2>1, <2>2 DEF IsUpon
<1>13. enqueued' \in Seq(Time) /\ enqueued' = flushed \o Times(batch) /\ Len(enqueued') = Len(enqueued) + 1
  <2>1. PICK t \in Seq(Time) : t = Times(buffer)
    BY <1>3, TimesAre
  <2>2. PICK f \in Seq(Time) : f = flushed
    BY <1>3
  <2>3. PICK e \in Time : e = now + 1
    BY <1>2
  <2>4. f \o Append(t, e) = Append(f \o t, e)
    BY ConcatOfAppend
  <2>5. enqueued = f \o t
    BY <1>1, <2>1, <2>2 DEF EveryCommitLeavesOnce
  <2>6. enqueued' = Append(enqueued, e)
    BY <2>3
  <2>7. enqueued' \in Seq(Time) /\ Len(enqueued') = Len(enqueued) + 1
    BY <1>3, <2>6, AppendIs
  <2> QED BY <1>7, <2>1, <2>2, <2>3, <2>4, <2>5, <2>6, <2>7
<1>14. settings.afterN = 1 => Len(batch) = 1
  BY <1>3, <1>6
<1>15. ASSUME trouble = {}, OneAtATime
       PROVE  cells' = Overlaid(mirror.inputs, batch) /\ Base = Len(flushed) /\ now' = Len(enqueued')
  <2>1. /\ cells = Overlaid(mirror.inputs, buffer) /\ mirror.now = Len(flushed)
        /\ now = Len(enqueued) /\ (buffer # <<>> => baseNow = mirror.now)
    BY <1>1, <1>15 DEF MirrorFollows
  <2>2. cells' = Overlaid(mirror.inputs, batch)
    <3>1. PICK g \in InputMaps : g = mirror.inputs
      BY <1>2
    <3>2. Overlaid(g, Append(buffer, c)) = Upon(c.writes, Overlaid(g, buffer))
      BY <1>3, OverlaidAppend
    <3> QED BY <1>4, <1>5, <2>1, <3>1, <3>2
  <2>3. Base = Len(flushed)
    <3>1. CASE buffer # <<>>
      BY <2>1, <3>1 DEF Base
    <3>2. CASE buffer = <<>>
      <4>1. Times(buffer) = <<>>
        BY <3>2, NothingQueued
      <4>2. enqueued = flushed
        <5>1. PICK f \in Seq(Time) : f = flushed
          BY <1>3
        <5>2. f \o <<>> = f
          OBVIOUS
        <5> QED BY <1>1, <4>1, <5>1, <5>2 DEF EveryCommitLeavesOnce
      <4> QED BY <2>1, <3>2, <4>2 DEF Base
    <3> QED BY <3>1, <3>2
  <2> QED BY <1>2, <1>13, <2>1, <2>2, <2>3
<1>16. HandedOver(batch, Base)
  <2>1. baseNow' \in Time
    BY <1>8
  <2> QED BY <1>2, <1>12, <1>13, <1>14, <1>15, <2>1 DEF HandedOver
<1> QED BY <1>6, <1>11, <1>16

LEMMA BatchCommitKeeps ==
  ASSUME BatchInv, NEW writes \in Writes, BatchCommit(writes)
  PROVE  BatchInv'
<1>1. PICK batch : batch = Append(buffer, [time |-> now + 1, writes |-> writes])
  OBVIOUS
<1>2. PICK made : made = Comparable(now + 1)
  OBVIOUS
<1>3. /\ Tick /\ cells' = Upon(writes, cells) /\ enqueued' = Append(enqueued, now + 1)
      /\ baseNow' = Base /\ UNCHANGED settings
      /\ IF Full(batch) THEN Flush(batch, made, Base)
         ELSE /\ buffer' = batch /\ jsCommits' = made /\ timerArmed' = (Arms \/ timerArmed)
              /\ UNCHANGED <<flushed, mirror, counters, trouble>>
  BY <1>1, <1>2 DEF BatchCommit
<1>4. Handed(batch, made, Base) /\ HandedOver(batch, Base) /\ Len(batch) = Len(buffer) + 1
  BY <1>1, <1>2, <1>3, CommitHandsOver
<1>5. CASE Full(batch)
  BY <1>3, <1>4, <1>5, FlushKeeps
<1>6. CASE ~Full(batch)
  <2>1. /\ buffer' = batch /\ jsCommits' = made /\ timerArmed' = (Arms \/ timerArmed)
        /\ UNCHANGED <<flushed, mirror, downgraded, error, tally, trouble, settings>>
    BY <1>3, <1>6 DEF counters
  <2>2. /\ BatchShapes /\ TimerMatchesQueue /\ DowngradeIsEarned /\ DowngradeIsTold /\ MirrorFollows
        /\ QueueDates /\ EveryCommitLeavesOnce
    BY DEF BatchInv
  <2>3. /\ batch \in Seq(Queued) /\ batch # <<>> /\ made \in Seq(Time) /\ Base \in Time
        /\ made = (IF Armed THEN Times(batch) ELSE <<>>)
        /\ ("bypassed" \notin trouble => DatedFrom(batch, Base))
    BY <1>4 DEF Handed
  <2>4. Len(batch) < settings.afterN /\ Len(batch) \in Nat
    <3>1. ~ Len(batch) >= settings.afterN
      BY <1>6 DEF Full
    <3> QED BY <2>2, <2>3, <3>1, BatchNow
  <2>5. BatchShapes'
    <3>1. timerArmed' \in BOOLEAN
      BY <2>1
    <3> QED BY <1>3, <1>4, <2>1, <2>2, <2>3, <2>4, <3>1 DEF BatchShapes, HandedOver
  <2>6. EveryCommitLeavesOnce'
    BY <1>4, <2>1 DEF HandedOver, EveryCommitLeavesOnce, Times
  <2>7. TimerMatchesQueue'
    BY <2>1, <2>2, <2>3 DEF TimerMatchesQueue, Arms, BatchShapes, Settings
  <2>8. ComparedWithItsOwn'
    BY <2>1, <2>3 DEF ComparedWithItsOwn, Armed, Times
  <2>9. DowngradeIsEarned' /\ DowngradeIsTold'
    BY <2>1, <2>2 DEF DowngradeIsEarned, DowngradeIsTold, Vetted
  <2>10. QueueDates'
    <3>1. SUFFICES ASSUME "bypassed" \notin trouble
                   PROVE  DatedFrom(buffer', baseNow') /\ now' = baseNow' + Len(buffer')
      BY <2>1 DEF QueueDates, DatedFrom
    <3>2. DatedFrom(batch, Base)
      BY <2>3, <3>1
    <3>3. now' = Base + Len(batch)
      <4>1. now' = now + 1 /\ now \in Nat
        BY <1>3, <2>2, BatchNow DEF Tick
      <4>2. now = Base + Len(buffer)
        <5>1. CASE buffer = <<>>
          BY <4>1, <5>1, NothingQueued DEF Base
        <5>2. CASE buffer # <<>>
          BY <2>2, <3>1, <5>2 DEF Base, QueueDates
        <5> QED BY <5>1, <5>2
      <4>3. Base \in Nat /\ Len(buffer) \in Nat
        BY <2>2, <4>1, BatchNow DEF Base, BatchShapes
      <4> QED BY <1>4, <4>1, <4>2, <4>3
    <3> QED BY <1>3, <2>1, <3>2, <3>3
  <2>11. MirrorFollows'
    <3>1. SUFFICES ASSUME trouble = {}, OneAtATime
                   PROVE  /\ cells' = Overlaid(mirror.inputs, buffer') /\ mirror.now = Len(flushed)
                          /\ now' = Len(enqueued') /\ baseNow' = mirror.now
      BY <2>1 DEF MirrorFollows, OneAtATime, Overlaid
    <3>2. mirror.now = Len(flushed)
      BY <2>2, <3>1 DEF MirrorFollows
    <3> QED BY <1>3, <1>4, <2>1, <3>1, <3>2 DEF HandedOver
  <2> QED BY <2>5, <2>6, <2>7, <2>8, <2>9, <2>10, <2>11 DEF BatchInv
<1> QED BY <1>5, <1>6


LEMMA FlushNowKeeps == ASSUME BatchInv, FlushNow PROVE BatchInv'
<1>1. /\ buffer # <<>> /\ Flush(buffer, jsCommits, baseNow)
      /\ UNCHANGED <<now, settings, cells, baseNow, enqueued>>
  BY DEF FlushNow
<1>2. /\ BatchShapes /\ ComparedWithItsOwn /\ QueueDates /\ EveryCommitLeavesOnce /\ MirrorFollows
  BY DEF BatchInv
<1>3. Handed(buffer, jsCommits, baseNow)
  BY <1>1, <1>2 DEF Handed, BatchShapes, ComparedWithItsOwn, QueueDates
<1>4. HandedOver(buffer, baseNow)
  <2>1. settings.afterN = 1 => Len(buffer) = 1
    <3>1. SUFFICES ASSUME settings.afterN = 1 PROVE FALSE
      OBVIOUS
    <3>2. buffer \in Seq(Queued) /\ Len(buffer) < 1
      BY <1>2, <3>1 DEF BatchShapes
    <3> QED BY <1>1, <3>2, EmptySeq
  <2>2. /\ now' \in Time /\ cells' \in [Slot -> Json] /\ baseNow' \in Time
        /\ enqueued' \in Seq(Time) /\ enqueued' = flushed \o Times(buffer) /\ settings' = settings
    BY <1>1, <1>2 DEF BatchShapes, EveryCommitLeavesOnce
  <2>3. trouble = {} /\ OneAtATime =>
          cells' = Overlaid(mirror.inputs, buffer) /\ baseNow = Len(flushed) /\ now' = Len(enqueued')
    BY <1>1, <1>2 DEF MirrorFollows
  <2> QED BY <2>1, <2>2, <2>3 DEF HandedOver
<1> QED BY <1>1, <1>3, <1>4, FlushKeeps

LEMMA BypassKeeps ==
  ASSUME BatchInv, NEW writes \in Writes, Bypass(writes)
  PROVE  BatchInv'
<1>1. /\ Tick /\ cells' = Upon(writes, cells) /\ trouble' = trouble \cup {"bypassed"}
      /\ UNCHANGED <<settings, buffer, jsCommits, baseNow, timerArmed, enqueued, flushed, mirror,
                     downgraded, error, tally>>
  BY DEF Bypass, queue, counters
<1>2. /\ BatchShapes /\ ComparedWithItsOwn /\ EveryCommitLeavesOnce /\ TimerMatchesQueue
      /\ DowngradeIsEarned /\ DowngradeIsTold
  BY DEF BatchInv
<1>3. now' \in Time
  BY <1>1, <1>2, BatchNow, MaxTimeAssumption DEF Tick, Time
<1>4. cells' \in [Slot -> Json]
  <2>1. DOMAIN writes \subseteq Slot /\ \A i \in DOMAIN writes : writes[i] \in Json
    <3>1. DOMAIN writes \subseteq Slot /\ writes \in [DOMAIN writes -> Json]
      BY WritesAre
    <3> QED BY <3>1
  <2>2. IsUpon(cells', writes, cells)
    BY <1>1, UponIs
  <2>3. cells \in [Slot -> Json]
    BY <1>2 DEF BatchShapes
  <2> QED BY <2>1, <2>2, <2>3 DEF IsUpon
<1>5. BatchShapes'
  BY <1>1, <1>2, <1>3, <1>4 DEF BatchShapes, Troubles
<1>6. EveryCommitLeavesOnce' /\ TimerMatchesQueue' /\ ComparedWithItsOwn'
  BY <1>1, <1>2 DEF EveryCommitLeavesOnce, TimerMatchesQueue, ComparedWithItsOwn, Armed, Times
<1>7. DowngradeIsEarned' /\ DowngradeIsTold'
  BY <1>1, <1>2 DEF DowngradeIsEarned, DowngradeIsTold, Vetted
<1>8. QueueDates' /\ MirrorFollows'
  BY <1>1 DEF QueueDates, MirrorFollows
<1> QED BY <1>5, <1>6, <1>7, <1>8 DEF BatchInv

LEMMA DisposeSlotKeeps ==
  ASSUME BatchInv, NEW i \in Slot, DisposeSlot(i)
  PROVE  BatchInv' /\ \A j \in DOMAIN mirror'.inputs : mirror'.inputs[j] = mirror.inputs[j]
<1>1. /\ trouble' = trouble \cup {"disposed"}
      /\ UNCHANGED <<now, settings, cells, buffer, jsCommits, baseNow, timerArmed, enqueued, flushed,
                     downgraded, error, tally>>
  BY DEF DisposeSlot, queue, counters
<1>2. /\ BatchShapes /\ ComparedWithItsOwn /\ EveryCommitLeavesOnce /\ TimerMatchesQueue
      /\ DowngradeIsEarned /\ DowngradeIsTold /\ QueueDates
  BY DEF BatchInv
<1>3. /\ mirror' \in Mirrors /\ (Vetted(mirror) => Vetted(mirror'))
      /\ \A j \in DOMAIN mirror'.inputs : mirror'.inputs[j] = mirror.inputs[j]
  <2>1. PICK f \in InputMaps : f = mirror.inputs
    BY <1>2, BatchNow
  <2>2. PICK g : g = [j \in DOMAIN f \ {i} |-> f[j]]
    OBVIOUS
  <2>3. DOMAIN f \subseteq Slot /\ \A j \in DOMAIN f : f[j] \in Json \cup {Wrong}
    BY InputMapIs
  <2>4. g \in InputMaps
    <3>1. g \in InputMaps <=> /\ DOMAIN g \subseteq Slot /\ g = [j \in DOMAIN g |-> g[j]]
                              /\ \A j \in DOMAIN g : g[j] \in Json \cup {Wrong}
      BY InputMapIs
    <3> QED BY <2>2, <2>3, <3>1
  <2>5. mirror = [inputs |-> f, now |-> mirror.now] /\ mirror.now \in Nat
    BY <1>2, <2>1, BatchNow
  <2>6. mirror' = [inputs |-> g, now |-> mirror.now]
    BY <2>1, <2>2, <2>5 DEF DisposeSlot
  <2>7. mirror' \in Mirrors /\ mirror'.inputs = g
    BY <2>4, <2>5, <2>6 DEF Mirrors
  <2>8. Vetted(mirror) => Vetted(mirror')
    BY <2>1, <2>2, <2>7 DEF Vetted
  <2>9. \A j \in DOMAIN mirror'.inputs : mirror'.inputs[j] = mirror.inputs[j]
    BY <2>1, <2>2, <2>7
  <2> QED BY <2>7, <2>8, <2>9
<1>4. BatchShapes'
  BY <1>1, <1>2, <1>3 DEF BatchShapes, Troubles
<1>5. EveryCommitLeavesOnce' /\ TimerMatchesQueue' /\ ComparedWithItsOwn'
  BY <1>1, <1>2 DEF EveryCommitLeavesOnce, TimerMatchesQueue, ComparedWithItsOwn, Armed, Times
<1>6. DowngradeIsEarned' /\ QueueDates' /\ MirrorFollows'
  BY <1>1, <1>2 DEF DowngradeIsEarned, QueueDates, DatedFrom, MirrorFollows
<1>7. DowngradeIsTold'
  BY <1>1, <1>2, <1>3 DEF DowngradeIsTold, Vetted
<1> QED BY <1>3, <1>4, <1>5, <1>6, <1>7 DEF BatchInv

LEMMA BatchStepKeeps == ASSUME BatchInv, [BatchNext]_batchVars PROVE BatchInv'
<1>1. CASE \E writes \in Writes : BatchCommit(writes)
  BY <1>1, BatchCommitKeeps
<1>2. CASE \E writes \in Writes : Bypass(writes)
  BY <1>2, BypassKeeps
<1>3. CASE FlushNow \/ TimerFires
  BY <1>3, FlushNowKeeps DEF TimerFires
<1>4. CASE \E i \in Slot : DisposeSlot(i)
  BY <1>4, DisposeSlotKeeps
<1>5. CASE UNCHANGED batchVars
  <2>1. UNCHANGED <<now, settings, cells, buffer, jsCommits, baseNow, mirror, timerArmed, downgraded,
                    error, tally, enqueued, flushed, trouble>>
    BY <1>5 DEF batchVars, queue, counters
  <2>2. BatchShapes' /\ TimerMatchesQueue' /\ DowngradeIsEarned' /\ DowngradeIsTold'
    BY <2>1 DEF BatchInv, BatchShapes, TimerMatchesQueue, DowngradeIsEarned, DowngradeIsTold, Vetted
  <2>3. EveryCommitLeavesOnce' /\ ComparedWithItsOwn'
    BY <2>1 DEF BatchInv, EveryCommitLeavesOnce, ComparedWithItsOwn, Armed, Times
  <2>4. QueueDates'
    BY <2>1 DEF BatchInv, QueueDates, DatedFrom
  <2>5. MirrorFollows'
    BY <2>1 DEF BatchInv, MirrorFollows, OneAtATime, Overlaid
  <2> QED BY <2>2, <2>3, <2>4, <2>5 DEF BatchInv
<1> QED BY <1>1, <1>2, <1>3, <1>4, <1>5 DEF BatchNext

LEMMA MirrorCatchesUp == ASSUME BatchInv PROVE MirrorIsCurrent
<1>1. SUFFICES ASSUME buffer = <<>>, trouble = {}, OneAtATime
               PROVE  mirror.inputs = cells /\ mirror.now = Len(enqueued)
  BY DEF MirrorIsCurrent, OneAtATime
<1>2. BatchShapes /\ EveryCommitLeavesOnce /\ MirrorFollows
  BY DEF BatchInv
<1>3. cells = Overlaid(mirror.inputs, <<>>) /\ mirror.now = Len(flushed)
  BY <1>1, <1>2 DEF MirrorFollows
<1>4. mirror.inputs = cells
  <2>1. PICK f \in InputMaps : f = mirror.inputs
    BY <1>2, BatchNow
  <2>2. Overlaid(f, <<>>) = f
    BY OverlaidNothing
  <2> QED BY <1>3, <2>1, <2>2
<1>5. enqueued = flushed
  <2>1. PICK f \in Seq(Time) : f = flushed
    BY <1>2 DEF BatchShapes
  <2>2. f \o <<>> = f
    OBVIOUS
  <2> QED BY <1>1, <1>2, <2>1, <2>2, NothingQueued DEF EveryCommitLeavesOnce
<1> QED BY <1>3, <1>4, <1>5

\* The queue before the engine loses no commit, ships each once and in order,
\* and keeps the commits to compare and the timer that belong to it; the mirror
\* lags by what is queued; a downgrade has a reason, and an engine that was caught
\* leaves nothing behind.
THEOREM QueueIsSound == BatchSpec => []BatchSound
<1>1. BatchInv => CaughtLeavesNothing
  BY DEF BatchInv, DowngradeIsTold, Vetted, CaughtLeavesNothing
<1>2. BatchInv => BatchSound
  BY <1>1, MirrorCatchesUp DEF BatchInv, BatchSound
<1> QED BY <1>2, BatchInitHolds, BatchStepKeeps, PTL DEF BatchSpec

\* What leaves the queue dated one after the other was committed in a row.
LEMMA RowLeaves ==
  ASSUME NEW gone \in Seq(Time), NEW batch \in Seq(Queued), NEW from \in Nat, DatedFrom(batch, from)
  PROVE  CommittedInARow(gone \o Times(batch), gone)
<1>1. PICK t \in Seq(Time) : t = Times(batch)
  BY TimesAre
<1>2. Len(t) = Len(batch) /\ \A k \in 1 .. Len(t) : t[k] = from + k
  BY <1>1, TimesAre, BatchIs DEF DatedFrom
<1>3. /\ Len(gone \o t) = Len(gone) + Len(t)
      /\ \A k \in Len(gone) + 1 .. Len(gone) + Len(t) : (gone \o t)[k] = t[k - Len(gone)]
  OBVIOUS
<1>4. ASSUME NEW k \in Len(gone) + 1 .. Len(gone \o t) - 1
      PROVE  (gone \o t)[k + 1] = (gone \o t)[k] + 1
  <2>1. PICK n \in Nat, m \in Nat : n = Len(gone) /\ m = Len(t)
    OBVIOUS
  <2>2. k \in n + 1 .. n + m - 1
    BY <1>3, <1>4, <2>1
  <2>3. PICK j \in 1 .. m : j = k - n /\ j + 1 \in 1 .. m /\ j + 1 = k + 1 - n
    BY <2>2
  <2>4. k \in n + 1 .. n + m /\ k + 1 \in n + 1 .. n + m
    BY <2>2
  <2>5. (gone \o t)[k] = t[j] /\ (gone \o t)[k + 1] = t[j + 1]
    BY <1>3, <2>1, <2>3, <2>4
  <2>6. t[j] = from + j /\ t[j + 1] = from + (j + 1) /\ j \in Nat
    BY <1>2, <2>1, <2>3
  <2> QED BY <2>5, <2>6
<1> QED BY <1>1, <1>4 DEF CommittedInARow

StaysDown == downgraded => downgraded' /\ error' # "none" /\ tally' = tally
Believes  ==
  Armed /\ settings.batches /\ error' # "threw"
    => \/ tally'.promoted = tally.promoted + 1 /\ CommittedInARow(flushed', flushed)
       \/ \A i \in DOMAIN mirror'.inputs : mirror'.inputs[i] = mirror.inputs[i]

LEMMA FlushBelieves ==
  ASSUME BatchShapes, DowngradeIsTold, NEW batch, NEW made, NEW from,
         Handed(batch, made, from), Flush(batch, made, from)
  PROVE  StaysDown /\ Believes
<1>1. FlushLeaves(batch, from)
  BY FlushDoes
<1>2. batch \in Seq(Queued) /\ from \in Nat /\ flushed \in Seq(Time) /\ flushed' = flushed \o Times(batch)
  BY MaxTimeAssumption DEF Handed, BatchShapes, Flush, Drained, Time
<1>3. DatedFrom(batch, from) => CommittedInARow(flushed', flushed)
  BY <1>2, RowLeaves
<1> QED BY <1>1, <1>3 DEF FlushLeaves, StaysDown, Believes

\* What a step does once the engine is downgraded, and before.
LEMMA DowngradeHolds ==
  ASSUME BatchInv, [BatchNext]_batchVars
  PROVE  StaysDown /\ Believes
<1>0. BatchShapes /\ DowngradeIsTold /\ ComparedWithItsOwn /\ QueueDates
  BY DEF BatchInv
<1>1. ASSUME UNCHANGED <<downgraded, error, tally>>,
             \A i \in DOMAIN mirror'.inputs : mirror'.inputs[i] = mirror.inputs[i]
      PROVE  StaysDown /\ Believes
  BY <1>0, <1>1 DEF DowngradeIsTold, StaysDown, Believes
<1>2. CASE \E writes \in Writes : BatchCommit(writes)
  <2>1. PICK writes \in Writes : BatchCommit(writes)
    BY <1>2
  <2>2. PICK batch : batch = Append(buffer, [time |-> now + 1, writes |-> writes])
    OBVIOUS
  <2>3. PICK made : made = Comparable(now + 1)
    OBVIOUS
  <2>4. /\ Tick /\ cells' = Upon(writes, cells) /\ enqueued' = Append(enqueued, now + 1)
        /\ baseNow' = Base /\ UNCHANGED settings
        /\ IF Full(batch) THEN Flush(batch, made, Base)
           ELSE UNCHANGED <<mirror, downgraded, error, tally>>
    BY <2>1, <2>2, <2>3 DEF BatchCommit, counters
  <2>5. CASE Full(batch)
    <3>1. Handed(batch, made, Base)
      BY <2>2, <2>3, <2>4, CommitHandsOver
    <3> QED BY <1>0, <2>4, <2>5, <3>1, FlushBelieves
  <2>6. CASE ~Full(batch)
    BY <1>1, <2>4, <2>6
  <2> QED BY <2>5, <2>6
<1>3. CASE FlushNow \/ TimerFires
  <2>1. FlushNow
    BY <1>3 DEF TimerFires
  <2>2. Handed(buffer, jsCommits, baseNow)
    BY <1>0, <2>1 DEF FlushNow, Handed, BatchShapes, ComparedWithItsOwn, QueueDates
  <2> QED BY <1>0, <2>1, <2>2, FlushBelieves DEF FlushNow
<1>4. CASE \E i \in Slot : DisposeSlot(i)
  <2>1. PICK i \in Slot : DisposeSlot(i)
    BY <1>4
  <2>2. UNCHANGED <<downgraded, error, tally>>
    BY <2>1 DEF DisposeSlot, counters
  <2> QED BY <1>1, <2>1, <2>2, DisposeSlotKeeps
<1>5. CASE \E writes \in Writes : Bypass(writes)
  BY <1>1, <1>5 DEF Bypass, counters
<1>6. CASE UNCHANGED batchVars
  BY <1>1, <1>6 DEF batchVars, counters
<1> QED BY <1>2, <1>3, <1>4, <1>5, <1>6 DEF BatchNext

\* Once the engine has disagreed it is not compared again and the error stays to
\* be seen.  Before that, an answer that did not throw is kept only if its commits
\* were found equal, and then those the JS graph made are in a row; of the values
\* that came with equal commits nothing is said.
THEOREM DowngradesAreSound == BatchSpec => DowngradeIsSound
<1>1. BatchInv /\ [BatchNext]_batchVars => [StaysDown]_batchVars
  BY DowngradeHolds
<1>2. BatchInv /\ [BatchNext]_batchVars => [Believes]_batchVars
  BY DowngradeHolds
<1> QED BY <1>1, <1>2, BatchInitHolds, BatchStepKeeps, PTL
        DEF BatchSpec, DowngradeIsSound, DowngradeIsSticky, BelievedWhenCompared, StaysDown, Believes

-----------------------------------------------------------------------------
(* Families: the nodes a page has per key, and the components on them.     *)

\* A component that was rendered for a key, or has arrived on an entry of it.
OnPage(n) == [stage : {"rendered", "mounted"}, key : Key, entry : 0 .. n]

FamilyShapes ==
  /\ entries \in Seq(FamilyEntry)
  /\ families \in [Key -> 0 .. Len(entries)]
  /\ alive \subseteq Key /\ orphans \subseteq Key /\ overtaken \subseteq Mount
  /\ mounts \in [Mount -> {Out} \cup OnPage(Len(entries))]
  /\ tasks \in Seq(1 .. Len(entries))

MountedOn(e) == {c \in Mount : mounts[c].stage = "mounted" /\ mounts[c].entry = e}

\* The map has the entry of the key; a node the graph would not give up is in it
\* no more.
MapIsTrue ==
  /\ \A k \in Key : families[k] # 0 => entries[families[k]].key = k
  /\ \A k \in orphans : families[k] = 0
  /\ alive = {k \in Key : families[k] # 0} \cup orphans

\* Whoever is mounted on an entry keeps it in the map; who has none, or waits for
\* one that is not there, was overtaken.
EntryIsKept ==
  \A c \in Mount :
    /\ mounts[c].stage = "mounted" /\ mounts[c].entry # 0 => families[mounts[c].key] = mounts[c].entry
    /\ mounts[c].stage = "mounted" /\ mounts[c].entry = 0 => c \in overtaken
    /\ mounts[c].stage = "rendered" /\ families[mounts[c].key] = 0 => c \in overtaken

\* An entry that was counted on and is no more has a task to look after it.
UnusedHasTask ==
  \A e \in 1 .. Len(entries) :
    entries[e].counted /\ entries[e].refcount = 0 /\ families[entries[e].key] = e
      => \E n \in 1 .. Len(tasks) : tasks[n] = e

FamilyInv == FamilyShapes /\ CountsAreTrue /\ MapIsTrue /\ EntryIsKept /\ UnusedHasTask

-----------------------------------------------------------------------------

LEMMA FamilyInitHolds == ASSUME FamilyInit PROVE FamilyInv
<1>1. /\ entries = <<>> /\ families = [k \in Key |-> 0] /\ alive = {}
      /\ mounts = [c \in Mount |-> Out] /\ tasks = <<>> /\ orphans = {} /\ overtaken = {}
  BY DEF FamilyInit
<1>2. entries \in Seq(FamilyEntry) /\ Len(entries) = 0 /\ tasks \in Seq(1 .. 0) /\ Len(tasks) = 0
  BY <1>1, EmptySeq
<1>3. FamilyShapes
  BY <1>1, <1>2 DEF FamilyShapes
<1>4. \A c \in Mount : mounts[c].stage = "out"
  BY <1>1 DEF Out
<1>5. CountsAreTrue
  BY <1>1 DEF CountsAreTrue
<1> QED BY <1>1, <1>2, <1>3, <1>4, <1>5 DEF FamilyInv, MapIsTrue, EntryIsKept, UnusedHasTask

\* The shape of a component.
LEMMA MountIs ==
  ASSUME FamilyShapes, NEW c \in Mount
  PROVE  /\ mounts[c].stage \in {"out", "rendered", "mounted"}
         /\ mounts[c].stage = "out" <=> mounts[c] = Out
         /\ mounts[c].stage # "out" => /\ mounts[c].key \in Key /\ mounts[c].entry \in 0 .. Len(entries)
                                       /\ mounts[c] \in OnPage(Len(entries))
BY DEF FamilyShapes, OnPage, Out

\* One more on an entry, and one less.
LEMMA CountedIs ==
  ASSUME NEW all \in Seq(FamilyEntry), NEW e \in 1 .. Len(all)
  PROVE  /\ Counted(all, e) \in Seq(FamilyEntry) /\ Len(Counted(all, e)) = Len(all)
         /\ Counted(all, e)[e] = [key |-> all[e].key, counted |-> TRUE, refcount |-> all[e].refcount + 1]
         /\ \A f \in 1 .. Len(all) : f # e => Counted(all, e)[f] = all[f]
<1>1. PICK r \in FamilyEntry : r = [key |-> all[e].key, counted |-> TRUE, refcount |-> all[e].refcount + 1]
  <2>1. all[e] \in FamilyEntry
    OBVIOUS
  <2>2. [key |-> all[e].key, counted |-> TRUE, refcount |-> all[e].refcount + 1] \in FamilyEntry
    BY <2>1 DEF FamilyEntry
  <2> QED BY <2>2
<1>2. Counted(all, e) = [all EXCEPT ![e] = r]
  BY <1>1 DEF Counted
<1>3. [all EXCEPT ![e] = r] \in Seq(FamilyEntry) /\ Len([all EXCEPT ![e] = r]) = Len(all)
  BY ExceptSeq
<1> QED BY <1>1, <1>2, <1>3

LEMMA DiscountedIs ==
  ASSUME NEW all \in Seq(FamilyEntry), NEW e \in 1 .. Len(all)
  PROVE  /\ Discounted(all, e) \in Seq(FamilyEntry) /\ Len(Discounted(all, e)) = Len(all)
         /\ Discounted(all, e)[e].key = all[e].key /\ Discounted(all, e)[e].refcount = all[e].refcount - 1
         /\ Discounted(all, e)[e].counted = all[e].counted
         /\ \A f \in 1 .. Len(all) : f # e => Discounted(all, e)[f] = all[f]
<1>1. all[e] \in FamilyEntry
  OBVIOUS
<1>2. PICK r \in FamilyEntry : r = [all[e] EXCEPT !.refcount = all[e].refcount - 1]
  <2>1. PICK x \in Int : x = all[e].refcount - 1
    BY <1>1 DEF FamilyEntry
  <2>2. [all[e] EXCEPT !.refcount = x] \in FamilyEntry
    BY <1>1 DEF FamilyEntry
  <2> QED BY <2>1, <2>2
<1>3. r.key = all[e].key /\ r.refcount = all[e].refcount - 1 /\ r.counted = all[e].counted
  BY <1>1, <1>2 DEF FamilyEntry
<1>4. Discounted(all, e) = [all EXCEPT ![e] = r]
  BY <1>2 DEF Discounted
<1>5. [all EXCEPT ![e] = r] \in Seq(FamilyEntry) /\ Len([all EXCEPT ![e] = r]) = Len(all)
  BY ExceptSeq
<1> QED BY <1>3, <1>4, <1>5

LEMMA TaskForIs ==
  ASSUME FamilyShapes, NEW all, NEW e \in 1 .. Len(entries)
  PROVE  /\ TaskFor(all, e) \in Seq(1 .. Len(entries))
         /\ \A n \in 1 .. Len(tasks) : n \in 1 .. Len(TaskFor(all, e)) /\ TaskFor(all, e)[n] = tasks[n]
         /\ all[e].refcount <= 0 => \E n \in 1 .. Len(TaskFor(all, e)) : TaskFor(all, e)[n] = e
<1>1. PICK t \in Seq(1 .. Len(entries)) : t = tasks
  BY DEF FamilyShapes
<1>2. /\ Append(t, e) \in Seq(1 .. Len(entries)) /\ Len(Append(t, e)) = Len(t) + 1
      /\ \A n \in 1 .. Len(t) : Append(t, e)[n] = t[n]
      /\ Append(t, e)[Len(t) + 1] = e
  BY AppendProperties
<1>3. \A n \in 1 .. Len(t) : n \in 1 .. Len(t) + 1
  OBVIOUS
<1>4. Len(t) + 1 \in 1 .. Len(t) + 1
  OBVIOUS
<1>5. CASE all[e].refcount <= 0
  BY <1>1, <1>2, <1>3, <1>4, <1>5 DEF TaskFor
<1>6. CASE ~ all[e].refcount <= 0
  BY <1>1, <1>6 DEF TaskFor
<1> QED BY <1>5, <1>6


LEMMA FirstTask ==
  ASSUME NEW m \in Nat, NEW t \in Seq(1 .. m), t # <<>>
  PROVE  /\ Head(t) \in 1 .. m /\ Tail(t) \in Seq(1 .. m) /\ Len(Tail(t)) = Len(t) - 1
         /\ \A n \in 1 .. Len(t) : t[n] # Head(t) => \E j \in 1 .. Len(Tail(t)) : Tail(t)[j] = t[n]
<1>1. Len(t) \in Nat /\ Len(t) >= 1 /\ Head(t) = t[1]
  BY EmptySeq
<1>2. /\ Head(t) \in 1 .. m /\ Tail(t) \in Seq(1 .. m) /\ Len(Tail(t)) = Len(t) - 1
      /\ \A j \in 1 .. Len(t) - 1 : Tail(t)[j] = t[j + 1]
  BY HeadTailProperties
<1>3. ASSUME NEW n \in 1 .. Len(t), t[n] # Head(t)
      PROVE  \E j \in 1 .. Len(Tail(t)) : Tail(t)[j] = t[n]
  <2>1. n - 1 \in 1 .. Len(t) - 1 /\ (n - 1) + 1 = n
    BY <1>1, <1>3
  <2>2. Tail(t)[n - 1] = t[n]
    BY <1>2, <2>1
  <2> QED BY <1>2, <2>1, <2>2
<1> QED BY <1>2, <1>3

LEMMA MountedOnFinite == \A e : IsFiniteSet(MountedOn(e)) /\ Cardinality(MountedOn(e)) \in Nat
<1>1. ASSUME NEW e PROVE IsFiniteSet(MountedOn(e)) /\ Cardinality(MountedOn(e)) \in Nat
  <2>1. MountedOn(e) \subseteq Mount
    BY DEF MountedOn
  <2> QED BY <2>1, MountAssumption, FS_Subset, FS_CardinalityType
<1> QED BY <1>1

LEMMA RenderFamilyKeeps ==
  ASSUME FamilyInv, NEW c \in Mount, NEW k \in Key, Render(c, k)
  PROVE  FamilyInv'
<1>0. FamilyShapes /\ CountsAreTrue /\ MapIsTrue /\ EntryIsKept /\ UnusedHasTask
  BY DEF FamilyInv
<1>1. /\ mounts[c] = Out /\ overtaken' = overtaken \ {c} /\ UNCHANGED <<tasks, orphans>>
      /\ mounts' = [mounts EXCEPT ![c] = [stage |-> "rendered", key |-> k, entry |-> 0]]
  BY DEF Render
<1>2. PICK m \in Nat : m = Len(entries)
  BY <1>0 DEF FamilyShapes
<1>3. /\ \A d \in Mount : mounts'[d] = IF d = c THEN [stage |-> "rendered", key |-> k, entry |-> 0] ELSE mounts[d]
      /\ mounts' \in [Mount -> {Out} \cup OnPage(m)]
  <2>1. [stage |-> "rendered", key |-> k, entry |-> 0] \in OnPage(m)
    BY DEF OnPage
  <2>2. mounts \in [Mount -> {Out} \cup OnPage(m)]
    BY <1>0, <1>2 DEF FamilyShapes
  <2> QED BY <1>1, <2>1, <2>2
<1>4. \A e : MountedOn(e)' = MountedOn(e)
  BY <1>1, <1>3 DEF MountedOn, Out
<1>5. CASE families[k] # 0 /\ UNCHANGED <<entries, families, alive>>
  <2>1. FamilyShapes'
    BY <1>0, <1>1, <1>2, <1>3, <1>5 DEF FamilyShapes
  <2>2. CountsAreTrue'
    BY <1>0, <1>4, <1>5 DEF CountsAreTrue, MountedOn
  <2>3. MapIsTrue' /\ UnusedHasTask'
    BY <1>0, <1>1, <1>5 DEF MapIsTrue, UnusedHasTask
  <2>4. EntryIsKept'
    BY <1>0, <1>1, <1>3, <1>5 DEF EntryIsKept
  <2> QED BY <2>1, <2>2, <2>3, <2>4 DEF FamilyInv
<1>6. CASE /\ families[k] = 0 /\ FactoryReturns(k)
           /\ entries' = Append(entries, [key |-> k, refcount |-> 0, counted |-> FALSE])
           /\ families' = [families EXCEPT ![k] = Len(entries')]
           /\ alive' = alive \cup {k}
  <2>1. PICK r \in FamilyEntry : r = [key |-> k, refcount |-> 0, counted |-> FALSE]
    <3>1. [key |-> k, refcount |-> 0, counted |-> FALSE] \in FamilyEntry
      BY DEF FamilyEntry
    <3> QED BY <3>1
  <2>2. /\ entries' \in Seq(FamilyEntry) /\ Len(entries') = m + 1 /\ entries'[m + 1] = r
        /\ \A e \in 1 .. m : entries'[e] = entries[e]
    <3>1. PICK all \in Seq(FamilyEntry) : all = entries
      BY <1>0 DEF FamilyShapes
    <3>2. /\ Append(all, r) \in Seq(FamilyEntry) /\ Len(Append(all, r)) = Len(all) + 1
          /\ Append(all, r)[Len(all) + 1] = r
          /\ \A e \in 1 .. Len(all) : Append(all, r)[e] = all[e]
      BY AppendProperties
    <3> QED BY <1>2, <1>6, <2>1, <3>1, <3>2
  <2>3. /\ families \in [Key -> 0 .. m] /\ families' = [families EXCEPT ![k] = m + 1]
        /\ \A j \in Key : families'[j] = IF j = k THEN m + 1 ELSE families[j]
    BY <1>0, <1>2, <1>6, <2>2 DEF FamilyShapes
  <2>4. \A x : x \in 0 .. m => x \in 0 .. m + 1 /\ x # m + 1
    OBVIOUS
  <2>5. /\ m + 1 \in 0 .. m + 1 /\ m + 1 # 0
        /\ \A e \in 1 .. m + 1 : e \in 1 .. m \/ e = m + 1
        /\ \A e \in 1 .. m : e \in 1 .. m + 1 /\ e # m + 1
    OBVIOUS
  <2>6. k \notin alive
    BY <1>6 DEF FactoryReturns
  <2>7. \A d \in Mount : mounts[d].stage # "out" => mounts[d].entry \in 0 .. m /\ mounts[d].key \in Key
    BY <1>0, <1>2, MountIs
  <2>8. MountedOn(m + 1) = {}
    BY <2>4, <2>7 DEF MountedOn
  <2>9. FamilyShapes'
    <3>1. families' \in [Key -> 0 .. m + 1]
      BY <2>3, <2>4, <2>5
    <3>2. mounts' \in [Mount -> {Out} \cup OnPage(m + 1)]
      <4>1. OnPage(m) \subseteq OnPage(m + 1)
        BY <2>4 DEF OnPage
      <4> QED BY <1>3, <4>1
    <3>3. tasks' \in Seq(1 .. m + 1)
      <4>1. tasks \in Seq(1 .. m)
        BY <1>0, <1>2 DEF FamilyShapes
      <4> QED BY <1>1, <2>5, <4>1
    <3> QED BY <1>0, <1>1, <1>6, <2>2, <3>1, <3>2, <3>3 DEF FamilyShapes
  <2>10. CountsAreTrue'
    <3>1. SUFFICES ASSUME NEW e \in 1 .. m + 1 PROVE entries'[e].refcount = Cardinality(MountedOn(e)')
      <4>1. DOMAIN entries' = 1 .. m + 1
        BY <2>2
      <4> QED BY <4>1 DEF CountsAreTrue, MountedOn
    <3>2. CASE e = m + 1
      <4>1. MountedOn(m + 1)' = {}
        BY <1>4, <2>8
      <4>2. entries'[e].refcount = 0
        BY <2>1, <2>2, <3>2
      <4> QED BY <3>2, <4>1, <4>2, FS_EmptySet
    <3>3. CASE e \in 1 .. m
      <4>1. e \in DOMAIN entries
        BY <1>0, <1>2, <3>3 DEF FamilyShapes
      <4> QED BY <1>0, <1>4, <2>2, <3>3, <4>1 DEF CountsAreTrue, MountedOn
    <3> QED BY <2>5, <3>2, <3>3
  <2>11. MapIsTrue'
    <3>1. \A j \in Key : families'[j] # 0 => entries'[families'[j]].key = j
      <4>1. SUFFICES ASSUME NEW j \in Key, families'[j] # 0 PROVE entries'[families'[j]].key = j
        OBVIOUS
      <4>2. CASE j = k
        BY <2>1, <2>2, <2>3, <4>2
      <4>3. CASE j # k
        <5>1. families'[j] = families[j] /\ families[j] \in 1 .. m
          BY <2>3, <4>1, <4>3
        <5> QED BY <1>0, <2>2, <4>1, <5>1 DEF MapIsTrue
      <4> QED BY <4>2, <4>3
    <3>2. \A j \in orphans' : families'[j] = 0
      BY <1>0, <1>1, <2>3, <2>6 DEF MapIsTrue, FamilyShapes
    <3>3. alive' = {j \in Key : families'[j] # 0} \cup orphans'
      BY <1>0, <1>1, <1>6, <2>3, <2>5 DEF MapIsTrue
    <3> QED BY <3>1, <3>2, <3>3 DEF MapIsTrue
  <2>12. EntryIsKept'
    <3>1. SUFFICES ASSUME NEW d \in Mount
                   PROVE  /\ mounts'[d].stage = "mounted" /\ mounts'[d].entry # 0
                                => families'[mounts'[d].key] = mounts'[d].entry
                          /\ mounts'[d].stage = "mounted" /\ mounts'[d].entry = 0 => d \in overtaken'
                          /\ mounts'[d].stage = "rendered" /\ families'[mounts'[d].key] = 0 => d \in overtaken'
      BY DEF EntryIsKept
    <3>2. CASE d = c
      BY <1>3, <2>3, <2>5, <3>2
    <3>3. CASE d # c
      <4>1. mounts'[d] = mounts[d] /\ (d \in overtaken' <=> d \in overtaken)
        BY <1>1, <1>3, <3>3
      <4>2. /\ mounts[d].stage = "mounted" /\ mounts[d].entry # 0 => families[mounts[d].key] = mounts[d].entry
            /\ mounts[d].stage = "mounted" /\ mounts[d].entry = 0 => d \in overtaken
            /\ mounts[d].stage = "rendered" /\ families[mounts[d].key] = 0 => d \in overtaken
        BY <1>0 DEF EntryIsKept
      <4>3. mounts[d].stage # "out" => mounts[d].key \in Key
        BY <2>7
      <4>4. mounts[d].key = k => families[mounts[d].key] = 0
        BY <1>6
      <4> QED BY <2>3, <2>5, <4>1, <4>2, <4>3, <4>4
    <3> QED BY <3>2, <3>3
  <2>13. UnusedHasTask'
    <3>1. SUFFICES ASSUME NEW e \in 1 .. m + 1, entries'[e].counted, entries'[e].refcount = 0,
                          families'[entries'[e].key] = e
                   PROVE  \E n \in 1 .. Len(tasks) : tasks[n] = e
      BY <1>1, <2>2 DEF UnusedHasTask
    <3>2. e \in 1 .. m /\ entries'[e] = entries[e]
      BY <2>1, <2>2, <2>5, <3>1
    <3>3. families[entries[e].key] = e
      <4>1. entries[e].key \in Key
        <5>1. entries[e] \in FamilyEntry
          BY <1>0, <1>2, <3>2 DEF FamilyShapes
        <5> QED BY <5>1 DEF FamilyEntry
      <4>2. families'[entries[e].key] = e /\ e # m + 1
        BY <2>5, <3>1, <3>2
      <4> QED BY <2>3, <4>1, <4>2
    <3> QED BY <1>0, <1>2, <3>1, <3>2, <3>3 DEF UnusedHasTask
  <2> QED BY <2>9, <2>10, <2>11, <2>12, <2>13 DEF FamilyInv
<1> QED BY <1>5, <1>6 DEF Render

LEMMA AbandonKeeps == ASSUME FamilyInv, NEW c \in Mount, Abandon(c) PROVE FamilyInv'
<1>0. FamilyShapes /\ CountsAreTrue /\ MapIsTrue /\ EntryIsKept /\ UnusedHasTask
  BY DEF FamilyInv
<1>1. /\ mounts[c].stage = "rendered" /\ mounts' = [mounts EXCEPT ![c] = Out]
      /\ UNCHANGED <<entries, families, alive, tasks, orphans, overtaken>>
  BY DEF Abandon
<1>2. \A d \in Mount : mounts'[d] = IF d = c THEN Out ELSE mounts[d]
  BY <1>0, <1>1 DEF FamilyShapes
<1>3. \A e : MountedOn(e)' = MountedOn(e)
  BY <1>1, <1>2 DEF MountedOn, Out
<1>4. FamilyShapes'
  BY <1>0, <1>1 DEF FamilyShapes
<1>5. CountsAreTrue'
  BY <1>0, <1>1, <1>3 DEF CountsAreTrue, MountedOn
<1>6. MapIsTrue' /\ UnusedHasTask'
  BY <1>0, <1>1 DEF MapIsTrue, UnusedHasTask
<1>7. EntryIsKept'
  BY <1>0, <1>1, <1>2 DEF EntryIsKept, Out
<1> QED BY <1>4, <1>5, <1>6, <1>7 DEF FamilyInv


\* The component c takes entry e and leaves it; the counts follow.
LEMMA CountsUp ==
  ASSUME FamilyInv, NEW c \in Mount, NEW e \in 0 .. Len(entries), mounts[c].stage # "mounted",
         \A d \in Mount : d # c => mounts'[d] = mounts[d],
         mounts'[c].stage = "mounted", mounts'[c].entry = e
  PROVE  /\ Cardinality(MountedOn(e)') = Cardinality(MountedOn(e)) + 1
         /\ \A f : f # e => MountedOn(f)' = MountedOn(f)
<1>1. MountedOn(e)' = MountedOn(e) \cup {c} /\ c \notin MountedOn(e)
  BY DEF MountedOn
<1>2. \A f : f # e => MountedOn(f)' = MountedOn(f)
  BY DEF MountedOn
<1>3. PICK S : S = MountedOn(e) /\ IsFiniteSet(S)
  BY MountedOnFinite
<1>4. Cardinality(S \cup {c}) = Cardinality(S) + 1
  BY <1>1, <1>3, FS_AddElement
<1> QED BY <1>1, <1>2, <1>3, <1>4

LEMMA CountsDown ==
  ASSUME FamilyInv, NEW c \in Mount, NEW e, mounts[c].stage = "mounted", mounts[c].entry = e,
         \A d \in Mount : d # c => mounts'[d] = mounts[d], mounts'[c] = Out
  PROVE  /\ Cardinality(MountedOn(e)') = Cardinality(MountedOn(e)) - 1
         /\ \A f : f # e => MountedOn(f)' = MountedOn(f)
<1>1. MountedOn(e)' = MountedOn(e) \ {c} /\ c \in MountedOn(e)
  BY DEF MountedOn, Out
<1>2. \A f : f # e => MountedOn(f)' = MountedOn(f)
  BY DEF MountedOn, Out
<1>3. PICK S : S = MountedOn(e) /\ IsFiniteSet(S)
  BY MountedOnFinite
<1>4. Cardinality(S \ {c}) = Cardinality(S) - 1
  BY <1>1, <1>3, FS_RemoveElement
<1> QED BY <1>1, <1>2, <1>3, <1>4

LEMMA EffectKeeps ==
  ASSUME FamilyInv, NEW c \in Mount, NEW strict \in BOOLEAN, Effect(c, strict)
  PROVE  FamilyInv'
<1>0. FamilyShapes /\ CountsAreTrue /\ MapIsTrue /\ EntryIsKept /\ UnusedHasTask
  BY DEF FamilyInv
<1>1. PICK e : e = families[mounts[c].key]
  OBVIOUS
<1>2. PICK k : k = mounts[c].key
  OBVIOUS
<1>3. /\ mounts[c].stage = "rendered"
      /\ mounts' = [mounts EXCEPT ![c] = [stage |-> "mounted", entry |-> e, key |-> k]]
      /\ entries' = Counted(entries, e)
      /\ tasks' = IF strict /\ e # 0 THEN TaskFor(Discounted(entries', e), e) ELSE tasks
      /\ UNCHANGED <<families, alive, orphans, overtaken>>
  BY <1>1, <1>2 DEF Effect
<1>4. PICK m \in Nat : m = Len(entries) /\ entries \in Seq(FamilyEntry) /\ DOMAIN entries = 1 .. m
  BY <1>0 DEF FamilyShapes
<1>5. k \in Key /\ e \in 0 .. m
  BY <1>0, <1>1, <1>2, <1>3, <1>4, MountIs DEF FamilyShapes
<1>6. /\ \A d \in Mount : mounts'[d] = IF d = c THEN [stage |-> "mounted", entry |-> e, key |-> k] ELSE mounts[d]
      /\ mounts' \in [Mount -> {Out} \cup OnPage(m)]
  <2>1. [stage |-> "mounted", entry |-> e, key |-> k] \in OnPage(m)
    BY <1>5 DEF OnPage
  <2>2. mounts \in [Mount -> {Out} \cup OnPage(m)]
    BY <1>0, <1>4 DEF FamilyShapes
  <2> QED BY <1>3, <2>1, <2>2
<1>7. /\ Cardinality(MountedOn(e)') = Cardinality(MountedOn(e)) + 1
      /\ \A f : f # e => MountedOn(f)' = MountedOn(f)
  <2>1. /\ \A d \in Mount : d # c => mounts'[d] = mounts[d]
        /\ mounts'[c].stage = "mounted" /\ mounts'[c].entry = e
    BY <1>6
  <2> QED BY <1>3, <1>4, <1>5, <2>1, CountsUp
<1>8. EntryIsKept'
  BY <1>0, <1>1, <1>2, <1>3, <1>6 DEF EntryIsKept
<1>9. CASE e = 0
  <2>1. entries' = entries /\ tasks' = tasks
    BY <1>3, <1>9 DEF Counted
  <2>2. FamilyShapes'
    BY <1>0, <1>3, <1>4, <1>6, <2>1 DEF FamilyShapes
  <2>3. CountsAreTrue'
    <3>1. \A f \in 1 .. m : f # e
      BY <1>9
    <3> QED BY <1>0, <1>4, <1>7, <2>1, <3>1 DEF CountsAreTrue, MountedOn
  <2>4. MapIsTrue' /\ UnusedHasTask'
    BY <1>0, <1>3, <2>1 DEF MapIsTrue, UnusedHasTask
  <2> QED BY <1>8, <2>2, <2>3, <2>4 DEF FamilyInv
<1>10. CASE e # 0
  <2>1. e \in 1 .. m
    BY <1>5, <1>10
  <2>2. /\ entries' \in Seq(FamilyEntry) /\ Len(entries') = m /\ DOMAIN entries' = 1 .. m
        /\ entries'[e].key = entries[e].key /\ entries'[e].refcount = entries[e].refcount + 1
        /\ \A f \in 1 .. m : f # e => entries'[f] = entries[f]
    <3>1. PICK all \in Seq(FamilyEntry) : all = entries
      BY <1>4
    <3>2. /\ Counted(all, e) \in Seq(FamilyEntry) /\ Len(Counted(all, e)) = Len(all)
          /\ Counted(all, e)[e] = [key |-> all[e].key, counted |-> TRUE, refcount |-> all[e].refcount + 1]
          /\ \A f \in 1 .. Len(all) : f # e => Counted(all, e)[f] = all[f]
      BY <1>4, <2>1, <3>1, CountedIs
    <3> QED BY <1>3, <1>4, <3>1, <3>2
  <2>3. tasks' \in Seq(1 .. m) /\ \A n \in 1 .. Len(tasks) : n \in 1 .. Len(tasks') /\ tasks'[n] = tasks[n]
    <3>1. CASE strict
      <4>1. tasks' = TaskFor(Discounted(entries', e), e)
        BY <1>3, <1>10, <3>1
      <4>2. PICK all : all = Discounted(entries', e)
        OBVIOUS
      <4> QED BY <1>0, <1>4, <2>1, <4>1, <4>2, TaskForIs
    <3>2. CASE ~strict
      BY <1>0, <1>3, <1>4, <3>2 DEF FamilyShapes
    <3> QED BY <3>1, <3>2
  <2>4. FamilyShapes'
    BY <1>0, <1>3, <1>4, <1>6, <2>2, <2>3 DEF FamilyShapes
  <2>5. \A f \in 1 .. m : entries'[f].key = entries[f].key
    BY <2>2
  <2>6. CountsAreTrue'
    <3>1. SUFFICES ASSUME NEW f \in 1 .. m PROVE entries'[f].refcount = Cardinality(MountedOn(f)')
      BY <2>2 DEF CountsAreTrue, MountedOn
    <3>2. entries[f].refcount = Cardinality(MountedOn(f))
      BY <1>0, <1>4 DEF CountsAreTrue, MountedOn
    <3>3. CASE f = e
      BY <1>7, <2>2, <3>2, <3>3
    <3>4. CASE f # e
      BY <1>7, <2>2, <3>2, <3>4
    <3> QED BY <3>3, <3>4
  <2>7. MapIsTrue'
    <3>1. \A j \in Key : families[j] # 0 => families[j] \in 1 .. m
      BY <1>0, <1>4 DEF FamilyShapes
    <3> QED BY <1>0, <1>3, <2>5, <3>1 DEF MapIsTrue
  <2>8. UnusedHasTask'
    <3>1. SUFFICES ASSUME NEW f \in 1 .. m, entries'[f].counted, entries'[f].refcount = 0,
                          families[entries'[f].key] = f
                   PROVE  \E n \in 1 .. Len(tasks') : tasks'[n] = f
      BY <1>3, <2>2 DEF UnusedHasTask
    <3>2. f # e
      <4>1. entries'[e].refcount = Cardinality(MountedOn(e)) + 1
        BY <1>0, <1>4, <2>1, <2>2 DEF CountsAreTrue, MountedOn
      <4>2. PICK n \in Nat : n = Cardinality(MountedOn(e))
        BY MountedOnFinite
      <4> QED BY <3>1, <4>1, <4>2
    <3>3. entries'[f] = entries[f]
      BY <2>2, <3>2
    <3>4. PICK n \in 1 .. Len(tasks) : tasks[n] = f
      BY <1>0, <1>4, <3>1, <3>3 DEF UnusedHasTask
    <3> QED BY <2>3, <3>4
  <2> QED BY <1>8, <2>4, <2>6, <2>7, <2>8 DEF FamilyInv
<1> QED BY <1>9, <1>10


LEMMA UnmountKeeps == ASSUME FamilyInv, NEW c \in Mount, Unmount(c) PROVE FamilyInv'
<1>0. FamilyShapes /\ CountsAreTrue /\ MapIsTrue /\ EntryIsKept /\ UnusedHasTask
  BY DEF FamilyInv
<1>1. PICK e : e = mounts[c].entry
  OBVIOUS
<1>2. /\ mounts[c].stage = "mounted" /\ mounts' = [mounts EXCEPT ![c] = Out]
      /\ IF e = 0 THEN UNCHANGED <<entries, tasks>>
         ELSE entries' = Discounted(entries, e) /\ tasks' = TaskFor(entries', e)
      /\ UNCHANGED <<families, alive, orphans, overtaken>>
  BY <1>1 DEF Unmount
<1>3. PICK m \in Nat : m = Len(entries) /\ entries \in Seq(FamilyEntry) /\ DOMAIN entries = 1 .. m
  BY <1>0 DEF FamilyShapes
<1>4. e \in 0 .. m
  BY <1>0, <1>1, <1>2, <1>3, MountIs
<1>5. /\ \A d \in Mount : mounts'[d] = IF d = c THEN Out ELSE mounts[d]
      /\ mounts' \in [Mount -> {Out} \cup OnPage(m)]
  BY <1>0, <1>2, <1>3 DEF FamilyShapes
<1>6. /\ Cardinality(MountedOn(e)') = Cardinality(MountedOn(e)) - 1
      /\ \A f : f # e => MountedOn(f)' = MountedOn(f)
  <2>1. (\A d \in Mount : d # c => mounts'[d] = mounts[d]) /\ mounts'[c] = Out
    BY <1>5
  <2> QED BY <1>1, <1>2, <2>1, CountsDown
<1>7. EntryIsKept'
  BY <1>0, <1>2, <1>5 DEF EntryIsKept, Out
<1>8. CASE e = 0
  <2>1. entries' = entries /\ tasks' = tasks
    BY <1>2, <1>8
  <2>2. FamilyShapes'
    BY <1>0, <1>2, <1>3, <1>5, <2>1 DEF FamilyShapes
  <2>3. CountsAreTrue'
    <3>1. \A f \in 1 .. m : f # e
      BY <1>8
    <3> QED BY <1>0, <1>3, <1>6, <2>1, <3>1 DEF CountsAreTrue, MountedOn
  <2>4. MapIsTrue' /\ UnusedHasTask'
    BY <1>0, <1>2, <2>1 DEF MapIsTrue, UnusedHasTask
  <2> QED BY <1>7, <2>2, <2>3, <2>4 DEF FamilyInv
<1>9. CASE e # 0
  <2>1. e \in 1 .. m
    BY <1>4, <1>9
  <2>2. /\ entries' \in Seq(FamilyEntry) /\ Len(entries') = m /\ DOMAIN entries' = 1 .. m
        /\ entries'[e].key = entries[e].key /\ entries'[e].refcount = entries[e].refcount - 1
        /\ \A f \in 1 .. m : f # e => entries'[f] = entries[f]
    <3>1. PICK all \in Seq(FamilyEntry) : all = entries
      BY <1>3
    <3>2. /\ Discounted(all, e) \in Seq(FamilyEntry) /\ Len(Discounted(all, e)) = Len(all)
          /\ Discounted(all, e)[e].key = all[e].key
          /\ Discounted(all, e)[e].refcount = all[e].refcount - 1
          /\ \A f \in 1 .. Len(all) : f # e => Discounted(all, e)[f] = all[f]
      BY <1>3, <2>1, <3>1, DiscountedIs
    <3> QED BY <1>2, <1>3, <1>9, <3>1, <3>2
  <2>3. /\ tasks' \in Seq(1 .. m)
        /\ \A n \in 1 .. Len(tasks) : n \in 1 .. Len(tasks') /\ tasks'[n] = tasks[n]
        /\ entries'[e].refcount <= 0 => \E n \in 1 .. Len(tasks') : tasks'[n] = e
    <3>1. PICK all : all = entries'
      OBVIOUS
    <3>2. tasks' = TaskFor(all, e)
      BY <1>2, <1>9, <3>1
    <3> QED BY <1>0, <1>3, <2>1, <3>1, <3>2, TaskForIs
  <2>4. FamilyShapes'
    BY <1>0, <1>2, <1>3, <1>5, <2>2, <2>3 DEF FamilyShapes
  <2>5. \A f \in 1 .. m : entries'[f].key = entries[f].key
    BY <2>2
  <2>6. CountsAreTrue'
    <3>1. SUFFICES ASSUME NEW f \in 1 .. m PROVE entries'[f].refcount = Cardinality(MountedOn(f)')
      BY <2>2 DEF CountsAreTrue, MountedOn
    <3>2. entries[f].refcount = Cardinality(MountedOn(f))
      BY <1>0, <1>3 DEF CountsAreTrue, MountedOn
    <3>3. CASE f = e
      BY <1>6, <2>2, <3>2, <3>3
    <3>4. CASE f # e
      BY <1>6, <2>2, <3>2, <3>4
    <3> QED BY <3>3, <3>4
  <2>7. MapIsTrue'
    <3>1. \A j \in Key : families[j] # 0 => families[j] \in 1 .. m
      BY <1>0, <1>3 DEF FamilyShapes
    <3> QED BY <1>0, <1>2, <2>5, <3>1 DEF MapIsTrue
  <2>8. UnusedHasTask'
    <3>1. SUFFICES ASSUME NEW f \in 1 .. m, entries'[f].counted, entries'[f].refcount = 0,
                          families[entries'[f].key] = f
                   PROVE  \E n \in 1 .. Len(tasks') : tasks'[n] = f
      BY <1>2, <2>2 DEF UnusedHasTask
    <3>2. CASE f = e
      BY <2>3, <3>1, <3>2
    <3>3. CASE f # e
      <4>1. entries'[f] = entries[f]
        BY <2>2, <3>3
      <4>2. PICK n \in 1 .. Len(tasks) : tasks[n] = f
        BY <1>0, <1>3, <3>1, <4>1 DEF UnusedHasTask
      <4> QED BY <2>3, <4>2
    <3> QED BY <3>2, <3>3
  <2> QED BY <1>7, <2>4, <2>6, <2>7, <2>8 DEF FamilyInv
<1> QED BY <1>8, <1>9

LEMMA RunMicrotaskKeeps == ASSUME FamilyInv, RunMicrotask PROVE FamilyInv'
<1>0. FamilyShapes /\ CountsAreTrue /\ MapIsTrue /\ EntryIsKept /\ UnusedHasTask
  BY DEF FamilyInv
<1>1. PICK m \in Nat : m = Len(entries) /\ entries \in Seq(FamilyEntry) /\ DOMAIN entries = 1 .. m
  BY <1>0 DEF FamilyShapes
<1>2. PICK e : e = Head(tasks)
  OBVIOUS
<1>3. PICK k : k = entries[e].key
  OBVIOUS
<1>4. /\ tasks # <<>> /\ tasks' = Tail(tasks) /\ UNCHANGED <<entries, mounts>>
      /\ IF IsUnused(e)
         THEN /\ families' = [families EXCEPT ![k] = 0]
              /\ overtaken' = overtaken \cup Waiting(k)
              /\ \/ orphans' = orphans \cup {k} /\ UNCHANGED alive
                 \/ alive' = alive \ {k} /\ UNCHANGED orphans
         ELSE UNCHANGED <<families, overtaken, alive, orphans>>
  BY <1>2, <1>3 DEF RunMicrotask
<1>5. /\ e \in 1 .. m /\ tasks' \in Seq(1 .. m)
      /\ \A n \in 1 .. Len(tasks) : tasks[n] # e => \E j \in 1 .. Len(tasks') : tasks'[j] = tasks[n]
  <2>1. PICK t \in Seq(1 .. m) : t = tasks
    BY <1>0, <1>1 DEF FamilyShapes
  <2>2. /\ Head(t) \in 1 .. m /\ Tail(t) \in Seq(1 .. m)
        /\ \A n \in 1 .. Len(t) : t[n] # Head(t) => \E j \in 1 .. Len(Tail(t)) : Tail(t)[j] = t[n]
    BY <1>4, <2>1, FirstTask
  <2> QED BY <1>2, <1>4, <2>1, <2>2
<1>6. k \in Key
  <2>1. entries[e] \in FamilyEntry
    BY <1>1, <1>5
  <2> QED BY <1>3, <2>1 DEF FamilyEntry
<1>7. CountsAreTrue'
  BY <1>0, <1>4 DEF CountsAreTrue
<1>8. CASE ~IsUnused(e)
  <2>1. FamilyShapes'
    BY <1>0, <1>1, <1>4, <1>5, <1>8 DEF FamilyShapes
  <2>2. MapIsTrue' /\ EntryIsKept'
    BY <1>0, <1>4, <1>8 DEF MapIsTrue, EntryIsKept
  <2>3. UnusedHasTask'
    <3>1. SUFFICES ASSUME NEW f \in 1 .. m, entries[f].counted, entries[f].refcount = 0,
                          families[entries[f].key] = f
                   PROVE  \E j \in 1 .. Len(tasks') : tasks'[j] = f
      BY <1>1, <1>4, <1>8 DEF UnusedHasTask
    <3>2. PICK n \in 1 .. Len(tasks) : tasks[n] = f
      BY <1>0, <1>1, <3>1 DEF UnusedHasTask
    <3>3. f # e
      BY <1>8, <3>1 DEF IsUnused
    <3> QED BY <1>5, <3>2, <3>3
  <2> QED BY <1>7, <2>1, <2>2, <2>3 DEF FamilyInv
<1>9. CASE IsUnused(e)
  <2>1. /\ families' = [families EXCEPT ![k] = 0] /\ overtaken' = overtaken \cup Waiting(k)
        /\ \/ orphans' = orphans \cup {k} /\ UNCHANGED alive
           \/ alive' = alive \ {k} /\ UNCHANGED orphans
    BY <1>4, <1>9
  <2>2. families[k] = e /\ entries[e].refcount <= 0 /\ e # 0
    BY <1>3, <1>5, <1>9 DEF IsUnused
  <2>3. /\ families' \in [Key -> 0 .. m]
        /\ \A j \in Key : families'[j] = IF j = k THEN 0 ELSE families[j]
    <3>1. families \in [Key -> 0 .. m] /\ 0 \in 0 .. m
      BY <1>0, <1>1 DEF FamilyShapes
    <3> QED BY <2>1, <3>1
  <2>4. MountedOn(e) = {}
    <3>1. Cardinality(MountedOn(e)) <= 0
      BY <1>0, <1>1, <1>5, <2>2 DEF CountsAreTrue, MountedOn
    <3>2. PICK S : S = MountedOn(e) /\ IsFiniteSet(S) /\ Cardinality(S) \in Nat
      BY MountedOnFinite
    <3>3. Cardinality(S) = 0
      BY <3>1, <3>2
    <3> QED BY <3>2, <3>3, FS_EmptySet
  <2>5. FamilyShapes'
    <3>1. Waiting(k) \subseteq Mount
      BY DEF Waiting
    <3> QED BY <1>0, <1>1, <1>4, <1>5, <1>6, <2>1, <2>3, <3>1 DEF FamilyShapes
  <2>6. MapIsTrue'
    <3>1. k \in alive /\ k \notin orphans
      BY <1>0, <1>6, <2>2 DEF MapIsTrue
    <3>2. \A j \in Key : families'[j] # 0 => entries'[families'[j]].key = j
      BY <1>0, <1>4, <2>3 DEF MapIsTrue
    <3>3. \A j \in orphans' : families'[j] = 0
      BY <1>0, <1>6, <2>1, <2>3 DEF MapIsTrue, FamilyShapes
    <3>4. alive' = {j \in Key : families'[j] # 0} \cup orphans'
      BY <1>0, <1>6, <2>1, <2>3, <3>1 DEF MapIsTrue
    <3> QED BY <3>2, <3>3, <3>4 DEF MapIsTrue
  <2>7. EntryIsKept'
    <3>1. SUFFICES ASSUME NEW d \in Mount
                   PROVE  /\ mounts[d].stage = "mounted" /\ mounts[d].entry # 0
                                => families'[mounts[d].key] = mounts[d].entry
                          /\ mounts[d].stage = "mounted" /\ mounts[d].entry = 0 => d \in overtaken'
                          /\ mounts[d].stage = "rendered" /\ families'[mounts[d].key] = 0 => d \in overtaken'
      BY <1>4 DEF EntryIsKept
    <3>2. /\ mounts[d].stage = "mounted" /\ mounts[d].entry # 0 => families[mounts[d].key] = mounts[d].entry
          /\ mounts[d].stage = "mounted" /\ mounts[d].entry = 0 => d \in overtaken
          /\ mounts[d].stage = "rendered" /\ families[mounts[d].key] = 0 => d \in overtaken
      BY <1>0 DEF EntryIsKept
    <3>3. mounts[d].stage # "out" => mounts[d].key \in Key
      BY <1>0, MountIs
    <3>4. mounts[d].stage = "mounted" => mounts[d].entry # e
      BY <2>4 DEF MountedOn
    <3>5. mounts[d].stage = "rendered" /\ mounts[d].key = k => d \in overtaken'
      BY <2>1 DEF Waiting
    <3> QED BY <2>1, <2>2, <2>3, <3>2, <3>3, <3>4, <3>5
  <2>8. UnusedHasTask'
    <3>1. SUFFICES ASSUME NEW f \in 1 .. m, entries[f].counted, entries[f].refcount = 0,
                          families'[entries[f].key] = f
                   PROVE  \E j \in 1 .. Len(tasks') : tasks'[j] = f
      BY <1>1, <1>4 DEF UnusedHasTask
    <3>2. entries[f].key \in Key
      <4>1. entries[f] \in FamilyEntry
        BY <1>1, <3>1
      <4> QED BY <4>1 DEF FamilyEntry
    <3>3. families[entries[f].key] = f /\ entries[f].key # k
      BY <2>3, <3>1, <3>2
    <3>4. PICK n \in 1 .. Len(tasks) : tasks[n] = f
      BY <1>0, <1>1, <3>1, <3>3 DEF UnusedHasTask
    <3>5. f # e
      BY <1>3, <3>3
    <3> QED BY <1>5, <3>4, <3>5
  <2> QED BY <1>7, <2>5, <2>6, <2>7, <2>8 DEF FamilyInv
<1> QED BY <1>8, <1>9

LEMMA FamilyStepKeeps == ASSUME FamilyInv, [FamilyNext]_familyVars PROVE FamilyInv'
<1>1. CASE UNCHANGED familyVars
  BY <1>1 DEF familyVars, FamilyInv, FamilyShapes, CountsAreTrue, MapIsTrue, EntryIsKept, UnusedHasTask
<1> QED BY <1>1, RenderFamilyKeeps, AbandonKeeps, EffectKeeps, UnmountKeeps, RunMicrotaskKeeps DEF FamilyNext

LEMMA FamilyInvSound == ASSUME FamilyInv PROVE FamiliesSound
<1>0. FamilyShapes /\ CountsAreTrue /\ MapIsTrue /\ EntryIsKept /\ UnusedHasTask
  BY DEF FamilyInv
<1>1. MountedHasItsNode
  <2>1. SUFFICES ASSUME NEW c \in Mount, mounts[c].stage = "mounted"
                 PROVE  \/ /\ mounts[c].entry # 0 /\ families[mounts[c].key] = mounts[c].entry
                           /\ mounts[c].key \in alive
                        \/ mounts[c].entry = 0 /\ c \in overtaken
    BY DEF MountedHasItsNode
  <2>2. mounts[c].key \in Key
    BY <1>0, <2>1, MountIs
  <2> QED BY <1>0, <2>1, <2>2 DEF EntryIsKept, MapIsTrue
<1>2. NothingLingers
  <2>1. ASSUME tasks = <<>>, NEW k \in Key, families[k] # 0, entries[families[k]].refcount = 0,
               entries[families[k]].counted
        PROVE  FALSE
    <3>1. families[k] \in 1 .. Len(entries) /\ entries[families[k]].key = k
      BY <1>0, <2>1 DEF FamilyShapes, MapIsTrue
    <3>2. \E n \in 1 .. Len(tasks) : tasks[n] = families[k]
      BY <1>0, <2>1, <3>1 DEF UnusedHasTask
    <3> QED BY <2>1, <3>2
  <2> QED BY <1>0, <2>1 DEF NothingLingers, MapIsTrue
<1> QED BY <1>0, <1>1, <1>2 DEF FamiliesSound

-----------------------------------------------------------------------------
(* Hooks: what a component shows and keeps, and what it is told.           *)

CellObjects == [val : {0, 1}, obj : Object]

HookShapes ==
  /\ hook \in Hook /\ provided \in Store /\ element \in Element
  /\ cellOf \in [Store -> {Absent} \cup CellObjects]
  /\ lives \in [Store -> Nat] /\ objects \in 0..MaxObjects
  /\ shown \in {Absent} \cup Seen
  /\ keeps \in {Absent} \cup Kept
  /\ listens \in {Absent} \cup Ears
  /\ dirty \in BOOLEAN /\ attached \in BOOLEAN /\ unheard \in BOOLEAN /\ recast \in BOOLEAN

\* An object has one value: c are the cells, k is what the hook keeps, w what is
\* on the screen, n the number of objects.
OneValueEach(c, k, w, n) ==
  /\ \A g \in Store : c[g] # Absent => c[g].obj <= n
  /\ k # Absent => k.raw <= n /\ k.seen.obj <= n /\ (~Makes => k.seen.obj = k.raw)
  /\ w # Absent => w.obj <= n
  /\ \A g, h \in Store : c[g] # Absent /\ c[h] # Absent /\ c[g].obj = c[h].obj => c[g].val = c[h].val
  /\ k # Absent => \A g \in Store : c[g] # Absent /\ c[g].obj = k.raw => c[g].val = k.seen.val
  /\ k # Absent /\ w # Absent /\ k.seen.obj = w.obj => k.seen.val = w.val
  /\ w # Absent /\ ~Makes => \A g \in Store : c[g] # Absent /\ c[g].obj = w.obj => c[g].val = w.val

\* The next call of getSnapshot on this cell gives what is on the screen.
IsCurrent(cell, k, w) ==
  /\ w.val = cell.val
  /\ IF IsKept(k, cell, provided) THEN k.seen.obj = w.obj ELSE ~Makes /\ cell.obj = w.obj

Stale == unheard \/ (PerNode /\ listens.life # lives[provided])

NothingMissed == AtRest /\ ~Stale => IsCurrent(cellOf[provided], keeps, shown)

ListensHere == attached => listens # Absent /\ listens.graph = provided

\* Without a change of constructor all arrays are of the present one.
OfItsKind(k, w) ==
  /\ k # Absent => k.seen.as = element
  /\ w # Absent => w.as = element
KindIsKnown == ~recast => OfItsKind(keeps, shown)

HookInv ==
  HookShapes /\ OneValueEach(cellOf, keeps, shown, objects) /\ NothingMissed /\ ListensHere /\ KindIsKnown

-----------------------------------------------------------------------------

IsShot(s, cell, g, k, n) ==
  /\ s.seen \in Seen /\ s.keeps \in Kept /\ s.objects \in n .. n + 1
  /\ s.keeps.from = g /\ s.keeps.raw = cell.obj /\ s.keeps.seen = s.seen
  /\ IsKept(k, cell, g) => s.seen = k.seen /\ s.objects = n
  /\ ~IsKept(k, cell, g) => /\ s.seen.val = cell.val /\ s.seen.as = element
                            /\ s.seen.obj = (IF Makes THEN n + 1 ELSE cell.obj)
                            /\ s.objects = (IF Makes THEN n + 1 ELSE n)

LEMMA GetSnapshotIs ==
  ASSUME element \in Element, NEW cell \in CellObjects, NEW g \in Store, NEW k \in {Absent} \cup Kept,
         NEW n \in 0 .. MaxObjects, n < MaxObjects
  PROVE  IsShot(GetSnapshot(cell, g, k, n), cell, g, k, n)
<1>1. PICK s : s = GetSnapshot(cell, g, k, n)
  OBVIOUS
<1>2. PICK obj : obj = IF Makes THEN n + 1 ELSE cell.obj
  OBVIOUS
<1>3. obj \in Object /\ n + 1 \in Object /\ cell.obj \in Object /\ cell.val \in {0, 1} /\ n \in Nat
  BY <1>2, StoreAssumption DEF CellObjects, Object
<1>4. PICK seen : seen = IF IsKept(k, cell, g) THEN k.seen ELSE [val |-> cell.val, obj |-> obj, as |-> element]
  OBVIOUS
<1>5. s = [seen |-> seen, keeps |-> [from |-> g, raw |-> cell.obj, seen |-> seen],
           objects |-> IF IsKept(k, cell, g) \/ ~Makes THEN n ELSE n + 1]
  BY <1>1, <1>2, <1>4 DEF GetSnapshot
<1>6. seen \in Seen
  <2>1. CASE IsKept(k, cell, g)
    BY <1>4, <2>1 DEF IsKept, Kept
  <2>2. CASE ~IsKept(k, cell, g)
    BY <1>3, <1>4, <2>2 DEF Seen
  <2> QED BY <2>1, <2>2
<1>7. s.keeps = [from |-> g, raw |-> cell.obj, seen |-> seen] /\ s.seen = seen
      /\ s.objects = IF IsKept(k, cell, g) \/ ~Makes THEN n ELSE n + 1
  BY <1>5
<1>8. s.keeps \in Kept /\ s.keeps.from = g /\ s.keeps.raw = cell.obj /\ s.keeps.seen = seen
  BY <1>3, <1>6, <1>7 DEF Kept
<1>9. ~IsKept(k, cell, g) => seen.val = cell.val /\ seen.as = element /\ seen.obj = obj
  BY <1>4
<1>10. IsKept(k, cell, g) => seen = k.seen
  BY <1>4
<1>11. s.objects \in n .. n + 1
  BY <1>3, <1>7
<1> QED BY <1>1, <1>2, <1>6, <1>7, <1>8, <1>9, <1>10, <1>11 DEF IsShot

\* The snapshot taken is kept from then on.
LEMMA ShotIsKept ==
  ASSUME NEW cell \in CellObjects, NEW g \in Store, NEW k \in {Absent} \cup Kept, NEW n \in 0 .. MaxObjects,
         NEW s, IsShot(s, cell, g, k, n)
  PROVE  IsKept(s.keeps, cell, g)
<1>1. s.keeps # Absent /\ s.keeps.from = g /\ s.keeps.raw = cell.obj /\ s.keeps.seen = s.seen
  BY AbsentAssumption DEF IsShot
<1>2. hook = "shallow" => s.seen.val = cell.val
  <2>1. SUFFICES ASSUME hook = "shallow" PROVE s.seen.val = cell.val
    OBVIOUS
  <2>2. CASE IsKept(k, cell, g)
    <3>1. k.seen.val = cell.val
      BY <2>1, <2>2 DEF IsKept, ShallowEqual
    <3> QED BY <2>2, <3>1 DEF IsShot
  <2>3. CASE ~IsKept(k, cell, g)
    BY <2>3 DEF IsShot
  <2> QED BY <2>2, <2>3
<1> QED BY <1>1, <1>2 DEF IsKept, ShallowEqual

\* What a snapshot of graph g's cell, with c the cells, does to the values.
LEMMA ShotKeepsValues ==
  ASSUME NEW c \in [Store -> {Absent} \cup CellObjects], NEW k \in {Absent} \cup Kept,
         NEW w \in {Absent} \cup Seen, NEW n \in 0 .. MaxObjects, OneValueEach(c, k, w, n),
         NEW g \in Store, c[g] # Absent, NEW s, IsShot(s, c[g], g, k, n)
  PROVE  /\ OneValueEach(c, s.keeps, w, s.objects)
         /\ OneValueEach(c, s.keeps, s.seen, s.objects)
         /\ s.seen.val = c[g].val
         /\ w # Absent /\ s.seen.obj = w.obj => s.seen.val = w.val
<1>0. MaxObjects \in Nat
  BY StoreAssumption
<1>1. PICK cell \in CellObjects : cell = c[g] /\ cell.obj \in Nat /\ cell.obj <= n
  BY DEF OneValueEach, CellObjects, Object
<1>2. PICK kk \in Kept, sn \in Seen, m \in Nat : kk = s.keeps /\ sn = s.seen /\ m = s.objects /\ kk.seen = sn
  BY <1>0 DEF IsShot
<1>3. /\ kk.raw = cell.obj /\ n <= m /\ m <= n + 1 /\ sn.obj \in Nat /\ n \in Nat
      /\ \A h \in Store : c[h] # Absent => c[h].obj \in Nat
      /\ w # Absent => w.obj \in Nat
  BY <1>0, <1>1, <1>2 DEF IsShot, Seen, Object, CellObjects
<1>4. /\ \A h \in Store : c[h] # Absent => c[h].obj <= n
      /\ w # Absent => w.obj <= n
      /\ \A h, j \in Store : c[h] # Absent /\ c[j] # Absent /\ c[h].obj = c[j].obj => c[h].val = c[j].val
  BY DEF OneValueEach
<1>5. sn.val = cell.val /\ sn.obj <= m /\ (~Makes => sn.obj = cell.obj)
      /\ (w # Absent /\ sn.obj = w.obj => sn.val = w.val)
  <2>1. CASE IsKept(k, cell, g)
    <3>1. k # Absent /\ sn = k.seen /\ m = n
      BY <1>1, <1>2, <2>1 DEF IsShot, IsKept
    <3>2. hook = "shallow" => sn.val = cell.val
      BY <2>1, <3>1 DEF IsKept, ShallowEqual
    <3>3. hook # "shallow" => k.raw = cell.obj /\ sn.val = cell.val
      <4>1. hook # "shallow" => k.raw = cell.obj
        BY <2>1 DEF IsKept
      <4> QED BY <1>1, <3>1, <4>1 DEF OneValueEach
    <3>4. ~Makes => sn.obj = cell.obj
      BY <3>1, <3>3 DEF OneValueEach, Makes
    <3>5. sn.obj <= m /\ (w # Absent /\ sn.obj = w.obj => sn.val = w.val)
      BY <3>1 DEF OneValueEach
    <3> QED BY <3>2, <3>3, <3>4, <3>5
  <2>2. CASE ~IsKept(k, cell, g)
    <3>1. /\ sn.val = cell.val /\ sn.obj = (IF Makes THEN n + 1 ELSE cell.obj)
          /\ m = (IF Makes THEN n + 1 ELSE n)
      BY <1>1, <1>2, <2>2 DEF IsShot
    <3>2. CASE Makes
      BY <1>3, <1>4, <3>1, <3>2
    <3>3. CASE ~Makes
      <4>1. w # Absent /\ cell.obj = w.obj => cell.val = w.val
        BY <1>1, <3>3 DEF OneValueEach
      <4> QED BY <1>1, <3>1, <3>3, <4>1
    <3> QED BY <3>2, <3>3
  <2> QED BY <2>1, <2>2
<1>6. /\ \A h \in Store : c[h] # Absent => c[h].obj <= m
      /\ w # Absent => w.obj <= m
      /\ kk.raw <= m
  BY <1>1, <1>3, <1>4
<1>7. \A h \in Store : c[h] # Absent /\ c[h].obj = cell.obj => c[h].val = cell.val
  BY <1>1, <1>4
<1>8. OneValueEach(c, kk, w, m)
  <2>1. w # Absent /\ ~Makes => \A h \in Store : c[h] # Absent /\ c[h].obj = w.obj => c[h].val = w.val
    BY DEF OneValueEach
  <2> QED BY <1>2, <1>3, <1>4, <1>5, <1>6, <1>7, <2>1 DEF OneValueEach
<1>9. OneValueEach(c, kk, sn, m)
  BY <1>2, <1>3, <1>4, <1>5, <1>6, <1>7 DEF OneValueEach
<1> QED BY <1>1, <1>2, <1>5, <1>8, <1>9


LEMMA ChecksKeep ==
  ASSUME hook \in Hook, element \in Element, provided \in Store,
         keeps \in {Absent} \cup Kept, shown \in {Absent} \cup Seen, dirty \in BOOLEAN, KindIsKnown,
         NEW c \in [Store -> {Absent} \cup CellObjects], NEW n \in 0 .. MaxObjects, n < MaxObjects,
         OneValueEach(c, keeps, shown, n), Checks(c[provided], n)
  PROVE  /\ keeps' \in {Absent} \cup Kept /\ objects' \in 0 .. MaxObjects /\ dirty' \in BOOLEAN
         /\ OneValueEach(c, keeps', shown, objects')
         /\ shown # Absent /\ c[provided] # Absent /\ ~dirty' => IsCurrent(c[provided], keeps', shown)
         /\ c[provided] = Absent => dirty'
         /\ ~recast => OfItsKind(keeps', shown)
<1>0. MaxObjects \in Nat
  BY StoreAssumption
<1>1. CASE c[provided] = Absent
  <2>1. dirty' = TRUE /\ keeps' = keeps /\ objects' = n
    BY <1>1 DEF Checks
  <2> QED BY <1>1, <2>1 DEF KindIsKnown
<1>2. CASE c[provided] # Absent
  <2>1. PICK cell \in CellObjects : cell = c[provided]
    BY <1>2
  <2>2. PICK s : s = GetSnapshot(cell, provided, keeps, n)
    OBVIOUS
  <2>3. IsShot(s, cell, provided, keeps, n)
    BY <2>2, GetSnapshotIs
  <2>4. keeps' = s.keeps /\ objects' = s.objects /\ dirty' = (dirty \/ s.seen.obj # shown.obj)
    BY <1>2, <2>1, <2>2 DEF Checks
  <2>5. keeps' \in Kept /\ objects' \in 0 .. MaxObjects
    BY <1>0, <2>3, <2>4 DEF IsShot
  <2>6. /\ OneValueEach(c, s.keeps, shown, s.objects)
        /\ s.seen.val = c[provided].val
        /\ shown # Absent /\ s.seen.obj = shown.obj => s.seen.val = shown.val
    BY <1>2, <2>1, <2>3, ShotKeepsValues
  <2>7. IsKept(s.keeps, cell, provided) /\ s.keeps.seen = s.seen
    BY <2>3, ShotIsKept DEF IsShot
  <2>8. shown # Absent /\ ~dirty' => IsCurrent(c[provided], keeps', shown)
    <3>1. SUFFICES ASSUME shown # Absent, ~dirty' PROVE IsCurrent(cell, s.keeps, shown)
      BY <2>1, <2>4
    <3>2. s.seen.obj = shown.obj
      BY <2>4, <3>1, Zenon
    <3> QED BY <2>1, <2>6, <2>7, <3>1, <3>2 DEF IsCurrent
  <2>9. ~recast => OfItsKind(keeps', shown)
    <3>1. SUFFICES ASSUME ~recast PROVE s.seen.as = element
      BY <2>3, <2>4 DEF KindIsKnown, OfItsKind, IsShot
    <3>2. CASE IsKept(keeps, cell, provided)
      <4>1. keeps # Absent /\ s.seen = keeps.seen
        BY <2>3, <3>2 DEF IsShot, IsKept
      <4> QED BY <3>1, <4>1 DEF KindIsKnown, OfItsKind
    <3>3. CASE ~IsKept(keeps, cell, provided)
      BY <2>3, <3>3 DEF IsShot
    <3> QED BY <3>2, <3>3
  <2>10. dirty' \in BOOLEAN
    BY <2>4, Zenon
  <2> QED BY <1>2, <2>4, <2>5, <2>6, <2>8, <2>9, <2>10
<1> QED BY <1>1, <1>2

LEMMA HookInitHolds == ASSUME HookInit PROVE HookInv
<1>1. /\ hook \in Hook /\ cellOf = [g \in Store |-> Absent] /\ lives = [g \in Store |-> 0]
      /\ objects = 0 /\ shown = Absent /\ keeps = Absent /\ listens = Absent
      /\ dirty = FALSE /\ attached = FALSE /\ unheard = FALSE /\ recast = FALSE
  BY DEF HookInit
<1>2. provided \in Store /\ element \in Element
  BY StoreAssumption DEF HookInit
<1>3. HookShapes
  <2>1. cellOf \in [Store -> {Absent} \cup CellObjects] /\ lives \in [Store -> Nat] /\ objects \in 0 .. MaxObjects
    BY <1>1, StoreAssumption
  <2> QED BY <1>1, <1>2, <2>1 DEF HookShapes
<1>4. OneValueEach(cellOf, keeps, shown, objects)
  BY <1>1 DEF OneValueEach
<1> QED BY <1>1, <1>3, <1>4 DEF HookInv, NothingMissed, AtRest, ListensHere, KindIsKnown, OfItsKind

LEMMA RenderKeeps == ASSUME HookInv, RenderHook PROVE HookInv'
<1>0. /\ HookShapes /\ OneValueEach(cellOf, keeps, shown, objects) /\ NothingMissed /\ ListensHere /\ KindIsKnown
      /\ MaxObjects \in Nat
  BY StoreAssumption DEF HookInv
<1>1. dirty' = FALSE /\ unheard' = FALSE /\ UNCHANGED <<hook, cellOf, lives, provided, element>>
  BY DEF RenderHook
<1>2. CASE cellOf[provided] = Absent
  <2>1. /\ shown' = Absent /\ keeps' = Absent /\ listens' = Absent /\ attached' = FALSE
        /\ recast' = FALSE /\ UNCHANGED objects
    BY <1>2 DEF RenderHook
  <2>2. HookShapes'
    BY <1>0, <1>1, <2>1 DEF HookShapes
  <2>3. OneValueEach(cellOf, keeps, shown, objects)'
    BY <1>0, <1>1, <2>1 DEF OneValueEach
  <2> QED BY <2>1, <2>2, <2>3 DEF HookInv, NothingMissed, AtRest, ListensHere, KindIsKnown, OfItsKind
<1>3. CASE cellOf[provided] # Absent
  <2>1. PICK cell \in CellObjects : cell = cellOf[provided]
    BY <1>0, <1>3 DEF HookShapes
  <2>2. PICK s : s = GetSnapshot(cell, provided, keeps, objects)
    OBVIOUS
  <2>3. /\ s.objects < MaxObjects
        /\ shown' = s.seen /\ keeps' = s.keeps /\ objects' = s.objects
        /\ recast' = (recast /\ IsKept(keeps, cellOf[provided], provided))
        /\ UNCHANGED <<listens, attached>>
    BY <1>3, <2>1, <2>2 DEF RenderHook
  <2>4. objects < MaxObjects /\ objects \in 0 .. MaxObjects
    <3>1. s.objects = (IF IsKept(keeps, cell, provided) \/ ~Makes THEN objects ELSE objects + 1)
      BY <2>2 DEF GetSnapshot
    <3>2. objects \in Nat
      BY <1>0 DEF HookShapes
    <3> QED BY <1>0, <2>3, <3>1, <3>2 DEF HookShapes
  <2>5. IsShot(s, cell, provided, keeps, objects)
    BY <1>0, <2>2, <2>4, GetSnapshotIs DEF HookShapes
  <2>6. /\ shown' \in Seen /\ keeps' \in Kept /\ objects' \in 0 .. MaxObjects /\ keeps'.seen = shown'
    BY <1>0, <2>3, <2>4, <2>5 DEF IsShot
  <2>7. OneValueEach(cellOf, s.keeps, s.seen, s.objects) /\ s.seen.val = cellOf[provided].val
    BY <1>0, <1>3, <2>1, <2>4, <2>5, ShotKeepsValues DEF HookShapes
  <2>8. HookShapes'
    <3>1. recast' \in BOOLEAN
      BY <2>3, Zenon
    <3> QED BY <1>0, <1>1, <2>3, <2>6, <3>1 DEF HookShapes
  <2>9. OneValueEach(cellOf, keeps, shown, objects)'
    BY <1>1, <2>3, <2>7 DEF OneValueEach, Makes
  <2>10. NothingMissed'
    <3>1. IsKept(s.keeps, cell, provided) /\ s.keeps.seen = s.seen
      BY <1>0, <2>4, <2>5, ShotIsKept DEF HookShapes, IsShot
    <3>2. IsCurrent(cellOf[provided], s.keeps, s.seen)
      BY <2>1, <2>7, <3>1 DEF IsCurrent
    <3> QED BY <1>1, <2>3, <3>2 DEF NothingMissed, IsCurrent, IsKept, ShallowEqual, Makes
  <2>11. ListensHere'
    BY <1>0, <1>1, <2>3 DEF ListensHere
  <2>12. KindIsKnown'
    <3>1. SUFFICES ASSUME ~recast' PROVE s.seen.as = element
      BY <1>1, <2>3, <2>6 DEF KindIsKnown, OfItsKind
    <3>2. CASE IsKept(keeps, cell, provided)
      <4>1. ~recast /\ keeps # Absent /\ s.seen = keeps.seen
        BY <2>1, <2>3, <2>5, <3>1, <3>2 DEF IsShot, IsKept
      <4> QED BY <1>0, <4>1 DEF KindIsKnown, OfItsKind
    <3>3. CASE ~IsKept(keeps, cell, provided)
      BY <2>5, <3>3 DEF IsShot
    <3> QED BY <3>2, <3>3
  <2> QED BY <2>8, <2>9, <2>10, <2>11, <2>12 DEF HookInv
<1> QED BY <1>2, <1>3

LEMMA AttachKeeps == ASSUME HookInv, Attach PROVE HookInv'
<1>0. /\ HookShapes /\ OneValueEach(cellOf, keeps, shown, objects) /\ NothingMissed /\ ListensHere /\ KindIsKnown
      /\ MaxObjects \in Nat
  BY StoreAssumption DEF HookInv
<1>1. /\ shown # Absent /\ objects < MaxObjects /\ attached' = TRUE
      /\ listens' = [graph |-> provided, life |-> lives[provided]]
      /\ Checks(cellOf[provided], objects)
      /\ UNCHANGED <<hook, cellOf, lives, provided, element, shown, unheard, recast>>
  BY DEF Attach
<1>2. /\ keeps' \in {Absent} \cup Kept /\ objects' \in 0 .. MaxObjects /\ dirty' \in BOOLEAN
      /\ OneValueEach(cellOf, keeps', shown, objects')
      /\ shown # Absent /\ cellOf[provided] # Absent /\ ~dirty' => IsCurrent(cellOf[provided], keeps', shown)
      /\ ~recast => OfItsKind(keeps', shown)
  BY <1>0, <1>1, ChecksKeep DEF HookShapes
<1>3. listens' \in Ears /\ listens' # Absent /\ listens'.graph = provided
  BY <1>0, <1>1, AbsentAssumption DEF HookShapes, Ears
<1>4. HookShapes'
  BY <1>0, <1>1, <1>2, <1>3 DEF HookShapes
<1>5. OneValueEach(cellOf, keeps, shown, objects)'
  BY <1>1, <1>2 DEF OneValueEach, Makes
<1>6. NothingMissed'
  BY <1>1, <1>2 DEF NothingMissed, AtRest, IsCurrent, IsKept, ShallowEqual, Makes
<1>7. ListensHere' /\ KindIsKnown'
  BY <1>1, <1>2, <1>3 DEF ListensHere, KindIsKnown, OfItsKind
<1> QED BY <1>4, <1>5, <1>6, <1>7 DEF HookInv


\* A commit of g that leaves the cells c and n objects, told to those who hear it.
LEMMA ToldKeeps ==
  ASSUME HookInv, NEW g \in Store, NEW writes \in BOOLEAN,
         NEW c \in [Store -> {Absent} \cup CellObjects], NEW n \in 0 .. MaxObjects, n < MaxObjects,
         OneValueEach(c, keeps, shown, n), cellOf' = c, Told(g, writes, c[g], n),
         \A h \in Store : c[h] = cellOf[h] \/ (h = g /\ writes),
         unheard' = (unheard /\ ~Hears(g, writes)),
         UNCHANGED <<hook, lives, provided, element, shown, listens, attached, recast>>
  PROVE  HookInv'
<1>0. /\ HookShapes /\ NothingMissed /\ ListensHere /\ KindIsKnown /\ MaxObjects \in Nat
  BY StoreAssumption DEF HookInv
<1>1. unheard' \in BOOLEAN /\ (unheard' <=> unheard /\ ~Hears(g, writes))
  BY Zenon
<1>2. ListensHere'
  BY <1>0 DEF ListensHere
<1>3. CASE Hears(g, writes)
  <2>1. Checks(c[provided], n)
    <3>1. Checks(IF g = provided THEN c[g] ELSE cellOf[provided], n)
      BY <1>3 DEF Told
    <3>2. (IF g = provided THEN c[g] ELSE cellOf[provided]) = c[provided]
      BY <1>0 DEF HookShapes
    <3> QED BY <3>1, <3>2
  <2>2. /\ keeps' \in {Absent} \cup Kept /\ objects' \in 0 .. MaxObjects /\ dirty' \in BOOLEAN
        /\ OneValueEach(c, keeps', shown, objects')
        /\ shown # Absent /\ c[provided] # Absent /\ ~dirty' => IsCurrent(c[provided], keeps', shown)
        /\ ~recast => OfItsKind(keeps', shown)
    BY <1>0, <2>1, ChecksKeep DEF HookShapes
  <2>3. HookShapes'
    BY <1>0, <1>1, <2>2 DEF HookShapes
  <2>4. OneValueEach(cellOf, keeps, shown, objects)'
    BY <2>2 DEF OneValueEach, Makes
  <2>5. NothingMissed'
    BY <2>2 DEF NothingMissed, AtRest, IsCurrent, IsKept, ShallowEqual, Makes
  <2>6. KindIsKnown'
    BY <2>2 DEF KindIsKnown, OfItsKind
  <2> QED BY <1>2, <2>3, <2>4, <2>5, <2>6 DEF HookInv
<1>4. CASE ~Hears(g, writes)
  <2>1. objects' = n /\ UNCHANGED <<dirty, keeps>> /\ unheard' = unheard
    BY <1>0, <1>1, <1>4 DEF Told, HookShapes
  <2>2. HookShapes'
    BY <1>0, <1>1, <2>1 DEF HookShapes
  <2>3. OneValueEach(cellOf, keeps, shown, objects)'
    BY <2>1 DEF OneValueEach, Makes
  <2>4. NothingMissed'
    <3>1. SUFFICES ASSUME shown # Absent, attached, ~dirty, c[provided] # Absent, ~unheard,
                          PerNode => listens.life = lives[provided]
                   PROVE  IsCurrent(c[provided], keeps, shown)
      BY <2>1 DEF NothingMissed, AtRest, Stale, PerNode, IsCurrent, IsKept, ShallowEqual, Makes
    <3>2. listens # Absent /\ listens.graph = provided
      BY <1>0, <3>1 DEF ListensHere
    <3>3. provided = g => ~writes
      BY <1>4, <3>1, <3>2 DEF Hears
    <3>4. c[provided] = cellOf[provided]
      BY <1>0, <3>3 DEF HookShapes
    <3> QED BY <1>0, <3>1, <3>4 DEF NothingMissed, AtRest, Stale
  <2>5. KindIsKnown'
    BY <1>0, <2>1 DEF KindIsKnown, OfItsKind
  <2> QED BY <1>2, <2>2, <2>3, <2>4, <2>5 DEF HookInv
<1> QED BY <1>3, <1>4

\* A cell with an object of its own.
LEMMA NewObject ==
  ASSUME HookShapes, OneValueEach(cellOf, keeps, shown, objects), NEW g \in Store, NEW v \in {0, 1},
         objects + 1 < MaxObjects,
         NEW c, c = [cellOf EXCEPT ![g] = [val |-> v, obj |-> objects + 1]]
  PROVE  /\ c \in [Store -> {Absent} \cup CellObjects] /\ OneValueEach(c, keeps, shown, objects + 1)
         /\ objects + 1 \in 0 .. MaxObjects
<1>0. MaxObjects \in Nat /\ objects \in Nat
  BY StoreAssumption DEF HookShapes
<1>1. PICK m \in Nat : m = objects + 1 /\ m \in Object /\ m \in 0 .. MaxObjects
  <2>1. objects + 1 \in Nat /\ objects + 1 \in 1 .. MaxObjects /\ objects + 1 \in 0 .. MaxObjects
    BY <1>0
  <2> QED BY <2>1 DEF Object
<1>2. PICK cell \in CellObjects : cell = [val |-> v, obj |-> m] /\ cell.obj = m /\ cell.val = v
  <2>1. [val |-> v, obj |-> m] \in CellObjects
    BY <1>1 DEF CellObjects
  <2> QED BY <2>1
<1>3. c \in [Store -> {Absent} \cup CellObjects]
  BY <1>1, <1>2 DEF HookShapes
<1>4. \A h \in Store : c[h] = IF h = g THEN cell ELSE cellOf[h]
  BY <1>1, <1>2 DEF HookShapes
<1>5. /\ \A h \in Store : cellOf[h] # Absent => cellOf[h].obj \in Nat /\ cellOf[h].obj <= objects
      /\ keeps # Absent => /\ keeps.raw \in Nat /\ keeps.raw <= objects
                           /\ keeps.seen.obj \in Nat /\ keeps.seen.obj <= objects
      /\ shown # Absent => shown.obj \in Nat /\ shown.obj <= objects
  BY DEF HookShapes, CellObjects, Object, Kept, Seen, OneValueEach
<1>6. /\ \A h \in Store : c[h] # Absent => c[h].obj <= m
      /\ keeps # Absent => keeps.raw <= m /\ keeps.raw # m /\ keeps.seen.obj <= m
      /\ shown # Absent => shown.obj <= m /\ shown.obj # m
      /\ \A h \in Store : h # g /\ c[h] # Absent => c[h].obj # m
  BY <1>0, <1>1, <1>2, <1>4, <1>5
<1>7. \A h, j \in Store : c[h] # Absent /\ c[j] # Absent /\ c[h].obj = c[j].obj => c[h].val = c[j].val
  BY <1>2, <1>4, <1>6 DEF OneValueEach
<1>8. OneValueEach(c, keeps, shown, m)
  BY <1>2, <1>4, <1>6, <1>7 DEF OneValueEach
<1> QED BY <1>1, <1>3, <1>8

LEMMA CommitsNodeKeeps ==
  ASSUME HookInv, NEW g \in Store, NEW v \in {0, 1}, CommitsNode(g, v)
  PROVE  HookInv'
<1>1. PICK c : c = [cellOf EXCEPT ![g] = [val |-> v, obj |-> objects + 1]]
  OBVIOUS
<1>2. /\ cellOf' = c /\ Told(g, TRUE, c[g], objects + 1) /\ objects + 1 < MaxObjects
      /\ unheard' = (unheard /\ ~Hears(g, TRUE))
      /\ UNCHANGED <<hook, lives, provided, element, shown, listens, attached, recast>>
  BY <1>1 DEF CommitsNode
<1>3. HookShapes /\ OneValueEach(cellOf, keeps, shown, objects)
  BY DEF HookInv
<1>4. /\ c \in [Store -> {Absent} \cup CellObjects] /\ OneValueEach(c, keeps, shown, objects + 1)
      /\ objects + 1 \in 0 .. MaxObjects
  BY <1>1, <1>2, <1>3, NewObject
<1>5. \A h \in Store : c[h] = cellOf[h] \/ (h = g /\ TRUE)
  BY <1>1, <1>3 DEF HookShapes
<1> QED BY <1>2, <1>4, <1>5, ToldKeeps

LEMMA CommitsElsewhereKeeps ==
  ASSUME HookInv, NEW g \in Store, CommitsElsewhere(g)
  PROVE  HookInv'
<1>1. /\ cellOf' = cellOf /\ Told(g, FALSE, cellOf[g], objects) /\ objects < MaxObjects
      /\ unheard' = (unheard /\ ~Hears(g, FALSE))
      /\ UNCHANGED <<hook, lives, provided, element, shown, listens, attached, recast>>
  BY DEF CommitsElsewhere
<1>2. /\ cellOf \in [Store -> {Absent} \cup CellObjects] /\ objects \in 0 .. MaxObjects
      /\ OneValueEach(cellOf, keeps, shown, objects)
  BY DEF HookInv, HookShapes
<1> QED BY <1>1, <1>2, ToldKeeps

LEMMA RegistersNodeKeeps ==
  ASSUME HookInv, NEW g \in Store, NEW v \in {0, 1}, RegistersNode(g, v)
  PROVE  HookInv'
<1>0. HookShapes /\ OneValueEach(cellOf, keeps, shown, objects) /\ ListensHere /\ KindIsKnown
  BY DEF HookInv
<1>1. /\ cellOf' = [cellOf EXCEPT ![g] = [val |-> v, obj |-> objects + 1]] /\ objects + 1 < MaxObjects
      /\ objects' = objects + 1 /\ lives' = [lives EXCEPT ![g] = @ + 1] /\ unheard' = TRUE
      /\ UNCHANGED <<hook, provided, element, shown, keeps, listens, dirty, attached, recast>>
  BY DEF RegistersNode
<1>2. /\ cellOf' \in [Store -> {Absent} \cup CellObjects] /\ OneValueEach(cellOf', keeps, shown, objects + 1)
      /\ objects + 1 \in 0 .. MaxObjects
  BY <1>0, <1>1, NewObject
<1>3. HookShapes'
  <2>1. lives' \in [Store -> Nat]
    BY <1>0, <1>1 DEF HookShapes
  <2> QED BY <1>0, <1>1, <1>2, <2>1 DEF HookShapes
<1>4. OneValueEach(cellOf, keeps, shown, objects)'
  BY <1>1, <1>2 DEF OneValueEach, Makes
<1>5. NothingMissed'
  BY <1>1 DEF NothingMissed, Stale
<1>6. ListensHere' /\ KindIsKnown'
  BY <1>0, <1>1 DEF ListensHere, KindIsKnown, OfItsKind
<1> QED BY <1>3, <1>4, <1>5, <1>6 DEF HookInv

LEMMA DisposesNodeKeeps ==
  ASSUME HookInv, NEW g \in Store, DisposesNode(g)
  PROVE  HookInv'
<1>0. HookShapes /\ OneValueEach(cellOf, keeps, shown, objects) /\ NothingMissed /\ ListensHere /\ KindIsKnown
  BY DEF HookInv
<1>1. /\ cellOf' = [cellOf EXCEPT ![g] = Absent]
      /\ UNCHANGED <<hook, lives, objects, provided, element, shown, keeps, listens, dirty,
                     attached, unheard, recast>>
  BY DEF DisposesNode
<1>2. /\ cellOf' \in [Store -> {Absent} \cup CellObjects]
      /\ \A h \in Store : cellOf'[h] # Absent => cellOf'[h] = cellOf[h]
  BY <1>0, <1>1 DEF HookShapes
<1>3. HookShapes'
  BY <1>0, <1>1, <1>2 DEF HookShapes
<1>4. OneValueEach(cellOf, keeps, shown, objects)'
  BY <1>0, <1>1, <1>2 DEF OneValueEach, Makes
<1>5. NothingMissed'
  <2>1. provided \in Store
    BY <1>0 DEF HookShapes
  <2>2. cellOf'[provided] # Absent => cellOf'[provided] = cellOf[provided]
    BY <1>2, <2>1
  <2> QED BY <1>0, <1>1, <2>2 DEF NothingMissed, AtRest, Stale, PerNode, IsCurrent, IsKept, ShallowEqual, Makes
<1>6. ListensHere' /\ KindIsKnown'
  BY <1>0, <1>1 DEF ListensHere, KindIsKnown, OfItsKind
<1> QED BY <1>3, <1>4, <1>5, <1>6 DEF HookInv

LEMMA ComponentKeeps ==
  ASSUME HookInv, \/ UnmountHook \/ AttachFails
                  \/ \E e \in Element : ChangeElement(e)
                  \/ \E g \in Store : ChangeStore(g)
  PROVE  HookInv'
<1>0. HookShapes /\ OneValueEach(cellOf, keeps, shown, objects) /\ ListensHere /\ KindIsKnown
  BY DEF HookInv
<1>1. CASE UnmountHook \/ AttachFails
  <2>1. /\ shown' = Absent /\ keeps' = Absent /\ listens' = Absent
        /\ dirty' = FALSE /\ attached' = FALSE
        /\ UNCHANGED <<hook, cellOf, lives, objects, provided, element, unheard, recast>>
    BY <1>1 DEF AttachFails, UnmountHook
  <2>2. HookShapes'
    BY <1>0, <2>1 DEF HookShapes
  <2>3. OneValueEach(cellOf, keeps, shown, objects)'
    BY <1>0, <2>1 DEF OneValueEach
  <2> QED BY <2>1, <2>2, <2>3 DEF HookInv, NothingMissed, AtRest, ListensHere, KindIsKnown, OfItsKind
<1>2. ASSUME NEW e \in Element, ChangeElement(e) PROVE HookInv'
  <2>1. /\ element' = e /\ dirty' = TRUE /\ recast' = TRUE
        /\ UNCHANGED <<hook, cellOf, lives, objects, provided, shown, keeps, listens, attached, unheard>>
    BY <1>2 DEF ChangeElement
  <2>2. HookShapes'
    BY <1>0, <2>1 DEF HookShapes
  <2>3. OneValueEach(cellOf, keeps, shown, objects)'
    BY <1>0, <2>1 DEF OneValueEach, Makes
  <2> QED BY <1>0, <2>1, <2>2, <2>3 DEF HookInv, NothingMissed, AtRest, ListensHere, KindIsKnown
<1>3. ASSUME NEW g \in Store, ChangeStore(g) PROVE HookInv'
  <2>1. /\ provided' = g /\ dirty' = (shown # Absent) /\ attached' = FALSE
        /\ UNCHANGED <<hook, cellOf, lives, objects, element, shown, keeps, listens, unheard, recast>>
    BY <1>3 DEF ChangeStore
  <2>2. HookShapes'
    <3>1. dirty' \in BOOLEAN
      BY <2>1, Zenon
    <3> QED BY <1>0, <2>1, <3>1 DEF HookShapes
  <2>3. OneValueEach(cellOf, keeps, shown, objects)'
    BY <1>0, <2>1 DEF OneValueEach, Makes
  <2>4. KindIsKnown'
    BY <1>0, <2>1 DEF KindIsKnown, OfItsKind
  <2> QED BY <2>1, <2>2, <2>3, <2>4 DEF HookInv, NothingMissed, AtRest, ListensHere
<1> QED BY <1>1, <1>2, <1>3

LEMMA HookStepKeeps == ASSUME HookInv, [HookNext]_hookVars PROVE HookInv'
<1>1. CASE UNCHANGED hookVars
  <2>1. UNCHANGED <<hook, cellOf, lives, objects, provided, element, shown, keeps,
                    listens, dirty, attached, unheard, recast>>
    BY <1>1 DEF hookVars
  <2>2. HookShapes' /\ ListensHere' /\ KindIsKnown'
    BY <2>1 DEF HookInv, HookShapes, ListensHere, KindIsKnown, OfItsKind
  <2>3. OneValueEach(cellOf, keeps, shown, objects)'
    BY <2>1 DEF HookInv, OneValueEach, Makes
  <2>4. NothingMissed'
    BY <2>1 DEF HookInv, NothingMissed, AtRest, Stale, PerNode, IsCurrent, IsKept, ShallowEqual, Makes
  <2> QED BY <2>2, <2>3, <2>4 DEF HookInv
<1> QED BY <1>1, RenderKeeps, AttachKeeps, ComponentKeeps, CommitsNodeKeeps, CommitsElsewhereKeeps,
           DisposesNodeKeeps, RegistersNodeKeeps DEF HookNext

LEMMA HookInvSound == ASSUME HookInv PROVE HooksSound
<1>0. /\ HookShapes /\ OneValueEach(cellOf, keeps, shown, objects) /\ NothingMissed /\ KindIsKnown
      /\ MaxObjects \in Nat
  BY StoreAssumption DEF HookInv
<1>1. ScreenIsCurrent
  BY <1>0 DEF ScreenIsCurrent, NothingMissed, Stale, IsCurrent
<1>2. SnapshotIsStable
  <2>1. SUFFICES ASSUME AtRest, ~Stale
                 PROVE  GetSnapshot(cellOf[provided], provided, keeps, objects).seen.obj = shown.obj
    BY DEF SnapshotIsStable, Stale
  <2>2. IsCurrent(cellOf[provided], keeps, shown)
    BY <1>0, <2>1 DEF NothingMissed
  <2>3. PICK cell : cell = cellOf[provided]
    OBVIOUS
  <2>4. CASE IsKept(keeps, cell, provided)
    <3>1. GetSnapshot(cell, provided, keeps, objects).seen = keeps.seen
      BY <2>4 DEF GetSnapshot
    <3> QED BY <2>2, <2>3, <2>4, <3>1 DEF IsCurrent
  <2>5. CASE ~IsKept(keeps, cell, provided)
    <3>1. ~Makes /\ cell.obj = shown.obj
      BY <2>2, <2>3, <2>5 DEF IsCurrent
    <3>2. GetSnapshot(cell, provided, keeps, objects).seen = [val |-> cell.val, obj |-> cell.obj, as |-> element]
      BY <2>5, <3>1 DEF GetSnapshot
    <3> QED BY <2>3, <3>1, <3>2
  <2> QED BY <2>4, <2>5
<1>3. ArrayIsOfItsKind
  BY <1>0 DEF ArrayIsOfItsKind, AtRest, KindIsKnown, OfItsKind
<1> QED BY <1>1, <1>2, <1>3 DEF HooksSound

-----------------------------------------------------------------------------
(* Registries: the snapshot and the promise kept for a graph.              *)

RegistryShapes ==
  /\ hydrated \in [Root -> Dump \cup {None}]
  /\ applied \in [Root -> Seq(Dump)]
  /\ hosts \in [Hydrator -> {Off} \cup (Root \X Dump)]
  /\ promises \in Seq(BOOLEAN) /\ idle \in [Root -> 0 .. Len(promises)]
  /\ asleep \in [Sleeper -> 0 .. Len(promises)]

\* The registry remembers the snapshot a graph was hydrated with last.
LastIsKnown ==
  \A g \in Root : applied[g] # <<>> => hydrated[g] = applied[g][Len(applied[g])]

\* No two graphs share a promise.
OwnPromises == \A g, h \in Root : idle[g] # 0 /\ idle[g] = idle[h] => g = h

RegistryInv == RegistryShapes /\ LastIsKnown /\ OwnPromises /\ RegistriesSound

LEMMA RegistryInitHolds == ASSUME RegistryInit PROVE RegistryInv
<1>1. RegistryShapes
  BY EmptySeq DEF RegistryInit, RegistryShapes
<1>2. LastIsKnown /\ OwnPromises /\ SleepersAreWoken /\ FreshPromises
  BY DEF RegistryInit, LastIsKnown, OwnPromises, SleepersAreWoken, FreshPromises
<1>3. NeverTwiceInARow
  <2>1. \A g \in Root : applied[g] = <<>>
    BY DEF RegistryInit
  <2>2. Len(<<>>) = 0
    OBVIOUS
  <2> QED BY <2>1, <2>2 DEF NeverTwiceInARow
<1> QED BY <1>1, <1>2, <1>3 DEF RegistryInv, RegistriesSound

\* What a commit of g does to promises.
LEMMA WakesKeeps ==
  ASSUME RegistryInv, NEW g \in Root, Wakes(g), UNCHANGED asleep
  PROVE  /\ promises' \in Seq(BOOLEAN) /\ idle' \in [Root -> 0 .. Len(promises')]
         /\ asleep' \in [Sleeper -> 0 .. Len(promises')]
         /\ OwnPromises' /\ SleepersAreWoken' /\ FreshPromises'
<1>1. /\ promises \in Seq(BOOLEAN) /\ idle \in [Root -> 0 .. Len(promises)]
      /\ asleep \in [Sleeper -> 0 .. Len(promises)]
      /\ OwnPromises /\ SleepersAreWoken /\ FreshPromises
  BY DEF RegistryInv, RegistryShapes, RegistriesSound
<1>2. PICK n \in Nat : n = Len(promises) /\ DOMAIN promises = 1 .. n
  BY <1>1
<1>3. promises' = [k \in 1 .. n |-> promises[k] \/ k = idle[g]]
  BY <1>2 DEF Wakes
<1>4. promises' \in [1 .. n -> BOOLEAN]
  BY <1>3, Zenon
<1>5. promises' \in Seq(BOOLEAN) /\ Len(promises') = n
  BY <1>2, <1>4, <1>3
<1>6. \A k \in 1 .. n : promises'[k] <=> (promises[k] \/ k = idle[g])
  BY <1>3, Zenon
<1>7. idle' = [idle EXCEPT ![g] = 0]
  BY DEF Wakes
<1>8. /\ idle' \in [Root -> 0 .. n] /\ asleep' \in [Sleeper -> 0 .. n]
      /\ \A h \in Root : idle'[h] = (IF h = g THEN 0 ELSE idle[h])
  BY <1>1, <1>2, <1>7
<1>9. OwnPromises'
  BY <1>1, <1>8 DEF OwnPromises
<1>10. SleepersAreWoken'
  <2>1. SUFFICES ASSUME NEW c \in Sleeper, asleep[c] # 0
                 PROVE  promises'[asleep[c]] \/ \E h \in Root : idle'[h] = asleep[c]
    BY DEF SleepersAreWoken
  <2>2. asleep[c] \in 1 .. n
    BY <1>1, <1>2, <2>1
  <2>3. promises[asleep[c]] \/ \E h \in Root : idle[h] = asleep[c]
    BY <1>1, <2>1 DEF SleepersAreWoken
  <2> QED BY <1>6, <1>8, <2>1, <2>2, <2>3, Zenon
<1>11. FreshPromises'
  <2>1. SUFFICES ASSUME NEW h \in Root, idle'[h] # 0 PROVE ~promises'[idle'[h]]
    BY DEF FreshPromises
  <2>2. h # g /\ idle'[h] = idle[h] /\ idle[h] # 0
    BY <1>8, <2>1
  <2>3. idle[h] # idle[g]
    BY <1>1, <2>2 DEF OwnPromises
  <2>4. idle[h] \in 1 .. n /\ ~promises[idle[h]]
    BY <1>1, <1>2, <2>2 DEF FreshPromises
  <2> QED BY <1>6, <2>2, <2>3, <2>4, Zenon
<1> QED BY <1>5, <1>8, <1>9, <1>10, <1>11

LEMMA HydrateKeeps ==
  ASSUME RegistryInv, NEW g \in Root, NEW s \in Dump, HydrateEffect(g, s), UNCHANGED asleep,
         hosts' \in [Hydrator -> {Off} \cup (Root \X Dump)]
  PROVE  RegistryInv'
<1>0. RegistryShapes /\ LastIsKnown /\ OwnPromises /\ NeverTwiceInARow /\ SleepersAreWoken /\ FreshPromises
  BY DEF RegistryInv, RegistriesSound
<1>1. CASE hydrated[g] = s
  BY <1>0, <1>1 DEF HydrateEffect, RegistryInv, RegistriesSound, RegistryShapes, LastIsKnown, OwnPromises,
                    NeverTwiceInARow, SleepersAreWoken, FreshPromises
<1>2. CASE hydrated[g] # s
  <2>1. /\ hydrated' = [hydrated EXCEPT ![g] = s]
        /\ applied' = [applied EXCEPT ![g] = Append(applied[g], s)] /\ Wakes(g)
    BY <1>2 DEF HydrateEffect
  <2>2. /\ hydrated \in [Root -> Dump \cup {None}] /\ applied \in [Root -> Seq(Dump)]
    BY <1>0 DEF RegistryShapes
  <2>3. PICK old1 \in Seq(Dump) : old1 = applied[g]
    BY <2>2
  <2>4. PICK new1 \in Seq(Dump) : new1 = Append(old1, s)
    BY AppendProperties
  <2>5. /\ Len(new1) = Len(old1) + 1 /\ new1[Len(old1) + 1] = s /\ new1 # <<>>
        /\ \A k \in 1 .. Len(old1) : new1[k] = old1[k]
    BY <2>4, AppendProperties
  <2>6. /\ hydrated' \in [Root -> Dump \cup {None}] /\ applied' \in [Root -> Seq(Dump)]
        /\ hydrated'[g] = s /\ applied'[g] = new1
        /\ \A h \in Root : h # g => hydrated'[h] = hydrated[h] /\ applied'[h] = applied[h]
    BY <2>1, <2>2, <2>3, <2>4
  <2>7. LastIsKnown'
    BY <1>0, <2>5, <2>6 DEF LastIsKnown
  <2>8. NeverTwiceInARow'
    <3>1. SUFFICES ASSUME NEW h \in Root, NEW k \in 1 .. (Len(applied'[h]) - 1)
                   PROVE  applied'[h][k] # applied'[h][k + 1]
      BY DEF NeverTwiceInARow
    <3>2. CASE h # g
      BY <1>0, <2>6, <3>2 DEF NeverTwiceInARow
    <3>3. CASE h = g
      <4>1. k \in 1 .. Len(old1)
        BY <2>5, <2>6, <3>3
      <4>2. CASE k = Len(old1)
        <5>1. old1 # <<>>
          BY <4>1
        <5>2. old1[k] = hydrated[g]
          BY <1>0, <2>3, <4>2, <5>1 DEF LastIsKnown
        <5> QED BY <1>2, <2>5, <2>6, <3>3, <4>1, <4>2, <5>2
      <4>3. CASE k # Len(old1)
        <5>1. k \in 1 .. (Len(old1) - 1) /\ k + 1 \in 1 .. Len(old1)
          BY <4>1, <4>3
        <5>2. old1[k] # old1[k + 1]
          BY <1>0, <2>3, <5>1 DEF NeverTwiceInARow
        <5> QED BY <2>5, <2>6, <3>3, <5>1, <5>2
      <4> QED BY <4>2, <4>3
    <3> QED BY <3>2, <3>3
  <2> QED BY <2>1, <2>6, <2>7, <2>8, WakesKeeps DEF RegistryInv, RegistriesSound, RegistryShapes
<1> QED BY <1>1, <1>2

LEMMA FallAsleepKeeps ==
  ASSUME RegistryInv, NEW c \in Sleeper, NEW g \in Root, FallAsleep(c, g)
  PROVE  RegistryInv'
<1>0. RegistryShapes /\ LastIsKnown /\ OwnPromises /\ NeverTwiceInARow /\ SleepersAreWoken /\ FreshPromises
  BY DEF RegistryInv, RegistriesSound
<1>1. /\ UNCHANGED <<hydrated, applied, hosts>> /\ asleep[c] = 0
      /\ asleep' = [asleep EXCEPT ![c] = idle'[g]]
  BY DEF FallAsleep
<1>2. /\ promises \in Seq(BOOLEAN) /\ idle \in [Root -> 0 .. Len(promises)]
      /\ asleep \in [Sleeper -> 0 .. Len(promises)]
  BY <1>0 DEF RegistryShapes
<1>3. LastIsKnown' /\ NeverTwiceInARow'
  BY <1>0, <1>1 DEF LastIsKnown, NeverTwiceInARow
<1>4. PICK n \in Nat : n = Len(promises) /\ DOMAIN promises = 1 .. n
  BY <1>2
<1>5. CASE idle[g] # 0 /\ UNCHANGED <<idle, promises>>
  <2>1. \A d \in Sleeper : asleep'[d] = IF d = c THEN idle[g] ELSE asleep[d]
    BY <1>1, <1>2, <1>5
  <2>2. asleep' \in [Sleeper -> 0 .. n]
    BY <1>1, <1>2, <1>4, <1>5
  <2>3. RegistryShapes'
    BY <1>0, <1>1, <1>4, <1>5, <2>2 DEF RegistryShapes
  <2>4. SleepersAreWoken'
    BY <1>0, <1>5, <2>1, Zenon DEF SleepersAreWoken
  <2>5. OwnPromises' /\ FreshPromises'
    BY <1>0, <1>5 DEF OwnPromises, FreshPromises
  <2> QED BY <1>3, <2>3, <2>4, <2>5 DEF RegistryInv, RegistriesSound
<1>6. CASE idle[g] = 0 /\ promises' = Append(promises, FALSE) /\ idle' = [idle EXCEPT ![g] = Len(promises')]
  <2>1. PICK more \in Seq(BOOLEAN) : more = Append(promises, FALSE)
    BY <1>2, AppendProperties
  <2>2. /\ Len(more) = n + 1 /\ more[n + 1] = FALSE /\ \A k \in 1 .. n : more[k] = promises[k]
    BY <1>2, <1>4, <2>1, AppendProperties
  <2>3. promises' = more /\ idle' = [idle EXCEPT ![g] = n + 1]
    BY <1>6, <2>1, <2>2
  <2>4. /\ \A h \in Root : idle'[h] = IF h = g THEN n + 1 ELSE idle[h]
        /\ \A d \in Sleeper : asleep'[d] = IF d = c THEN n + 1 ELSE asleep[d]
        /\ \A h \in Root : idle[h] \in 0 .. n
        /\ \A d \in Sleeper : asleep[d] \in 0 .. n
    BY <1>1, <1>2, <1>4, <2>3
  <2>5. idle' \in [Root -> 0 .. n + 1] /\ asleep' \in [Sleeper -> 0 .. n + 1]
    <3>1. idle' = [h \in Root |-> idle'[h]] /\ asleep' = [d \in Sleeper |-> asleep'[d]]
      BY <1>1, <1>2, <2>3
    <3>2. \A x : x \in 0 .. n \/ x = n + 1 => x \in 0 .. n + 1
      BY <1>4
    <3> QED BY <2>4, <3>1, <3>2
  <2>6. RegistryShapes'
    BY <1>0, <1>1, <2>2, <2>3, <2>5 DEF RegistryShapes
  <2>7. \A x \in 0 .. n : x # n + 1
    BY <1>4
  <2>8. OwnPromises'
    BY <1>0, <2>4, <2>7 DEF OwnPromises
  <2>9. SleepersAreWoken'
    <3>1. SUFFICES ASSUME NEW d \in Sleeper, asleep'[d] # 0
                   PROVE  promises'[asleep'[d]] \/ \E h \in Root : idle'[h] = asleep'[d]
      BY DEF SleepersAreWoken
    <3>2. CASE d = c
      BY <2>4, <3>2
    <3>3. CASE d # c
      <4>1. asleep'[d] = asleep[d] /\ asleep[d] \in 1 .. n
        BY <1>4, <2>4, <3>1, <3>3
      <4>2. CASE promises[asleep[d]]
        BY <2>2, <2>3, <4>1, <4>2, Zenon
      <4>3. CASE \E h \in Root : idle[h] = asleep[d]
        <5>1. PICK h \in Root : idle[h] = asleep[d]
          BY <4>3
        <5>2. h # g
          BY <1>6, <3>1, <4>1, <5>1
        <5> QED BY <2>4, <4>1, <5>1, <5>2
      <4> QED BY <1>0, <3>1, <4>1, <4>2, <4>3 DEF SleepersAreWoken
    <3> QED BY <3>2, <3>3
  <2>10. FreshPromises'
    <3>1. SUFFICES ASSUME NEW h \in Root, idle'[h] # 0 PROVE ~promises'[idle'[h]]
      BY DEF FreshPromises
    <3>2. CASE h = g
      BY <2>2, <2>3, <2>4, <3>2
    <3>3. CASE h # g
      <4>1. idle'[h] = idle[h] /\ idle[h] \in 1 .. n
        BY <1>4, <2>4, <3>1, <3>3
      <4>2. ~promises[idle[h]]
        BY <1>0, <3>1, <4>1 DEF FreshPromises
      <4> QED BY <2>2, <2>3, <4>1, <4>2, Zenon
    <3> QED BY <3>2, <3>3
  <2> QED BY <1>3, <2>6, <2>8, <2>9, <2>10 DEF RegistryInv, RegistriesSound
<1> QED BY <1>5, <1>6 DEF FallAsleep

LEMMA RegistryStepKeeps == ASSUME RegistryInv, [RegistryNext]_registryVars PROVE RegistryInv'
<1>0. RegistryShapes /\ LastIsKnown /\ OwnPromises /\ NeverTwiceInARow /\ SleepersAreWoken /\ FreshPromises
  BY DEF RegistryInv, RegistriesSound
<1>1. ASSUME NEW g \in Root, Commits(g) PROVE RegistryInv'
  <2>1. /\ promises' \in Seq(BOOLEAN) /\ idle' \in [Root -> 0 .. Len(promises')]
        /\ asleep' \in [Sleeper -> 0 .. Len(promises')]
        /\ OwnPromises' /\ SleepersAreWoken' /\ FreshPromises'
    BY <1>1, WakesKeeps DEF Commits
  <2>2. UNCHANGED <<hydrated, applied, hosts>>
    BY <1>1 DEF Commits
  <2>3. LastIsKnown' /\ NeverTwiceInARow'
    BY <1>0, <2>2 DEF LastIsKnown, NeverTwiceInARow
  <2> QED BY <1>0, <2>1, <2>2, <2>3 DEF RegistryInv, RegistriesSound, RegistryShapes
<1>2. ASSUME NEW h \in Hydrator, NEW g \in Root, NEW s \in Dump, MountHydrate(h, g, s) \/ SwapGraph(h, g, s)
      PROVE  RegistryInv'
  <2>1. HydrateEffect(g, s) /\ UNCHANGED asleep /\ hosts' = [hosts EXCEPT ![h] = <<g, s>>]
    BY <1>2 DEF MountHydrate, SwapGraph
  <2>2. hosts' \in [Hydrator -> {Off} \cup (Root \X Dump)]
    BY <1>0, <2>1 DEF RegistryShapes
  <2> QED BY <2>1, <2>2, HydrateKeeps
<1>3. ASSUME NEW h \in Hydrator, RunAgain(h) PROVE RegistryInv'
  <2>1. hosts[h] \in {Off} \cup (Root \X Dump) /\ hosts[h] # Off
    BY <1>0, <1>3 DEF RegistryShapes, RunAgain
  <2>2. PICK g \in Root, s \in Dump : hosts[h] = <<g, s>>
    BY <2>1
  <2>3. HydrateEffect(g, s) /\ UNCHANGED <<hosts, asleep>>
    BY <1>3, <2>2 DEF RunAgain
  <2> QED BY <1>0, <2>3, HydrateKeeps DEF RegistryShapes
<1>4. ASSUME NEW h \in Hydrator, UnmountHydrate(h) PROVE RegistryInv'
  <2>1. UNCHANGED <<hydrated, applied, idle, promises, asleep>> /\ hosts' = [hosts EXCEPT ![h] = Off]
    BY <1>4 DEF UnmountHydrate
  <2>2. RegistryShapes'
    BY <1>0, <2>1 DEF RegistryShapes
  <2> QED BY <1>0, <2>1, <2>2 DEF RegistryInv, RegistriesSound, LastIsKnown, OwnPromises,
                                  NeverTwiceInARow, SleepersAreWoken, FreshPromises
<1>5. ASSUME NEW c \in Sleeper, WakeUp(c) PROVE RegistryInv'
  <2>1. UNCHANGED <<hydrated, applied, hosts, idle, promises>> /\ asleep' = [asleep EXCEPT ![c] = 0]
    BY <1>5 DEF WakeUp
  <2>2. RegistryShapes'
    BY <1>0, <2>1 DEF RegistryShapes
  <2>3. \A d \in Sleeper : asleep'[d] # 0 => asleep'[d] = asleep[d]
    BY <1>0, <2>1 DEF RegistryShapes
  <2>4. SleepersAreWoken'
    BY <1>0, <2>1, <2>3, Zenon DEF SleepersAreWoken
  <2> QED BY <1>0, <2>1, <2>2, <2>4 DEF RegistryInv, RegistriesSound, LastIsKnown, OwnPromises,
                                  NeverTwiceInARow, FreshPromises
<1>6. CASE UNCHANGED registryVars
  BY <1>0, <1>6 DEF registryVars, RegistryInv, RegistriesSound, RegistryShapes, LastIsKnown, OwnPromises,
                    NeverTwiceInARow, SleepersAreWoken, FreshPromises
<1> QED BY <1>1, <1>2, <1>3, <1>4, <1>5, <1>6, FallAsleepKeeps DEF RegistryNext

\* A component of the page has its node or was overtaken, entries count the
\* components on them, what nobody counts on is cleared away; a hook at rest shows
\* the present value and gives the same object again; no graph is hydrated twice in
\* a row with one snapshot, and whoever sleeps on a graph is woken.
THEOREM PageIsSound == ReactSpec => []ReactSound
<1>1. FamilySpec => []FamiliesSound
  BY FamilyInitHolds, FamilyStepKeeps, FamilyInvSound, PTL DEF FamilySpec
<1>2. HookSpec => []HooksSound
  BY HookInitHolds, HookStepKeeps, HookInvSound, PTL DEF HookSpec
<1>3. RegistrySpec => []RegistriesSound
  <2>1. RegistryInv => RegistriesSound
    BY DEF RegistryInv
  <2> QED BY <2>1, RegistryInitHolds, RegistryStepKeeps, PTL DEF RegistrySpec
<1> QED BY <1>1, <1>2, <1>3, PTL DEF ReactSpec, ReactSound

-----------------------------------------------------------------------------
(* Adaptation: the engine of a graph and the engine it changes over to.    *)

Ids(h, kind) == {log[h][k].id : k \in {j \in DOMAIN log[h] : log[h][j].kind = kind}}

\* No two registrations of a kind name the same id.
NamedOnce(h) ==
  \A j, k \in DOMAIN log[h] :
    log[h][j].kind = log[h][k].kind /\ log[h][j].id = log[h][k].id => j = k

\* The first engine has exactly what is in the log, so that a replay on a fresh
\* engine gives the same nodes; the second may have nodes of others as well.
EngineHasTheLog(h) ==
  /\ inner[h] = "old" => /\ DOMAIN old[h].cells = Ids(h, "input")
                         /\ old[h].computes = Ids(h, "derived")
                         /\ NamedOnce(h)
  /\ inner[h] = "backend" => Ids(h, "input") \subseteq DOMAIN backend.cells /\ backend.time > 0

FollowsWrites(h) ==
  \A i \in Inputs(h) :
    Read(h, i) = written[h][i] \/ (written[h][i] = Unkept /\ Read(h, i) = Blank)

WatchesWhatIs(h) ==
  \A i \in Cell : told[h][i] # NotTold => i \in Inputs(h) /\ told[h][i] = Read(h, i)

HostInv(h) ==
  /\ log[h] \in Seq(Entry)
  /\ told[h] \in [Cell -> Content \cup {NotTold}]
  /\ written[h] \in [Cell -> Content]
  /\ commits[h] \in Nat
  /\ stage[h] # "swapped" => inner[h] = "old"
  /\ inner[h] \in {"old", "backend"}
  /\ Engine(h).time = commits[h]
  /\ stream[h] = [k \in 1..commits[h] |-> k]
  /\ EngineHasTheLog(h) /\ FollowsWrites(h) /\ WatchesWhatIs(h)

\* At most one graph has moved to the shared engine, and until one has, there
\* is nothing on it but registrations.
OneMoved == \A g, h \in Host : inner[g] = "backend" /\ inner[h] = "backend" => g = h
UnusedIsBlank ==
  (\A h \in Host : inner[h] = "old") =>
    backend.time = 0 /\ \A i \in DOMAIN backend.cells : backend.cells[i] = Blank

IsEngine(e) == e = [cells |-> e.cells, computes |-> e.computes, time |-> e.time]

AdaptFrame ==
  /\ IsEngine(backend) /\ \A h \in Host : IsEngine(old[h])
  /\ log = [h \in Host |-> log[h]] /\ old = [h \in Host |-> old[h]]
  /\ inner = [h \in Host |-> inner[h]] /\ stage = [h \in Host |-> stage[h]]
  /\ threw = [h \in Host |-> threw[h]] /\ told = [h \in Host |-> told[h]]
  /\ stream = [h \in Host |-> stream[h]] /\ written = [h \in Host |-> written[h]]
  /\ commits = [h \in Host |-> commits[h]]

AdaptInv == AdaptFrame /\ (\A h \in Host : HostInv(h)) /\ OneMoved /\ UnusedIsBlank

LEMMA AdaptInitHolds == AdaptInit => AdaptInv
<1> SUFFICES ASSUME AdaptInit PROVE AdaptInv
  OBVIOUS
<1>0. DOMAIN <<>> = {} /\ Blank \in Content
  BY ContentAssumption
<1>1. ASSUME NEW h \in Host PROVE HostInv(h)
  <2>1. /\ log[h] = <<>> /\ old[h] = Fresh /\ inner[h] = "old" /\ stage[h] = "watching"
        /\ told[h] = [i \in Cell |-> NotTold] /\ stream[h] = <<>> /\ commits[h] = 0
        /\ written[h] = [i \in Cell |-> Blank]
    BY DEF AdaptInit
  <2>2. Ids(h, "input") = {} /\ Ids(h, "derived") = {} /\ Inputs(h) = {} /\ NamedOnce(h)
    BY <1>0, <2>1 DEF Ids, Inputs, NamedOnce
  <2>3. EngineHasTheLog(h) /\ FollowsWrites(h) /\ WatchesWhatIs(h) /\ Engine(h).time = 0
    BY <1>0, <2>1, <2>2 DEF EngineHasTheLog, FollowsWrites, WatchesWhatIs, Engine, Fresh
  <2>4. stream[h] = [k \in 1..commits[h] |-> k]
    BY <2>1
  <2>5. log[h] \in Seq(Entry) /\ told[h] \in [Cell -> Content \cup {NotTold}]
        /\ written[h] \in [Cell -> Content]
    BY <1>0, <2>1
  <2> QED BY <2>1, <2>3, <2>4, <2>5 DEF HostInv
<1>2. AdaptFrame
  BY DEF AdaptFrame, AdaptInit, IsEngine, Fresh
<1>3. OneMoved /\ UnusedIsBlank
  BY <1>0 DEF OneMoved, UnusedIsBlank, AdaptInit, Fresh
<1> QED BY <1>1, <1>2, <1>3 DEF AdaptInv

\* An engine that was only added to.
Grown(before, after) ==
  /\ after.time = before.time /\ DOMAIN before.cells \subseteq DOMAIN after.cells
  /\ \A i \in DOMAIN before.cells : after.cells[i] = before.cells[i]

\* What another graph does leaves a graph as it was.
Undisturbed(g) ==
  /\ log'[g] = log[g] /\ old'[g] = old[g] /\ inner'[g] = inner[g] /\ stage'[g] = stage[g]
  /\ told'[g] = told[g] /\ stream'[g] = stream[g] /\ written'[g] = written[g]
  /\ commits'[g] = commits[g]
  /\ inner[g] = "old" \/ Grown(backend, backend')

LEMMA SamePrograms ==
  \A g \in Host : log'[g] = log[g] =>
    /\ Inputs(g)' = Inputs(g)
    /\ Ids(g, "input")' = Ids(g, "input") /\ Ids(g, "derived")' = Ids(g, "derived")
    /\ NamedOnce(g) => NamedOnce(g)'
BY DEF Inputs, NamedOnce, Ids

LEMMA InputsAreIds == \A g \in Host : Inputs(g) = Ids(g, "input")
BY DEF Inputs, Ids

LEMMA InputsAreCells == \A g \in Host : log[g] \in Seq(Entry) => Inputs(g) \subseteq Cell
<1> SUFFICES ASSUME NEW g \in Host, log[g] \in Seq(Entry), NEW c \in Inputs(g) PROVE c \in Cell
  OBVIOUS
<1>1. PICK k \in DOMAIN log[g] : c = log[g][k].id
  BY DEF Inputs
<1>2. log[g][k] \in Entry
  BY <1>1
<1> QED BY <1>1, <1>2 DEF Entry

LEMMA HostKept == \A g \in Host : HostInv(g) /\ Undisturbed(g) => HostInv(g)'
<1> SUFFICES ASSUME NEW g \in Host, HostInv(g), Undisturbed(g) PROVE HostInv(g)'
  OBVIOUS
<1>1. /\ Inputs(g)' = Inputs(g) /\ (NamedOnce(g) => NamedOnce(g)') /\ Inputs(g) = Ids(g, "input")
      /\ Ids(g, "input")' = Ids(g, "input") /\ Ids(g, "derived")' = Ids(g, "derived")
  BY SamePrograms, InputsAreIds DEF Undisturbed
<1>2. \A i \in Inputs(g) : Read(g, i)' = Read(g, i)
  BY <1>1 DEF Read, Engine, Undisturbed, Grown, HostInv, EngineHasTheLog
<1>3. Engine(g).time' = Engine(g).time
  BY DEF Engine, Undisturbed, Grown
<1>4. EngineHasTheLog(g)'
  BY <1>1 DEF Undisturbed, Grown, HostInv, EngineHasTheLog
<1>5. FollowsWrites(g)'
  BY <1>1, <1>2 DEF Undisturbed, HostInv, FollowsWrites
<1>6. WatchesWhatIs(g)'
  BY <1>1, <1>2 DEF Undisturbed, HostInv, WatchesWhatIs
<1> QED BY <1>3, <1>4, <1>5, <1>6 DEF Undisturbed, HostInv


LEMMA RestKept ==
  \A h \in Host : AdaptInv /\ AdaptFrame' /\ (\A g \in Host \ {h} : Undisturbed(g)) /\ HostInv(h)'
                  /\ OneMoved' /\ UnusedIsBlank' => AdaptInv'
<1> SUFFICES ASSUME NEW h \in Host, AdaptInv, AdaptFrame', \A g \in Host \ {h} : Undisturbed(g),
                    HostInv(h)', OneMoved', UnusedIsBlank'
             PROVE  AdaptInv'
  OBVIOUS
<1>1. ASSUME NEW g \in Host PROVE HostInv(g)'
  <2>1. CASE g = h
    BY <2>1
  <2>2. CASE g # h
    BY <2>2, HostKept DEF AdaptInv
  <2> QED BY <2>1, <2>2
<1> QED BY <1>1 DEF AdaptInv

\* A step that changes neither engines nor registrations nor the commits.
LEMMA WatchKeeps == \A h \in Host, i \in Cell : AdaptInv /\ Watch(h, i) => AdaptInv'
<1> SUFFICES ASSUME NEW h \in Host, NEW i \in Cell, AdaptInv, Watch(h, i) PROVE AdaptInv'
  OBVIOUS
<1>0. /\ log' = log /\ old' = old /\ backend' = backend /\ inner' = inner /\ stage' = stage
      /\ stream' = stream /\ written' = written /\ commits' = commits /\ threw' = threw
      /\ i \in Inputs(h) /\ told' = [told EXCEPT ![h][i] = Read(h, i)]
  BY DEF Watch, engines, control
<1>1. HostInv(h) /\ AdaptFrame /\ ContentAssumption
  BY ContentAssumption DEF AdaptInv
<1>2. told'[h] = [told[h] EXCEPT ![i] = Read(h, i)] /\ \A g \in Host \ {h} : told'[g] = told[g]
  BY <1>0, <1>1 DEF AdaptFrame
<1>3. Read(h, i) \in Content
  BY <1>0, <1>1, ContentAssumption DEF HostInv, FollowsWrites
<1>4. told'[h] \in [Cell -> Content \cup {NotTold}] /\ told'[h][i] = Read(h, i)
      /\ \A j \in Cell \ {i} : told'[h][j] = told[h][j]
  BY <1>1, <1>2, <1>3 DEF HostInv
<1>5. \A j \in Cell : Read(h, j)' = Read(h, j)
  BY <1>0 DEF Read, Engine
<1>6. Inputs(h)' = Inputs(h) /\ (NamedOnce(h) => NamedOnce(h)') /\ Engine(h)' = Engine(h)
      /\ Ids(h, "input")' = Ids(h, "input") /\ Ids(h, "derived")' = Ids(h, "derived")
  BY <1>0, SamePrograms DEF Engine
<1>7. WatchesWhatIs(h)'
  BY <1>0, <1>1, <1>4, <1>5, <1>6 DEF HostInv, WatchesWhatIs
<1>8. FollowsWrites(h)'
  BY <1>0, <1>1, <1>6 DEF HostInv, FollowsWrites, Read
<1>9. EngineHasTheLog(h)'
  BY <1>0, <1>1, <1>6 DEF HostInv, EngineHasTheLog
<1>10. HostInv(h)'
  BY <1>0, <1>1, <1>4, <1>6, <1>7, <1>8, <1>9 DEF HostInv
<1>11. \A g \in Host \ {h} : Undisturbed(g)
  BY <1>0, <1>2 DEF Undisturbed, Grown
<1>12. AdaptFrame'
  BY <1>0, <1>1 DEF AdaptFrame
<1>13. OneMoved' /\ UnusedIsBlank'
  BY <1>0 DEF AdaptInv, OneMoved, UnusedIsBlank
<1> QED BY <1>10, <1>11, <1>12, <1>13, RestKept

LEMMA UnwatchKeeps == \A h \in Host, i \in Cell : AdaptInv /\ Unwatch(h, i) => AdaptInv'
<1> SUFFICES ASSUME NEW h \in Host, NEW i \in Cell, AdaptInv, Unwatch(h, i) PROVE AdaptInv'
  OBVIOUS
<1>0. /\ log' = log /\ old' = old /\ backend' = backend /\ inner' = inner /\ stage' = stage
      /\ stream' = stream /\ written' = written /\ commits' = commits /\ threw' = threw
      /\ told' = [told EXCEPT ![h][i] = NotTold]
  BY DEF Unwatch, engines, control
<1>1. HostInv(h) /\ AdaptFrame
  BY DEF AdaptInv
<1>2. told'[h] = [told[h] EXCEPT ![i] = NotTold] /\ \A g \in Host \ {h} : told'[g] = told[g]
  BY <1>0, <1>1 DEF AdaptFrame
<1>4. told'[h] \in [Cell -> Content \cup {NotTold}] /\ told'[h][i] = NotTold
      /\ \A j \in Cell \ {i} : told'[h][j] = told[h][j]
  BY <1>1, <1>2 DEF HostInv
<1>6. Inputs(h)' = Inputs(h) /\ (NamedOnce(h) => NamedOnce(h)') /\ Engine(h)' = Engine(h)
      /\ Ids(h, "input")' = Ids(h, "input") /\ Ids(h, "derived")' = Ids(h, "derived")
  BY <1>0, SamePrograms DEF Engine
<1>7. WatchesWhatIs(h)'
  BY <1>0, <1>1, <1>4, <1>6 DEF HostInv, WatchesWhatIs, Read
<1>8. FollowsWrites(h)'
  BY <1>0, <1>1, <1>6 DEF HostInv, FollowsWrites, Read
<1>9. EngineHasTheLog(h)'
  BY <1>0, <1>1, <1>6 DEF HostInv, EngineHasTheLog
<1>10. HostInv(h)'
  BY <1>0, <1>1, <1>4, <1>6, <1>7, <1>8, <1>9 DEF HostInv
<1>11. \A g \in Host \ {h} : Undisturbed(g)
  BY <1>0, <1>2 DEF Undisturbed, Grown
<1>12. AdaptFrame'
  BY <1>0, <1>1 DEF AdaptFrame
<1>13. OneMoved' /\ UnusedIsBlank'
  BY <1>0 DEF AdaptInv, OneMoved, UnusedIsBlank
<1> QED BY <1>10, <1>11, <1>12, <1>13, RestKept

\* The new engine becoming ready, or failing to.
LEMMA LoadedKeeps == \A h \in Host : AdaptInv /\ (Loaded(h) \/ LoadFails(h)) => AdaptInv'
<1> SUFFICES ASSUME NEW h \in Host, AdaptInv, Loaded(h) \/ LoadFails(h) PROVE AdaptInv'
  OBVIOUS
<1>0. /\ log' = log /\ old' = old /\ backend' = backend /\ inner' = inner
      /\ stream' = stream /\ written' = written /\ commits' = commits /\ threw' = threw /\ told' = told
      /\ stage[h] = "loading"
      /\ \/ stage' = [stage EXCEPT ![h] = "ready"] \/ stage' = [stage EXCEPT ![h] = "watching"]
  BY DEF Loaded, LoadFails, engines
<1>1. HostInv(h) /\ AdaptFrame
  BY DEF AdaptInv
<1>2. stage'[h] \in {"ready", "watching"} /\ \A g \in Host \ {h} : stage'[g] = stage[g]
  BY <1>0, <1>1 DEF AdaptFrame
<1>6. Inputs(h)' = Inputs(h) /\ (NamedOnce(h) => NamedOnce(h)') /\ Engine(h)' = Engine(h)
      /\ Ids(h, "input")' = Ids(h, "input") /\ Ids(h, "derived")' = Ids(h, "derived")
  BY <1>0, SamePrograms DEF Engine
<1>7. WatchesWhatIs(h)'
  BY <1>0, <1>1, <1>6 DEF HostInv, WatchesWhatIs, Read
<1>8. FollowsWrites(h)'
  BY <1>0, <1>1, <1>6 DEF HostInv, FollowsWrites, Read
<1>9. EngineHasTheLog(h)'
  BY <1>0, <1>1, <1>6 DEF HostInv, EngineHasTheLog
<1>10. HostInv(h)'
  BY <1>0, <1>1, <1>2, <1>6, <1>7, <1>8, <1>9 DEF HostInv
<1>11. \A g \in Host \ {h} : Undisturbed(g)
  BY <1>0, <1>2 DEF Undisturbed, Grown
<1>12. AdaptFrame'
  BY <1>0, <1>1 DEF AdaptFrame
<1>13. OneMoved' /\ UnusedIsBlank'
  BY <1>0 DEF AdaptInv, OneMoved, UnusedIsBlank
<1> QED BY <1>10, <1>11, <1>12, <1>13, RestKept

LEMMA AddInputIs ==
  \A e, i : IsEngine(e) =>
    /\ IsEngine(AddInput(e, i))
    /\ AddInput(e, i).time = e.time /\ AddInput(e, i).computes = e.computes
    /\ DOMAIN AddInput(e, i).cells = DOMAIN e.cells \cup {i}
    /\ \A j \in DOMAIN e.cells \cup {i} :
         AddInput(e, i).cells[j] = IF j = i THEN Blank ELSE e.cells[j]
<1> SUFFICES ASSUME NEW e, NEW i, IsEngine(e)
             PROVE  /\ IsEngine(AddInput(e, i))
                    /\ AddInput(e, i).time = e.time /\ AddInput(e, i).computes = e.computes
                    /\ DOMAIN AddInput(e, i).cells = DOMAIN e.cells \cup {i}
                    /\ \A j \in DOMAIN e.cells \cup {i} :
                         AddInput(e, i).cells[j] = IF j = i THEN Blank ELSE e.cells[j]
  OBVIOUS
<1>1. PICK f : f = [j \in DOMAIN e.cells \cup {i} |-> IF j = i THEN Blank ELSE e.cells[j]]
  OBVIOUS
<1>2. AddInput(e, i) = [cells |-> f, computes |-> e.computes, time |-> e.time]
  BY <1>1 DEF AddInput, IsEngine
<1> QED BY <1>1, <1>2 DEF IsEngine

LEMMA AddDerivedIs ==
  \A e, i : IsEngine(e) =>
    /\ IsEngine(AddDerived(e, i))
    /\ AddDerived(e, i).time = e.time /\ AddDerived(e, i).cells = e.cells
    /\ AddDerived(e, i).computes = e.computes \cup {i}
<1> SUFFICES ASSUME NEW e, NEW i, IsEngine(e)
             PROVE  /\ IsEngine(AddDerived(e, i))
                    /\ AddDerived(e, i).time = e.time /\ AddDerived(e, i).cells = e.cells
                    /\ AddDerived(e, i).computes = e.computes \cup {i}
  OBVIOUS
<1>2. AddDerived(e, i) = [cells |-> e.cells, computes |-> e.computes \cup {i}, time |-> e.time]
  BY DEF AddDerived, IsEngine
<1> QED BY <1>2 DEF IsEngine

\* The log after one more registration.
LEMMA LogGrows ==
  \A h \in Host, entry \in Entry :
    log[h] \in Seq(Entry) /\ log'[h] = Append(log[h], entry) =>
      /\ log'[h] \in Seq(Entry)
      /\ \A kind : Ids(h, kind)' = Ids(h, kind) \cup (IF entry.kind = kind THEN {entry.id} ELSE {})
      /\ NamedOnce(h) /\ entry.id \notin Ids(h, entry.kind) => NamedOnce(h)'
<1> SUFFICES ASSUME NEW h \in Host, NEW entry \in Entry, log[h] \in Seq(Entry),
                    log'[h] = Append(log[h], entry)
             PROVE  /\ log'[h] \in Seq(Entry)
                    /\ \A kind : Ids(h, kind)' = Ids(h, kind) \cup (IF entry.kind = kind THEN {entry.id} ELSE {})
                    /\ NamedOnce(h) /\ entry.id \notin Ids(h, entry.kind) => NamedOnce(h)'
  OBVIOUS
<1>1. PICK s \in Seq(Entry) : s = log[h]
  OBVIOUS
<1>2. PICK s2 : s2 = Append(s, entry)
  OBVIOUS
<1>3. /\ s2 \in Seq(Entry) /\ Len(s) \in Nat /\ DOMAIN s = 1..Len(s) /\ DOMAIN s2 = 1..(Len(s) + 1)
      /\ s2[Len(s) + 1] = entry /\ \A k \in 1..Len(s) : s2[k] = s[k]
  BY <1>2, AppendProperties
<1>4. DOMAIN s2 = DOMAIN s \cup {Len(s) + 1} /\ Len(s) + 1 \notin DOMAIN s
  BY <1>3
<1>5. ASSUME NEW kind
      PROVE  Ids(h, kind)' = Ids(h, kind) \cup (IF entry.kind = kind THEN {entry.id} ELSE {})
  <2>1. Ids(h, kind) = {s[k].id : k \in {j \in DOMAIN s : s[j].kind = kind}}
    BY <1>1 DEF Ids
  <2>2. Ids(h, kind)' = {s2[k].id : k \in {j \in DOMAIN s2 : s2[j].kind = kind}}
    BY <1>1, <1>2 DEF Ids
  <2> QED BY <1>3, <1>4, <2>1, <2>2
<1>6. ASSUME NamedOnce(h), entry.id \notin Ids(h, entry.kind) PROVE NamedOnce(h)'
  <2>1. \A j, k \in DOMAIN s : s[j].kind = s[k].kind /\ s[j].id = s[k].id => j = k
    BY <1>1, <1>6 DEF NamedOnce
  <2>2. \A k \in DOMAIN s : s[k].kind = entry.kind => s[k].id # entry.id
    BY <1>1, <1>6 DEF Ids
  <2>3. \A j, k \in DOMAIN s2 : s2[j].kind = s2[k].kind /\ s2[j].id = s2[k].id => j = k
    BY <1>3, <1>4, <2>1, <2>2
  <2> QED BY <1>1, <1>2, <2>3 DEF NamedOnce
<1> QED BY <1>1, <1>2, <1>3, <1>5, <1>6


LEMMA RegisteredIs ==
  \A h, e, entry : IsEngine(e) /\ entry \in Entry /\ ~Refuses(h, e, entry) =>
    LET after == Registered(e, entry)
    IN /\ IsEngine(after) /\ after.time = e.time
       /\ DOMAIN after.cells = DOMAIN e.cells \cup (IF entry.kind = "input" THEN {entry.id} ELSE {})
       /\ after.computes = e.computes \cup (IF entry.kind = "derived" THEN {entry.id} ELSE {})
       /\ \A j \in DOMAIN e.cells : after.cells[j] = e.cells[j]
       /\ entry.kind = "input" => after.cells[entry.id] = Blank /\ entry.id \notin DOMAIN e.cells
       /\ entry.kind = "derived" => entry.id \notin e.computes
<1> SUFFICES ASSUME NEW h, NEW e, NEW entry, IsEngine(e), entry \in Entry, ~Refuses(h, e, entry)
             PROVE  LET after == Registered(e, entry)
                    IN /\ IsEngine(after) /\ after.time = e.time
                       /\ DOMAIN after.cells = DOMAIN e.cells \cup (IF entry.kind = "input" THEN {entry.id} ELSE {})
                       /\ after.computes = e.computes \cup (IF entry.kind = "derived" THEN {entry.id} ELSE {})
                       /\ \A j \in DOMAIN e.cells : after.cells[j] = e.cells[j]
                       /\ entry.kind = "input" => after.cells[entry.id] = Blank /\ entry.id \notin DOMAIN e.cells
                       /\ entry.kind = "derived" => entry.id \notin e.computes
  OBVIOUS
<1>1. CASE entry.kind = "input"
  <2>1. Registered(e, entry) = AddInput(e, entry.id) /\ entry.id \notin DOMAIN e.cells
    BY <1>1 DEF Registered, Refuses
  <2> QED BY <1>1, <2>1, AddInputIs
<1>2. CASE entry.kind = "derived"
  <2>1. Registered(e, entry) = AddDerived(e, entry.id) /\ entry.id \notin e.computes
    BY <1>2 DEF Registered, Refuses
  <2> QED BY <1>2, <2>1, AddDerivedIs
<1> QED BY <1>1, <1>2 DEF Entry

\* The engine of a graph is set: only another graph's second engine is touched.
LEMMA EngineSet ==
  \A h \in Host : \A e : AdaptInv /\ SetEngine(h, e) /\ inner' = inner /\ IsEngine(e) =>
    /\ Engine(h)' = e
    /\ inner[h] = "old" => backend' = backend /\ old'[h] = e
    /\ inner[h] = "backend" => backend' = e
    /\ \A g \in Host \ {h} : old'[g] = old[g] /\ (inner[g] = "old" \/ backend' = backend)
    /\ IsEngine(backend') /\ (\A g \in Host : IsEngine(old'[g])) /\ old' = [g \in Host |-> old'[g]]
<1> SUFFICES ASSUME NEW h \in Host, NEW e, AdaptInv, SetEngine(h, e), inner' = inner, IsEngine(e)
             PROVE  /\ Engine(h)' = e
                    /\ inner[h] = "old" => backend' = backend /\ old'[h] = e
                    /\ inner[h] = "backend" => backend' = e
                    /\ \A g \in Host \ {h} : old'[g] = old[g] /\ (inner[g] = "old" \/ backend' = backend)
                    /\ IsEngine(backend') /\ (\A g \in Host : IsEngine(old'[g]))
                    /\ old' = [g \in Host |-> old'[g]]
  OBVIOUS
<1>1. /\ old = [g \in Host |-> old[g]] /\ IsEngine(backend) /\ \A g \in Host : IsEngine(old[g])
      /\ \A g \in Host : inner[g] \in {"old", "backend"}
      /\ \A g \in Host : inner[g] = "backend" /\ inner[h] = "backend" => g = h
  BY DEF AdaptInv, AdaptFrame, HostInv, OneMoved
<1>2. CASE inner[h] = "old"
  <2>1. old' = [old EXCEPT ![h] = e] /\ backend' = backend
    BY <1>2 DEF SetEngine
  <2>2. old'[h] = e /\ \A g \in Host \ {h} : old'[g] = old[g]
    BY <1>1, <2>1
  <2>3. old' = [g \in Host |-> old'[g]]
    BY <1>1, <2>1
  <2>4. Engine(h)' = e
    BY <1>2, <2>2 DEF Engine
  <2>5. \A g \in Host : IsEngine(old'[g])
    BY <1>1, <2>2
  <2> QED BY <1>1, <1>2, <2>1, <2>2, <2>3, <2>4, <2>5
<1>3. CASE inner[h] = "backend"
  <2>1. old' = old /\ backend' = e
    BY <1>3 DEF SetEngine
  <2>4. Engine(h)' = e
    BY <1>3, <2>1 DEF Engine
  <2> QED BY <1>1, <1>3, <2>1, <2>4
<1> QED BY <1>1, <1>2, <1>3

LEMMA RegisterKeeps ==
  \A h \in Host, kind \in {"input", "derived"}, i \in Cell :
    AdaptInv /\ Register(h, kind, i) => AdaptInv'
<1> SUFFICES ASSUME NEW h \in Host, NEW kind \in {"input", "derived"}, NEW i \in Cell,
                    AdaptInv, Register(h, kind, i)
             PROVE  AdaptInv'
  OBVIOUS
<1>1. PICK entry : entry = [kind |-> kind, id |-> i]
  OBVIOUS
<1>2. entry \in Entry /\ entry.kind = kind /\ entry.id = i
  BY <1>1 DEF Entry
<1>3. PICK before : before = Engine(h)
  OBVIOUS
<1>4. PICK after : after = Registered(before, entry)
  OBVIOUS
<1>5. /\ ~Refuses(h, before, entry) /\ SetEngine(h, after)
      /\ log' = [log EXCEPT ![h] = Append(log[h], entry)]
      /\ written' = IF kind = "input" THEN [written EXCEPT ![h][i] = Blank] ELSE written
      /\ inner' = inner /\ stage' = stage /\ stream' = stream /\ commits' = commits
      /\ threw' = threw /\ told' = told
  BY <1>1, <1>3, <1>4 DEF Register, control
<1>6. HostInv(h) /\ AdaptFrame /\ OneMoved /\ UnusedIsBlank
  BY DEF AdaptInv
<1>7. IsEngine(before)
  BY <1>3, <1>6 DEF AdaptFrame, Engine, HostInv
<1>8. /\ IsEngine(after) /\ after.time = before.time
      /\ DOMAIN after.cells = DOMAIN before.cells \cup (IF entry.kind = "input" THEN {entry.id} ELSE {})
      /\ after.computes = before.computes \cup (IF entry.kind = "derived" THEN {entry.id} ELSE {})
      /\ \A j \in DOMAIN before.cells : after.cells[j] = before.cells[j]
      /\ entry.kind = "input" => after.cells[entry.id] = Blank /\ entry.id \notin DOMAIN before.cells
      /\ entry.kind = "derived" => entry.id \notin before.computes
  BY <1>2, <1>4, <1>5, <1>7, RegisteredIs
<1>9. /\ Engine(h)' = after
      /\ inner[h] = "old" => backend' = backend /\ old'[h] = after
      /\ inner[h] = "backend" => backend' = after
      /\ \A g \in Host \ {h} : old'[g] = old[g] /\ (inner[g] = "old" \/ backend' = backend)
      /\ IsEngine(backend') /\ (\A g \in Host : IsEngine(old'[g])) /\ old' = [g \in Host |-> old'[g]]
  BY <1>5, <1>8, EngineSet
<1>10. log'[h] = Append(log[h], entry) /\ \A g \in Host \ {h} : log'[g] = log[g]
  BY <1>5, <1>6 DEF AdaptFrame
<1>11. /\ log'[h] \in Seq(Entry)
       /\ \A k : Ids(h, k)' = Ids(h, k) \cup (IF entry.kind = k THEN {entry.id} ELSE {})
       /\ NamedOnce(h) /\ entry.id \notin Ids(h, entry.kind) => NamedOnce(h)'
  BY <1>2, <1>6, <1>10, LogGrows DEF HostInv
<1>12. /\ Inputs(h) = Ids(h, "input") /\ Inputs(h)' = Ids(h, "input")'
  BY DEF Inputs, Ids
<1>13. EngineHasTheLog(h)'
  <2>1. CASE inner[h] = "old"
    <3>1. DOMAIN before.cells = Ids(h, "input") /\ before.computes = Ids(h, "derived") /\ NamedOnce(h)
      BY <1>3, <1>6, <2>1 DEF HostInv, EngineHasTheLog, Engine
    <3>2. entry.id \notin Ids(h, entry.kind)
      BY <1>2, <1>8, <3>1
    <3> QED BY <1>5, <1>8, <1>9, <1>11, <2>1, <3>1, <3>2 DEF EngineHasTheLog
  <2>2. CASE inner[h] = "backend"
    <3>1. before = backend /\ Ids(h, "input") \subseteq DOMAIN before.cells /\ before.time > 0
      BY <1>3, <1>6, <2>2 DEF HostInv, EngineHasTheLog, Engine
    <3> QED BY <1>5, <1>8, <1>9, <1>11, <2>2, <3>1 DEF EngineHasTheLog
  <2> QED BY <1>6, <2>1, <2>2 DEF HostInv
<1>14. \A j \in Inputs(h) : j \in DOMAIN before.cells
  BY <1>3, <1>6, <1>12 DEF HostInv, EngineHasTheLog, Engine
<1>15. \A j \in Inputs(h) : Read(h, j)' = Read(h, j) /\ (entry.kind = "input" => j # entry.id)
  BY <1>3, <1>8, <1>9, <1>14 DEF Read
<1>16. /\ written'[h] \in [Cell -> Content] /\ (kind = "input" => written'[h][i] = Blank)
       /\ (kind # "input" => written'[h] = written[h])
       /\ \A j \in Cell \ {i} : written'[h][j] = written[h][j]
       /\ \A g \in Host \ {h} : written'[g] = written[g]
  <2>1. CASE kind = "input"
    <3>1. written'[h] = [written[h] EXCEPT ![i] = Blank] /\ \A g \in Host \ {h} : written'[g] = written[g]
      BY <1>5, <1>6, <2>1 DEF AdaptFrame
    <3> QED BY <1>6, <2>1, <3>1, ContentAssumption DEF HostInv
  <2>2. CASE kind # "input"
    BY <1>5, <1>6, <2>2 DEF HostInv
  <2> QED BY <2>1, <2>2
<1>17. FollowsWrites(h)'
  <2> SUFFICES ASSUME NEW j \in Inputs(h)'
               PROVE  Read(h, j)' = written'[h][j] \/ (written'[h][j] = Unkept /\ Read(h, j)' = Blank)
    BY DEF FollowsWrites
  <2>1. CASE j \in Inputs(h)
    <3>1. kind = "input" => j # i
      BY <1>2, <1>15, <2>1
    <3>2. j \in Cell
      BY <1>6, <2>1, InputsAreCells DEF HostInv
    <3>3. written'[h][j] = written[h][j]
      BY <1>16, <3>1, <3>2
    <3> QED BY <1>6, <1>15, <2>1, <3>3 DEF HostInv, FollowsWrites
  <2>2. CASE j \notin Inputs(h)
    <3>1. kind = "input" /\ j = i
      BY <1>2, <1>11, <1>12, <2>2
    <3> QED BY <1>2, <1>8, <1>9, <1>16, <3>1 DEF Read
  <2> QED BY <2>1, <2>2
<1>18. WatchesWhatIs(h)'
  BY <1>5, <1>6, <1>11, <1>12, <1>15 DEF HostInv, WatchesWhatIs
<1>19. HostInv(h)'
  <2>1. Engine(h)'.time = commits'[h]
    BY <1>3, <1>5, <1>6, <1>8, <1>9 DEF HostInv
  <2> QED BY <1>5, <1>6, <1>11, <1>13, <1>16, <1>17, <1>18, <2>1 DEF HostInv
<1>20. \A g \in Host \ {h} : Undisturbed(g)
  BY <1>5, <1>9, <1>10, <1>16 DEF Undisturbed, Grown
<1>21. AdaptFrame'
  <2>1. log' = [g \in Host |-> log'[g]] /\ written' = [g \in Host |-> written'[g]]
    BY <1>5, <1>6 DEF AdaptFrame
  <2> QED BY <1>5, <1>6, <1>9, <2>1 DEF AdaptFrame
<1>22. OneMoved' /\ UnusedIsBlank'
  BY <1>5, <1>6, <1>9 DEF OneMoved, UnusedIsBlank, HostInv
<1> QED BY <1>19, <1>20, <1>21, <1>22, RestKept

\* What a commit leaves in the engine it ran on, and in the ears of observers.
LEMMA CommittedIs ==
  \A h \in Host, i \in Cell, v \in Content : AdaptInv /\ i \in Inputs(h) =>
    LET e == Committed(h, i, v) IN
    /\ IsEngine(e) /\ e.time = commits[h] + 1 /\ e.computes = Engine(h).computes
    /\ DOMAIN e.cells = DOMAIN Engine(h).cells /\ Inputs(h) \subseteq DOMAIN e.cells
    /\ \A j \in Inputs(h) :
         \/ e.cells[j] = [written[h] EXCEPT ![i] = v][j]
         \/ [written[h] EXCEPT ![i] = v][j] = Unkept /\ e.cells[j] = Blank
    /\ Delivered(h, i, v) \in [Cell -> Content \cup {NotTold}]
    /\ \A j \in Cell : Delivered(h, i, v)[j] # NotTold =>
                         j \in Inputs(h) /\ Delivered(h, i, v)[j] = e.cells[j]
<1> SUFFICES ASSUME NEW h \in Host, NEW i \in Cell, NEW v \in Content, AdaptInv, i \in Inputs(h)
             PROVE  LET e == Committed(h, i, v) IN
                    /\ IsEngine(e) /\ e.time = commits[h] + 1 /\ e.computes = Engine(h).computes
                    /\ DOMAIN e.cells = DOMAIN Engine(h).cells /\ Inputs(h) \subseteq DOMAIN e.cells
                    /\ \A j \in Inputs(h) :
                         \/ e.cells[j] = [written[h] EXCEPT ![i] = v][j]
                         \/ [written[h] EXCEPT ![i] = v][j] = Unkept /\ e.cells[j] = Blank
                    /\ Delivered(h, i, v) \in [Cell -> Content \cup {NotTold}]
                    /\ \A j \in Cell : Delivered(h, i, v)[j] # NotTold =>
                                         j \in Inputs(h) /\ Delivered(h, i, v)[j] = e.cells[j]
  OBVIOUS
<1>1. HostInv(h) /\ AdaptFrame
  BY DEF AdaptInv
<1>2. PICK e : e = Committed(h, i, v)
  OBVIOUS
<1>3. PICK before : before = Engine(h)
  OBVIOUS
<1>4. e = [cells |-> [before.cells EXCEPT ![i] = v], computes |-> before.computes, time |-> before.time + 1]
  BY <1>2, <1>3 DEF Committed
<1>5. e.cells = [before.cells EXCEPT ![i] = v]
  BY <1>4
<1>6. Inputs(h) \subseteq DOMAIN before.cells /\ Inputs(h) \subseteq Cell
  <2>1. Inputs(h) \subseteq DOMAIN before.cells
    <3>1. EngineHasTheLog(h) /\ inner[h] \in {"old", "backend"} /\ Inputs(h) = Ids(h, "input")
      BY <1>1, InputsAreIds DEF HostInv
    <3>2. CASE inner[h] = "old"
      BY <1>3, <3>1, <3>2 DEF EngineHasTheLog, Engine
    <3>3. CASE inner[h] = "backend"
      BY <1>3, <3>1, <3>3 DEF EngineHasTheLog, Engine
    <3> QED BY <3>1, <3>2, <3>3
  <2>2. Inputs(h) \subseteq Cell
    BY <1>1, InputsAreCells DEF HostInv
  <2> QED BY <2>1, <2>2
<1>7. /\ DOMAIN e.cells = DOMAIN before.cells /\ e.cells[i] = v
      /\ \A j \in DOMAIN before.cells : j # i => e.cells[j] = before.cells[j]
  BY <1>5, <1>6
<1>8. IsEngine(e) /\ e.time = commits[h] + 1 /\ e.computes = before.computes
  BY <1>1, <1>3, <1>4 DEF IsEngine, HostInv
<1>9. ASSUME NEW j \in Inputs(h)
      PROVE  \/ e.cells[j] = [written[h] EXCEPT ![i] = v][j]
             \/ [written[h] EXCEPT ![i] = v][j] = Unkept /\ e.cells[j] = Blank
  <2>1. CASE j = i
    BY <1>1, <1>7, <2>1 DEF HostInv
  <2>2. CASE j # i
    <3>1. before.cells[j] = written[h][j] \/ (written[h][j] = Unkept /\ before.cells[j] = Blank)
      BY <1>1, <1>3 DEF HostInv, FollowsWrites, Read
    <3>2. [written[h] EXCEPT ![i] = v][j] = written[h][j]
      BY <1>1, <1>6, <2>2 DEF HostInv
    <3> QED BY <1>6, <1>7, <2>2, <3>1, <3>2
  <2> QED BY <2>1, <2>2
<1>10. PICK heard : heard = Delivered(h, i, v)
  OBVIOUS
<1>11. \A j \in Cell : told[h][j] # NotTold => j \in Inputs(h) /\ told[h][j] = before.cells[j]
  BY <1>1, <1>3 DEF HostInv, WatchesWhatIs, Read
<1>12. /\ heard \in [Cell -> Content \cup {NotTold}]
       /\ \A j \in Cell : heard[j] # NotTold => j \in Inputs(h) /\ heard[j] = e.cells[j]
  <2>1. told[h] \in [Cell -> Content \cup {NotTold}]
    BY <1>1 DEF HostInv
  <2>2. CASE told[h][i] # NotTold /\ before.cells[i] # v
    <3>1. heard = [told[h] EXCEPT ![i] = v]
      BY <1>3, <1>10, <2>2 DEF Delivered, Read
    <3>2. heard[i] = v /\ \A j \in Cell \ {i} : heard[j] = told[h][j]
      BY <2>1, <3>1
    <3>3. heard \in [Cell -> Content \cup {NotTold}]
      BY <2>1, <3>1
    <3> QED BY <1>6, <1>7, <1>11, <3>2, <3>3
  <2>3. CASE told[h][i] = NotTold \/ before.cells[i] = v
    <3>1. heard = told[h]
      BY <1>3, <1>10, <2>3 DEF Delivered, Read
    <3> QED BY <1>6, <1>7, <1>11, <2>1, <2>3, <3>1
  <2> QED BY <2>2, <2>3
<1>13. Inputs(h) \subseteq DOMAIN e.cells /\ DOMAIN e.cells = DOMAIN Engine(h).cells
       /\ e.computes = Engine(h).computes
  BY <1>3, <1>6, <1>7, <1>8
<1> QED BY <1>2, <1>8, <1>9, <1>10, <1>12, <1>13

\* However far a replay gets, it only adds blank inputs.
LEMMA ReplayGrows ==
  \A h \in Host : LET e == Replayed(h).engine IN
    /\ IsEngine(e) /\ Grown(backend, e)
    /\ \A i \in DOMAIN e.cells : i \in DOMAIN backend.cells \/ e.cells[i] = Blank
<1> SUFFICES ASSUME NEW h \in Host
             PROVE  LET e == Replayed(h).engine IN
                    /\ IsEngine(e) /\ Grown(backend, e)
                    /\ \A i \in DOMAIN e.cells : i \in DOMAIN backend.cells \/ e.cells[i] = Blank
  OBVIOUS
<1>1. PICK n : n = Max({m \in 0..Len(log[h]) : Replays(h, m)})
  OBVIOUS
<1>2. PICK e : e = ReplayedTo(h, n)
  OBVIOUS
<1>3. Replayed(h).engine = e
  BY <1>1, <1>2 DEF Replayed
<1>4. PICK ids : ids = {log[h][k].id : k \in {j \in 1..n : log[h][j].kind = "input"}}
  OBVIOUS
<1>5. PICK f : f = [i \in DOMAIN backend.cells \cup ids |->
                      IF i \in DOMAIN backend.cells THEN backend.cells[i] ELSE Blank]
  OBVIOUS
<1>6. /\ e.cells = f /\ e.time = backend.time
      /\ e = [cells |-> f, computes |-> e.computes, time |-> backend.time]
  BY <1>2, <1>4, <1>5 DEF ReplayedTo
<1>7. IsEngine(e)
  BY <1>6 DEF IsEngine
<1>8. DOMAIN e.cells = DOMAIN backend.cells \cup ids
      /\ \A i \in DOMAIN e.cells : e.cells[i] = IF i \in DOMAIN backend.cells THEN backend.cells[i] ELSE Blank
  BY <1>5, <1>6
<1> QED BY <1>3, <1>6, <1>7, <1>8 DEF Grown

\* Commits of a graph, whatever else they do, count, write and are heard of.
CommitRest(h, i, v, e) ==
  /\ commits' = [commits EXCEPT ![h] = commits[h] + 1]
  /\ written' = [written EXCEPT ![h][i] = v]
  /\ stream' = [stream EXCEPT ![h] = Append(stream[h], e.time)]
  /\ log' = log

LEMMA CommitRestIs ==
  \A h \in Host, i \in Cell, v \in Content : \A e :
    AdaptInv /\ e.time = commits[h] + 1 /\ CommitRest(h, i, v, e) =>
      /\ written'[h] = [written[h] EXCEPT ![i] = v] /\ written'[h] \in [Cell -> Content]
      /\ commits'[h] \in Nat /\ commits'[h] = e.time
      /\ stream'[h] = [k \in 1..commits'[h] |-> k]
      /\ Inputs(h)' = Inputs(h) /\ (NamedOnce(h) => NamedOnce(h)')
      /\ Ids(h, "input")' = Ids(h, "input") /\ Ids(h, "derived")' = Ids(h, "derived")
      /\ \A g \in Host \ {h} : written'[g] = written[g] /\ commits'[g] = commits[g] /\ stream'[g] = stream[g]
      /\ written' = [g \in Host |-> written'[g]] /\ commits' = [g \in Host |-> commits'[g]]
      /\ stream' = [g \in Host |-> stream'[g]]
<1> SUFFICES ASSUME NEW h \in Host, NEW i \in Cell, NEW v \in Content, NEW e,
                    AdaptInv, e.time = commits[h] + 1, CommitRest(h, i, v, e)
             PROVE  /\ written'[h] = [written[h] EXCEPT ![i] = v] /\ written'[h] \in [Cell -> Content]
                    /\ commits'[h] \in Nat /\ commits'[h] = e.time
                    /\ stream'[h] = [k \in 1..commits'[h] |-> k]
                    /\ Inputs(h)' = Inputs(h) /\ (NamedOnce(h) => NamedOnce(h)')
                    /\ Ids(h, "input")' = Ids(h, "input") /\ Ids(h, "derived")' = Ids(h, "derived")
                    /\ \A g \in Host \ {h} : /\ written'[g] = written[g] /\ commits'[g] = commits[g]
                                             /\ stream'[g] = stream[g]
                    /\ written' = [g \in Host |-> written'[g]] /\ commits' = [g \in Host |-> commits'[g]]
                    /\ stream' = [g \in Host |-> stream'[g]]
  OBVIOUS
<1>1. HostInv(h) /\ AdaptFrame
  BY DEF AdaptInv
<1>2. /\ written'[h] = [written[h] EXCEPT ![i] = v]
      /\ \A g \in Host \ {h} : written'[g] = written[g]
      /\ written' = [g \in Host |-> written'[g]]
  BY <1>1 DEF CommitRest, AdaptFrame
<1>3. written'[h] \in [Cell -> Content]
  BY <1>1, <1>2 DEF HostInv
<1>4. /\ commits'[h] = commits[h] + 1 /\ stream'[h] = Append(stream[h], e.time)
      /\ \A g \in Host \ {h} : commits'[g] = commits[g] /\ stream'[g] = stream[g]
      /\ commits' = [g \in Host |-> commits'[g]]
      /\ stream' = [g \in Host |-> stream'[g]]
  BY <1>1 DEF CommitRest, AdaptFrame
<1>5. stream'[h] = [k \in 1..commits'[h] |-> k]
  <2>1. PICK n \in Nat : n = commits[h]
    BY <1>1 DEF HostInv
  <2>2. PICK s : s = [k \in 1..n |-> k]
    OBVIOUS
  <2>3. s \in Seq(Nat) /\ Len(s) = n
    BY <2>1, <2>2
  <2>4. PICK s2 : s2 = Append(s, n + 1)
    OBVIOUS
  <2>5. /\ s2 \in Seq(Nat) /\ Len(s2) = n + 1 /\ s2[n + 1] = n + 1 /\ \A k \in 1..n : s2[k] = s[k]
    BY <2>1, <2>3, <2>4, AppendProperties
  <2>6. s2 = [k \in 1..(n + 1) |-> k]
    <3>1. DOMAIN s2 = 1..(n + 1) /\ s2 = [k \in DOMAIN s2 |-> s2[k]]
      BY <2>1, <2>5
    <3>2. \A k \in 1..n : s2[k] = k
      BY <2>2, <2>5
    <3>3. \A k \in 1..(n + 1) : k \in 1..n \/ k = n + 1
      BY <2>1
    <3>4. \A k \in 1..(n + 1) : s2[k] = k
      BY <2>5, <3>2, <3>3
    <3> QED BY <3>1, <3>4
  <2> QED BY <1>1, <1>4, <2>1, <2>2, <2>4, <2>6 DEF HostInv
<1>6. /\ Inputs(h)' = Inputs(h) /\ (NamedOnce(h) => NamedOnce(h)')
      /\ Ids(h, "input")' = Ids(h, "input") /\ Ids(h, "derived")' = Ids(h, "derived")
  BY SamePrograms DEF CommitRest
<1>7. commits'[h] \in Nat /\ commits'[h] = e.time
  BY <1>1, <1>4 DEF HostInv
<1> QED BY <1>2, <1>3, <1>4, <1>5, <1>6, <1>7

\* The graph after its commit: the engine it is on has the values written, and
\* its observers have heard of them.
LEMMA CommitHost ==
  \A h \in Host, i \in Cell, v \in Content : \A e :
    /\ AdaptInv /\ e.time = commits[h] + 1 /\ CommitRest(h, i, v, e)
    /\ inner'[h] \in {"old", "backend"} /\ (stage'[h] # "swapped" => inner'[h] = "old")
    /\ Engine(h)'.time = e.time /\ EngineHasTheLog(h)'
    /\ \A j \in Inputs(h) : \/ Engine(h)'.cells[j] = [written[h] EXCEPT ![i] = v][j]
                            \/ [written[h] EXCEPT ![i] = v][j] = Unkept /\ Engine(h)'.cells[j] = Blank
    /\ told'[h] \in [Cell -> Content \cup {NotTold}]
    /\ \A j \in Cell : told'[h][j] # NotTold => j \in Inputs(h) /\ told'[h][j] = Engine(h)'.cells[j]
    => HostInv(h)'
<1> SUFFICES ASSUME NEW h \in Host, NEW i \in Cell, NEW v \in Content, NEW e,
                    AdaptInv, e.time = commits[h] + 1, CommitRest(h, i, v, e),
                    inner'[h] \in {"old", "backend"}, stage'[h] # "swapped" => inner'[h] = "old",
                    Engine(h)'.time = e.time, EngineHasTheLog(h)',
                    \A j \in Inputs(h) :
                       \/ Engine(h)'.cells[j] = [written[h] EXCEPT ![i] = v][j]
                       \/ [written[h] EXCEPT ![i] = v][j] = Unkept /\ Engine(h)'.cells[j] = Blank,
                    told'[h] \in [Cell -> Content \cup {NotTold}],
                    \A j \in Cell : told'[h][j] # NotTold => j \in Inputs(h) /\ told'[h][j] = Engine(h)'.cells[j]
             PROVE  HostInv(h)'
  OBVIOUS
<1>1. /\ written'[h] = [written[h] EXCEPT ![i] = v] /\ written'[h] \in [Cell -> Content]
      /\ commits'[h] \in Nat /\ commits'[h] = e.time
      /\ stream'[h] = [k \in 1..commits'[h] |-> k]
      /\ Inputs(h)' = Inputs(h)
  BY CommitRestIs
<1>2. FollowsWrites(h)'
  BY <1>1 DEF FollowsWrites, Read
<1>3. WatchesWhatIs(h)'
  BY <1>1 DEF WatchesWhatIs, Read
<1>4. log'[h] \in Seq(Entry)
  BY DEF CommitRest, AdaptInv, HostInv
<1> QED BY <1>1, <1>2, <1>3, <1>4 DEF HostInv

\* The arm of a commit that swaps nothing.
LEMMA PlainCommitKeeps ==
  \A h \in Host, i \in Cell, v \in Content :
    AdaptInv /\ Commit(h, i, v) /\ stage[h] # "ready" => AdaptInv'
<1> SUFFICES ASSUME NEW h \in Host, NEW i \in Cell, NEW v \in Content,
                    AdaptInv, Commit(h, i, v), stage[h] # "ready"
             PROVE  AdaptInv'
  OBVIOUS
<1>1. PICK e : e = Committed(h, i, v)
  OBVIOUS
<1>2. PICK heard : heard = Delivered(h, i, v)
  OBVIOUS
<1>3. /\ i \in Inputs(h) /\ CommitRest(h, i, v, e) /\ SetEngine(h, e) /\ inner' = inner
      /\ told' = [told EXCEPT ![h] = heard] /\ threw' = [threw EXCEPT ![h] = FALSE]
      /\ \/ stage[h] = "watching" /\ stage' = [stage EXCEPT ![h] = "loading"]
         \/ stage' = stage
  BY <1>1, <1>2 DEF Commit, CommitRest
<1>4. /\ IsEngine(e) /\ e.time = commits[h] + 1 /\ e.computes = Engine(h).computes
      /\ DOMAIN e.cells = DOMAIN Engine(h).cells
      /\ \A j \in Inputs(h) :
           \/ e.cells[j] = [written[h] EXCEPT ![i] = v][j]
           \/ [written[h] EXCEPT ![i] = v][j] = Unkept /\ e.cells[j] = Blank
      /\ heard \in [Cell -> Content \cup {NotTold}]
      /\ \A j \in Cell : heard[j] # NotTold => j \in Inputs(h) /\ heard[j] = e.cells[j]
  BY <1>1, <1>2, <1>3, CommittedIs
<1>5. HostInv(h) /\ AdaptFrame /\ OneMoved /\ UnusedIsBlank
  BY DEF AdaptInv
<1>6. /\ Engine(h)' = e
      /\ inner[h] = "old" => backend' = backend /\ old'[h] = e
      /\ inner[h] = "backend" => backend' = e
      /\ \A g \in Host \ {h} : old'[g] = old[g] /\ (inner[g] = "old" \/ backend' = backend)
      /\ IsEngine(backend') /\ (\A g \in Host : IsEngine(old'[g])) /\ old' = [g \in Host |-> old'[g]]
  BY <1>3, <1>4, EngineSet
<1>7. /\ commits'[h] \in Nat
      /\ (NamedOnce(h) => NamedOnce(h)')
      /\ Ids(h, "input")' = Ids(h, "input") /\ Ids(h, "derived")' = Ids(h, "derived")
      /\ \A g \in Host \ {h} : written'[g] = written[g] /\ commits'[g] = commits[g] /\ stream'[g] = stream[g]
      /\ written' = [g \in Host |-> written'[g]] /\ commits' = [g \in Host |-> commits'[g]]
      /\ stream' = [g \in Host |-> stream'[g]]
  BY <1>3, <1>4, CommitRestIs
<1>8. /\ told'[h] = heard /\ stage'[h] \in {stage[h], "loading"} /\ (stage[h] = "swapped" => stage' = stage)
      /\ \A g \in Host \ {h} : told'[g] = told[g] /\ stage'[g] = stage[g]
      /\ told' = [g \in Host |-> told'[g]] /\ stage' = [g \in Host |-> stage'[g]]
      /\ threw' = [g \in Host |-> threw'[g]]
  <2>1. told'[h] = heard /\ (\A g \in Host \ {h} : told'[g] = told[g]) /\ told' = [g \in Host |-> told'[g]]
        /\ threw' = [g \in Host |-> threw'[g]]
    BY <1>3, <1>5 DEF AdaptFrame
  <2>2. /\ stage'[h] \in {stage[h], "loading"} /\ (stage[h] = "swapped" => stage' = stage)
        /\ \A g \in Host \ {h} : stage'[g] = stage[g]
        /\ stage' = [g \in Host |-> stage'[g]]
    BY <1>3, <1>5 DEF AdaptFrame
  <2> QED BY <2>1, <2>2
<1>9. EngineHasTheLog(h)'
  <2>1. e.time > 0
    BY <1>4, <1>5 DEF HostInv
  <2>2. CASE inner[h] = "old"
    BY <1>3, <1>4, <1>5, <1>6, <1>7, <2>2 DEF EngineHasTheLog, HostInv, Engine
  <2>3. CASE inner[h] = "backend"
    BY <1>3, <1>4, <1>5, <1>6, <1>7, <2>1, <2>3 DEF EngineHasTheLog, HostInv, Engine
  <2> QED BY <1>5, <2>2, <2>3 DEF HostInv
<1>10. HostInv(h)'
  <2>1. inner'[h] \in {"old", "backend"} /\ (stage'[h] # "swapped" => inner'[h] = "old")
    BY <1>3, <1>5, <1>8 DEF HostInv
  <2> QED BY <1>3, <1>4, <1>6, <1>8, <1>9, <2>1, CommitHost
<1>11. \A g \in Host \ {h} : Undisturbed(g)
  BY <1>3, <1>6, <1>7, <1>8 DEF Undisturbed, Grown, CommitRest
<1>12. AdaptFrame'
  BY <1>3, <1>5, <1>6, <1>7, <1>8 DEF AdaptFrame, CommitRest
<1>13. OneMoved' /\ UnusedIsBlank'
  BY <1>3, <1>5, <1>6 DEF OneMoved, UnusedIsBlank, HostInv
<1> QED BY <1>10, <1>11, <1>12, <1>13, RestKept

\* A swap that goes through finds the new engine as no graph has used it.
LEMMA SwapKeeps ==
  \A h \in Host, i \in Cell, v \in Content :
    LET e == Committed(h, i, v) IN
    AdaptInv /\ Commit(h, i, v) /\ stage[h] = "ready" /\ SwapFrom(h, e)
      /\ told' = [told EXCEPT ![h] = Rebound(Delivered(h, i, v), backend')] => AdaptInv'
<1> SUFFICES ASSUME NEW h \in Host, NEW i \in Cell, NEW v \in Content, AdaptInv, Commit(h, i, v),
                    stage[h] = "ready", SwapFrom(h, Committed(h, i, v)),
                    told' = [told EXCEPT ![h] = Rebound(Delivered(h, i, v), backend')]
             PROVE  AdaptInv'
  OBVIOUS
<1>1. PICK e : e = Committed(h, i, v)
  OBVIOUS
<1>2. PICK heard : heard = Delivered(h, i, v)
  OBVIOUS
<1>3. PICK target : target = Replayed(h).engine
  OBVIOUS
<1>4. PICK new : new = backend'
  OBVIOUS
<1>5. /\ i \in Inputs(h) /\ CommitRest(h, i, v, e)
      /\ Accepts(target, e) /\ old' = [old EXCEPT ![h] = e] /\ new = MigratedFrom(target, e)
      /\ inner' = [inner EXCEPT ![h] = "backend"] /\ stage' = [stage EXCEPT ![h] = "swapped"]
      /\ threw' = [threw EXCEPT ![h] = FALSE] /\ told' = [told EXCEPT ![h] = Rebound(heard, new)]
  <2>1. i \in Inputs(h) /\ CommitRest(h, i, v, e)
    BY <1>1 DEF Commit, CommitRest
  <2>2. Accepts(target, e)
    BY <1>1, <1>3 DEF SwapFrom, CanSwap
  <2> QED BY <1>1, <1>2, <1>3, <1>4, <2>1, <2>2 DEF SwapFrom
<1>6. /\ IsEngine(e) /\ e.time = commits[h] + 1 /\ e.computes = Engine(h).computes
      /\ DOMAIN e.cells = DOMAIN Engine(h).cells /\ Inputs(h) \subseteq DOMAIN e.cells
      /\ \A j \in Inputs(h) :
           \/ e.cells[j] = [written[h] EXCEPT ![i] = v][j]
           \/ [written[h] EXCEPT ![i] = v][j] = Unkept /\ e.cells[j] = Blank
      /\ heard \in [Cell -> Content \cup {NotTold}]
      /\ \A j \in Cell : heard[j] # NotTold => j \in Inputs(h) /\ heard[j] = e.cells[j]
  BY <1>1, <1>2, <1>5, CommittedIs
<1>7. HostInv(h) /\ AdaptFrame /\ OneMoved /\ UnusedIsBlank
  BY DEF AdaptInv
<1>8. /\ IsEngine(target) /\ Grown(backend, target)
      /\ \A j \in DOMAIN target.cells : j \in DOMAIN backend.cells \/ target.cells[j] = Blank
  BY <1>3, ReplayGrows
<1>9. \A g \in Host : inner[g] = "old"
  <2> SUFFICES ASSUME NEW g \in Host, inner[g] # "old" PROVE FALSE
    OBVIOUS
  <2>1. HostInv(g)
    BY DEF AdaptInv
  <2>2. inner[g] = "backend" /\ backend.time > 0
    BY <2>1 DEF HostInv, EngineHasTheLog
  <2> QED BY <1>5, <1>8, <2>2 DEF Accepts, Grown
<1>10. \A j \in DOMAIN target.cells : target.cells[j] = Blank
  BY <1>7, <1>8, <1>9 DEF UnusedIsBlank, Grown
<1>11. /\ IsEngine(new) /\ new.time = e.time /\ DOMAIN new.cells = DOMAIN e.cells
       /\ \A j \in DOMAIN e.cells : new.cells[j] = IF e.cells[j] # Unkept THEN e.cells[j] ELSE Blank
  <2>1. PICK f : f = Carried(target, e)
    OBVIOUS
  <2>2. new = [cells |-> f, computes |-> target.computes, time |-> e.time]
    BY <1>5, <2>1 DEF MigratedFrom
  <2>3. IsEngine(new) /\ new.time = e.time /\ new.cells = f
    BY <2>2 DEF IsEngine
  <2>4. DOMAIN target.cells = DOMAIN e.cells
    BY <1>5 DEF Accepts
  <2>5. PICK snap : snap = Snapshot(e)
    OBVIOUS
  <2>6. /\ DOMAIN snap = {j \in DOMAIN e.cells : e.cells[j] # Unkept}
        /\ \A j \in DOMAIN snap : snap[j] = e.cells[j]
    BY <2>5 DEF Snapshot
  <2>7. f = [j \in DOMAIN target.cells |-> IF j \in DOMAIN snap THEN snap[j] ELSE target.cells[j]]
    BY <2>1, <2>5 DEF Carried
  <2> QED BY <1>10, <2>3, <2>4, <2>6, <2>7
<1>12. /\ commits'[h] \in Nat
       /\ Ids(h, "input")' = Ids(h, "input") /\ Ids(h, "derived")' = Ids(h, "derived")
       /\ \A g \in Host \ {h} : written'[g] = written[g] /\ commits'[g] = commits[g] /\ stream'[g] = stream[g]
       /\ written' = [g \in Host |-> written'[g]] /\ commits' = [g \in Host |-> commits'[g]]
       /\ stream' = [g \in Host |-> stream'[g]]
  BY <1>5, <1>6, CommitRestIs
<1>13. /\ old'[h] = e /\ inner'[h] = "backend" /\ stage'[h] = "swapped" /\ told'[h] = Rebound(heard, new)
       /\ \A g \in Host \ {h} : /\ old'[g] = old[g] /\ inner'[g] = inner[g] /\ stage'[g] = stage[g]
                                /\ told'[g] = told[g]
  BY <1>5, <1>7 DEF AdaptFrame
<1>14. /\ old' = [g \in Host |-> old'[g]] /\ inner' = [g \in Host |-> inner'[g]]
       /\ stage' = [g \in Host |-> stage'[g]] /\ threw' = [g \in Host |-> threw'[g]]
       /\ told' = [g \in Host |-> told'[g]]
  BY <1>5, <1>7 DEF AdaptFrame
<1>15. Engine(h)' = new
  BY <1>4, <1>13 DEF Engine
<1>16. EngineHasTheLog(h)'
  <2>1. e.time > 0
    BY <1>6, <1>7 DEF HostInv
  <2>2. Ids(h, "input") \subseteq DOMAIN new.cells
    BY <1>6, <1>11, InputsAreIds
  <2> QED BY <1>4, <1>11, <1>12, <1>13, <2>1, <2>2 DEF EngineHasTheLog
<1>17. \A j \in Inputs(h) : \/ new.cells[j] = [written[h] EXCEPT ![i] = v][j]
                            \/ [written[h] EXCEPT ![i] = v][j] = Unkept /\ new.cells[j] = Blank
  BY <1>6, <1>11, ContentAssumption
<1>18. /\ told'[h] \in [Cell -> Content \cup {NotTold}]
       /\ \A j \in Cell : told'[h][j] # NotTold => j \in Inputs(h) /\ told'[h][j] = new.cells[j]
  <2>1. \A j \in Cell : told'[h][j] = IF heard[j] # NotTold /\ heard[j] # new.cells[j]
                                      THEN new.cells[j] ELSE heard[j]
    BY <1>13 DEF Rebound, Tells
  <2>2. \A j \in Cell : told'[h][j] # NotTold => j \in Inputs(h) /\ told'[h][j] = new.cells[j]
    BY <1>6, <2>1
  <2>3. \A j \in Inputs(h) : new.cells[j] \in Content
    <3> SUFFICES ASSUME NEW j \in Inputs(h) PROVE new.cells[j] \in Content
      OBVIOUS
    <3>1. j \in Cell
      BY <1>7, InputsAreCells DEF HostInv
    <3>2. [written[h] EXCEPT ![i] = v][j] \in Content
      BY <1>7, <3>1 DEF HostInv
    <3> QED BY <1>17, <3>2, ContentAssumption
  <2>4. told'[h] = [j \in Cell |-> told'[h][j]]
    BY <1>13 DEF Rebound
  <2>5. \A j \in Cell : told'[h][j] \in Content \cup {NotTold}
    BY <2>2, <2>3
  <2> QED BY <2>2, <2>4, <2>5
<1>19. HostInv(h)'
  BY <1>5, <1>6, <1>11, <1>13, <1>15, <1>16, <1>17, <1>18, CommitHost
<1>20. \A g \in Host \ {h} : Undisturbed(g)
  BY <1>5, <1>9, <1>12, <1>13 DEF Undisturbed, CommitRest
<1>21. AdaptFrame'
  <2>1. \A g \in Host : IsEngine(old'[g])
    BY <1>6, <1>7, <1>13 DEF AdaptFrame
  <2> QED BY <1>4, <1>5, <1>7, <1>11, <1>12, <1>14, <2>1 DEF AdaptFrame, CommitRest
<1>22. OneMoved' /\ UnusedIsBlank'
  BY <1>9, <1>13 DEF OneMoved, UnusedIsBlank
<1> QED BY <1>19, <1>20, <1>21, <1>22, RestKept

\* A swap that throws only adds registrations to the new engine.
LEMMA ThrowKeeps ==
  \A h \in Host, i \in Cell, v \in Content :
    LET e == Committed(h, i, v) IN
    AdaptInv /\ Commit(h, i, v) /\ stage[h] = "ready" /\ SwapThrows(h, e)
      /\ told' = [told EXCEPT ![h] = Delivered(h, i, v)] => AdaptInv'
<1> SUFFICES ASSUME NEW h \in Host, NEW i \in Cell, NEW v \in Content, AdaptInv, Commit(h, i, v),
                    stage[h] = "ready", SwapThrows(h, Committed(h, i, v)),
                    told' = [told EXCEPT ![h] = Delivered(h, i, v)]
             PROVE  AdaptInv'
  OBVIOUS
<1>1. PICK e : e = Committed(h, i, v)
  OBVIOUS
<1>2. PICK heard : heard = Delivered(h, i, v)
  OBVIOUS
<1>3. PICK new : new = backend'
  OBVIOUS
<1>5. /\ i \in Inputs(h) /\ CommitRest(h, i, v, e)
      /\ old' = [old EXCEPT ![h] = e] /\ new = Replayed(h).engine
      /\ inner' = inner /\ stage' = stage
      /\ threw' = [threw EXCEPT ![h] = TRUE] /\ told' = [told EXCEPT ![h] = heard]
  <2>1. i \in Inputs(h) /\ CommitRest(h, i, v, e)
    BY <1>1 DEF Commit, CommitRest
  <2> QED BY <1>1, <1>2, <1>3, <2>1 DEF SwapThrows
<1>6. /\ IsEngine(e) /\ e.time = commits[h] + 1 /\ e.computes = Engine(h).computes
      /\ DOMAIN e.cells = DOMAIN Engine(h).cells
      /\ \A j \in Inputs(h) :
           \/ e.cells[j] = [written[h] EXCEPT ![i] = v][j]
           \/ [written[h] EXCEPT ![i] = v][j] = Unkept /\ e.cells[j] = Blank
      /\ heard \in [Cell -> Content \cup {NotTold}]
      /\ \A j \in Cell : heard[j] # NotTold => j \in Inputs(h) /\ heard[j] = e.cells[j]
  BY <1>1, <1>2, <1>5, CommittedIs
<1>7. HostInv(h) /\ AdaptFrame /\ OneMoved /\ UnusedIsBlank
  BY DEF AdaptInv
<1>8. /\ IsEngine(new) /\ Grown(backend, new)
      /\ \A j \in DOMAIN new.cells : j \in DOMAIN backend.cells \/ new.cells[j] = Blank
  BY <1>5, ReplayGrows
<1>9. inner[h] = "old"
  BY <1>7 DEF HostInv
<1>12. /\ commits'[h] \in Nat /\ (NamedOnce(h) => NamedOnce(h)')
       /\ Ids(h, "input")' = Ids(h, "input") /\ Ids(h, "derived")' = Ids(h, "derived")
       /\ \A g \in Host \ {h} : written'[g] = written[g] /\ commits'[g] = commits[g] /\ stream'[g] = stream[g]
       /\ written' = [g \in Host |-> written'[g]] /\ commits' = [g \in Host |-> commits'[g]]
       /\ stream' = [g \in Host |-> stream'[g]]
  BY <1>5, <1>6, CommitRestIs
<1>13. /\ old'[h] = e /\ told'[h] = heard
       /\ \A g \in Host \ {h} : old'[g] = old[g] /\ told'[g] = told[g]
  BY <1>5, <1>7 DEF AdaptFrame
<1>14. /\ old' = [g \in Host |-> old'[g]] /\ threw' = [g \in Host |-> threw'[g]]
       /\ told' = [g \in Host |-> told'[g]]
  BY <1>5, <1>7 DEF AdaptFrame
<1>15. Engine(h)' = e
  BY <1>5, <1>9, <1>13 DEF Engine
<1>16. EngineHasTheLog(h)'
  BY <1>5, <1>6, <1>7, <1>9, <1>12, <1>13 DEF EngineHasTheLog, HostInv, Engine
<1>19. HostInv(h)'
  BY <1>5, <1>6, <1>9, <1>13, <1>15, <1>16, CommitHost
<1>20. \A g \in Host \ {h} : Undisturbed(g)
  BY <1>3, <1>5, <1>8, <1>12, <1>13 DEF Undisturbed, CommitRest
<1>21. AdaptFrame'
  <2>1. \A g \in Host : IsEngine(old'[g])
    BY <1>6, <1>7, <1>13 DEF AdaptFrame
  <2> QED BY <1>3, <1>5, <1>7, <1>8, <1>12, <1>14, <2>1 DEF AdaptFrame, CommitRest
<1>22. OneMoved' /\ UnusedIsBlank'
  BY <1>3, <1>5, <1>7, <1>8 DEF OneMoved, UnusedIsBlank, Grown
<1> QED BY <1>19, <1>20, <1>21, <1>22, RestKept

LEMMA GraphCommitKeeps ==
  \A h \in Host, i \in Cell, v \in Content : AdaptInv /\ Commit(h, i, v) => AdaptInv'
<1> SUFFICES ASSUME NEW h \in Host, NEW i \in Cell, NEW v \in Content, AdaptInv, Commit(h, i, v)
             PROVE  AdaptInv'
  OBVIOUS
<1>1. CASE stage[h] # "ready"
  BY <1>1, PlainCommitKeeps
<1>2. CASE stage[h] = "ready"
  <2>1. \/ /\ SwapFrom(h, Committed(h, i, v))
           /\ told' = [told EXCEPT ![h] = Rebound(Delivered(h, i, v), backend')]
        \/ /\ SwapThrows(h, Committed(h, i, v))
           /\ told' = [told EXCEPT ![h] = Delivered(h, i, v)]
    BY <1>2 DEF Commit
  <2> QED BY <1>2, <2>1, SwapKeeps, ThrowKeeps
<1> QED BY <1>1, <1>2

\* Every step keeps the invariant; the swap is not seen.
LEMMA AdaptKeeps == AdaptInv /\ [AdaptNext]_adaptVars => AdaptInv'
<1> SUFFICES ASSUME AdaptInv, [AdaptNext]_adaptVars PROVE AdaptInv'
  OBVIOUS
<1>1. ASSUME NEW h \in Host, Loaded(h) \/ LoadFails(h) PROVE AdaptInv'
  BY <1>1, LoadedKeeps
<1>2. ASSUME NEW h \in Host, NEW i \in Cell,
             \/ Watch(h, i) \/ Unwatch(h, i) \/ \E kind \in {"input", "derived"} : Register(h, kind, i)
             \/ \E v \in Content : Commit(h, i, v)
      PROVE  AdaptInv'
  BY <1>2, WatchKeeps, UnwatchKeeps, RegisterKeeps, GraphCommitKeeps
<1>3. CASE UNCHANGED adaptVars
  <2>0. /\ log' = log /\ old' = old /\ backend' = backend /\ inner' = inner /\ stage' = stage
        /\ stream' = stream /\ written' = written /\ commits' = commits /\ threw' = threw /\ told' = told
    BY <1>3 DEF adaptVars, engines, observers
  <2>1. \A g \in Host : Undisturbed(g) /\ HostInv(g)
    BY <2>0 DEF Undisturbed, Grown, AdaptInv
  <2>2. \A g \in Host : HostInv(g)'
    BY <2>1, HostKept
  <2>3. AdaptFrame' /\ OneMoved' /\ UnusedIsBlank'
    BY <2>0 DEF AdaptInv, AdaptFrame, OneMoved, UnusedIsBlank
  <2> QED BY <2>2, <2>3 DEF AdaptInv
<1> QED BY <1>1, <1>2, <1>3 DEF AdaptNext

LEMMA AdaptPromises == AdaptInv => SwapIsInvisible
<1> SUFFICES ASSUME AdaptInv PROVE SwapIsInvisible
  OBVIOUS
<1>1. ReadsFollowWrites
  BY DEF AdaptInv, HostInv, FollowsWrites, ReadsFollowWrites
<1>2. WatchersAreCurrent
  BY DEF AdaptInv, HostInv, WatchesWhatIs, WatchersAreCurrent
<1>3. CommitStreamUnbroken
  BY DEF AdaptInv, HostInv, CommitStreamUnbroken
<1> QED BY <1>1, <1>2, <1>3 DEF SwapIsInvisible

\* No value directly after itself.
NoRepeats(values) == \A k \in 1..Len(values) - 1 : values[k] # values[k + 1]

LEMMA Pairs == \A x, y : <<x>> \o <<y>> = <<x, y>>
<1> SUFFICES ASSUME NEW x, NEW y PROVE <<x>> \o <<y>> = <<x, y>>
  OBVIOUS
<1>1. PICK S : S = {x, y}
  OBVIOUS
<1>2a. <<x>> \in Seq(S) /\ Len(<<x>>) = 1 /\ <<x>>[1] = x
  BY <1>1
<1>2. PICK a : a = <<x>>
  OBVIOUS
<1>3a. <<y>> \in Seq(S) /\ Len(<<y>>) = 1 /\ <<y>>[1] = y
  BY <1>1
<1>3. PICK b : b = <<y>>
  OBVIOUS
<1>4a. <<x, y>> \in Seq(S) /\ Len(<<x, y>>) = 2 /\ <<x, y>>[1] = x /\ <<x, y>>[2] = y
  BY <1>1
<1>4. PICK c : c = <<x, y>>
  OBVIOUS
<1>4b. a \in Seq(S) /\ b \in Seq(S) /\ c \in Seq(S)
  BY <1>2a, <1>3a, <1>4a, <1>2, <1>3, <1>4
<1>5. /\ a \o b \in Seq(S) /\ Len(a \o b) = 2
      /\ \A k \in 1..2 : (a \o b)[k] = IF k <= 1 THEN a[k] ELSE b[k - 1]
  BY <1>4b, <1>2, <1>3, <1>2a, <1>3a, ConcatProperties
<1>6. PICK d : d = a \o b
  OBVIOUS
<1>b. d \in Seq(S) /\ Len(d) = 2 /\ d[1] = a[1] /\ d[2] = b[1]
  BY <1>5, <1>6
<1>c. d[1] = c[1] /\ d[2] = c[2] /\ Len(c) = 2
  BY <1>b, <1>2a, <1>3a, <1>4a, <1>2, <1>3, <1>4
<1>7. \A k \in 1..2 : k = 1 \/ k = 2
  OBVIOUS
<1>8. d = c
  BY <1>4b, <1>b, <1>c, <1>7, SeqEqual
<1> QED BY <1>2, <1>3, <1>4, <1>6, <1>8

LEMMA Triples == \A x, y, z : <<x>> \o <<y, z>> = <<x, y, z>>
<1> SUFFICES ASSUME NEW x, NEW y, NEW z PROVE <<x>> \o <<y, z>> = <<x, y, z>>
  OBVIOUS
<1>1. PICK S : S = {x, y, z}
  OBVIOUS
<1>2a. <<x>> \in Seq(S) /\ Len(<<x>>) = 1 /\ <<x>>[1] = x
  BY <1>1
<1>2. PICK a : a = <<x>>
  OBVIOUS
<1>3a. <<y, z>> \in Seq(S) /\ Len(<<y, z>>) = 2 /\ <<y, z>>[1] = y /\ <<y, z>>[2] = z
  BY <1>1
<1>3. PICK b : b = <<y, z>>
  OBVIOUS
<1>4a. <<x, y, z>> \in Seq(S) /\ Len(<<x, y, z>>) = 3 /\ <<x, y, z>>[1] = x /\ <<x, y, z>>[2] = y /\ <<x, y, z>>[3] = z
  BY <1>1
<1>4. PICK c : c = <<x, y, z>>
  OBVIOUS
<1>4b. a \in Seq(S) /\ b \in Seq(S) /\ c \in Seq(S)
  BY <1>2a, <1>3a, <1>4a, <1>2, <1>3, <1>4
<1>5. /\ a \o b \in Seq(S) /\ Len(a \o b) = 3
      /\ \A k \in 1..3 : (a \o b)[k] = IF k <= 1 THEN a[k] ELSE b[k - 1]
  BY <1>4b, <1>2, <1>3, <1>2a, <1>3a, ConcatProperties
<1>6. PICK d : d = a \o b
  OBVIOUS
<1>b. d \in Seq(S) /\ Len(d) = 3 /\ d[1] = a[1] /\ d[2] = b[1] /\ d[3] = b[2]
  BY <1>5, <1>6
<1>c. d[1] = c[1] /\ d[2] = c[2] /\ d[3] = c[3] /\ Len(c) = 3
  BY <1>b, <1>2a, <1>3a, <1>4a, <1>2, <1>3, <1>4
<1>7. \A k \in 1..3 : k = 1 \/ k = 2 \/ k = 3
  OBVIOUS
<1>8. d = c
  BY <1>4b, <1>b, <1>c, <1>7, SeqEqual
<1> QED BY <1>2, <1>3, <1>4, <1>6, <1>8

LEMMA ShortCalls ==
  \A x, y, z :
    /\ NoRepeats(<<x>> \o <<>>)
    /\ NoRepeats(<<x>> \o (<<>> \o <<>>))
    /\ x # y => NoRepeats(<<x>> \o <<y>>)
    /\ x # y => NoRepeats(<<x>> \o (<<y>> \o <<>>)) /\ NoRepeats(<<x>> \o (<<>> \o <<y>>))
    /\ x # y /\ y # z => NoRepeats(<<x>> \o (<<y>> \o <<z>>))
<1> SUFFICES ASSUME NEW x, NEW y, NEW z
             PROVE  /\ NoRepeats(<<x>> \o <<>>)
                    /\ NoRepeats(<<x>> \o (<<>> \o <<>>))
                    /\ x # y => NoRepeats(<<x>> \o <<y>>)
                    /\ x # y => NoRepeats(<<x>> \o (<<y>> \o <<>>)) /\ NoRepeats(<<x>> \o (<<>> \o <<y>>))
                    /\ x # y /\ y # z => NoRepeats(<<x>> \o (<<y>> \o <<z>>))
  OBVIOUS
<1>0. PICK S : S = {x, y, z}
  OBVIOUS
<1>a. <<>> \in Seq(S) /\ <<x>> \in Seq(S) /\ <<y>> \in Seq(S) /\ <<y, z>> \in Seq(S)
  BY <1>0
<1>1. <<x>> \o <<>> = <<x>> /\ <<>> \o <<>> = <<>> /\ <<y>> \o <<>> = <<y>> /\ <<>> \o <<y>> = <<y>>
  BY <1>a, ConcatEmptySeq
<1>2. <<x>> \o <<y>> = <<x, y>> /\ <<y>> \o <<z>> = <<y, z>>
  BY <1>a, Pairs
<1>3. <<x>> \o <<y, z>> = <<x, y, z>>
  BY Triples
<1>4. NoRepeats(<<x>>)
  BY DEF NoRepeats
<1>5. ASSUME x # y PROVE NoRepeats(<<x, y>>)
  <2>1. Len(<<x, y>>) = 2 /\ \A k \in 1..2 - 1 : k = 1
    OBVIOUS
  <2> QED BY <1>5, <2>1 DEF NoRepeats
<1>6. ASSUME x # y, y # z PROVE NoRepeats(<<x, y, z>>)
  <2>1. Len(<<x, y, z>>) = 3 /\ \A k \in 1..3 - 1 : k = 1 \/ k = 2
    OBVIOUS
  <2> QED BY <1>6, <2>1 DEF NoRepeats
<1> QED BY <1>1, <1>2, <1>3, <1>4, <1>5, <1>6

CallsDiffer == \A h \in Host, i \in Cell : NoRepeats(<<told[h][i]>> \o calls'[<<h, i>>])

LEMMA SilenceDiffers == calls' = NoCalls => CallsDiffer
<1> SUFFICES ASSUME calls' = NoCalls, NEW h \in Host, NEW i \in Cell
             PROVE  NoRepeats(<<told[h][i]>> \o calls'[<<h, i>>])
  BY DEF CallsDiffer
<1>1. calls'[<<h, i>>] = <<>>
  BY DEF NoCalls
<1> QED BY <1>1, ShortCalls

LEMMA WatchDiffers == \A h \in Host, i \in Cell : AdaptInv /\ Watch(h, i) => CallsDiffer
<1> SUFFICES ASSUME NEW h \in Host, NEW i \in Cell, AdaptInv, Watch(h, i), NEW g \in Host, NEW j \in Cell
             PROVE  NoRepeats(<<told[g][j]>> \o calls'[<<g, j>>])
  BY DEF CallsDiffer
<1>1. i \in Inputs(h) /\ told[h][i] = NotTold /\ calls' = [NoCalls EXCEPT ![<<h, i>>] = <<Read(h, i)>>]
  BY DEF Watch
<1>2. HostInv(h)
  BY DEF AdaptInv
<1>3. Read(h, i) \in Content
  BY <1>1, <1>2, ContentAssumption DEF HostInv, FollowsWrites
<1>4. CASE g = h /\ j = i
  <2>1. calls'[<<g, j>>] = <<Read(h, i)>> /\ told[g][j] # Read(h, i)
    BY <1>1, <1>3, <1>4, ContentAssumption DEF NoCalls
  <2> QED BY <2>1, ShortCalls
<1>5. CASE ~(g = h /\ j = i)
  <2>1. calls'[<<g, j>>] = <<>>
    BY <1>1, <1>5 DEF NoCalls
  <2> QED BY <2>1, ShortCalls
<1> QED BY <1>4, <1>5

LEMMA HeardDiffers ==
  \A h \in Host, again \in SUBSET Cell : \A heard :
    calls' = Heard(h, heard, again) /\ (\A j \in again : told'[h][j] # heard[j]) => CallsDiffer
<1> SUFFICES ASSUME NEW h \in Host, NEW again \in SUBSET Cell, NEW heard,
                    calls' = Heard(h, heard, again), \A j \in again : told'[h][j] # heard[j]
             PROVE  CallsDiffer
  OBVIOUS
<1> SUFFICES ASSUME NEW g \in Host, NEW j \in Cell
             PROVE  NoRepeats(<<told[g][j]>> \o calls'[<<g, j>>])
  BY DEF CallsDiffer
<1>1. calls'[<<g, j>>] =
        IF g # h THEN <<>>
        ELSE (IF heard[j] # told[h][j] THEN <<heard[j]>> ELSE <<>>)
             \o (IF j \in again THEN <<told'[h][j]>> ELSE <<>>)
  BY DEF Heard
<1>2. CASE g # h
  BY <1>1, <1>2, ShortCalls
<1>3. CASE g = h
  <2>1. CASE heard[j] # told[h][j] /\ j \in again
    <3>1. calls'[<<g, j>>] = <<heard[j]>> \o <<told'[h][j]>>
      BY <1>1, <1>3, <2>1
    <3> QED BY <1>3, <2>1, <3>1, ShortCalls
  <2>2. CASE heard[j] # told[h][j] /\ j \notin again
    <3>1. calls'[<<g, j>>] = <<heard[j]>> \o <<>>
      BY <1>1, <1>3, <2>2
    <3> QED BY <1>3, <2>2, <3>1, ShortCalls
  <2>3. CASE heard[j] = told[h][j] /\ j \in again
    <3>1. calls'[<<g, j>>] = <<>> \o <<told'[h][j]>>
      BY <1>1, <1>3, <2>3
    <3> QED BY <1>3, <2>3, <3>1, ShortCalls
  <2>4. CASE heard[j] = told[h][j] /\ j \notin again
    <3>1. calls'[<<g, j>>] = <<>> \o <<>>
      BY <1>1, <1>3, <2>4
    <3> QED BY <1>3, <3>1, ShortCalls
  <2> QED BY <2>1, <2>2, <2>3, <2>4
<1> QED BY <1>2, <1>3

LEMMA CommitDiffers ==
  \A h \in Host, i \in Cell, v \in Content : AdaptInv /\ Commit(h, i, v) => CallsDiffer
<1> SUFFICES ASSUME NEW h \in Host, NEW i \in Cell, NEW v \in Content, AdaptInv, Commit(h, i, v)
             PROVE  CallsDiffer
  OBVIOUS
<1>1. PICK heard : heard = Delivered(h, i, v)
  OBVIOUS
<1>2. PICK again : again = {j \in Cell : Tells(heard, backend', j)}
  OBVIOUS
<1>3. \/ calls' = Heard(h, heard, {})
      \/ calls' = Heard(h, heard, again) /\ told' = [told EXCEPT ![h] = Rebound(heard, backend')]
  BY <1>1, <1>2 DEF Commit
<1>4. CASE calls' = Heard(h, heard, {})
  BY <1>4, HeardDiffers
<1>5. CASE calls' = Heard(h, heard, again) /\ told' = [told EXCEPT ![h] = Rebound(heard, backend')]
  <2>1. told'[h] = Rebound(heard, backend')
    BY <1>5 DEF AdaptInv, AdaptFrame
  <2>2. again \in SUBSET Cell /\ \A j \in again : told'[h][j] # heard[j]
    BY <1>2, <2>1 DEF Rebound, Tells
  <2> QED BY <1>5, <2>2, HeardDiffers
<1> QED BY <1>3, <1>4, <1>5

LEMMA NextDiffers == AdaptInv /\ AdaptNext => CallsDiffer
<1> SUFFICES ASSUME AdaptInv, AdaptNext PROVE CallsDiffer
  OBVIOUS
<1>1. ASSUME NEW h \in Host, Loaded(h) \/ LoadFails(h) PROVE CallsDiffer
  BY <1>1, SilenceDiffers DEF Loaded, LoadFails
<1>2. ASSUME NEW h \in Host, NEW i \in Cell,
             \/ Watch(h, i) \/ Unwatch(h, i) \/ \E kind \in {"input", "derived"} : Register(h, kind, i)
             \/ \E v \in Content : Commit(h, i, v)
      PROVE  CallsDiffer
  <2>1. ASSUME Unwatch(h, i) \/ \E kind \in {"input", "derived"} : Register(h, kind, i) PROVE CallsDiffer
    BY <2>1, SilenceDiffers DEF Unwatch, Register
  <2> QED BY <1>2, <2>1, WatchDiffers, CommitDiffers
<1> QED BY <1>1, <1>2 DEF AdaptNext

-----------------------------------------------------------------------------
\* A replay on a fresh engine is refused nothing, unless a compute is picky.
HasPicky(h) == \E k \in DOMAIN log[h] : log[h][k].kind = "derived" /\ <<h, log[h][k].id>> \in Picky

LEMMA PlainReplay ==
  \A h \in Host, i \in Cell, v \in Content :
    AdaptInv /\ inner[h] = "old" /\ i \in Inputs(h) /\ backend = Fresh /\ ~HasPicky(h)
      => CanSwap(h, Committed(h, i, v))
<1> SUFFICES ASSUME NEW h \in Host, NEW i \in Cell, NEW v \in Content, AdaptInv, inner[h] = "old",
                    i \in Inputs(h), backend = Fresh, ~HasPicky(h)
             PROVE  CanSwap(h, Committed(h, i, v))
  OBVIOUS
<1>1. HostInv(h)
  BY DEF AdaptInv
<1>2. PICK s \in Seq(Entry) : s = log[h]
  BY <1>1 DEF HostInv
<1>3. PICK n \in Nat : n = Len(s) /\ DOMAIN s = 1..n
  OBVIOUS
<1>4. \A k \in 1..n : \/ s[k].kind = "input"
                      \/ s[k].kind = "derived" /\ <<h, s[k].id>> \notin Picky
  <2>1. \A k \in 1..n : s[k] \in Entry
    BY <1>3
  <2> QED BY <1>2, <1>3, <2>1 DEF Entry, HasPicky
<1>5. \A j, k \in 1..n : s[j].kind = s[k].kind /\ s[j].id = s[k].id => j = k
  <2>1. NamedOnce(h)
    BY <1>1 DEF HostInv, EngineHasTheLog
  <2> QED BY <1>2, <1>3, <2>1 DEF NamedOnce
<1>6. backend.cells = <<>> /\ backend.computes = {} /\ backend.time = 0 /\ DOMAIN <<>> = {}
  BY DEF Fresh
<1> DEFINE named(kind, m) == {s[k].id : k \in {j \in 1..m : s[j].kind = kind}}
<1>7. ASSUME NEW m \in 0..n
      PROVE  /\ DOMAIN ReplayedTo(h, m).cells = named("input", m)
             /\ ReplayedTo(h, m).computes = named("derived", m) /\ ReplayedTo(h, m).time = 0
  <2>1. PICK ids : ids = named("input", m)
    OBVIOUS
  <2>2. PICK ids2 : ids2 = named("derived", m)
    OBVIOUS
  <2>3. PICK f : f = [c \in DOMAIN backend.cells \cup ids |->
                        IF c \in DOMAIN backend.cells THEN backend.cells[c] ELSE Blank]
    OBVIOUS
  <2>4. ReplayedTo(h, m) = [cells |-> f, computes |-> backend.computes \cup ids2, time |-> backend.time]
    BY <1>2, <2>1, <2>2, <2>3 DEF ReplayedTo
  <2>5. DOMAIN f = ids
    BY <1>6, <2>3
  <2> QED BY <1>6, <2>1, <2>2, <2>4, <2>5
<1>8. \A k \in 1..n : ~Refuses(h, ReplayedTo(h, k - 1), s[k])
  <2> SUFFICES ASSUME NEW k \in 1..n PROVE ~Refuses(h, ReplayedTo(h, k - 1), s[k])
    OBVIOUS
  <2>1. k - 1 \in 0..n /\ \A j \in 1..k - 1 : j \in 1..n /\ j # k
    OBVIOUS
  <2>2. /\ DOMAIN ReplayedTo(h, k - 1).cells = named("input", k - 1)
        /\ ReplayedTo(h, k - 1).computes = named("derived", k - 1)
    BY <1>7, <2>1
  <2>3. s[k].id \notin named(s[k].kind, k - 1)
    BY <1>5, <2>1
  <2>4. CASE s[k].kind = "input"
    BY <2>2, <2>3, <2>4 DEF Refuses
  <2>5. CASE s[k].kind = "derived" /\ <<h, s[k].id>> \notin Picky
    BY <2>2, <2>3, <2>5 DEF Refuses
  <2> QED BY <1>4, <2>4, <2>5
<1>9. n \in {m \in 0..Len(log[h]) : Replays(h, m)}
  BY <1>2, <1>3, <1>8 DEF Replays
<1>10. Max({m \in 0..Len(log[h]) : Replays(h, m)}) = n
  <2>1. PICK S : S = {m \in 0..n : Replays(h, m)}
    OBVIOUS
  <2>2. n \in S /\ \A m \in S : m \in Nat /\ m <= n
    BY <1>2, <1>3, <1>9, <2>1
  <2>3. \E x \in S : \A y \in S : x >= y
    BY <2>2
  <2>4. Max(S) \in S /\ \A y \in S : Max(S) >= y
    BY <2>3 DEF Max
  <2>5. PICK top : top = Max(S)
    OBVIOUS
  <2>6. top \in Nat /\ top <= n /\ top >= n
    BY <2>2, <2>4, <2>5
  <2>7. top = n
    BY <2>6
  <2>8. Max(S) = n
    BY <2>5, <2>7
  <2>9. S = {m \in 0..Len(log[h]) : Replays(h, m)}
    BY <1>2, <1>3, <2>1
  <2> QED BY <2>8, <2>9
<1>11. ~Replayed(h).failed /\ Replayed(h).engine = ReplayedTo(h, n)
  <2>1. Replayed(h) = [engine |-> ReplayedTo(h, n), failed |-> n < Len(log[h])]
    BY <1>10 DEF Replayed
  <2>2. (n < Len(log[h])) = FALSE
    BY <1>2, <1>3
  <2>3. Replayed(h) = [engine |-> ReplayedTo(h, n), failed |-> FALSE]
    BY <2>1, <2>2, Zenon
  <2> QED BY <2>3
<1>12. Ids(h, "input") = named("input", n) /\ Ids(h, "derived") = named("derived", n)
  BY <1>2, <1>3 DEF Ids
<1>13. DOMAIN Committed(h, i, v).cells = DOMAIN Engine(h).cells
       /\ Committed(h, i, v).computes = Engine(h).computes
  BY CommittedIs
<1>14. Engine(h) = old[h] /\ DOMAIN old[h].cells = Ids(h, "input") /\ old[h].computes = Ids(h, "derived")
  BY <1>1 DEF HostInv, EngineHasTheLog, Engine
<1>15. Accepts(ReplayedTo(h, n), Committed(h, i, v))
  <2>1. n \in 0..n
    OBVIOUS
  <2> QED BY <1>7, <1>12, <1>13, <1>14, <2>1 DEF Accepts
<1> QED BY <1>11, <1>15 DEF CanSwap

ThrowHasReason ==
  \A h \in Host : threw'[h] /\ ~threw[h] /\ backend = Fresh
    => \E k \in DOMAIN log[h] : log[h][k].kind = "derived" /\ <<h, log[h][k].id>> \in Picky

LEMMA NextHasReason == AdaptInv /\ AdaptNext => ThrowHasReason
<1> SUFFICES ASSUME AdaptInv, AdaptNext, NEW g \in Host, threw'[g], ~threw[g], backend = Fresh
             PROVE  HasPicky(g)
  BY DEF ThrowHasReason, HasPicky
<1>1. PICK h \in Host, i \in Cell, v \in Content : Commit(h, i, v)
  <2>1. threw' # threw
    OBVIOUS
  <2> QED BY <2>1 DEF AdaptNext, Loaded, LoadFails, Watch, Unwatch, Register, control
<1>2. /\ i \in Inputs(h)
      /\ \/ threw' = [threw EXCEPT ![h] = FALSE]
         \/ /\ stage[h] = "ready" /\ threw' = [threw EXCEPT ![h] = TRUE]
            /\ ~CanSwap(h, Committed(h, i, v))
  BY <1>1 DEF Commit, SwapFrom, SwapThrows
<1>3. threw = [f \in Host |-> threw[f]]
  BY DEF AdaptInv, AdaptFrame
<1>4. h = g /\ stage[h] = "ready" /\ ~CanSwap(h, Committed(h, i, v))
  BY <1>2, <1>3
<1>5. inner[h] = "old"
  BY <1>4 DEF AdaptInv, HostInv
<1> QED BY <1>2, <1>4, <1>5, PlainReplay


\* The graphs with backend 'auto': what is read and heard does not tell that
\* the engine was changed.
THEOREM SwapIsSound == AdaptSpec => []SwapIsInvisible
<1>1. AdaptInit => AdaptInv
  BY AdaptInitHolds
<1>2. AdaptInv /\ [AdaptNext]_adaptVars => AdaptInv'
  BY AdaptKeeps
<1>3. AdaptInv => SwapIsInvisible
  BY AdaptPromises
<1> QED BY <1>1, <1>2, <1>3, PTL DEF AdaptSpec

\* Across a swap no observer is called twice in a row with one value, and onto a
\* fresh engine a swap throws only for a compute that cannot take a blank input.
THEOREM SwapsAreQuiet == AdaptSpec => SwapIsQuiet
<1>1. AdaptInit => AdaptInv
  BY AdaptInitHolds
<1>2. AdaptInv /\ [AdaptNext]_adaptVars => AdaptInv'
  BY AdaptKeeps
<1>3. AdaptInv /\ [AdaptNext]_adaptVars =>
        [\A h \in Host, i \in Cell :
           LET values == <<told[h][i]>> \o calls'[<<h, i>>]
           IN \A k \in 1..Len(values) - 1 : values[k] # values[k + 1]]_adaptVars
  BY NextDiffers DEF CallsDiffer, NoRepeats
<1>4. AdaptInv /\ [AdaptNext]_adaptVars =>
        [\A h \in Host :
           threw'[h] /\ ~threw[h] /\ backend = Fresh
             => \E k \in DOMAIN log[h] :
                  log[h][k].kind = "derived" /\ <<h, log[h][k].id>> \in Picky]_adaptVars
  BY NextHasReason DEF ThrowHasReason
<1> QED BY <1>1, <1>2, <1>3, <1>4, PTL DEF AdaptSpec, SwapIsQuiet, NoRepeatedCall, SwapThrowsOnlyFor

-----------------------------------------------------------------------------
(* The loader: one promise per bridge, and the microtasks that settle it.  *)

Jobs == [kind : {"resume"}, caller : Caller]
        \cup [kind : {"drop"}, bridge : BridgeIds]
        \cup [kind : {"pass on"}, caller : Caller, hops : Nat]

Serves(j, c) == j.kind \in {"resume", "pass on"} /\ j.caller = c
Drops(j, b)  == j.kind = "drop" /\ j.bridge = b

Rejected(p) == p # NoPromise /\ ~p.ok
Promised(r) == r.stage \in {"waiting", "served", "refused"}

\* A rejected promise is dropped by exactly one job, and those who wait for it
\* are told after that job; nobody is served by two jobs.
QueueInv(q, cache, req) ==
  /\ \A k \in DOMAIN q : q[k].kind = "drop" => Rejected(cache[q[k].bridge])
  /\ \A j, k \in DOMAIN q, b \in BridgeIds : Drops(q[j], b) /\ Drops(q[k], b) => j = k
  /\ \A b \in BridgeIds : Rejected(cache[b]) => \E k \in DOMAIN q : Drops(q[k], b)
  /\ \A k \in DOMAIN q, c \in Caller :
       Serves(q[k], c) => req[c].stage = IF q[k].kind = "resume" THEN "detecting" ELSE "waiting"
  /\ \A j, k \in DOMAIN q, c \in Caller : Serves(q[j], c) /\ Serves(q[k], c) => j = k
  /\ \A k \in DOMAIN q, c \in Caller :
       q[k].kind = "pass on" /\ Serves(q[k], c) /\ ~req[c].promise.ok
         /\ cache[req[c].bridge] = req[c].promise
         => \E j \in DOMAIN q : j < k /\ Drops(q[j], req[c].bridge)

IsPromise(p, n) == p.id \in 1..n /\ (p.ok => Acceptable(p.offer)) /\ (Acceptable(p.offer) => p.ok)

\* Whoever had a promise made is waiting for it as long as it is rejected and
\* still in the cache.
CacheInv(cache, req, n) ==
  \A b \in BridgeIds :
    /\ cache[b] = NoPromise \/ IsPromise(cache[b], n)
    /\ Rejected(cache[b]) => /\ cache[b].by \in Caller
                             /\ req[cache[b].by].stage = "waiting"
                             /\ req[cache[b].by].promise = cache[b]
                             /\ req[cache[b].by].bridge = b

RequestInv(cache, req, n) ==
  \A c \in Caller :
    /\ Promised(req[c]) =>
         /\ req[c].bridge \in BridgeIds /\ IsPromise(req[c].promise, n)
         /\ req[c].promise.ok => cache[req[c].bridge] = req[c].promise
         /\ ~req[c].promise.ok /\ req[c].promise.by = c => ~Acceptable(req[c].offer)
    /\ req[c].stage = "served" => req[c].promise.ok
    /\ req[c].stage = "refused" => ~req[c].promise.ok /\ cache[req[c].bridge] # req[c].promise

LoaderInv ==
  /\ jobs \in Seq(Jobs) /\ loads \in Nat
  /\ cachedFor = [b \in BridgeIds |-> cachedFor[b]] /\ requests = [c \in Caller |-> requests[c]]
  /\ QueueInv(jobs, cachedFor, requests)
  /\ CacheInv(cachedFor, requests, loads)
  /\ RequestInv(cachedFor, requests, loads)

LEMMA LoaderInitHolds == LoaderInit => LoaderInv
<1> SUFFICES ASSUME LoaderInit PROVE LoaderInv
  OBVIOUS
<1>0. DOMAIN <<>> = {} /\ jobs = <<>> /\ loads = 0 /\ jobs \in Seq(Jobs)
  BY DEF LoaderInit
<1>1. \A b \in BridgeIds : cachedFor[b] = NoPromise
  BY DEF LoaderInit
<1>2. \A c \in Caller : requests[c].stage = "none"
  BY DEF LoaderInit
<1>3. QueueInv(jobs, cachedFor, requests)
  BY <1>0, <1>1 DEF QueueInv, Rejected
<1>4. CacheInv(cachedFor, requests, loads)
  BY <1>1 DEF CacheInv, Rejected
<1>5. RequestInv(cachedFor, requests, loads)
  BY <1>2 DEF RequestInv, Promised
<1> QED BY <1>0, <1>3, <1>4, <1>5 DEF LoaderInv, LoaderInit

LEMMA OneMore ==
  \A n \in Nat : /\ \A k \in 1..n : k \in 1..(n + 1) /\ k < n + 1
                 /\ \A k \in 1..(n + 1) : k \in 1..n \/ k = n + 1
                 /\ n + 1 \in 1..(n + 1)
OBVIOUS

LEMMA JobsAppended ==
  ASSUME NEW q \in Seq(Jobs), NEW j \in Jobs
  PROVE  /\ Append(q, j) \in Seq(Jobs) /\ DOMAIN Append(q, j) = 1..(Len(q) + 1)
         /\ Append(q, j)[Len(q) + 1] = j /\ \A k \in 1..Len(q) : Append(q, j)[k] = q[k]
         /\ DOMAIN q = 1..Len(q) /\ Len(q) \in Nat
BY AppendProperties

\* A job that tells a caller, put behind the others.
LEMMA TellingQueued ==
  ASSUME NEW q \in Seq(Jobs), NEW cache, NEW req, QueueInv(q, cache, req),
         NEW c \in Caller, NEW j \in Jobs, j.kind = "pass on", j.caller = c,
         req[c].stage = "waiting", req[c].bridge \in BridgeIds, req[c].promise # NoPromise,
         \A k \in DOMAIN q : ~Serves(q[k], c)
  PROVE  QueueInv(Append(q, j), cache, req) /\ Append(q, j) \in Seq(Jobs)
<1>1. PICK s : s = Append(q, j)
  OBVIOUS
<1>0. Len(q) \in Nat
  BY JobsAppended
<1>2. PICK n \in Nat : n = Len(q)
  BY <1>0
<1>2a. DOMAIN q = 1..n /\ DOMAIN s = 1..(n + 1)
  BY <1>1, <1>2, JobsAppended
<1>2b. /\ \A k \in 1..n : k \in 1..(n + 1) /\ k < n + 1
       /\ \A k \in 1..(n + 1) : k \in 1..n \/ k = n + 1
       /\ n + 1 \in 1..(n + 1)
  BY <1>2, OneMore
<1>3. /\ n \in Nat /\ s \in Seq(Jobs) /\ n + 1 \in DOMAIN s
      /\ s[n + 1] = j /\ \A k \in DOMAIN q : s[k] = q[k]
  <2>1. s \in Seq(Jobs) /\ s[n + 1] = j /\ \A k \in 1..n : s[k] = q[k]
    BY <1>1, <1>2, JobsAppended
  <2> QED BY <1>2a, <1>2b, <2>1
<1>4. \A k \in DOMAIN s : k \in DOMAIN q \/ k = n + 1
  BY <1>2a, <1>2b
<1>5. DOMAIN q \subseteq DOMAIN s /\ \A k \in DOMAIN q : k < n + 1 /\ s[k] = q[k]
  BY <1>2a, <1>2b, <1>3
<1>6. \A b : ~Drops(j, b)
  BY DEF Drops
<1>7. \A d : Serves(j, d) => d = c
  BY DEF Serves
<1> USE DEF QueueInv
<1>8. \A k \in DOMAIN s : s[k].kind = "drop" => Rejected(cache[s[k].bridge])
  BY <1>3, <1>4, <1>5
<1>9. \A i, k \in DOMAIN s, b \in BridgeIds : Drops(s[i], b) /\ Drops(s[k], b) => i = k
  BY <1>3, <1>4, <1>5, <1>6
<1>10. \A b \in BridgeIds : Rejected(cache[b]) => \E k \in DOMAIN s : Drops(s[k], b)
  BY <1>5
<1>11. \A k \in DOMAIN s, d \in Caller :
         Serves(s[k], d) => req[d].stage = IF s[k].kind = "resume" THEN "detecting" ELSE "waiting"
  BY <1>3, <1>4, <1>5, <1>7
<1>12. ASSUME NEW i \in DOMAIN s, NEW k \in DOMAIN s, NEW d \in Caller, Serves(s[i], d), Serves(s[k], d)
       PROVE  i = k
  <2>1. CASE i \in DOMAIN q /\ k \in DOMAIN q
    BY <1>5, <1>12, <2>1
  <2>2. CASE i \notin DOMAIN q \/ k \notin DOMAIN q
    <3>1. s[n + 1] = j /\ (i = n + 1 \/ k = n + 1)
      BY <1>3, <1>4, <2>2
    <3>2. d = c
      BY <1>7, <1>12, <3>1
    <3>3. i \notin DOMAIN q /\ k \notin DOMAIN q
      BY <1>5, <1>12, <3>2
    <3> QED BY <1>4, <3>3
  <2> QED BY <2>1, <2>2
<1>13. ASSUME NEW k \in DOMAIN s, NEW d \in Caller, s[k].kind = "pass on", Serves(s[k], d),
              ~req[d].promise.ok, cache[req[d].bridge] = req[d].promise
       PROVE  \E i \in DOMAIN s : i < k /\ Drops(s[i], req[d].bridge)
  <2>1. CASE k \in DOMAIN q
    BY <1>5, <1>13, <2>1
  <2>2. CASE k = n + 1
    <3>1. d = c
      BY <1>3, <1>7, <1>13, <2>2
    <3>2. Rejected(cache[req[d].bridge])
      BY <1>13, <3>1 DEF Rejected
    <3>3. PICK i \in DOMAIN q : Drops(q[i], req[d].bridge)
      BY <3>1, <3>2
    <3> QED BY <1>5, <2>2, <3>3
  <2> QED BY <1>4, <2>1, <2>2
<1> QED BY <1>1, <1>3, <1>8, <1>9, <1>10, <1>11, <1>12, <1>13

\* A caller without a job may change what it asks for.
LEMMA OthersQueued ==
  ASSUME NEW q \in Seq(Jobs), NEW cache, NEW req, NEW after, QueueInv(q, cache, req),
         NEW c \in Caller, \A k \in DOMAIN q : ~Serves(q[k], c),
         \A d \in Caller \ {c} : after[d] = req[d]
  PROVE  QueueInv(q, cache, after)
<1> USE DEF QueueInv
<1>1. \A k \in DOMAIN q, d \in Caller : Serves(q[k], d) => after[d] = req[d]
  OBVIOUS
<1>2. \A k \in DOMAIN q, d \in Caller :
        Serves(q[k], d) => after[d].stage = IF q[k].kind = "resume" THEN "detecting" ELSE "waiting"
  BY <1>1
<1>3. ASSUME NEW k \in DOMAIN q, NEW d \in Caller, q[k].kind = "pass on", Serves(q[k], d),
              ~after[d].promise.ok, cache[after[d].bridge] = after[d].promise
       PROVE  \E i \in DOMAIN q : i < k /\ Drops(q[i], after[d].bridge)
  BY <1>1, <1>3
<1> QED BY <1>2, <1>3

\* The first job is done with and is not one that drops.
LEMMA TailQueued ==
  ASSUME NEW q \in Seq(Jobs), NEW cache, NEW req, QueueInv(q, cache, req), q # <<>>,
         Head(q).kind # "drop"
  PROVE  /\ QueueInv(Tail(q), cache, req) /\ Tail(q) \in Seq(Jobs)
         /\ \A c \in Caller, k \in DOMAIN Tail(q) : Serves(Head(q), c) => ~Serves(Tail(q)[k], c)
<1>1. PICK s : s = Tail(q)
  OBVIOUS
<1>2. PICK n \in Nat : n = Len(s) /\ DOMAIN s = 1..n /\ s \in Seq(Jobs) /\ DOMAIN q = 1..(n + 1)
  BY <1>1, HeadTailProperties
<1>2a. \A i, k \in DOMAIN s : (i + 1 = k + 1 => i = k) /\ i + 1 # 1
  BY <1>2
<1>2b. \A i \in DOMAIN q, k \in DOMAIN s : i < k + 1 /\ i # 1 => i - 1 < k
  BY <1>2
<1>3. \A k \in DOMAIN s : s[k] = q[k + 1] /\ k + 1 \in DOMAIN q
  BY <1>1, <1>2, HeadTailProperties
<1>4. Head(q) = q[1] /\ 1 \in DOMAIN q /\ \A k \in DOMAIN q : k = 1 \/ (k - 1 \in DOMAIN s /\ s[k - 1] = q[k])
  BY <1>2, <1>3
<1> USE DEF QueueInv
<1>5. \A k \in DOMAIN s : s[k].kind = "drop" => Rejected(cache[s[k].bridge])
  BY <1>3
<1>6. \A i, k \in DOMAIN s, b \in BridgeIds : Drops(s[i], b) /\ Drops(s[k], b) => i = k
  <2> SUFFICES ASSUME NEW i \in DOMAIN s, NEW k \in DOMAIN s, NEW b \in BridgeIds,
                      Drops(s[i], b), Drops(s[k], b)
               PROVE  i = k
    OBVIOUS
  <2>1. i + 1 = k + 1
    BY <1>3
  <2> QED BY <1>2a, <2>1
<1>7. ASSUME NEW b \in BridgeIds, Rejected(cache[b]) PROVE \E k \in DOMAIN s : Drops(s[k], b)
  <2>1. PICK k \in DOMAIN q : Drops(q[k], b)
    BY <1>7
  <2>2. k # 1
    BY <1>4, <2>1 DEF Drops
  <2> QED BY <1>4, <2>1, <2>2
<1>8. \A k \in DOMAIN s, d \in Caller :
        Serves(s[k], d) => req[d].stage = IF s[k].kind = "resume" THEN "detecting" ELSE "waiting"
  BY <1>3
<1>9. \A i, k \in DOMAIN s, d \in Caller : Serves(s[i], d) /\ Serves(s[k], d) => i = k
  <2> SUFFICES ASSUME NEW i \in DOMAIN s, NEW k \in DOMAIN s, NEW d \in Caller,
                      Serves(s[i], d), Serves(s[k], d)
               PROVE  i = k
    OBVIOUS
  <2>1. i + 1 = k + 1
    BY <1>3
  <2> QED BY <1>2a, <2>1
<1>10. ASSUME NEW k \in DOMAIN s, NEW d \in Caller, s[k].kind = "pass on", Serves(s[k], d),
              ~req[d].promise.ok, cache[req[d].bridge] = req[d].promise
       PROVE  \E i \in DOMAIN s : i < k /\ Drops(s[i], req[d].bridge)
  <2>1. PICK i \in DOMAIN q : i < k + 1 /\ Drops(q[i], req[d].bridge)
    BY <1>3, <1>10
  <2>2. i # 1
    BY <1>4, <2>1 DEF Drops
  <2>3. i - 1 \in DOMAIN s /\ s[i - 1] = q[i] /\ i - 1 < k
    BY <1>2b, <1>4, <2>1, <2>2
  <2> QED BY <2>1, <2>3
<1>11. ASSUME NEW c \in Caller, NEW k \in DOMAIN s, Serves(q[1], c) PROVE ~Serves(s[k], c)
  <2>1. k + 1 # 1 /\ k + 1 \in DOMAIN q /\ s[k] = q[k + 1] /\ 1 \in DOMAIN q
    BY <1>2a, <1>3, <1>4
  <2>2. Serves(s[k], c) => k + 1 = 1
    BY <1>11, <2>1
  <2> QED BY <2>1, <2>2
<1> QED BY <1>1, <1>2, <1>4, <1>5, <1>6, <1>7, <1>8, <1>9, <1>10, <1>11

LEMMA MadeIs ==
  ASSUME NEW c, NEW o, loads \in Nat
  PROVE  LET made == InstantiateBackend(c, o)
         IN /\ made.id = loads + 1 /\ made.by = c /\ made.offer = o
            /\ IsPromise(made, loads + 1) /\ made # NoPromise
<1>1. PICK ok \in BOOLEAN : ok = Acceptable(o)
  BY DEF Acceptable
<1>2. PICK made : made = InstantiateBackend(c, o)
  OBVIOUS
<1>3. made = [id |-> loads + 1, by |-> c, offer |-> o, ok |-> Acceptable(o),
              mode |-> EngineMode(o), window |-> WindowOf(o)]
  BY <1>2 DEF InstantiateBackend
<1>4. made = [id |-> loads + 1, by |-> c, offer |-> o, ok |-> ok,
              mode |-> EngineMode(o), window |-> WindowOf(o)]
  BY <1>1, <1>3, Zenon
<1>5. made.id = loads + 1 /\ made.by = c /\ made.offer = o /\ made.ok = ok
  BY <1>4
<1>6. (made.ok => Acceptable(made.offer)) /\ (Acceptable(made.offer) => made.ok)
  BY <1>1, <1>5, Zenon
<1>7. loads + 1 \in 1..(loads + 1) /\ loads + 1 # 0
  OBVIOUS
<1>8. made # NoPromise
  BY <1>5, <1>7 DEF NoPromise
<1> QED BY <1>2, <1>5, <1>6, <1>7, <1>8 DEF IsPromise

LEMMA PromisesStay ==
  \A p : loads \in Nat /\ IsPromise(p, loads) => IsPromise(p, loads + 1) /\ p.id # loads + 1
<1> SUFFICES ASSUME NEW p, loads \in Nat, IsPromise(p, loads)
             PROVE  IsPromise(p, loads + 1) /\ p.id # loads + 1
  OBVIOUS
<1>1. p.id \in 1..loads
  BY DEF IsPromise
<1>2. p.id \in 1..(loads + 1) /\ p.id # loads + 1
  BY <1>1
<1> QED BY <1>2 DEF IsPromise

\* A look into the cache by a caller for whom no job is queued.
LEMMA ShareKeeps ==
  ASSUME NEW c \in Caller, NEW o, NEW b \in BridgeIds, NEW q \in Seq(Jobs), LoaderInv,
         QueueInv(q, cachedFor, requests), \A k \in DOMAIN q : ~Serves(q[k], c),
         requests[c].stage # "waiting", Share(c, o, b, q)
  PROVE  LoaderInv'
<1>0. /\ loads \in Nat /\ cachedFor = [d \in BridgeIds |-> cachedFor[d]]
      /\ requests = [d \in Caller |-> requests[d]]
      /\ CacheInv(cachedFor, requests, loads) /\ RequestInv(cachedFor, requests, loads)
  BY DEF LoaderInv
<1>1. PICK pass : pass = PassOn(c, o)
  OBVIOUS
<1>2. pass \in Jobs /\ pass.kind = "pass on" /\ pass.caller = c
  BY <1>1 DEF PassOn, Jobs
<1>3. \A d \in BridgeIds : Rejected(cachedFor[d]) => cachedFor[d].by # c
  BY <1>0 DEF CacheInv
<1>4. CASE cachedFor[b] # NoPromise
  <2>1. PICK p : p = cachedFor[b]
    OBVIOUS
  <2>2. PICK r : r = [stage |-> "waiting", offer |-> o, bridge |-> b, promise |-> p]
    OBVIOUS
  <2>3. r.stage = "waiting" /\ r.offer = o /\ r.bridge = b /\ r.promise = p
    BY <2>2
  <2>4. /\ requests' = [requests EXCEPT ![c] = r] /\ jobs' = Append(q, pass)
        /\ cachedFor' = cachedFor /\ loads' = loads
    BY <1>1, <1>4, <2>1, <2>2 DEF Share
  <2>5. requests'[c] = r /\ (\A d \in Caller \ {c} : requests'[d] = requests[d])
        /\ requests' = [d \in Caller |-> requests'[d]]
    BY <1>0, <2>4
  <2>6. QueueInv(q, cachedFor, requests')
    BY <2>5, OthersQueued
  <2>7. IsPromise(p, loads) /\ p # NoPromise
    BY <1>0, <1>4, <2>1 DEF CacheInv
  <2>8. QueueInv(jobs', cachedFor, requests') /\ jobs' \in Seq(Jobs)
    <3>1. /\ requests'[c].stage = "waiting" /\ requests'[c].bridge \in BridgeIds
          /\ requests'[c].promise # NoPromise
      BY <2>3, <2>5, <2>7
    <3>2. QueueInv(Append(q, pass), cachedFor, requests') /\ Append(q, pass) \in Seq(Jobs)
      BY <1>2, <2>6, <3>1, TellingQueued
    <3> QED BY <2>4, <3>2
  <2>9. CacheInv(cachedFor, requests', loads)
    BY <1>0, <1>3, <2>5 DEF CacheInv
  <2>10. RequestInv(cachedFor, requests', loads)
    <3> SUFFICES ASSUME NEW d \in Caller
                 PROVE  /\ Promised(requests'[d]) =>
                             /\ requests'[d].bridge \in BridgeIds /\ IsPromise(requests'[d].promise, loads)
                             /\ requests'[d].promise.ok => cachedFor[requests'[d].bridge] = requests'[d].promise
                             /\ ~requests'[d].promise.ok /\ requests'[d].promise.by = d
                                  => ~Acceptable(requests'[d].offer)
                        /\ requests'[d].stage = "served" => requests'[d].promise.ok
                        /\ requests'[d].stage = "refused" =>
                             ~requests'[d].promise.ok /\ cachedFor[requests'[d].bridge] # requests'[d].promise
      BY DEF RequestInv
    <3>1. CASE d # c
      BY <1>0, <2>5, <3>1 DEF RequestInv
    <3>2. CASE d = c
      <4>1. ~p.ok => p.by # c
        BY <1>3, <2>1, <2>7 DEF Rejected
      <4> QED BY <2>1, <2>3, <2>5, <2>7, <3>2, <4>1
    <3> QED BY <3>1, <3>2
  <2> QED BY <1>0, <2>4, <2>5, <2>8, <2>9, <2>10 DEF LoaderInv
<1>5. CASE cachedFor[b] = NoPromise
  <2>1. PICK made : made = InstantiateBackend(c, o)
    OBVIOUS
  <2>2. PICK r : r = [stage |-> "waiting", offer |-> o, bridge |-> b, promise |-> made]
    OBVIOUS
  <2>3. r.stage = "waiting" /\ r.offer = o /\ r.bridge = b /\ r.promise = made
    BY <2>2
  <2>4. PICK drop : drop = [kind |-> "drop", bridge |-> b]
    OBVIOUS
  <2>5. drop \in Jobs /\ drop.kind = "drop" /\ drop.bridge = b
    BY <2>4 DEF Jobs
  <2>6. /\ cachedFor' = [cachedFor EXCEPT ![b] = made] /\ requests' = [requests EXCEPT ![c] = r]
        /\ loads' = loads + 1
        /\ jobs' = q \o (IF made.ok THEN <<>> ELSE <<drop>>) \o <<pass>>
    BY <1>1, <1>5, <2>1, <2>2, <2>4 DEF Share
  <2>7. made.id = loads + 1 /\ made.by = c /\ made.offer = o /\ IsPromise(made, loads + 1) /\ made # NoPromise
    BY <1>0, <2>1, MadeIs
  <2>7a. ~made.ok => ~Acceptable(o)
    BY <2>7 DEF IsPromise
  <2>7b. \A n, p : IsPromise(p, n) => p # NoPromise
    BY DEF IsPromise, NoPromise
  <2>8. /\ cachedFor'[b] = made /\ (\A d \in BridgeIds \ {b} : cachedFor'[d] = cachedFor[d])
        /\ cachedFor' = [d \in BridgeIds |-> cachedFor'[d]]
    BY <1>0, <2>6
  <2>9. requests'[c] = r /\ (\A d \in Caller \ {c} : requests'[d] = requests[d])
        /\ requests' = [d \in Caller |-> requests'[d]]
    BY <1>0, <2>6
  <2>10. \A d \in Caller : Promised(requests[d]) =>
           requests[d].bridge \in BridgeIds /\ requests[d].promise # made
    BY <1>0, <2>7, PromisesStay DEF RequestInv
  <2>11. QueueInv(q, cachedFor, requests')
    BY <2>9, OthersQueued
  <2>12. /\ \A k \in DOMAIN q : q[k].kind = "drop" => q[k].bridge # b
         /\ \A k \in DOMAIN q : ~Drops(q[k], b)
    BY <1>5 DEF QueueInv, Rejected, Drops
  <2>13. \A k \in DOMAIN q, d \in Caller : Serves(q[k], d) => d # c /\ requests'[d] = requests[d]
    BY <2>9
  <2>14. ASSUME NEW k \in DOMAIN q, NEW d \in Caller, q[k].kind = "pass on", Serves(q[k], d),
                ~requests'[d].promise.ok, cachedFor'[requests'[d].bridge] = requests'[d].promise
         PROVE  \E j \in DOMAIN q : j < k /\ Drops(q[j], requests'[d].bridge)
    <3>1. requests[d].stage = "waiting" /\ requests'[d] = requests[d]
      BY <2>13, <2>14 DEF QueueInv
    <3>2. requests[d].bridge \in BridgeIds /\ requests[d].promise # made
      BY <2>10, <3>1 DEF Promised
    <3>3. cachedFor[requests[d].bridge] = requests[d].promise
      BY <2>8, <2>14, <3>1, <3>2
    <3> QED BY <2>11, <2>14, <3>1, <3>3 DEF QueueInv
  <2>17. CacheInv(cachedFor', requests', loads')
    <3> SUFFICES ASSUME NEW d \in BridgeIds
                 PROVE  /\ cachedFor'[d] = NoPromise \/ IsPromise(cachedFor'[d], loads + 1)
                        /\ Rejected(cachedFor'[d]) => /\ cachedFor'[d].by \in Caller
                                                     /\ requests'[cachedFor'[d].by].stage = "waiting"
                                                     /\ requests'[cachedFor'[d].by].promise = cachedFor'[d]
                                                     /\ requests'[cachedFor'[d].by].bridge = d
      BY <2>6 DEF CacheInv
    <3>1. CASE d = b
      BY <2>3, <2>7, <2>8, <2>9, <3>1
    <3>2. CASE d # b
      <4>1. cachedFor'[d] = cachedFor[d]
        BY <2>8, <3>2
      <4>2. cachedFor[d] = NoPromise \/ IsPromise(cachedFor[d], loads + 1)
        BY <1>0, PromisesStay DEF CacheInv
      <4>3. ASSUME Rejected(cachedFor[d])
            PROVE  /\ cachedFor[d].by \in Caller \ {c}
                   /\ requests[cachedFor[d].by].stage = "waiting"
                   /\ requests[cachedFor[d].by].promise = cachedFor[d]
                   /\ requests[cachedFor[d].by].bridge = d
        BY <1>0, <1>3, <4>3 DEF CacheInv
      <4> QED BY <2>9, <4>1, <4>2, <4>3
    <3> QED BY <3>1, <3>2
  <2>18. RequestInv(cachedFor', requests', loads')
    <3> SUFFICES ASSUME NEW d \in Caller
                 PROVE  /\ Promised(requests'[d]) =>
                             /\ requests'[d].bridge \in BridgeIds /\ IsPromise(requests'[d].promise, loads + 1)
                             /\ requests'[d].promise.ok => cachedFor'[requests'[d].bridge] = requests'[d].promise
                             /\ ~requests'[d].promise.ok /\ requests'[d].promise.by = d
                                  => ~Acceptable(requests'[d].offer)
                        /\ requests'[d].stage = "served" => requests'[d].promise.ok
                        /\ requests'[d].stage = "refused" =>
                             ~requests'[d].promise.ok /\ cachedFor'[requests'[d].bridge] # requests'[d].promise
      BY <2>6 DEF RequestInv
    <3>1. CASE d = c
      BY <2>3, <2>7, <2>7a, <2>8, <2>9, <3>1
    <3>2. CASE d # c
      <4>1. requests'[d] = requests[d]
        BY <2>9, <3>2
      <4>2. ASSUME Promised(requests[d])
            PROVE  /\ requests[d].bridge \in BridgeIds /\ IsPromise(requests[d].promise, loads + 1)
                   /\ requests[d].promise.ok => cachedFor'[requests[d].bridge] = requests[d].promise
                   /\ cachedFor[requests[d].bridge] # requests[d].promise
                        => cachedFor'[requests[d].bridge] # requests[d].promise
        <5>1. PICK p, br : p = requests[d].promise /\ br = requests[d].bridge
          OBVIOUS
        <5>2. br \in BridgeIds /\ IsPromise(p, loads)
          BY <1>0, <4>2, <5>1 DEF RequestInv
        <5>3. p.ok => cachedFor[br] = p
          BY <1>0, <4>2, <5>1 DEF RequestInv
        <5>4. IsPromise(p, loads + 1)
          BY <1>0, <5>2, PromisesStay
        <5>5. p # made
          BY <2>10, <4>2, <5>1
        <5>6. p # NoPromise
          BY <2>7b, <5>2
        <5>7. p.ok => cachedFor'[br] = p
          BY <1>5, <2>8, <5>2, <5>3, <5>6
        <5>8. cachedFor[br] # p => cachedFor'[br] # p
          BY <2>8, <5>2, <5>5
        <5> QED BY <5>1, <5>2, <5>4, <5>7, <5>8
      <4> QED BY <1>0, <4>1, <4>2 DEF RequestInv, Promised
    <3> QED BY <3>1, <3>2
  <2>15. CASE made.ok
    <3>1. jobs' = Append(q, pass)
      <4>1. jobs' = q \o <<>> \o <<pass>>
        BY <2>6, <2>15
      <4>2. q \o <<>> = q
        BY ConcatEmptySeq
      <4>3. Append(q, pass) = q \o <<pass>>
        BY <1>2, AppendIsConcat
      <4> QED BY <4>1, <4>2, <4>3
    <3>2. QueueInv(q, cachedFor', requests')
      <4>1. \A d \in BridgeIds : Rejected(cachedFor'[d]) => Rejected(cachedFor[d])
        BY <2>8, <2>15 DEF Rejected
      <4>2. \A k \in DOMAIN q : q[k].kind = "drop" => Rejected(cachedFor'[q[k].bridge])
        <5> SUFFICES ASSUME NEW k \in DOMAIN q, q[k].kind = "drop" PROVE Rejected(cachedFor'[q[k].bridge])
          OBVIOUS
        <5>1. q[k] \in Jobs
          OBVIOUS
        <5>2. q[k].bridge \in BridgeIds
          BY <5>1 DEF Jobs
        <5> QED BY <2>8, <2>11, <2>12, <5>2 DEF QueueInv
      <4> QED BY <2>11, <2>14, <4>1, <4>2 DEF QueueInv
    <3>3. /\ requests'[c].stage = "waiting" /\ requests'[c].bridge \in BridgeIds
          /\ requests'[c].promise # NoPromise
      BY <2>3, <2>7, <2>9
    <3>4. QueueInv(Append(q, pass), cachedFor', requests') /\ Append(q, pass) \in Seq(Jobs)
      BY <1>2, <3>2, <3>3, TellingQueued
    <3>5. jobs' \in Seq(Jobs) /\ QueueInv(jobs', cachedFor', requests')
      BY <3>1, <3>4
    <3>6. loads' \in Nat
      BY <1>0, <2>6
    <3> QED BY <2>8, <2>9, <2>17, <2>18, <3>5, <3>6 DEF LoaderInv
  <2>16. CASE ~made.ok
    <3>1. PICK s : s = Append(q, drop)
      OBVIOUS
    <3>2. PICK n \in Nat : n = Len(q)
      BY JobsAppended, <2>5
    <3>3. DOMAIN q = 1..n /\ DOMAIN s = 1..(n + 1) /\ s \in Seq(Jobs) /\ s[n + 1] = drop
          /\ \A k \in 1..n : s[k] = q[k]
      BY <2>5, <3>1, <3>2, JobsAppended
    <3>4. /\ \A k \in 1..n : k \in 1..(n + 1) /\ k < n + 1
          /\ \A k \in 1..(n + 1) : k \in 1..n \/ k = n + 1
          /\ n + 1 \in 1..(n + 1)
      BY <3>2, OneMore
    <3>5. /\ \A k \in DOMAIN q : k \in DOMAIN s /\ k < n + 1 /\ s[k] = q[k]
          /\ \A k \in DOMAIN s : k \in DOMAIN q \/ k = n + 1
          /\ n + 1 \in DOMAIN s
      BY <3>3, <3>4
    <3>6. \A d : ~Serves(drop, d) /\ (Drops(drop, d) <=> d = b)
      BY <2>5 DEF Serves, Drops
    <3>7. \A d \in BridgeIds \ {b} : Rejected(cachedFor'[d]) <=> Rejected(cachedFor[d])
      BY <2>8
    <3>8. Rejected(cachedFor'[b])
      BY <2>7, <2>8, <2>16 DEF Rejected
    <3>9. \A k \in DOMAIN s : s[k].kind = "drop" => Rejected(cachedFor'[s[k].bridge])
      <4> SUFFICES ASSUME NEW k \in DOMAIN s, s[k].kind = "drop" PROVE Rejected(cachedFor'[s[k].bridge])
        OBVIOUS
      <4>1. CASE k = n + 1
        BY <2>5, <3>3, <3>8, <4>1
      <4>2. CASE k \in DOMAIN q
        <5>1. q[k] \in Jobs /\ q[k].kind = "drop" /\ s[k] = q[k]
          BY <3>5, <4>2
        <5>2. q[k].bridge \in BridgeIds
          BY <5>1 DEF Jobs
        <5>3. q[k].bridge # b /\ Rejected(cachedFor[q[k].bridge])
          BY <2>11, <2>12, <4>2, <5>1 DEF QueueInv
        <5> QED BY <3>7, <5>1, <5>2, <5>3
      <4> QED BY <3>5, <4>1, <4>2
    <3>10. \A i, k \in DOMAIN s, d \in BridgeIds : Drops(s[i], d) /\ Drops(s[k], d) => i = k
      <4> SUFFICES ASSUME NEW i \in DOMAIN s, NEW k \in DOMAIN s, NEW d \in BridgeIds,
                          Drops(s[i], d), Drops(s[k], d)
                   PROVE  i = k
        OBVIOUS
      <4>1. CASE d = b
        <5>1. i \notin DOMAIN q /\ k \notin DOMAIN q
          BY <2>12, <3>5, <4>1
        <5> QED BY <3>5, <5>1
      <4>2. CASE d # b
        <5>1. i # n + 1 /\ k # n + 1
          BY <3>3, <3>6, <4>2
        <5>2. i \in DOMAIN q /\ k \in DOMAIN q
          BY <3>5, <5>1
        <5> QED BY <2>11, <3>5, <5>2 DEF QueueInv
      <4> QED BY <4>1, <4>2
    <3>11. \A d \in BridgeIds : Rejected(cachedFor'[d]) => \E k \in DOMAIN s : Drops(s[k], d)
      <4> SUFFICES ASSUME NEW d \in BridgeIds, Rejected(cachedFor'[d])
                   PROVE  \E k \in DOMAIN s : Drops(s[k], d)
        OBVIOUS
      <4>1. CASE d = b
        BY <3>3, <3>5, <3>6, <4>1
      <4>2. CASE d # b
        <5>1. PICK k \in DOMAIN q : Drops(q[k], d)
          BY <2>11, <3>7, <4>2 DEF QueueInv
        <5> QED BY <3>5, <5>1
      <4> QED BY <4>1, <4>2
    <3>12. \A k \in DOMAIN s, d \in Caller : Serves(s[k], d) => k \in DOMAIN q /\ s[k] = q[k]
      BY <3>3, <3>5, <3>6
    <3>13. \A k \in DOMAIN s, d \in Caller :
             Serves(s[k], d) => requests'[d].stage = IF s[k].kind = "resume" THEN "detecting" ELSE "waiting"
      BY <2>11, <3>12 DEF QueueInv
    <3>14. \A i, k \in DOMAIN s, d \in Caller : Serves(s[i], d) /\ Serves(s[k], d) => i = k
      BY <2>11, <3>12 DEF QueueInv
    <3>15. ASSUME NEW k \in DOMAIN s, NEW d \in Caller, s[k].kind = "pass on", Serves(s[k], d),
                  ~requests'[d].promise.ok, cachedFor'[requests'[d].bridge] = requests'[d].promise
           PROVE  \E j \in DOMAIN s : j < k /\ Drops(s[j], requests'[d].bridge)
      <4>1. k \in DOMAIN q /\ s[k] = q[k]
        BY <3>12, <3>15
      <4>2. PICK j \in DOMAIN q : j < k /\ Drops(q[j], requests'[d].bridge)
        BY <2>14, <3>15, <4>1
      <4> QED BY <3>5, <4>2
    <3>16. QueueInv(s, cachedFor', requests')
      BY <3>9, <3>10, <3>11, <3>13, <3>14, <3>15 DEF QueueInv
    <3>17. \A k \in DOMAIN s : ~Serves(s[k], c)
      BY <3>12
    <3>18. /\ requests'[c].stage = "waiting" /\ requests'[c].bridge \in BridgeIds
           /\ requests'[c].promise # NoPromise
      BY <2>3, <2>7, <2>9
    <3>19. QueueInv(Append(s, pass), cachedFor', requests') /\ Append(s, pass) \in Seq(Jobs)
      BY <1>2, <3>3, <3>16, <3>17, <3>18, TellingQueued
    <3>20. jobs' = Append(s, pass)
      <4>1. jobs' = q \o <<drop>> \o <<pass>>
        BY <2>6, <2>16
      <4>2. s = q \o <<drop>>
        BY <2>5, <3>1, AppendIsConcat
      <4>3. Append(s, pass) = s \o <<pass>>
        BY <1>2, <3>3, AppendIsConcat
      <4> QED BY <4>1, <4>2, <4>3
    <3>21. jobs' \in Seq(Jobs) /\ QueueInv(jobs', cachedFor', requests')
      BY <3>19, <3>20
    <3>22. loads' \in Nat
      BY <1>0, <2>6
    <3> QED BY <2>8, <2>9, <2>17, <2>18, <3>21, <3>22 DEF LoaderInv
  <2> QED BY <2>15, <2>16
<1> QED BY <1>4, <1>5

LEMMA CallKeeps == \A c \in Caller, o \in Offer : LoaderInv /\ LoadWasmBackend(c, o) => LoaderInv'
<1> SUFFICES ASSUME NEW c \in Caller, NEW o \in Offer, LoaderInv, LoadWasmBackend(c, o) PROVE LoaderInv'
  OBVIOUS
<1>0. /\ jobs \in Seq(Jobs) /\ loads \in Nat /\ cachedFor = [b \in BridgeIds |-> cachedFor[b]]
      /\ requests = [d \in Caller |-> requests[d]] /\ QueueInv(jobs, cachedFor, requests)
      /\ CacheInv(cachedFor, requests, loads) /\ RequestInv(cachedFor, requests, loads)
  BY DEF LoaderInv
<1>1. requests[c].stage \notin {"waiting", "detecting"}
  BY DEF LoadWasmBackend
<1>2. \A k \in DOMAIN jobs : ~Serves(jobs[k], c)
  BY <1>0, <1>1 DEF QueueInv
<1>3. CASE o.bridge # Unset
  <2>1. o.bridge \in BridgeIds
    BY <1>3, OfferAssumption
  <2>2. Share(c, o, o.bridge, jobs)
    BY <1>3 DEF LoadWasmBackend
  <2> QED BY <1>0, <1>1, <1>2, <2>1, <2>2, ShareKeeps
<1>4. CASE o.bridge = Unset
  <2>1. PICK r : r = [stage |-> "detecting", offer |-> o]
    OBVIOUS
  <2>2. PICK j : j = [kind |-> "resume", caller |-> c]
    OBVIOUS
  <2>3. /\ requests' = [requests EXCEPT ![c] = r] /\ jobs' = Append(jobs, j)
        /\ cachedFor' = cachedFor /\ loads' = loads
    BY <1>4, <2>1, <2>2 DEF LoadWasmBackend
  <2>4. j \in Jobs /\ j.kind = "resume" /\ j.caller = c /\ r.stage = "detecting"
    BY <2>1, <2>2 DEF Jobs
  <2>5. requests'[c] = r /\ (\A d \in Caller \ {c} : requests'[d] = requests[d])
        /\ requests' = [d \in Caller |-> requests'[d]]
    BY <1>0, <2>3
  <2>6. QueueInv(jobs, cachedFor, requests')
    BY <1>0, <1>2, <2>5, OthersQueued
  <2>7. PICK s : s = Append(jobs, j)
    OBVIOUS
  <2>8. PICK n \in Nat : n = Len(jobs)
    BY <1>0, <2>4, JobsAppended
  <2>9. DOMAIN jobs = 1..n /\ DOMAIN s = 1..(n + 1) /\ s \in Seq(Jobs) /\ s[n + 1] = j
        /\ \A k \in 1..n : s[k] = jobs[k]
    BY <1>0, <2>4, <2>7, <2>8, JobsAppended
  <2>10. /\ \A k \in 1..n : k \in 1..(n + 1) /\ k < n + 1
         /\ \A k \in 1..(n + 1) : k \in 1..n \/ k = n + 1
         /\ n + 1 \in 1..(n + 1)
    BY <2>8, OneMore
  <2>11. /\ \A k \in DOMAIN jobs : k \in DOMAIN s /\ k < n + 1 /\ s[k] = jobs[k]
         /\ \A k \in DOMAIN s : k \in DOMAIN jobs \/ k = n + 1
    BY <2>9, <2>10
  <2>12. \A b : ~Drops(j, b)
    BY <2>4 DEF Drops
  <2>13. \A d : Serves(j, d) => d = c
    BY <2>4 DEF Serves
  <2>14. \A k \in DOMAIN s, d \in Caller \ {c} : Serves(s[k], d) => k \in DOMAIN jobs
    BY <2>9, <2>11, <2>13
  <2>15. \A k \in DOMAIN s : Serves(s[k], c) => k = n + 1
    BY <1>2, <2>11
  <2>16. \A k \in DOMAIN s : s[k].kind \in {"drop", "pass on"} => k \in DOMAIN jobs
    BY <2>4, <2>9, <2>11
  <2>17. QueueInv(s, cachedFor, requests')
    <3>1. \A k \in DOMAIN s : s[k].kind = "drop" => Rejected(cachedFor[s[k].bridge])
      BY <2>6, <2>11, <2>16 DEF QueueInv
    <3>2. \A i, k \in DOMAIN s, b \in BridgeIds : Drops(s[i], b) /\ Drops(s[k], b) => i = k
      <4>1. \A k \in DOMAIN s, b \in BridgeIds : Drops(s[k], b) => k \in DOMAIN jobs /\ Drops(jobs[k], b)
        BY <2>11, <2>16 DEF Drops
      <4> QED BY <2>6, <4>1 DEF QueueInv
    <3>3. \A b \in BridgeIds : Rejected(cachedFor[b]) => \E k \in DOMAIN s : Drops(s[k], b)
      BY <2>6, <2>11 DEF QueueInv
    <3>4. \A k \in DOMAIN s, d \in Caller :
            Serves(s[k], d) => requests'[d].stage = IF s[k].kind = "resume" THEN "detecting" ELSE "waiting"
      <4> SUFFICES ASSUME NEW k \in DOMAIN s, NEW d \in Caller, Serves(s[k], d)
                   PROVE  requests'[d].stage = IF s[k].kind = "resume" THEN "detecting" ELSE "waiting"
        OBVIOUS
      <4>1. CASE d = c
        BY <2>4, <2>5, <2>9, <2>15, <4>1
      <4>2. CASE d # c
        <5>1. k \in DOMAIN jobs /\ s[k] = jobs[k]
          BY <2>11, <2>14, <4>2
        <5> QED BY <2>6, <5>1 DEF QueueInv
      <4> QED BY <4>1, <4>2
    <3>5. \A i, k \in DOMAIN s, d \in Caller : Serves(s[i], d) /\ Serves(s[k], d) => i = k
      <4> SUFFICES ASSUME NEW i \in DOMAIN s, NEW k \in DOMAIN s, NEW d \in Caller,
                          Serves(s[i], d), Serves(s[k], d)
                   PROVE  i = k
        OBVIOUS
      <4>1. CASE d = c
        BY <2>15, <4>1
      <4>2. CASE d # c
        <5>1. k \in DOMAIN jobs /\ s[k] = jobs[k] /\ i \in DOMAIN jobs /\ s[i] = jobs[i]
          BY <2>11, <2>14, <4>2
        <5> QED BY <2>6, <5>1 DEF QueueInv
      <4> QED BY <4>1, <4>2
    <3>6. ASSUME NEW k \in DOMAIN s, NEW d \in Caller, s[k].kind = "pass on", Serves(s[k], d),
                 ~requests'[d].promise.ok, cachedFor[requests'[d].bridge] = requests'[d].promise
          PROVE  \E i \in DOMAIN s : i < k /\ Drops(s[i], requests'[d].bridge)
      <4>1. k \in DOMAIN jobs /\ s[k] = jobs[k]
        BY <2>11, <2>16, <3>6
      <4>2. PICK i \in DOMAIN jobs : i < k /\ Drops(jobs[i], requests'[d].bridge)
        BY <2>6, <3>6, <4>1 DEF QueueInv
      <4> QED BY <2>11, <4>2
    <3> QED BY <3>1, <3>2, <3>3, <3>4, <3>5, <3>6 DEF QueueInv
  <2>18. jobs' \in Seq(Jobs) /\ QueueInv(jobs', cachedFor', requests')
    BY <2>3, <2>7, <2>9, <2>17
  <2>19. \A b \in BridgeIds : Rejected(cachedFor[b]) => cachedFor[b].by # c
    BY <1>0, <1>1 DEF CacheInv
  <2>20. CacheInv(cachedFor', requests', loads')
    BY <1>0, <2>3, <2>5, <2>19 DEF CacheInv
  <2>21. RequestInv(cachedFor', requests', loads')
    BY <1>0, <2>3, <2>4, <2>5 DEF RequestInv, Promised
  <2> QED BY <1>0, <2>3, <2>5, <2>18, <2>20, <2>21 DEF LoaderInv
<1> QED BY <1>3, <1>4

LEMMA ResumeKeeps == LoaderInv /\ Resume => LoaderInv'
<1> SUFFICES ASSUME LoaderInv, Resume PROVE LoaderInv'
  OBVIOUS
<1>0. jobs \in Seq(Jobs) /\ QueueInv(jobs, cachedFor, requests)
  BY DEF LoaderInv
<1>1. jobs # <<>> /\ Head(jobs).kind = "resume"
  BY DEF Resume
<1>2. Head(jobs) \in Jobs
  BY <1>0, <1>1, HeadTailProperties
<1>3. PICK c \in Caller : c = Head(jobs).caller
  BY <1>1, <1>2 DEF Jobs
<1>4. PICK q : q = Tail(jobs)
  OBVIOUS
<1>5. QueueInv(q, cachedFor, requests) /\ q \in Seq(Jobs)
      /\ \A d \in Caller, k \in DOMAIN q : Serves(Head(jobs), d) => ~Serves(q[k], d)
  BY <1>0, <1>1, <1>4, TailQueued
<1>6. Serves(Head(jobs), c)
  BY <1>1, <1>3 DEF Serves
<1>7. \A k \in DOMAIN q : ~Serves(q[k], c)
  BY <1>5, <1>6
<1>8. requests[c].stage = "detecting"
  <2>1. 1 \in DOMAIN jobs /\ Head(jobs) = jobs[1]
    BY <1>0, <1>1
  <2> QED BY <1>0, <1>1, <1>6, <2>1 DEF QueueInv
<1>9. Share(c, requests[c].offer, DetectedBridge, q)
  BY <1>3, <1>4 DEF Resume
<1>10. DetectedBridge \in BridgeIds /\ requests[c].stage # "waiting"
  BY <1>8 DEF DetectedBridge, BridgeIds
<1> QED BY <1>5, <1>7, <1>9, <1>10, ShareKeeps

LEMMA DropKeeps == LoaderInv /\ DropRejected => LoaderInv'
<1> SUFFICES ASSUME LoaderInv, DropRejected PROVE LoaderInv'
  OBVIOUS
<1>0. /\ jobs \in Seq(Jobs) /\ loads \in Nat /\ cachedFor = [b \in BridgeIds |-> cachedFor[b]]
      /\ requests = [d \in Caller |-> requests[d]] /\ QueueInv(jobs, cachedFor, requests)
      /\ CacheInv(cachedFor, requests, loads) /\ RequestInv(cachedFor, requests, loads)
  BY DEF LoaderInv
<1>1. jobs # <<>> /\ Head(jobs).kind = "drop"
  BY DEF DropRejected
<1>2. Head(jobs) \in Jobs
  BY <1>0, <1>1, HeadTailProperties
<1>3. PICK b \in BridgeIds : b = Head(jobs).bridge
  BY <1>1, <1>2 DEF Jobs
<1>4. PICK s : s = Tail(jobs)
  OBVIOUS
<1>5. /\ cachedFor' = [cachedFor EXCEPT ![b] = NoPromise] /\ jobs' = s
      /\ requests' = requests /\ loads' = loads
  BY <1>3, <1>4 DEF DropRejected
<1>6. /\ cachedFor'[b] = NoPromise /\ \A d \in BridgeIds \ {b} : cachedFor'[d] = cachedFor[d]
      /\ cachedFor' = [d \in BridgeIds |-> cachedFor'[d]]
  BY <1>0, <1>5
<1>7. PICK n \in Nat : n = Len(s) /\ DOMAIN s = 1..n /\ s \in Seq(Jobs) /\ DOMAIN jobs = 1..(n + 1)
  BY <1>0, <1>1, <1>4, HeadTailProperties
<1>7a. \A i, k \in DOMAIN s : (i + 1 = k + 1 => i = k) /\ i + 1 # 1
  BY <1>7
<1>7b. \A i \in DOMAIN jobs, k \in DOMAIN s : i < k + 1 /\ i # 1 => i - 1 < k
  BY <1>7
<1>8. \A k \in DOMAIN s : s[k] = jobs[k + 1] /\ k + 1 \in DOMAIN jobs
  BY <1>0, <1>1, <1>4, <1>7, HeadTailProperties
<1>9. Head(jobs) = jobs[1] /\ 1 \in DOMAIN jobs
      /\ \A k \in DOMAIN jobs : k = 1 \/ (k - 1 \in DOMAIN s /\ s[k - 1] = jobs[k])
  BY <1>0, <1>1, <1>7, <1>8
<1>10. Drops(jobs[1], b) /\ (\A d : Drops(jobs[1], d) => d = b) /\ Rejected(cachedFor[b])
  BY <1>0, <1>1, <1>3, <1>9 DEF Drops, QueueInv
<1>11. \A k \in DOMAIN s, d \in BridgeIds : Drops(s[k], d) => d # b
  BY <1>0, <1>7a, <1>8, <1>9, <1>10 DEF QueueInv
<1>12. \A d \in BridgeIds : Rejected(cachedFor'[d]) => d # b /\ Rejected(cachedFor[d])
  BY <1>6 DEF Rejected
<1>13. \A d \in Caller : Promised(requests[d]) =>
         requests[d].bridge \in BridgeIds /\ requests[d].promise # NoPromise
  BY <1>0 DEF RequestInv, IsPromise, NoPromise
<1>14. QueueInv(s, cachedFor', requests)
  <2>1. ASSUME NEW k \in DOMAIN s, s[k].kind = "drop" PROVE Rejected(cachedFor'[s[k].bridge])
    <3>1. s[k] \in Jobs
      BY <1>7
    <3>2. s[k].bridge \in BridgeIds
      BY <2>1, <3>1 DEF Jobs
    <3>3. s[k].bridge # b
      BY <1>11, <2>1, <3>2 DEF Drops
    <3>4. Rejected(cachedFor[s[k].bridge])
      BY <1>0, <1>8, <2>1 DEF QueueInv
    <3> QED BY <1>6, <3>2, <3>3, <3>4
  <2>2. \A i, k \in DOMAIN s, d \in BridgeIds : Drops(s[i], d) /\ Drops(s[k], d) => i = k
    <3> SUFFICES ASSUME NEW i \in DOMAIN s, NEW k \in DOMAIN s, NEW d \in BridgeIds,
                        Drops(s[i], d), Drops(s[k], d)
                 PROVE  i = k
      OBVIOUS
    <3>1. i + 1 = k + 1
      BY <1>0, <1>8 DEF QueueInv
    <3> QED BY <1>7a, <3>1
  <2>3. ASSUME NEW d \in BridgeIds, Rejected(cachedFor'[d]) PROVE \E k \in DOMAIN s : Drops(s[k], d)
    <3>1. d # b /\ Rejected(cachedFor[d])
      BY <1>12, <2>3
    <3>2. PICK k \in DOMAIN jobs : Drops(jobs[k], d)
      BY <1>0, <3>1 DEF QueueInv
    <3>3. k # 1
      BY <1>10, <3>1, <3>2
    <3> QED BY <1>9, <3>2, <3>3
  <2>4. ASSUME NEW k \in DOMAIN s, NEW d \in Caller, Serves(s[k], d)
        PROVE  requests[d].stage = IF s[k].kind = "resume" THEN "detecting" ELSE "waiting"
    <3>1. PICK i \in DOMAIN jobs : i = k + 1 /\ s[k] = jobs[i]
      BY <1>8
    <3> QED BY <1>0, <2>4, <3>1 DEF QueueInv
  <2>5. \A i, k \in DOMAIN s, d \in Caller : Serves(s[i], d) /\ Serves(s[k], d) => i = k
    <3> SUFFICES ASSUME NEW i \in DOMAIN s, NEW k \in DOMAIN s, NEW d \in Caller,
                        Serves(s[i], d), Serves(s[k], d)
                 PROVE  i = k
      OBVIOUS
    <3>1. i + 1 = k + 1
      BY <1>0, <1>8 DEF QueueInv
    <3> QED BY <1>7a, <3>1
  <2>6. ASSUME NEW k \in DOMAIN s, NEW d \in Caller, s[k].kind = "pass on", Serves(s[k], d),
               ~requests[d].promise.ok, cachedFor'[requests[d].bridge] = requests[d].promise
        PROVE  \E i \in DOMAIN s : i < k /\ Drops(s[i], requests[d].bridge)
    <3>1. requests[d].stage = "waiting"
      BY <2>4, <2>6
    <3>2. requests[d].bridge \in BridgeIds /\ requests[d].promise # NoPromise
      BY <1>13, <3>1 DEF Promised
    <3>3. requests[d].bridge # b /\ cachedFor[requests[d].bridge] = requests[d].promise
      BY <1>6, <2>6, <3>2
    <3>4. PICK i \in DOMAIN jobs : i < k + 1 /\ Drops(jobs[i], requests[d].bridge)
      BY <1>0, <1>8, <2>6, <3>3 DEF QueueInv
    <3>5. i # 1
      BY <1>10, <3>3, <3>4
    <3>6. i - 1 \in DOMAIN s /\ s[i - 1] = jobs[i] /\ i - 1 < k
      BY <1>7b, <1>9, <3>4, <3>5
    <3> QED BY <3>4, <3>6
  <2> QED BY <2>1, <2>2, <2>3, <2>4, <2>5, <2>6 DEF QueueInv
<1>15. CacheInv(cachedFor', requests, loads)
  <2>1. ASSUME NEW d \in BridgeIds
        PROVE  /\ cachedFor'[d] = NoPromise \/ IsPromise(cachedFor'[d], loads)
               /\ Rejected(cachedFor'[d]) => /\ cachedFor'[d].by \in Caller
                                             /\ requests[cachedFor'[d].by].stage = "waiting"
                                             /\ requests[cachedFor'[d].by].promise = cachedFor'[d]
                                             /\ requests[cachedFor'[d].by].bridge = d
    <3>1. CASE d = b
      BY <1>6, <1>12, <3>1
    <3>2. CASE d # b
      <4>1. cachedFor'[d] = cachedFor[d]
        BY <1>6, <3>2
      <4> QED BY <1>0, <4>1 DEF CacheInv
    <3> QED BY <3>1, <3>2
  <2> QED BY <2>1 DEF CacheInv
<1>16. RequestInv(cachedFor', requests, loads)
  <2>1. ASSUME NEW d \in Caller, Promised(requests[d])
        PROVE  /\ requests[d].promise.ok => cachedFor'[requests[d].bridge] = requests[d].promise
               /\ cachedFor[requests[d].bridge] # requests[d].promise
                    => cachedFor'[requests[d].bridge] # requests[d].promise
    <3>1. PICK p, br : p = requests[d].promise /\ br = requests[d].bridge
      OBVIOUS
    <3>2. br \in BridgeIds /\ p # NoPromise
      BY <1>13, <2>1, <3>1
    <3>3. p.ok => cachedFor[br] = p
      BY <1>0, <2>1, <3>1 DEF RequestInv
    <3>4. p.ok => br # b
      BY <1>10, <3>3 DEF Rejected
    <3>5. p.ok => cachedFor'[br] = p
      BY <1>6, <3>2, <3>3, <3>4
    <3>6. cachedFor[br] # p => cachedFor'[br] # p
      BY <1>6, <3>2
    <3> QED BY <3>1, <3>5, <3>6
  <2> QED BY <1>0, <2>1 DEF RequestInv, Promised
<1>17. jobs' \in Seq(Jobs) /\ QueueInv(jobs', cachedFor', requests') /\ CacheInv(cachedFor', requests', loads')
       /\ RequestInv(cachedFor', requests', loads')
  BY <1>5, <1>7, <1>14, <1>15, <1>16
<1> QED BY <1>0, <1>5, <1>6, <1>17 DEF LoaderInv

LEMMA PassKeeps == LoaderInv /\ PassItOn => LoaderInv'
<1> SUFFICES ASSUME LoaderInv, PassItOn PROVE LoaderInv'
  OBVIOUS
<1>0. /\ jobs \in Seq(Jobs) /\ loads \in Nat /\ cachedFor = [b \in BridgeIds |-> cachedFor[b]]
      /\ requests = [d \in Caller |-> requests[d]] /\ QueueInv(jobs, cachedFor, requests)
      /\ CacheInv(cachedFor, requests, loads) /\ RequestInv(cachedFor, requests, loads)
  BY DEF LoaderInv
<1>1. jobs # <<>> /\ Head(jobs).kind = "pass on"
  BY DEF PassItOn
<1>2. PICK j \in Jobs : j = Head(jobs)
  BY <1>0, <1>1, HeadTailProperties
<1>3. j \in [kind : {"pass on"}, caller : Caller, hops : Nat]
  BY <1>1, <1>2 DEF Jobs
<1>4. PICK c \in Caller : c = j.caller
  BY <1>3
<1>5. PICK q : q = Tail(jobs)
  OBVIOUS
<1>6. QueueInv(q, cachedFor, requests) /\ q \in Seq(Jobs)
      /\ \A d \in Caller, k \in DOMAIN q : Serves(Head(jobs), d) => ~Serves(q[k], d)
  BY <1>0, <1>1, <1>5, TailQueued
<1>7. Serves(j, c)
  BY <1>1, <1>2, <1>4 DEF Serves
<1>7a. Serves(Head(jobs), c)
  BY <1>2, <1>7
<1>8. \A k \in DOMAIN q : ~Serves(q[k], c)
  <2>1. \A d \in Caller, k \in DOMAIN q : Serves(Head(jobs), d) => ~Serves(q[k], d)
    BY <1>6
  <2>3. \A d \in {c}, k \in DOMAIN q : ~Serves(q[k], d)
    BY <1>7a, <2>1, Zenon
  <2> QED BY <2>3
<1>9z. Len(q) \in Nat /\ DOMAIN jobs = 1..(Len(q) + 1)
  <2>1. Len(q) = Len(jobs) - 1 /\ q \in Seq(Jobs)
    BY <1>0, <1>1, <1>5, HeadTailProperties
  <2>2. Len(jobs) \in Nat /\ DOMAIN jobs = 1..Len(jobs) /\ Len(q) \in Nat
    BY <1>0, <2>1
  <2> QED BY <2>1, <2>2
<1>9a. PICK n \in Nat : DOMAIN jobs = 1..(n + 1)
  BY <1>9z
<1>9. 1 \in DOMAIN jobs /\ jobs[1] = j /\ \A i \in DOMAIN jobs : ~(i < 1)
  BY <1>2, <1>9a
<1>9b. jobs[1].kind = "pass on" /\ jobs[1].kind # "resume" /\ Serves(jobs[1], c)
  BY <1>1, <1>2, <1>7, <1>9
<1>10. requests[c].stage = "waiting"
  BY <1>0, <1>9, <1>9b DEF QueueInv
<1>11. PICK p, br : p = requests[c].promise /\ br = requests[c].bridge
  OBVIOUS
<1>12. br \in BridgeIds /\ IsPromise(p, loads) /\ p # NoPromise
  BY <1>0, <1>10, <1>11 DEF RequestInv, Promised, IsPromise, NoPromise
<1>13. ~p.ok => cachedFor[br] # p
  <2> SUFFICES ASSUME ~p.ok, cachedFor[br] = p PROVE FALSE
    OBVIOUS
  <2>0. ~requests[c].promise.ok /\ cachedFor[requests[c].bridge] = requests[c].promise
    BY <1>11
  <2>1. \E i \in DOMAIN jobs : i < 1 /\ Drops(jobs[i], requests[c].bridge)
    BY <1>0, <1>9, <1>9b, <2>0 DEF QueueInv
  <2> QED BY <1>9, <2>1
<1>14. cachedFor' = cachedFor /\ loads' = loads
  BY DEF PassItOn
<1>15. CASE j.hops > 0
  <2>1. PICK j2 : j2 = [j EXCEPT !.hops = j.hops - 1]
    OBVIOUS
  <2>2a. j.hops \in Nat
    BY <1>3
  <2>2. j.hops - 1 \in Nat
    BY <1>15, <2>2a
  <2>3. j2 \in [kind : {"pass on"}, caller : Caller, hops : Nat] /\ j2.caller = c
    BY <1>3, <1>4, <2>1, <2>2
  <2>4. j2 \in Jobs /\ j2.kind = "pass on"
    BY <2>3 DEF Jobs
  <2>5. jobs' = Append(q, j2) /\ requests' = requests
    BY <1>2, <1>5, <1>15, <2>1 DEF PassItOn
  <2>6. QueueInv(Append(q, j2), cachedFor, requests) /\ Append(q, j2) \in Seq(Jobs)
    BY <1>6, <1>8, <1>10, <1>11, <1>12, <2>3, <2>4, TellingQueued
  <2>7. jobs' \in Seq(Jobs) /\ QueueInv(jobs', cachedFor', requests')
        /\ CacheInv(cachedFor', requests', loads') /\ RequestInv(cachedFor', requests', loads')
    BY <1>0, <1>14, <2>5, <2>6
  <2> QED BY <1>0, <1>14, <2>5, <2>7 DEF LoaderInv
<1>16. CASE ~(j.hops > 0)
  <2>1. PICK r : r = WithOutcome(requests[c])
    OBVIOUS
  <2>2. jobs' = q /\ requests' = [requests EXCEPT ![c] = r]
    BY <1>2, <1>4, <1>5, <1>16, <2>1 DEF PassItOn
  <2>3. /\ r.promise = p /\ r.bridge = br /\ r.offer = requests[c].offer
        /\ r.stage = (IF p.ok THEN "served" ELSE "refused")
    BY <1>11, <2>1 DEF WithOutcome
  <2>4. PICK after : after = requests'
    OBVIOUS
  <2>5. /\ after = [d \in Caller |-> after[d]] /\ after[c] = r
        /\ \A d \in Caller \ {c} : after[d] = requests[d]
    BY <1>0, <2>2, <2>4
  <2>6. QueueInv(q, cachedFor, after)
    BY <1>6, <1>8, <2>5, OthersQueued
  <2>7. ASSUME NEW b \in BridgeIds, Rejected(cachedFor[b]) PROVE cachedFor[b].by # c
    <3> SUFFICES ASSUME cachedFor[b].by = c PROVE FALSE
      OBVIOUS
    <3>1. p = cachedFor[b] /\ br = b
      BY <1>0, <1>11, <2>7 DEF CacheInv
    <3> QED BY <1>13, <2>7, <3>1 DEF Rejected
  <2>8. ASSUME NEW b \in BridgeIds
        PROVE  /\ cachedFor[b] = NoPromise \/ IsPromise(cachedFor[b], loads)
               /\ Rejected(cachedFor[b]) => /\ cachedFor[b].by \in Caller
                                            /\ after[cachedFor[b].by].stage = "waiting"
                                            /\ after[cachedFor[b].by].promise = cachedFor[b]
                                            /\ after[cachedFor[b].by].bridge = b
    <3>1. Rejected(cachedFor[b]) => cachedFor[b].by \in Caller \ {c}
      BY <1>0, <2>7 DEF CacheInv
    <3>2. Rejected(cachedFor[b]) => after[cachedFor[b].by] = requests[cachedFor[b].by]
      BY <2>5, <3>1
    <3> QED BY <1>0, <3>1, <3>2 DEF CacheInv
  <2>9. CacheInv(cachedFor, after, loads)
    BY <2>8 DEF CacheInv
  <2>10. ~p.ok /\ p.by = c => ~Acceptable(requests[c].offer)
    BY <1>0, <1>10, <1>11 DEF RequestInv, Promised
  <2>11. p.ok => cachedFor[br] = p
    BY <1>0, <1>10, <1>11 DEF RequestInv, Promised
  <2>12. ASSUME NEW d \in Caller
         PROVE  /\ Promised(after[d]) =>
                     /\ after[d].bridge \in BridgeIds /\ IsPromise(after[d].promise, loads)
                     /\ after[d].promise.ok => cachedFor[after[d].bridge] = after[d].promise
                     /\ ~after[d].promise.ok /\ after[d].promise.by = d => ~Acceptable(after[d].offer)
                /\ after[d].stage = "served" => after[d].promise.ok
                /\ after[d].stage = "refused"
                     => ~after[d].promise.ok /\ cachedFor[after[d].bridge] # after[d].promise
    <3>1. CASE d = c
      BY <1>12, <1>13, <2>3, <2>5, <2>10, <2>11, <3>1
    <3>2. CASE d # c
      <4>1. after[d] = requests[d]
        BY <2>5, <3>2
      <4> QED BY <1>0, <4>1 DEF RequestInv
    <3> QED BY <3>1, <3>2
  <2>13. RequestInv(cachedFor, after, loads)
    BY <2>12 DEF RequestInv
  <2>14. /\ jobs' \in Seq(Jobs) /\ QueueInv(jobs', cachedFor', requests')
         /\ CacheInv(cachedFor', requests', loads') /\ RequestInv(cachedFor', requests', loads')
         /\ requests' = [d \in Caller |-> requests'[d]]
    BY <1>6, <1>14, <2>2, <2>4, <2>5, <2>6, <2>9, <2>13
  <2> QED BY <1>0, <1>14, <2>14 DEF LoaderInv
<1> QED BY <1>15, <1>16

LEMMA LoaderKeeps == LoaderInv /\ [LoaderNext]_loaderVars => LoaderInv'
<1> SUFFICES ASSUME LoaderInv, [LoaderNext]_loaderVars PROVE LoaderInv'
  OBVIOUS
<1>1. CASE \E c \in Caller, o \in Offer : LoadWasmBackend(c, o)
  BY <1>1, CallKeeps
<1>2. CASE Resume
  BY <1>2, ResumeKeeps
<1>3. CASE DropRejected
  BY <1>3, DropKeeps
<1>4. CASE PassItOn
  BY <1>4, PassKeeps
<1>5. CASE UNCHANGED loaderVars
  <2>1. cachedFor' = cachedFor /\ jobs' = jobs /\ requests' = requests /\ loads' = loads
    BY <1>5 DEF loaderVars
  <2> QED BY <2>1 DEF LoaderInv
<1> QED BY <1>1, <1>2, <1>3, <1>4, <1>5 DEF LoaderNext

\* What those who are told were told of.
LEMMA LoaderPromises == LoaderInv => OneBackendPerBridge /\ RefusalIsForgotten /\ RefusalHasAReason
<1> SUFFICES ASSUME LoaderInv PROVE OneBackendPerBridge /\ RefusalIsForgotten /\ RefusalHasAReason
  OBVIOUS
<1>0. RequestInv(cachedFor, requests, loads)
  BY DEF LoaderInv
<1>1. \A c \in Caller : requests[c].stage = "served" =>
        cachedFor[requests[c].bridge] = requests[c].promise
  BY <1>0 DEF RequestInv, Promised
<1>2. OneBackendPerBridge
  BY <1>1 DEF OneBackendPerBridge
<1>3. RefusalIsForgotten
  BY <1>0 DEF RequestInv, RefusalIsForgotten
<1>4. ASSUME NEW c \in Caller, requests[c].stage = "refused"
      PROVE  /\ ~Acceptable(requests[c].promise.offer)
             /\ requests[c].promise.by = c => ~Acceptable(requests[c].offer)
  <2>1. Promised(requests[c]) /\ ~requests[c].promise.ok
    BY <1>0, <1>4 DEF RequestInv, Promised
  <2> QED BY <1>0, <2>1 DEF RequestInv, IsPromise
<1>5. RefusalHasAReason
  BY <1>4 DEF RefusalHasAReason
<1> QED BY <1>2, <1>3, <1>5

LEMMA PairThen == \A x, y, z : <<x, y>> \o <<z>> = <<x, y, z>>
<1> SUFFICES ASSUME NEW x, NEW y, NEW z PROVE <<x, y>> \o <<z>> = <<x, y, z>>
  OBVIOUS
<1>1. PICK S : S = {x, y, z}
  OBVIOUS
<1>2. <<x>> \in Seq(S) /\ <<y>> \in Seq(S) /\ <<z>> \in Seq(S)
  BY <1>1
<1>3. PICK a, b, c : a = <<x>> /\ b = <<y>> /\ c = <<z>>
  OBVIOUS
<1>4. a \in Seq(S) /\ b \in Seq(S) /\ c \in Seq(S)
  BY <1>2, <1>3
<1>5. (a \o b) \o c = a \o (b \o c)
  BY <1>4, ConcatAssociative
<1>6. a \o b = <<x, y>> /\ b \o c = <<y, z>>
  BY <1>3, Pairs
<1>7. a \o <<y, z>> = <<x, y, z>>
  BY <1>3, Triples
<1> QED BY <1>3, <1>5, <1>6, <1>7

\* The tiers tried are the serde one, or it behind those that need WebAssembly GC.
LEMMA TiersAre ==
  \A h \in Platforms :
    \/ Tiers(h) = <<"serde-json">>
    \/ /\ h.variable = "gc" \/ "gc" \in DetectFeatures(h)
       /\ Tiers(h) \in {<<"wasmgc-builtins", "serde-json">>, <<"wasmgc-classic", "serde-json">>,
                        <<"wasmgc-builtins", "wasmgc-classic", "serde-json">>}
<1> SUFFICES ASSUME NEW h \in Platforms
             PROVE  \/ Tiers(h) = <<"serde-json">>
                    \/ /\ h.variable = "gc" \/ "gc" \in DetectFeatures(h)
                       /\ Tiers(h) \in {<<"wasmgc-builtins", "serde-json">>,
                                        <<"wasmgc-classic", "serde-json">>,
                                        <<"wasmgc-builtins", "wasmgc-classic", "serde-json">>}
  OBVIOUS
<1>1. CASE ReadBridgeOverride(h) = "serde"
  BY <1>1 DEF Tiers
<1>2. CASE ReadBridgeOverride(h) # "serde"
  <2>0. PICK gc \in BOOLEAN :
          gc <=> (ReadBridgeOverride(h) = "gc" \/ {"gc", "jsStringBuiltins"} \subseteq DetectFeatures(h))
    OBVIOUS
  <2>1. PICK classic \in BOOLEAN : classic <=> ("gc" \in DetectFeatures(h))
    OBVIOUS
  <2>2. Tiers(h) = (IF gc THEN <<"wasmgc-builtins">> ELSE <<>>)
                   \o (IF classic THEN <<"wasmgc-classic">> ELSE <<>>) \o <<"serde-json">>
    BY <1>2, <2>0, <2>1 DEF Tiers
  <2>3. PICK S : S = {"wasmgc-builtins", "wasmgc-classic", "serde-json"}
    OBVIOUS
  <2>4. <<"wasmgc-builtins">> \in Seq(S) /\ <<"wasmgc-classic">> \in Seq(S)
        /\ <<"serde-json">> \in Seq(S) /\ <<>> \in Seq(S)
    BY <2>3
  <2>5. PICK x, y, s, e : x = <<"wasmgc-builtins">> /\ y = <<"wasmgc-classic">>
                          /\ s = <<"serde-json">> /\ e = <<>>
    OBVIOUS
  <2>6. x \o e = x /\ e \o y = y /\ e \o e = e /\ e \o s = s
    BY <2>4, <2>5, ConcatEmptySeq
  <2>7. x \o y = <<"wasmgc-builtins", "wasmgc-classic">> /\ x \o s = <<"wasmgc-builtins", "serde-json">>
        /\ y \o s = <<"wasmgc-classic", "serde-json">>
    BY <2>5, Pairs
  <2>8. <<"wasmgc-builtins", "wasmgc-classic">> \o s = <<"wasmgc-builtins", "wasmgc-classic", "serde-json">>
    BY <2>5, PairThen
  <2>9. Tiers(h) = (IF gc THEN x ELSE e) \o (IF classic THEN y ELSE e) \o s
    BY <2>2, <2>5
  <2>10. gc \/ classic => h.variable = "gc" \/ "gc" \in DetectFeatures(h)
    BY <2>0, <2>1 DEF ReadBridgeOverride, Unset
  <2>11. CASE gc /\ classic
    BY <2>7, <2>8, <2>9, <2>10, <2>11
  <2>12. CASE gc /\ ~classic
    BY <2>6, <2>7, <2>9, <2>10, <2>12
  <2>13. CASE ~gc /\ classic
    BY <2>6, <2>7, <2>9, <2>10, <2>13
  <2>14. CASE ~gc /\ ~classic
    BY <2>5, <2>6, <2>9, <2>14
  <2> QED BY <2>11, <2>12, <2>13, <2>14
<1> QED BY <1>1, <1>2

LEMMA HostsAgree == DetectionsAgree
<1> SUFFICES ASSUME NEW h \in Platforms
             PROVE  /\ Last(Tiers(h)) = "serde-json"
                    /\ h.variable # "gc" => \A k \in DOMAIN Tiers(h) :
                         Tiers(h)[k] # "serde-json" => "gc" \in DetectFeatures(h)
                    /\ DetectBridge(h).id = DetectedBridge
  BY DEF DetectionsAgree
<1>1. Last(<<"serde-json">>) = "serde-json"
      /\ Last(<<"wasmgc-builtins", "serde-json">>) = "serde-json"
      /\ Last(<<"wasmgc-classic", "serde-json">>) = "serde-json"
      /\ Last(<<"wasmgc-builtins", "wasmgc-classic", "serde-json">>) = "serde-json"
  BY DEF Last
<1>2. Last(Tiers(h)) = "serde-json"
  BY <1>1, TiersAre
<1>3. \A k \in DOMAIN <<"serde-json">> : <<"serde-json">>[k] = "serde-json"
  OBVIOUS
<1>4. ASSUME h.variable # "gc", NEW k \in DOMAIN Tiers(h), Tiers(h)[k] # "serde-json"
      PROVE  "gc" \in DetectFeatures(h)
  <2>1. Tiers(h) # <<"serde-json">>
    BY <1>3, <1>4
  <2> QED BY <1>4, <2>1, TiersAre
<1>5. DetectBridge(h).id = DetectedBridge
  BY DEF DetectBridge, LoadBridge, MakeSerdeJsonPlaceholder, DetectedBridge
<1> QED BY <1>2, <1>4, <1>5

\* Overlapping calls of loadWasmBackend get one backend per bridge, a refusal is
\* out of the cache before anybody hears of it and has bad options for a reason,
\* and what bridge.ts detects is what the loader detects.
THEOREM LoadingIsSound == LoaderSpec => []LoadingSound
<1>1. LoaderInit => LoaderInv
  BY LoaderInitHolds
<1>2. LoaderInv /\ [LoaderNext]_loaderVars => LoaderInv'
  BY LoaderKeeps
<1>3. LoaderInv => LoadingSound
  BY LoaderPromises, HostsAgree DEF LoadingSound
<1> QED BY <1>1, <1>2, <1>3, PTL DEF LoaderSpec

\* A graph that changes its engine by itself reads the same before and after, the
\* queue before the engine loses no commit and is accounted for, and callers of
\* the loader share the engine it gives.
THEOREM EnginesAreSound == EnginesSpec => []EnginesSound
<1>1. AdaptSpec => []SwapIsInvisible
  BY SwapIsSound
<1>2. LoaderSpec => []LoadingSound
  BY LoadingIsSound
<1>3. BatchSpec => []BatchSound
  BY QueueIsSound
<1>4. EnginesSound <=> SwapIsInvisible /\ BatchSound /\ LoadingSound
  BY DEF EnginesSound
<1> QED BY <1>1, <1>2, <1>3, <1>4, PTL DEF EnginesSpec

\* No observer is told twice across a change of engines and a swap throws only for
\* a compute that cannot take a blank input; an engine that was downgraded is not
\* believed again, and one that is compared only if its commits were equal.
THEOREM EngineChangesKeepSafe == EnginesSpec => EngineChangesAreSafe
<1>1. AdaptSpec => SwapIsQuiet
  BY SwapsAreQuiet
<1>2. BatchSpec => DowngradeIsSound
  BY DowngradesAreSound
<1> QED BY <1>1, <1>2 DEF EnginesSpec, EngineChangesAreSafe
=============================================================================
