------------------------------ MODULE Resource ------------------------------
(***************************************************************************)
(* One asynchronous resource of packages/sync/src/resource.ts and its      *)
(* reducer in statechart-reducers.ts.  The whole state is one input node   *)
(* of the graph, and every transition is one commit.  fetch() keeps two    *)
(* clock readings of its own across the await: the origin it was called at *)
(* and loadingAt, the time its loading commit left behind.                 *)
(*                                                                         *)
(* Nothing stops a second fetch() while the first is pending: the answers  *)
(* may arrive in any order, and the reducer looks only at the present      *)
(* state, never at which fetch the answer belongs to.                      *)
(***************************************************************************)
EXTENDS GraphClock, Sequences, SequencesExt

CONSTANTS Fetch,     \* the calls of fetch(); a call's answer is named after it
          NoFetch    \* the value field of a state that carries no value

ASSUME NoFetchAssumption == NoFetch \notin Fetch

VARIABLES
  node,        \* the ResourceState in the input node
  guarded,     \* ResourceOptions.stalenessGuard
  fetches,     \* what each call of fetchOnce remembers
  microtasks,  \* the reactions of settled loader promises, first in first out
  label,       \* the edge named by the intent of the last commit of this node
  woken        \* what the last renderer woken by loading.promise found

resourceVars == <<node, guarded, fetches, microtasks, label, woken>>

States == {"idle", "loading", "loaded", "stale", "errored"}
Labels == {"none", "start", "loaded", "stale", "error", "invalidate", "fail"}

\* promise: the episode of a loading state; value: whose answer a loaded or
\* stale state shows; at: loadedAt or erroredAt.
NodeStates ==
  {n \in [state : States, origin : Time, promise : Fetch \cup {NoFetch},
          value : Fetch \cup {NoFetch}, at : Time] :
     /\ n.promise # NoFetch <=> n.state = "loading"
     /\ n.value # NoFetch <=> n.state \in {"loaded", "stale"}}

Calls == [stage : {"unborn", "pending", "settled", "served", "refused", "threw"},
          origin : Time, loadingAt : Time, outcome : {"none", "value", "error"}]

Task(kind, f) == [kind |-> kind, fetch |-> f]

ResourceTypeOK ==
  /\ node \in NodeStates
  /\ guarded \in BOOLEAN
  /\ fetches \in [Fetch -> Calls]
  /\ microtasks \in Seq([kind : {"suspense", "apply", "wake"}, fetch : Fetch])
  /\ label \in Labels
  /\ woken \in {"nobody", "answer", "same-promise"}

-----------------------------------------------------------------------------
(* reduceResource: the present state, an event and the clock give the next *)
(* state, or no edge at all.                                               *)

Idle == [state |-> "idle", origin |-> 0, promise |-> NoFetch,
         value |-> NoFetch, at |-> 0]

Loading(f, origin) == [Idle EXCEPT !.state = "loading", !.origin = origin,
                                   !.promise = f]

\* The branch of fetch-resolve: another commit since the loading commit?
IsStaleByOrigin(loadingAt) == guarded /\ now > node.origin + 1
IsStale(loadingAt) == guarded /\ now > loadingAt

Answered(f, loadingAt) ==
  [state   |-> IF IsStale(loadingAt) THEN "stale" ELSE "loaded",
   origin  |-> node.origin, promise |-> NoFetch, value |-> f, at |-> now]

ErroredOnTop == [node EXCEPT !.state = "errored", !.at = now]
Errored == [node EXCEPT !.state = "errored", !.promise = NoFetch,
                        !.value = NoFetch, !.at = now]

-----------------------------------------------------------------------------

ResourceInit ==
  /\ node = Idle
  /\ guarded \in BOOLEAN
  /\ fetches = [f \in Fetch |-> [stage |-> "unborn", origin |-> 0,
                                 loadingAt |-> 0, outcome |-> "none"]]
  /\ microtasks = <<>>
  /\ label = "none"
  /\ woken = "nobody"

\* setState: one commit of the node.
SetState(next, edge) ==
  /\ Tick
  /\ node' = next
  /\ label' = edge

\* fetchOnce up to its return: read the clock, call the loader, commit
\* loading, read the clock again.
StartFetch(f) ==
  /\ fetches[f].stage = "unborn"
  /\ SetState(Loading(f, now), "start")
  /\ fetches' = [fetches EXCEPT ![f] = [stage |-> "pending", origin |-> now,
                                        loadingAt |-> now', outcome |-> "none"]]
  /\ UNCHANGED <<guarded, microtasks, woken>>

\* The loader throws before it returns a promise: nothing was committed yet.
LoaderThrows(f) ==
  /\ fetches[f].stage = "unborn"
  /\ fetches' = [fetches EXCEPT ![f].stage = "threw"]
  /\ UNCHANGED <<node, guarded, microtasks, label, woken, now>>

\* The loader's promise settles.  Its reactions run in the order they were
\* attached: the one behind suspensePromise first, then the one of fetchOnce.
Reactions(f) == <<Task("suspense", f), Task("apply", f)>>

Settle(f, outcome) ==
  /\ fetches[f].stage = "pending"
  /\ fetches' = [fetches EXCEPT ![f].stage = "settled", ![f].outcome = outcome]
  /\ microtasks' = microtasks \o Reactions(f)
  /\ UNCHANGED <<node, guarded, label, woken, now>>

\* The reaction of suspensePromise returns, which queues whoever awaits it.
SettleSuspense ==
  /\ microtasks # <<>> /\ Head(microtasks).kind = "suspense"
  /\ microtasks' = Append(Tail(microtasks), Task("wake", Head(microtasks).fetch))
  /\ UNCHANGED <<node, guarded, fetches, label, woken, now>>

\* The shell labels the edge on its own, before the reducer takes it.
Intent(call) == IF guarded /\ now > call.loadingAt THEN "stale" ELSE "loaded"

\* The reaction of fetchOnce: fetch-resolve or fetch-reject, legal only from
\* loading; otherwise ForbiddenResourceTransitionError rejects the call.
LegalAnswer == node.state = "loading"

ApplyAnswer ==
  /\ microtasks # <<>> /\ Head(microtasks).kind = "apply"
  /\ LET f    == Head(microtasks).fetch
         call == fetches[f]
     IN IF LegalAnswer
        THEN /\ IF call.outcome = "value"
                THEN SetState(Answered(f, call.loadingAt), Intent(call))
                ELSE SetState(Errored, "error")
             /\ fetches' = [fetches EXCEPT ![f].stage = "served"]
        ELSE /\ fetches' = [fetches EXCEPT ![f].stage = "refused"]
             /\ UNCHANGED <<node, label, now>>
  /\ microtasks' = Tail(microtasks)
  /\ UNCHANGED <<guarded, woken>>

\* A renderer that threw loading.promise is tried again.
WakeRenderer ==
  /\ microtasks # <<>> /\ Head(microtasks).kind = "wake"
  /\ woken' = IF node.promise = Head(microtasks).fetch
              THEN "same-promise" ELSE "answer"
  /\ microtasks' = Tail(microtasks)
  /\ UNCHANGED <<node, guarded, fetches, label, now>>

\* invalidate(): from every state but loaded the reducer hands the same state
\* back and nothing is committed.
Invalidate ==
  /\ node.state = "loaded"
  /\ SetState([node EXCEPT !.state = "stale"], "invalidate")
  /\ UNCHANGED <<guarded, fetches, microtasks, woken>>

\* fail(): the two edges of the chart into errored; elsewhere it throws.
Fail ==
  /\ node.state \in {"loading", "loaded"}
  /\ SetState(Errored, "fail")
  /\ UNCHANGED <<guarded, fetches, microtasks, woken>>

\* Host code may run between any two microtasks: it has continuations there too.
ResourceNext ==
  \/ \E f \in Fetch : \/ StartFetch(f) \/ LoaderThrows(f)
                      \/ \E outcome \in {"value", "error"} : Settle(f, outcome)
  \/ SettleSuspense \/ ApplyAnswer \/ WakeRenderer
  \/ Invalidate \/ Fail

-----------------------------------------------------------------------------
(* whyUpdated decodes the intent of a commit; states are told apart by     *)
(* whyNotUpdated field by field.                                           *)

WhyUpdated(edge) ==
  CASE edge = "start"      -> "fetch-begin"
    [] edge = "loaded"     -> "fetch-resolved"
    [] edge = "stale"      -> "fetch-stale"
    [] edge = "error"      -> "fetch-rejected"
    [] edge = "invalidate" -> "invalidated"
    [] edge = "fail"       -> "failed"
    [] OTHER               -> "dep-changed"

\* With the staleness guard on, a node says "loaded" only for an answer no
\* other commit came before: the value is the one of the fetch whose origin
\* the node shows and it was published at the time that fetch began loading.
\* No code compares fetches; the clock readings of overlapping calls must do.
LoadedIsAuthoritative ==
  guarded /\ node.state = "loaded" =>
    /\ fetches[node.value].origin = node.origin
    /\ fetches[node.value].loadingAt = node.at

Started == {f \in Fetch : fetches[f].stage \notin {"unborn", "threw"}}

\* Whatever answers come in whatever order, the origin of the node is the one
\* of the fetch started last.
OriginIsOfTheLastFetch ==
  node.state # "idle" =>
    /\ \E f \in Started : fetches[f].origin = node.origin
    /\ \A f \in Started : fetches[f].origin <= node.origin

\* A node that is loading waits for an answer that is still to be delivered:
\* a renderer that throws loading.promise does not throw a dead promise.
LoadingIsAwaited ==
  node.state = "loading" => fetches[node.promise].stage \in {"pending", "settled"}

\* A renderer woken by loading.promise never finds the same promise again: the
\* commit of the answer comes between the promise and whoever awaits it.
WokenRendererMovesOn == woken # "same-promise"

\* The reason whyUpdated gives for the last commit is what happened to the node.
ReasonIsTrue ==
  LET reason == WhyUpdated(label)
  IN /\ node.state = "loading" <=> reason = "fetch-begin"
     /\ node.state = "loaded"  <=> reason = "fetch-resolved"
     /\ node.state = "stale"   <=> reason \in {"fetch-stale", "invalidated"}
     /\ node.state = "errored" <=> reason \in {"fetch-rejected", "failed"}

\* What a component that shows the resource, or asks why it changed, relies on.
ResourceSound ==
  /\ LoadedIsAuthoritative
  /\ OriginIsOfTheLastFetch
  /\ LoadingIsAwaited
  /\ WokenRendererMovesOn
  /\ ReasonIsTrue
=============================================================================
