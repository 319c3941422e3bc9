----------------------------- MODULE Statecharts -----------------------------
(***************************************************************************)
(* packages/sync as a whole: a resource and a conflict registry on one     *)
(* graph, and the statecharts of the two as the engine evaluates them      *)
(* (packages/core/src/statechart-evaluator.ts).  The charts are a second   *)
(* translation of what packages/sync/src/statechart-reducers.ts says,      *)
(* which sync does not call and a native engine is to answer for.  Every   *)
(* step of the two must be an edge of the charts, and every refusal one    *)
(* the charts refuse.                                                      *)
(*                                                                         *)
(* As in Resource, the error of a failed fetch is left out of the states.  *)
(***************************************************************************)
EXTENDS Resource, Conflicts

-----------------------------------------------------------------------------
(* The two meet in the graph's clock only: a verdict or a new open set     *)
(* that is committed while a fetch is pending makes the answer stale.      *)

SyncInit == now = 0 /\ ResourceInit /\ ConflictInit

ResourceStep == ResourceNext /\ ConflictsStay
ConflictStep == ConflictNext /\ UNCHANGED resourceVars
SyncNext     == ResourceStep \/ ConflictStep
syncVars     == <<now, resourceVars, conflictVars>>
SyncSpec     == SyncInit /\ [][SyncNext]_syncVars

\* The registry and the resource keep their promises though each commits
\* between any two steps of the other.
SyncSound == ResourceSound /\ ConflictsSound

-----------------------------------------------------------------------------
(* What the engine answers.                                                *)

Permit(next)                     == [kind |-> "ok", next |-> next]
Forbid(region, from, to)         == [kind |-> "forbidden", region |-> region, from |-> from, to |-> to]
Forbidden(result)                == result.kind = "forbidden"

-----------------------------------------------------------------------------
(* The charts.                                                             *)

ConflictTarget(event) ==
  CASE event.kind = "resolve" -> "resolved"
    [] event.kind = "ignore"  -> "ignored"
    [] OTHER                  -> "superseded"

EvaluateConflict(state, event, time) ==
  IF state = "open"
  THEN Permit([kind |-> ConflictTarget(event), at |-> time,
               by |-> IF event.kind = "supersede" THEN event.bySupersedingId ELSE NoRecord])
  ELSE Forbid("conflict", state, ConflictTarget(event))

\* An error, whatever was on the node; the origin stays.
FailedAt(state, time) ==
  [state |-> "errored", origin |-> state.origin, promise |-> NoFetch, value |-> NoFetch, at |-> time]

FetchStart(event) ==
  Permit([state |-> "loading", origin |-> event.origin, promise |-> event.promise,
          value |-> NoFetch, at |-> 0])

FetchResolve(state, event, time) ==
  LET isStale == event.stalenessGuard /\ time > event.loadingAt
  IN IF state.state # "loading" THEN Forbid("resource", state.state, "loaded")
     ELSE Permit([state |-> IF isStale THEN "stale" ELSE "loaded", origin |-> state.origin,
                  promise |-> NoFetch, value |-> event.value, at |-> time])

FetchReject(state, time) ==
  IF state.state # "loading" THEN Forbid("resource", state.state, "errored")
  ELSE Permit(FailedAt(state, time))

\* From any other state the same state, no refusal.
InvalidateEdge(state) ==
  Permit(IF state.state = "loaded" THEN [state EXCEPT !.state = "stale"] ELSE state)

FailEdge(state, time) ==
  IF state.state \in {"loading", "loaded"} THEN Permit(FailedAt(state, time))
  ELSE Forbid("resource", state.state, "errored")

EvaluateResource(state, event, time) ==
  CASE event.kind = "fetch-start"   -> FetchStart(event)
    [] event.kind = "fetch-resolve" -> FetchResolve(state, event, time)
    [] event.kind = "fetch-reject"  -> FetchReject(state, time)
    [] event.kind = "invalidate"    -> InvalidateEdge(state)
    [] event.kind = "fail"          -> FailEdge(state, time)

EvaluateStatechart(input) ==
  IF input.region = "conflict" THEN EvaluateConflict(input.state, input.event, input.time)
  ELSE EvaluateResource(input.state, input.event, input.time)

-----------------------------------------------------------------------------
(* The events the shells offer.                                            *)

Ask(f) == [kind |-> "fetch-start", origin |-> now, promise |-> f]

Answer(f) ==
  IF fetches[f].outcome = "error" THEN [kind |-> "fetch-reject"]
  ELSE [kind |-> "fetch-resolve", value |-> f, loadingAt |-> fetches[f].loadingAt,
        stalenessGuard |-> guarded]

\* What may happen to the resource now: a call not made yet, the answer at the
\* head of the microtasks, and the two mutators.
ResourceEvents ==
  {Ask(f) : f \in {g \in Fetch : fetches[g].stage = "unborn"}}
  \cup {Answer(f) : f \in {g \in Fetch : fetches[g].stage = "settled"}}
  \cup {[kind |-> "invalidate"], [kind |-> "fail"]}

ConflictEvents ==
  {[kind |-> "resolve"], [kind |-> "ignore"]}
  \cup {[kind |-> "supersede", bySupersedingId |-> by] : by \in Conflict}

OfResource(event) == [region |-> "resource", state |-> node, event |-> event, time |-> now]
OfConflict(state, event) ==
  [region |-> "conflict", state |-> state, event |-> event, time |-> now]

\* statesAreStructurallyEqual compares the fields of the state the two are in;
\* whyNotUpdated answers for two states that a commit did not tell apart.
FieldsOf(state) ==
  CASE state.state = "idle"    -> {}
    [] state.state = "loading" -> {"origin", "promise"}
    [] state.state = "errored" -> {"origin", "at"}
    [] OTHER                   -> {"value", "origin", "at"}

StructurallyEqual(a, b) ==
  a.state = b.state /\ \A k \in FieldsOf(a) : a[k] = b[k]

-----------------------------------------------------------------------------
(* Properties.                                                             *)

\* The resource moves along an edge of the chart, by an event of its own, and
\* whyNotUpdated has something to say of none of these moves.
NodeFollowsTheChart ==
  node' # node =>
    /\ \E event \in ResourceEvents : EvaluateStatechart(OfResource(event)) = Permit(node')
    /\ ~StructurallyEqual(node, node')

\* An answer is refused exactly where the chart has no edge for it.
AnswersAreJudged ==
  \A f \in Fetch :
    fetches[f].stage = "settled" /\ fetches'[f].stage \in {"served", "refused"} =>
      fetches'[f].stage = "refused" <=> Forbidden(EvaluateStatechart(OfResource(Answer(f))))

\* A record is written by one event that the chart admits, for one conflict,
\* and an error names a state that admits none.
RecordsFollowTheChart ==
  /\ records' # records =>
       \E c \in Conflict, event \in ConflictEvents :
         LET result == EvaluateStatechart(OfConflict(CurrentKindOf(c), event))
         IN ~Forbidden(result) /\ records' = [records EXCEPT ![c] = result.next]
  /\ refusedFor' # refusedFor =>
       \E c \in Conflict, event \in ConflictEvents :
         /\ CurrentKindOf(c) = refusedFor'
         /\ Forbidden(EvaluateStatechart(OfConflict(refusedFor', event)))

\* The shells and the engine agree on the charts.
ShellsFollowTheCharts ==
  [][NodeFollowsTheChart /\ AnswersAreJudged /\ RecordsFollowTheChart]_syncVars

\* Resources and conflicts move along the edges of the charts that the engine
\* has of them, and no verdict is taken twice.
SyncFollowsTheCharts == VerdictsAreFinal /\ ShellsFollowTheCharts
=============================================================================
