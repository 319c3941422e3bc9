----------------------------- MODULE Hypothesis ------------------------------
(***************************************************************************)
(* packages/hypothesis/src: the three-valued combinators (combinators.ts)  *)
(* and the shrinker of counterexamples (shrink.ts).                        *)
(*                                                                         *)
(* A trace is a start state and steps, each an action, the state after it  *)
(* and the phase it belongs to.  States and actions are objects: functions *)
(* on the fields they have.  A claim is a tree of combinators; predicates  *)
(* of states compare one field with a value.                               *)
(***************************************************************************)
EXTENDS Integers, SequencesExt

CONSTANTS Claim,    \* hypotheses
          Found,    \* traces a user may have
          Step      \* steps a longer trace may go on with

VARIABLES
  claim,    \* the hypothesis
  found,    \* the trace it is run on
  shrunk,   \* what shrink has made of it so far
  round     \* "shrink", "done", then "fields" once fields were dropped

shrinkVars == <<claim, found, shrunk, round>>

StatesOf(t) == <<t.start>> \o [k \in DOMAIN t.steps |-> t.steps[k].state]

-----------------------------------------------------------------------------
(* Combinators.                                                            *)

\* A field that is missing is undefined, which equals no value.
Holds(p, s) == (p.field \in DOMAIN s /\ s[p.field] = p.value) = p.positive

AllOf(t, p)  == \A k \in DOMAIN StatesOf(t) : Holds(p, StatesOf(t)[k])
SomeOf(t, p) == \E k \in DOMAIN StatesOf(t) : Holds(p, StatesOf(t)[k])

Decided(b) == IF b THEN "holds" ELSE "fails"

\* The loop of until and weakUntil, with what they say of a trace that ends.
Until(t, p, q, atEnd) ==
  LET s == StatesOf(t)
      stops == {k \in DOMAIN s : Holds(q, s[k]) \/ ~Holds(p, s[k])}
  IN IF stops = {} THEN atEnd
     ELSE Decided(Holds(q, s[CHOOSE k \in stops : \A j \in stops : k <= j]))

\* commitMatches: a match without fields matches all.
CommitMatches(match, action) ==
  /\ "touches" \in DOMAIN match =>
       "changedNodes" \in DOMAIN action /\ match.touches \in action.changedNodes
  /\ "tag" \in DOMAIN match => "intent" \in DOMAIN action /\ action.intent = match.tag

IsCommit(action) == "kind" \in DOMAIN action /\ action.kind = "commit"

Conjoined(verdicts) ==
  CASE "fails" \in verdicts -> "fails"
    [] "unknown" \in verdicts -> "unknown"
    [] OTHER -> "holds"

Disjoined(verdicts) ==
  CASE "holds" \in verdicts -> "holds"
    [] "unknown" \in verdicts -> "unknown"
    [] OTHER -> "fails"

Implied(a, b) ==
  CASE a = "fails" -> "holds"
    [] a = "unknown" -> "unknown"
    [] OTHER -> b

RECURSIVE VerdictOn(_, _)

VerdictOn(h, t) ==
  CASE h.type = "always" -> Decided(AllOf(t, h.p))
    [] h.type = "never" -> Decided(~SomeOf(t, h.p))
    [] h.type = "eventually" ->
         IF SomeOf(t, h.p) THEN "holds" ELSE IF t.bounded THEN "unknown" ELSE "fails"
    [] h.type = "until" -> Until(t, h.p, h.q, "fails")
    [] h.type = "weakUntil" -> Until(t, h.p, h.q, "holds")
    [] h.type = "afterCommit" ->
         Decided(\A k \in DOMAIN t.steps :
           /\ IsCommit(t.steps[k].action) /\ CommitMatches(h.match, t.steps[k].action)
           => Holds(h.p, t.steps[k].state))
    [] h.type = "during" ->
         Decided(\A k \in DOMAIN t.steps :
           t.steps[k].phase = h.phase => Holds(h.p, t.steps[k].state))
    [] h.type = "atStart" -> Decided(Holds(h.p, t.start))
    [] h.type = "and" -> Conjoined({VerdictOn(h.of[k], t) : k \in DOMAIN h.of})
    [] h.type = "or" -> Disjoined({VerdictOn(h.of[k], t) : k \in DOMAIN h.of})
    [] h.type = "implies" -> Implied(VerdictOn(h.if, t), VerdictOn(h.then, t))
    [] h.type = "named" -> IF AllOf(t, h.invariant) THEN VerdictOn(h.predicate, t) ELSE "fails"

Fails(t) == VerdictOn(claim, t) = "fails"

-----------------------------------------------------------------------------
(* Shrinking.                                                              *)

SliceSuffix(t, end) == [t EXCEPT !.steps = SubSeq(@, 1, end)]

\* A prefix is cut by starting from the state it leads to.
SlicePrefix(t, n) ==
  IF n <= 0 \/ n > Len(t.steps) THEN t
  ELSE [t EXCEPT !.start = t.steps[n].state, !.steps = SubSeq(@, n + 1, Len(@))]

RECURSIVE Shortest(_, _, _)

\* The bisection of shrinkStepCount.
Shortest(t, lo, hi) ==
  LET mid == (lo + hi) \div 2
  IN IF lo >= hi THEN lo
     ELSE IF Fails(SliceSuffix(t, mid)) THEN Shortest(t, lo, mid) ELSE Shortest(t, mid + 1, hi)

ShrinkStepCount(t) == SliceSuffix(t, Shortest(t, 0, Len(t.steps)))

\* As long as one more leading step can go.
ShrinkPrefix(t) ==
  LET goes(n) == \A k \in 1..n : Fails(SlicePrefix(t, k))
  IN SlicePrefix(t, CHOOSE n \in 0..Len(t.steps) : goes(n) /\ (n = Len(t.steps) \/ ~goes(n + 1)))

Anchors == {"kind", "state", "status", "tag", "type"}
Less(object, f) == [g \in DOMAIN object \ {f} |-> object[g]]

\* reduceObjectFields: one field after the other, each dropped if the trace
\* that TrialOf makes of the object still fails.
ReduceObjectFields(object, TrialOf(_)) ==
  FoldLeft(LAMBDA o, f : IF f \notin Anchors /\ Fails(TrialOf(Less(o, f))) THEN Less(o, f) ELSE o,
           object, SetToSeq(DOMAIN object))

\* shrinkPerStepObjectField, for one of the fields of a step.
ReduceSteps(t, part) ==
  FoldLeft(LAMBDA u, k :
             [u EXCEPT !.steps[k][part] =
                ReduceObjectFields(@, LAMBDA o : [u EXCEPT !.steps[k][part] = o])],
           t, [k \in DOMAIN t.steps |-> k])

ShrinkActionArity(t) == ReduceSteps(t, "action")

ShrinkStatePayload(t) ==
  LET u == ReduceSteps(t, "state")
  IN [u EXCEPT !.start = ReduceObjectFields(@, LAMBDA o : [u EXCEPT !.start = o])]

-----------------------------------------------------------------------------

ShrinkInit ==
  /\ claim \in Claim /\ found \in Found
  /\ shrunk = found /\ round = "shrink"

\* One turn of the loop of shrink.  What an axis returns is kept only where it
\* has fewer steps, so axes that drop fields change nothing here.
Shorter(t, u) == IF Len(u.steps) < Len(t.steps) THEN u ELSE t

ShrinkRound ==
  /\ round = "shrink" /\ Fails(found)
  /\ LET cut  == Shorter(shrunk, ShrinkStepCount(shrunk))
         next == Shorter(cut, ShrinkPrefix(cut))
     IN /\ shrunk' = next
        /\ round' = IF next = shrunk THEN "done" ELSE "shrink"
  /\ UNCHANGED <<claim, found>>

\* A trace that does not fail is handed back as it is.
NothingToShrink ==
  /\ round = "shrink" /\ ~Fails(found)
  /\ round' = "done" /\ UNCHANGED <<claim, found, shrunk>>

\* The user calls the axes that drop fields on their own.
DropFields ==
  /\ round = "done" /\ Fails(shrunk)
  /\ shrunk' = ShrinkStatePayload(ShrinkActionArity(shrunk))
  /\ round' = "fields" /\ UNCHANGED <<claim, found>>

ShrinkNext == ShrinkRound \/ NothingToShrink \/ DropFields

-----------------------------------------------------------------------------
(* Properties.                                                             *)

ShrinkTypeOK ==
  /\ claim \in Claim /\ found \in Found /\ round \in {"shrink", "done", "fields"}
  /\ Len(shrunk.steps) <= Len(found.steps) /\ shrunk.bounded = found.bounded

\* What is shown instead of the trace is a counterexample of the same claim,
\* whatever the shrinker cut, also where the verdict is not monotone in the
\* length, as the bisection would have it.
StillFails == Fails(found) => Fails(shrunk)

\* Before fields are dropped it is a stretch of the trace that was found.
StretchOfFound ==
  round # "fields" =>
    \E a \in DOMAIN StatesOf(found) :
      LET b == a + Len(shrunk.steps)
      IN b <= Len(StatesOf(found)) /\ StatesOf(shrunk) = SubSeq(StatesOf(found), a, b)

\* The loop ends with a trace that can spare neither its last nor its first
\* step, and in time: the code stops it after four more rounds than steps.
MinimalAtBothEnds ==
  round = "done" /\ Fails(shrunk) /\ shrunk.steps # <<>> =>
    /\ ~Fails(SliceSuffix(shrunk, Len(shrunk.steps) - 1))
    /\ ~Fails(SlicePrefix(shrunk, 1))

\* A claim that fails on a bounded trace fails on every longer one, but for
\* those whose verdict may turn: implies, and until, which counts the end of a
\* bounded trace as a failure.
RECURSIVE Final(_)
Final(h) ==
  CASE h.type \in {"implies", "until"} -> FALSE
    [] h.type \in {"and", "or"} -> \A k \in DOMAIN h.of : Final(h.of[k])
    [] h.type = "named" -> Final(h.predicate)
    [] OTHER -> TRUE

FailureIsFinal ==
  found.bounded /\ Final(claim) /\ Fails(found) =>
    \A s \in Step : Fails([found EXCEPT !.steps = Append(@, s)])

HypothesesSound == StillFails /\ StretchOfFound /\ MinimalAtBothEnds /\ FailureIsFinal
=============================================================================
