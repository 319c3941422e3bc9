--------------------------------- MODULE Why ---------------------------------
(***************************************************************************)
(* The explainers of the devtools on the graph of Explain: whyUpdated and  *)
(* whyNotUpdated (packages/devtools/src/why.ts), the window of the commit  *)
(* log (commitLog.ts) and the inspector that watches an explanation        *)
(* (inspector.ts).                                                         *)
(*                                                                         *)
(* whyUpdated and whyNotUpdated are commit-metadata nodes, one per graph   *)
(* and target: each commit computes them again once the log has its row,   *)
(* from the log and from the deps the target's explanation shows.  The log *)
(* is bounded and outlives the nodes it names; deps are those of now.      *)
(***************************************************************************)
EXTENDS Explain

CONSTANTS LogCap,    \* commitHistoryCap
          Capacity,  \* the capacity of the window
          Target,    \* the nodes somebody may ask about
          Inspected, \* the nodes somebody may inspect
          MaxLost    \* bound on disposed nodes

ASSUME WhyAssumption == LogCap \in Nat /\ Capacity \in Nat /\ MaxLost \in Nat

VARIABLES
  logged,    \* graph.commitLog: time and changedNodes, oldest first
  whys,      \* WHY_UPDATED_REGISTRY, WHY_NOT_UPDATED_REGISTRY and their values
  window,    \* the value of commitLog(graph, {capacity}), of <<>> before the call
  watched,   \* the view watchInspect last handed out, by node
  gone,      \* number of nodes disposed so far
  since,     \* history: the clock when a node was registered
  causes     \* history: of a derived node that changed, the deps that made it
             \* change and all it read

whyVars == <<logged, whys, window, watched, gone, since, causes>>

Times(log) == {log[k].time : k \in DOMAIN log}

-----------------------------------------------------------------------------
(* The answers.                                                            *)

\* resolveDirectDeps: what the explanation says of its target.
ResolveDirectDeps(n, exps) == exps[n].frames[n].deps

\* The newest row that names the node, or 0.
NewestFirst(id, log) == SelectLastInSeq(log, LAMBDA c : id \in c.changed)

ClassifyWhyUpdated(id, log, deps) ==
  LET k      == NewestFirst(id, log)
      inputs == IF k = 0 THEN {} ELSE (log[k].changed \ {id}) \cap deps
  IN [reason |-> CASE k = 0 -> "no-cause"
                   [] inputs # {} -> "recomputed"
                   [] OTHER -> "directly-set",
      cause  |-> IF k = 0 THEN 0 ELSE log[k].time,
      inputs |-> inputs]

ClassifyWhyNotUpdated(id, log, deps) ==
  LET latest  == Last(log)
      overlap == latest.changed \cap deps
  IN IF log = <<>> THEN [reason |-> "no-cause", cause |-> 0, inputs |-> {}]
     ELSE [reason |-> CASE id \in latest.changed -> "did-update"
                        [] id \notin latest.changed /\ overlap = {} -> "no-dep-overlap"
                        [] OTHER -> "object-is-deduped",
           cause  |-> latest.time,
           inputs |-> IF id \in latest.changed THEN {} ELSE overlap]

Answers(n, log, exps) ==
  [updated    |-> ClassifyWhyUpdated(n, log, ResolveDirectDeps(n, exps)),
   notUpdated |-> ClassifyWhyNotUpdated(n, log, ResolveDirectDeps(n, exps))]

\* The last rows, newest first.
WindowOf(log) == Reverse(SubSeq(log, Max({0, Len(log) - Capacity}) + 1, Len(log)))

ViewOf(n, exps, time) == [frames |-> exps[n].frames, inspectedAt |-> time]

-----------------------------------------------------------------------------

\* graph.explain: a new handle, or the one there is.
Explained(n) == \/ Ask(n)
                \/ n \in LiveHandles /\ UNCHANGED explainVars

\* The explainers of a node: the explanation they read is asked for, if nobody
\* has yet, and cannot be disposed from then on.
AskWhy(n) ==
  /\ n \in (Target \cap Live) \ DOMAIN whys
  /\ Explained(n)
  /\ whys' = Joined(whys, n, Answers(n, logged, told'))
  /\ UNCHANGED <<logged, window, watched, gone, since, causes>>

\* A second call has the same handles.
AskAgain(n) == n \in DOMAIN whys /\ UNCHANGED <<explainVars, whyVars>>

OpenWindow ==
  /\ window = <<>>
  /\ window' = <<WindowOf(logged)>>
  /\ UNCHANGED <<explainVars, logged, whys, watched, gone, since, causes>>

\* subscribe calls the observer at once.
WatchInspect(n) ==
  /\ n \in (Inspected \cap Live) \ DOMAIN watched
  /\ Explained(n)
  /\ watched' = Joined(watched, n, ViewOf(n, told', clock))
  /\ UNCHANGED <<logged, whys, window, gone, since, causes>>

-----------------------------------------------------------------------------
(* The graph moves.                                                        *)

\* An id is registered again with the rows of its earlier life in the log.
Arrives(n) ==
  /\ AddKnot(n)
  /\ since' = Joined(since, n, clock)
  /\ causes' = [m \in DOMAIN causes \ {n} |-> causes[m]]
  /\ UNCHANGED <<logged, whys, window, watched, gone>>

Leaves(n) ==
  /\ gone < MaxLost /\ gone' = gone + 1
  /\ DisposeKnot(n)
  /\ UNCHANGED <<logged, whys, window, watched, since, causes>>

ChangedBy(f) == {n \in Live : f[n].value # facts[n].value}

LogTrimmed(log) == IF Len(log) > LogCap THEN Tail(log) ELSE log

\* A commit: Phase D, the row of Phase F, then the explainers and the window in
\* Phase F.5, and in Phase G those who watch an explanation that changed.
CommitAndExplain(S) ==
  /\ CommitWrites(S)
  /\ LET changed == ChangedBy(facts')
     IN /\ logged' = LogTrimmed(Append(logged, [time |-> clock', changed |-> changed]))
        /\ causes' = [n \in DOMAIN causes \cup changed |->
                        IF n \in changed
                        THEN [time |-> clock', because |-> facts'[n].deps \cap changed,
                              read |-> facts'[n].deps]
                        ELSE causes[n]]
  /\ whys' = [n \in DOMAIN whys |-> Answers(n, logged', told')]
  /\ window' = IF window = <<>> THEN <<>> ELSE <<WindowOf(logged')>>
  /\ watched' = [n \in DOMAIN watched |->
                   IF told'[n] # told[n] THEN ViewOf(n, told', clock') ELSE watched[n]]
  /\ UNCHANGED <<gone, since>>

WhyInit ==
  /\ logged = <<>> /\ whys = <<>> /\ window = <<>> /\ watched = <<>>
  /\ gone = 0 /\ since = <<>> /\ causes = <<>>

WhyNext ==
  \/ \E n \in Knots : Arrives(n) \/ Leaves(n) \/ AskWhy(n) \/ AskAgain(n) \/ WatchInspect(n)
  \/ OpenWindow
  \/ \E S \in SUBSET Leaf : CommitAndExplain(S)

-----------------------------------------------------------------------------
(* Properties.                                                             *)

WhyTypeOK ==
  /\ Len(logged) <= LogCap /\ \A k \in DOMAIN logged : logged[k].time \in 1..clock
  /\ DOMAIN whys \subseteq LiveHandles /\ DOMAIN watched \subseteq LiveHandles
  /\ Len(window) <= 1 /\ gone \in 0..MaxLost
  /\ Live \subseteq DOMAIN since
  /\ DOMAIN causes \subseteq DOMAIN since

\* The commit that whyUpdated names is the one that last changed the node, as
\* long as the log has it, and the causes it names are those that made the node
\* change, unless a later commit computed it again to the same value from other
\* nodes.  (Of a node that did not change since it was registered it may tell a
\* commit of an earlier node of that id.)
UpdateIsExplained ==
  \A n \in DOMAIN whys \cap DOMAIN causes :
    LET w == whys[n].updated
    IN IF causes[n].time \in Times(logged)
       THEN /\ w.cause = causes[n].time
            /\ causes[n].read = facts[n].deps =>
                 /\ w.inputs = causes[n].because
                 /\ w.reason = "directly-set" <=> n \in Leaf
       ELSE w.reason = "no-cause"

\* Of a node that was there before the latest commit, whyNotUpdated tells
\* whether it changed, was computed to the same value, or was left alone.
StandstillIsExplained ==
  logged # <<>> =>
    \A n \in DOMAIN whys :
      LET last == Last(logged).time
          w    == whys[n].notUpdated
      IN since[n] < last =>
           /\ w.reason = "did-update" <=> n \in DOMAIN causes /\ causes[n].time = last
           /\ w.reason = "no-dep-overlap" <=> facts[n].time < last

\* Whoever watches an explanation has the present one, and the clock of the
\* commit that made it so.
WatchersSeeThePresent ==
  \A n \in DOMAIN watched :
    /\ watched[n].frames = [m \in Lineage(n, facts) |-> facts[m]]
    /\ \A m \in DOMAIN watched[n].frames : watched[n].frames[m].time <= watched[n].inspectedAt

\* The window shows the end of the log, the newest row first.
WindowIsTheEnd ==
  window # <<>> =>
    /\ Len(window[1]) = Min({Capacity, Len(logged)})
    /\ \A k \in DOMAIN window[1] : window[1][k] = logged[Len(logged) + 1 - k]

WhySound == /\ UpdateIsExplained /\ StandstillIsExplained
            /\ WatchersSeeThePresent /\ WindowIsTheEnd
=============================================================================
