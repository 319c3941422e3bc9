------------------------------ MODULE NodeLives ------------------------------
(***************************************************************************)
(* The lives of node ids in packages/core/src/graph.ts: what input,        *)
(* derived and _dispose do to the tables beside entries that are keyed by  *)
(* the id (inputInvariants, nodeVersions, disposed, subscriptions and      *)
(* their index), and to the running totals stats() reports.                *)
(*                                                                         *)
(* Handles name their node by its id, so the handle of a disposed node     *)
(* finds the one registered after it.  A subscription, alone or with the   *)
(* others of its group, belongs to the node that was there.  Nodes have no *)
(* dependents here: what dispose refuses is the matter of Recompute.       *)
(***************************************************************************)
EXTENDS Integers, Sequences, FiniteSetsExt

CONSTANTS Id,
          Party,      \* groups of subscriptions; one may have a single member
          TombCap,    \* disposedTombstoneCap
          MaxLives,   \* bound on registrations
          MaxNow      \* bound on the graph clock

ASSUME TombCapAssumption == TombCap \in Nat
ASSUME LifeBoundsAssumption == {MaxLives, MaxNow} \subseteq Nat

VARIABLES
  moment,     \* graph.now
  born,       \* the registered nodes: kind, number of the registration, changes
  rules,      \* inputInvariants: the registration that gave it
  versions,   \* nodeVersions
  tombs,      \* disposed: the numbers of disposals, for it is in their order
  totals,     \* inputCount, derivedCount, transientSubscriberCount
  parties,    \* the groups: nodes, the members still subscribed, transient?
  byNode,     \* subscriptionsByNode; absent buckets are empty
  regs,       \* history: every registration
  deaths,     \* history: every disposal
  missed      \* history: groups that a change did not reach, for a dead node

lifeVars == <<moment, born, rules, versions, tombs, totals, parties, byNode, regs,
              deaths, missed>>

Born    == DOMAIN born
NoParty == [nodes |-> {}, members |-> {}, transient |-> FALSE]

LifeTypeOK ==
  /\ moment \in 0..MaxNow
  /\ Born \subseteq Id /\ DOMAIN rules \subseteq Id /\ DOMAIN versions \subseteq Born
  /\ \A i \in Born : born[i] \in [kind : {"input", "derived"}, life : DOMAIN regs, changes : Nat]
  /\ tombs \subseteq DOMAIN deaths /\ deaths \in Seq([id : Id, time : 0..MaxNow])
  /\ regs \in Seq([id : Id, ruled : BOOLEAN])
  /\ parties \in [Party -> [nodes : SUBSET Id, members : SUBSET Id, transient : BOOLEAN]]
  /\ byNode \in [Id -> SUBSET Party] /\ missed \subseteq Party

Less(f, i)    == [j \in DOMAIN f \ {i} |-> f[j]]
With(f, i, v) == [j \in DOMAIN f \cup {i} |-> IF j = i THEN v ELSE f[j]]

-----------------------------------------------------------------------------
(* Registration and disposal.                                              *)

\* An invariant is recorded only where one is given.
RegisterNode(i, kind, ruled) ==
  /\ i \notin Born /\ Len(regs) < MaxLives /\ (ruled => kind = "input")
  /\ regs' = Append(regs, [id |-> i, ruled |-> ruled])
  /\ born' = With(born, i, [kind |-> kind, life |-> Len(regs'), changes |-> 0])
  /\ rules' = IF ruled THEN With(rules, i, Len(regs')) ELSE rules
  /\ totals' = [totals EXCEPT ![kind] = @ + 1]
  /\ UNCHANGED <<moment, versions, tombs, parties, byNode, deaths, missed>>

\* Map.delete and Map.set move an id to the end; the oldest past the cap goes.
Buried(i) ==
  LET rest == {k \in tombs : deaths[k].id # i}
      all  == rest \cup {Len(deaths) + 1}
  IN IF Cardinality(all) > TombCap THEN all \ {Min(all)} ELSE all

\* A count of all that had a subscription.
SubscribersOf(i) == Cardinality(byNode[i])

\* Only those of the members that are still there and transient are counted.
TransientsOf(i) == Cardinality({p \in byNode[i] : parties[p].transient})

DisposeOf(i) ==
  /\ i \in Born
  /\ born' = Less(born, i) /\ versions' = Less(versions, i)
  /\ tombs' = Buried(i)
  /\ parties' = [p \in Party |-> [parties[p] EXCEPT !.members = @ \ {i}]]
  /\ byNode' = [byNode EXCEPT ![i] = {}]
  /\ totals' = [totals EXCEPT ![born[i].kind] = @ - 1, !["transient"] = @ - TransientsOf(i)]
  /\ deaths' = Append(deaths, [id |-> i, time |-> moment])
  /\ UNCHANGED <<moment, rules, regs, missed>>

-----------------------------------------------------------------------------
(* Subscriptions.                                                          *)

SubscribeParty(p, S, transient) ==
  /\ parties[p].nodes = {} /\ S # {} /\ S \subseteq Born
  /\ parties' = [parties EXCEPT ![p] = [nodes |-> S, members |-> S, transient |-> transient]]
  /\ byNode' = [i \in Id |-> IF i \in S THEN byNode[i] \cup {p} ELSE byNode[i]]
  /\ totals' = IF transient THEN [totals EXCEPT !["transient"] = @ + Cardinality(S)] ELSE totals
  /\ missed' = missed \ {p}
  /\ UNCHANGED <<moment, born, rules, versions, tombs, regs, deaths>>

\* The subscriptions the running total counts, of the groups of S.
Transients(S) ==
  {m \in Id \X S : parties[m[2]].transient /\ m[1] \in parties[m[2]].members}

\* disposeManyGroup, of some groups: by the caller, or after a transient one fired.
Disbanded(S) ==
  /\ parties' = [p \in Party |-> IF p \in S THEN NoParty ELSE parties[p]]
  /\ byNode' = [i \in Id |-> byNode[i] \ S]
  /\ totals' = [totals EXCEPT !["transient"] = @ - Cardinality(Transients(S))]

UnsubscribeParty(p) ==
  /\ parties[p].nodes # {} /\ Disbanded({p})
  /\ UNCHANGED <<moment, born, rules, versions, tombs, regs, deaths, missed>>

-----------------------------------------------------------------------------
(* A commit that changes the nodes of S.                                   *)

\* Phase G: a group is called once for its members among S, and reads all its
\* nodes; if one is gone its observer hears of it only as an error.
Reached(S) == UNION {byNode[i] : i \in S}
Whole(p)   == parties[p].nodes \subseteq Born

CommitChanges(S) ==
  /\ moment < MaxNow /\ moment' = moment + 1 /\ S \subseteq Born
  /\ versions' = [i \in DOMAIN versions \cup S |->
                    (IF i \in DOMAIN versions THEN versions[i] ELSE 0)
                      + (IF i \in S THEN 1 ELSE 0)]
  /\ born' = [i \in Born |-> IF i \in S THEN [born[i] EXCEPT !.changes = @ + 1] ELSE born[i]]
  /\ missed' = missed \cup {p \in Reached(S) : ~Whole(p)}
  /\ Disbanded({p \in Reached(S) : parties[p].transient})
  /\ UNCHANGED <<rules, tombs, regs, deaths>>

-----------------------------------------------------------------------------

\* What stats() reports: running totals, and sizes.
Stats == [inputs      |-> totals["input"],
          deriveds    |-> totals["derived"],
          transient   |-> totals["transient"],
          byNodeKeys  |-> Cardinality({i \in Id : byNode[i] # {}}),
          nodeVersion |-> [i \in Id |-> IF i \in DOMAIN versions THEN versions[i] ELSE 0]]

LifeInit ==
  /\ moment = 0 /\ born = <<>> /\ rules = <<>> /\ versions = <<>> /\ tombs = {}
  /\ totals = [kind \in {"input", "derived", "transient"} |-> 0]
  /\ parties = [p \in Party |-> NoParty] /\ byNode = [i \in Id |-> {}]
  /\ regs = <<>> /\ deaths = <<>> /\ missed = {}

\* No node is left and the bound allows no other: the graph rests.
Rests == Born = {} /\ Len(regs) = MaxLives /\ UNCHANGED lifeVars

LifeNext ==
  \/ Rests
  \/ \E i \in Id : \/ DisposeOf(i)
                   \/ \E kind \in {"input", "derived"}, ruled \in BOOLEAN : RegisterNode(i, kind, ruled)
  \/ \E p \in Party : \/ UnsubscribeParty(p)
                      \/ \E S \in SUBSET Id, transient \in BOOLEAN : SubscribeParty(p, S, transient)
  \/ \E S \in SUBSET Id : CommitChanges(S)

LifeSpec == LifeInit /\ [][LifeNext]_lifeVars

-----------------------------------------------------------------------------
(* Properties.                                                             *)

\* What stats() reports is what there is, and the index lists the subscriptions
\* that are left, whichever of disposal, caller and Phase G took the others.
StatsAreTrue ==
  /\ Stats.inputs = Cardinality({i \in Born : born[i].kind = "input"})
  /\ Stats.deriveds = Cardinality({i \in Born : born[i].kind = "derived"})
  /\ Stats.transient = Cardinality(Transients(Party))
  /\ Stats.byNodeKeys = Cardinality(UNION {parties[p].members : p \in Party})
  /\ \A i \in Id : byNode[i] = {p \in Party : i \in parties[p].members}

\* The tombstones are those of the ids disposed of last, in that order, as many
\* as the cap allows, each of its last disposal, however often the ids came
\* back in between: getEntry tells the disposed from the unknown.
LastDeaths == {k \in DOMAIN deaths : \A m \in DOMAIN deaths : m > k => deaths[m].id # deaths[k].id}

TombstonesAreTheLast ==
  tombs = {k \in LastDeaths : Cardinality({m \in LastDeaths : m > k}) < TombCap}

\* A version counts the changes of the node that has the id now; an earlier one
\* leaves none behind.
VersionsCountOneLife ==
  \A i \in Id : Stats.nodeVersion[i] = IF i \in Born THEN born[i].changes ELSE 0

\* An input is held to the invariant it was given; one that was given none is
\* held to the last that an earlier input of the id was given, for dispose does
\* not forget it.
RuleIsOfTheLastGiver ==
  \A i \in Id :
    LET givers == {n \in DOMAIN regs : regs[n].id = i /\ regs[n].ruled}
    IN IF givers = {} THEN i \notin DOMAIN rules
       ELSE i \in DOMAIN rules /\ rules[i] = Max(givers)

\* A group misses a change of its members only when a node of it is gone.
OnlyBrokenGroupsMiss ==
  \A p \in missed : parties[p].nodes # {} => parties[p].members # parties[p].nodes

LivesSound ==
  /\ StatsAreTrue /\ TombstonesAreTheLast /\ VersionsCountOneLife
  /\ RuleIsOfTheLastGiver /\ OnlyBrokenGroupsMiss
=============================================================================
