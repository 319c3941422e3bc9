------------------------------ MODULE HeldReads ------------------------------
(***************************************************************************)
(* The H1 warning of packages/core/src/graph.ts: with                      *)
(* enableH1HazardWarning, read remembers each object it hands out, weakly, *)
(* and the end of a commit warns once of every one that is still alive,    *)
(* for the application may go on using it while the cell moves on.  What   *)
(* adapters and projections read is exempt: runInAdapterReadMode counts    *)
(* how deep in them the call is.                                           *)
(*                                                                         *)
(* An object nobody holds is collected at some time, or never.  Only a     *)
(* commit that comes to its end checks; one that is taken back, a          *)
(* simulation, or the early return of an empty commit leaves the ring.     *)
(***************************************************************************)
EXTENDS Integers, Sequences, FiniteSetsExt

CONSTANTS Thing,      \* objects a cell may hold
          RingCap,    \* H1_HAZARD_TRACK_CAP
          MaxReads,   \* bound on the reads of a run
          MaxDepth,   \* bound on adapter calls inside adapter calls
          MaxHour     \* bound on the clock

ASSUME RingCapAssumption == RingCap \in Nat
ASSUME HeldBoundsAssumption == {MaxReads, MaxDepth, MaxHour} \subseteq Nat

VARIABLES
  hour,      \* graph.now
  shown,     \* the object the node holds
  kept,      \* what the application holds on to
  collected, \* objects the collector has taken
  ring,      \* h1HazardTrack: the numbers of reads, for it is in their order
  depth,     \* adapterReadDepth
  nested,    \* the adapter calls that are open in truth
  reads,     \* history: every read, in order
  warned,    \* history: how often each read was warned of
  checked    \* history: the clock at the last check

heldVars == <<hour, shown, kept, collected, ring, depth, nested, reads, warned, checked>>

HeldTypeOK ==
  /\ hour \in 0..MaxHour /\ checked \in 0..hour
  /\ shown \in Thing /\ kept \subseteq Thing /\ collected \subseteq Thing
  /\ ring \subseteq DOMAIN reads /\ warned \in [1..MaxReads -> 0..MaxHour]
  /\ depth \in 0..MaxDepth /\ nested \in 0..MaxDepth
  /\ reads \in Seq([ref : Thing, at : 0..MaxHour, exempt : BOOLEAN])

Derefs(n) == reads'[n].ref \notin collected

-----------------------------------------------------------------------------

\* pruneH1HazardTrack drops the dead, and nothing else.
PruneOldest(r) == IF Cardinality(r) > RingCap THEN r \ {Min(r)} ELSE r
Prune(r)       == IF Cardinality(r) > RingCap THEN {n \in r : Derefs(n)} ELSE r

\* read, by the application or inside an adapter.  A compute that calls
\* graph.read sees the clock of the commit it runs in, whatever becomes of it.
HandOut(at) ==
  /\ Len(reads) < MaxReads /\ at <= MaxHour
  /\ reads' = Append(reads, [ref |-> shown, at |-> at, exempt |-> nested > 0])
  /\ ring' = IF depth = 0 THEN Prune(ring \cup {Len(reads')}) ELSE ring
  /\ kept' \in {kept, kept \cup {shown}}
  /\ UNCHANGED <<hour, shown, collected, depth, nested, warned, checked>>

\* runInAdapterReadMode; its finally closes the call however it ends.
EnterAdapter ==
  /\ nested < MaxDepth
  /\ nested' = nested + 1 /\ depth' = depth + 1
  /\ UNCHANGED <<hour, shown, kept, collected, ring, reads, warned, checked>>

LeaveAdapter(throws) ==
  /\ nested > 0
  /\ nested' = nested - 1 /\ depth' = depth - 1
  /\ UNCHANGED <<hour, shown, kept, collected, ring, reads, warned, checked>>

\* The application lets go of an object; the collector takes one.
LetGo(o) ==
  /\ o \in kept /\ kept' = kept \ {o}
  /\ UNCHANGED <<hour, shown, collected, ring, depth, nested, reads, warned, checked>>

Collect(o) ==
  /\ o \notin kept \cup collected \cup {shown}
  /\ collected' = collected \cup {o}
  /\ UNCHANGED <<hour, shown, kept, ring, depth, nested, reads, warned, checked>>

-----------------------------------------------------------------------------

\* checkH1HazardOnCommit, at the end of a commit that published.
Due(n) == Derefs(n) /\ reads'[n].at < hour'

CommitChecks(o) ==
  /\ hour < MaxHour /\ nested = 0 /\ o \notin collected
  /\ hour' = hour + 1 /\ shown' = o
  /\ UNCHANGED reads
  /\ warned' = [n \in DOMAIN warned |->
                  IF n \in ring /\ Due(n) THEN warned[n] + 1 ELSE warned[n]]
  /\ ring' = {n \in ring : Derefs(n) /\ ~Due(n)}
  /\ checked' = hour'
  /\ UNCHANGED <<kept, collected, depth, nested>>

\* The early return of a commit that changed nothing.
CommitReturnsEarly ==
  /\ hour < MaxHour /\ nested = 0 /\ hour' = hour + 1
  /\ UNCHANGED <<shown, kept, collected, ring, depth, nested, reads, warned, checked>>

HeldInit ==
  /\ hour = 0 /\ shown \in Thing /\ kept = {} /\ collected = {}
  /\ ring = {} /\ depth = 0 /\ nested = 0
  /\ reads = <<>> /\ warned = [n \in 1..MaxReads |-> 0] /\ checked = 0

HeldNext ==
  \/ \E at \in {hour, hour + 1} : HandOut(at)
  \/ \E throws \in BOOLEAN : LeaveAdapter(throws)
  \/ \E o \in Thing : LetGo(o) \/ Collect(o) \/ CommitChecks(o)
  \/ EnterAdapter \/ CommitReturnsEarly

HeldSpec == HeldInit /\ [][HeldNext]_heldVars

-----------------------------------------------------------------------------
(* Properties.                                                             *)

\* A read of the application is either still in the ring, or warned of once, or
\* its object died unnoticed; none is lost to the cap or to an adapter that
\* threw, and none is told twice.
EveryReadIsAccountedFor ==
  /\ \A n \in DOMAIN reads :
       n \in ring \/ warned[n] = 1 \/ reads[n].exempt \/ reads[n].ref \in collected
  /\ \A n \in 1..MaxReads : warned[n] = 0 \/ (warned[n] = 1 /\ n \notin ring)

\* Hooks, which keep what they read by design, are never warned of.
AdaptersAreExempt == \A n \in DOMAIN reads : n \in ring \/ warned[n] > 0 => ~reads[n].exempt

\* What the ring holds after a check was read since: it cannot grow without end.
RingIsFresh == \A n \in ring : reads[n].at >= checked

HeldReadsSound == EveryReadIsAccountedFor /\ AdaptersAreExempt /\ RingIsFresh
=============================================================================
