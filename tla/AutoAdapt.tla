----------------------------- MODULE AutoAdapt -----------------------------
(***************************************************************************)
(* createCausl({ backend: 'auto' }): the wrapper of                        *)
(* packages/core/src/auto-adapt-wrapper.ts decides after each commit       *)
(* whether the graph has outgrown the engine it started on, loads the      *)
(* other one in the background and changes over inside a later commit: it  *)
(* replays the registrations on the new engine, moves the input values by  *)
(* snapshot and _migrateFrom, and re-attaches the observers it knows of.   *)
(*                                                                         *)
(* The loader keeps one backend per bridge for the whole process, so two   *)
(* wrapped graphs are given the same new engine.                           *)
(***************************************************************************)
EXTENDS Integers, SequencesExt

CONSTANTS Host,        \* the graphs created with backend 'auto'
          Cell,        \* input ids; every graph may use the same ones
          Content,     \* values of inputs
          Blank,       \* in Content: the value every input is registered with
          Unkept,      \* in Content: isSerializable refuses it
          Picky,       \* graph and input: a compute that throws on a blank one
          NodeCount,   \* adaptThresholds.nodeCount
          TripCount,   \* HYSTERESIS_TRIP_COUNT
          CommitCount, \* adaptThresholds.commitCount
          MaxCommits,  \* bound on the commits of one graph
          NotTold      \* an observer that was told nothing, or is not there

ASSUME ContentAssumption ==
  {Blank, Unkept} \subseteq Content /\ Blank # Unkept /\ NotTold \notin Content
ASSUME PickyAssumption   == Picky \subseteq Host \X Cell
ASSUME CountsAssumption  == {NodeCount, TripCount, CommitCount, MaxCommits} \subseteq Nat

VARIABLES
  log,       \* registrationLog of each graph, in order
  old,       \* the engine a graph starts on: its cells and its clock
  backend,   \* the engine every graph changes over to, the cached WasmBackend
  inner,     \* which of the two a graph's calls go to
  stage,     \* migrated, migrating and wasmBackendReady
  counts,    \* statsHistory, as node counts
  payback,   \* migrationPaybackCommits; -1: undefined
  threw,     \* did the last commit throw out of performSwap?
  told,      \* LiveNodeSubscription.lastValue
  calls,     \* the values node observers were called with in the last step
  stream,    \* the times a subscribeCommits observer was called with
  written,   \* history: what the adopter last wrote into each input
  commits    \* history: how many commits the adopter made

engines   == <<old, backend, inner>>
observers == <<told, calls, stream>>
adaptVars == <<log, engines, stage, counts, payback, threw, observers, written, commits>>
control   == <<stage, counts, payback, threw, stream, commits>>

NoCalls == [c \in Host \X Cell |-> <<>>]
Entry == [kind : {"input", "derived"}, id : Cell]
EngineState == [cells    : UNION {[I -> Content] : I \in SUBSET Cell},
                computes : SUBSET Cell,
                time     : Nat]

AdaptTypeOK ==
  /\ log \in [Host -> Seq(Entry)]
  /\ old \in [Host -> EngineState] /\ backend \in EngineState
  /\ inner \in [Host -> {"old", "backend"}]
  /\ stage \in [Host -> {"watching", "loading", "ready", "swapped"}]
  /\ counts \in [Host -> Seq(Nat)]
  /\ payback \in [Host -> -1..CommitCount]
  /\ threw \in [Host -> BOOLEAN]
  /\ told \in [Host -> [Cell -> Content \cup {NotTold}]]
  /\ calls \in [Host \X Cell -> Seq(Content)]
  /\ stream \in [Host -> Seq(Nat)]
  /\ written \in [Host -> [Cell -> Content]]
  /\ commits \in [Host -> 0..MaxCommits]

-----------------------------------------------------------------------------
(* The engine a graph runs on.                                             *)

Fresh     == [cells |-> <<>>, computes |-> {}, time |-> 0]
Engine(h) == IF inner[h] = "old" THEN old[h] ELSE backend

NodeTotal(e) == Cardinality(DOMAIN e.cells) + Cardinality(e.computes)

Inputs(h) == {log[h][k].id : k \in {j \in DOMAIN log[h] : log[h][j].kind = "input"}}
Read(h, i) == Engine(h).cells[i]

SetEngine(h, e) ==
  IF inner[h] = "old"
  THEN old' = [old EXCEPT ![h] = e] /\ UNCHANGED backend
  ELSE backend' = e /\ UNCHANGED old

AddInput(e, i)   == [e EXCEPT !.cells = [j \in DOMAIN @ \cup {i} |->
                                           IF j = i THEN Blank ELSE @[j]]]
AddDerived(e, i) == [e EXCEPT !.computes = @ \cup {i}]

\* A registration by graph h is refused when the id is taken, or when the compute
\* of a derived node throws.
Refuses(h, e, entry) ==
  IF entry.kind = "input" THEN entry.id \in DOMAIN e.cells
  ELSE \/ entry.id \in e.computes
       \/ <<h, entry.id>> \in Picky /\ e.cells[entry.id] = Blank

Registered(e, entry) ==
  IF entry.kind = "input" THEN AddInput(e, entry.id) ELSE AddDerived(e, entry.id)

-----------------------------------------------------------------------------
(* shouldMigrate.  captureStats fills in no maxChainDepth, and how long    *)
(* commits take is left out, so of the three thresholds of tripped() the   *)
(* one on the number of nodes remains.                                     *)

Tripped(count) == count > NodeCount

\* ewmaOver with alpha = 1/10, times 10^(Len - 1) to stay among integers.
ScaledEwma(s) ==
  FoldLeft(LAMBDA acc, k : 9 * acc + s[k] * 10 ^ (k - 2), s[1], [j \in 1..Len(s) - 1 |-> j + 1])

ShouldMigrate(s) ==
  /\ Len(s) >= TripCount
  /\ \A k \in Len(s) - TripCount + 1 .. Len(s) : Tripped(s[k])
  /\ ScaledEwma(s) > NodeCount * 10 ^ (Len(s) - 1)

-----------------------------------------------------------------------------
(* performSwap.                                                            *)

\* The new engine when the first n entries have been replayed on it.
ReplayedTo(h, n) ==
  LET ids(kind) == {log[h][k].id : k \in {j \in 1..n : log[h][j].kind = kind}}
  IN [cells    |-> [i \in DOMAIN backend.cells \cup ids("input") |->
                      IF i \in DOMAIN backend.cells THEN backend.cells[i] ELSE Blank],
      computes |-> backend.computes \cup ids("derived"),
      time     |-> backend.time]

\* The entries replayed before the first one that throws, or all of them.
Replays(h, n) == \A k \in 1..n : ~Refuses(h, ReplayedTo(h, k - 1), log[h][k])
Replayed(h) ==
  LET done == Max({n \in 0..Len(log[h]) : Replays(h, n)})
  IN [engine |-> ReplayedTo(h, done), failed |-> done < Len(log[h])]

\* snapshot(): every input with a value that can be serialised.
Snapshot(e) == [i \in {j \in DOMAIN e.cells : e.cells[j] # Unkept} |-> e.cells[i]]

\* _migrateFrom: only on a graph with the same nodes that never committed.  A
\* compute sees then what it had on the old engine or what it was replayed on, and
\* took both.
Accepts(target, source) ==
  /\ DOMAIN target.cells = DOMAIN source.cells /\ target.computes = source.computes
  /\ target.time = 0

\* What the snapshot has no value for stays as the replay left it.
Carried(target, source) ==
  [i \in DOMAIN target.cells |->
     IF i \in DOMAIN Snapshot(source) THEN Snapshot(source)[i] ELSE target.cells[i]]

MigratedUntimed(target, source) ==
  [cells |-> Carried(target, source), computes |-> target.computes, time |-> target.time]
MigratedFrom(target, source) ==
  [cells |-> Carried(target, source), computes |-> target.computes, time |-> source.time]

\* rebindNodeSubscription: the first call is kept from an observer that was
\* told the same value before.
Tells(heard, e, i) == heard[i] # NotTold /\ heard[i] # e.cells[i]

CanSwap(h, e) == LET replay == Replayed(h) IN ~replay.failed /\ Accepts(replay.engine, e)

\* The swap goes through: engine e is left for the new one.
SwapFrom(h, e) ==
  /\ CanSwap(h, e)
  /\ old' = [old EXCEPT ![h] = e]
  /\ backend' = MigratedFrom(Replayed(h).engine, e)
  /\ inner' = [inner EXCEPT ![h] = "backend"]
  /\ stage' = [stage EXCEPT ![h] = "swapped"]
  /\ payback' = [payback EXCEPT ![h] = CommitCount]
  /\ threw' = [threw EXCEPT ![h] = FALSE]

\* A replay or a migration that throws is not taken back: the new engine keeps
\* what it was given, and the next commit tries again.
SwapThrows(h, e) ==
  /\ ~CanSwap(h, e)
  /\ old' = [old EXCEPT ![h] = e]
  /\ backend' = Replayed(h).engine
  /\ threw' = [threw EXCEPT ![h] = TRUE]
  /\ UNCHANGED <<inner, stage, payback>>

-----------------------------------------------------------------------------

AdaptInit ==
  /\ log = [h \in Host |-> <<>>]
  /\ old = [h \in Host |-> Fresh] /\ backend = Fresh
  /\ inner = [h \in Host |-> "old"]
  /\ stage = [h \in Host |-> "watching"]
  /\ counts = [h \in Host |-> <<>>]
  /\ payback = [h \in Host |-> -1]
  /\ threw = [h \in Host |-> FALSE]
  /\ told = [h \in Host |-> [i \in Cell |-> NotTold]]
  /\ calls = NoCalls
  /\ stream = [h \in Host |-> <<>>]
  /\ written = [h \in Host |-> [i \in Cell |-> Blank]]
  /\ commits = [h \in Host |-> 0]

\* input and derived of the facade: the engine in use first, then the log.
Register(h, kind, i) ==
  LET entry == [kind |-> kind, id |-> i]
  IN /\ kind = "derived" => i \in Inputs(h)
     /\ ~Refuses(h, Engine(h), entry)
     /\ SetEngine(h, Registered(Engine(h), entry))
     /\ log' = [log EXCEPT ![h] = Append(@, entry)]
     /\ written' = IF kind = "input" THEN [written EXCEPT ![h][i] = Blank] ELSE written
     /\ calls' = NoCalls
     /\ UNCHANGED <<inner, control, told>>

\* subscribe calls its observer at once.
Watch(h, i) ==
  /\ i \in Inputs(h) /\ told[h][i] = NotTold
  /\ told' = [told EXCEPT ![h][i] = Read(h, i)]
  /\ calls' = [NoCalls EXCEPT ![<<h, i>>] = <<Read(h, i)>>]
  /\ UNCHANGED <<log, engines, control, written>>

Unwatch(h, i) ==
  /\ told[h][i] # NotTold
  /\ told' = [told EXCEPT ![h][i] = NotTold]
  /\ calls' = NoCalls
  /\ UNCHANGED <<log, engines, control, written>>

\* inner.commit, up to its return: the engine it leaves behind, and what the
\* node observers were told last.
Committed(h, i, v) == [cells    |-> [Engine(h).cells EXCEPT ![i] = v],
                       computes |-> Engine(h).computes,
                       time     |-> Engine(h).time + 1]
Delivered(h, i, v) ==
  IF told[h][i] # NotTold /\ Read(h, i) # v THEN [told[h] EXCEPT ![i] = v] ELSE told[h]

\* migrationPaybackCommits runs down to 0 and stays there.
Paid(left)   == IF left > 0 THEN left - 1 ELSE left

\* Observers re-attached to engine e, given what the commit had told them.
Rebound(heard, e) == [i \in Cell |-> IF Tells(heard, e, i) THEN e.cells[i] ELSE heard[i]]

\* The calls of a commit that told its observers heard, and then, re-attaching
\* them, told some of them again.
Heard(h, heard, again) ==
  [c \in Host \X Cell |->
     IF c[1] # h THEN <<>>
     ELSE (IF heard[c[2]] # told[h][c[2]] THEN <<heard[c[2]]>> ELSE <<>>)
          \o (IF c[2] \in again THEN <<told'[h][c[2]]>> ELSE <<>>)]

\* inner.commit throws and undoes itself when a compute does, and the wrapper then
\* does nothing.
InnerThrows(h, i, v) == v = Blank /\ <<h, i>> \in Picky /\ i \in Engine(h).computes

\* commitWrapped.
Commit(h, i, v) ==
  LET e       == Committed(h, i, v)
      heard   == Delivered(h, i, v)
      history == Append(counts[h], NodeTotal(e))
  IN /\ i \in Inputs(h) /\ ~InnerThrows(h, i, v) /\ commits[h] < MaxCommits
     /\ commits' = [commits EXCEPT ![h] = @ + 1]
     /\ written' = [written EXCEPT ![h][i] = v]
     /\ stream' = [stream EXCEPT ![h] = Append(@, e.time)]
     /\ counts' = [counts EXCEPT ![h] = history]
     /\ UNCHANGED log
     /\ IF stage[h] = "ready"
        THEN \/ /\ SwapFrom(h, e)
                /\ told' = [told EXCEPT ![h] = Rebound(heard, backend')]
                /\ calls' = Heard(h, heard, {j \in Cell : Tells(heard, backend', j)})
             \/ /\ SwapThrows(h, e)
                /\ told' = [told EXCEPT ![h] = heard]
                /\ calls' = Heard(h, heard, {})
        ELSE /\ SetEngine(h, e)
             /\ told' = [told EXCEPT ![h] = heard]
             /\ calls' = Heard(h, heard, {})
             /\ stage' = IF stage[h] = "watching" /\ ShouldMigrate(history)
                         THEN [stage EXCEPT ![h] = "loading"] ELSE stage
             /\ payback' = [payback EXCEPT ![h] = Paid(@)]
             /\ threw' = [threw EXCEPT ![h] = FALSE]
             /\ UNCHANGED inner

\* The import and activateAutoMigrationBackend, in the background.
Loaded(h) ==
  /\ stage[h] = "loading"
  /\ stage' = [stage EXCEPT ![h] = "ready"] /\ calls' = NoCalls
  /\ UNCHANGED <<log, engines, counts, payback, threw, told, stream, written, commits>>

\* The catch arm: back to asking shouldMigrate after each commit.
LoadFails(h) ==
  /\ stage[h] = "loading"
  /\ stage' = [stage EXCEPT ![h] = "watching"] /\ calls' = NoCalls
  /\ UNCHANGED <<log, engines, counts, payback, threw, told, stream, written, commits>>

AdaptNext ==
  \E h \in Host :
    \/ Loaded(h) \/ LoadFails(h)
    \/ \E i \in Cell : \/ Watch(h, i) \/ Unwatch(h, i)
                      \/ \E kind \in {"input", "derived"} : Register(h, kind, i)
                      \/ \E v \in Content : Commit(h, i, v)

AdaptSpec == AdaptInit /\ [][AdaptNext]_adaptVars

-----------------------------------------------------------------------------
(* What an adopter of backend 'auto' may rely on.                          *)

\* A read gives what was last written, whichever engine the graph has moved
\* to and whatever another graph did to the engine they share; only a value
\* that a snapshot cannot carry is lost, and then for the initial one.
ReadsFollowWrites ==
  \A h \in Host : \A i \in Inputs(h) :
    Read(h, i) = written[h][i] \/ (written[h][i] = Unkept /\ Read(h, i) = Blank)

\* An observer was told the value that a read gives now: none is lost in the
\* change of engines, and none stays with what the old engine had.
WatchersAreCurrent ==
  \A h \in Host, i \in Cell : told[h][i] # NotTold => told[h][i] = Read(h, i)

\* No observer is called twice in a row with the same value, although the new
\* engine fires every subscription it is given.
NoRepeatedCall ==
  [][\A h \in Host, i \in Cell :
       LET values == <<told[h][i]>> \o calls'[<<h, i>>]
       IN \A k \in 1..Len(values) - 1 : values[k] # values[k + 1]]_adaptVars

\* Observers of commits get the times 1, 2, 3, ... through the swap: the new
\* engine goes on from the clock of the old one and repeats no commit.
CommitStreamUnbroken ==
  \A h \in Host : stream[h] = [k \in 1..commits[h] |-> k]

\* While no graph has touched the new engine, a commit throws out of the swap
\* only if a compute cannot take the initial values the replay starts from: other
\* derived nodes move with the inputs.
SwapThrowsOnlyFor ==
  [][\A h \in Host :
       threw'[h] /\ ~threw[h] /\ backend = Fresh
         => \E k \in DOMAIN log[h] :
              log[h][k].kind = "derived" /\ <<h, log[h][k].id>> \in Picky]_adaptVars

\* The swap of engines is not seen in reads, by observers of nodes, or by
\* observers of commits.
SwapIsInvisible == ReadsFollowWrites /\ WatchersAreCurrent /\ CommitStreamUnbroken

\* What a swap may do to its callers: nothing is told twice, and a commit does
\* not throw without a cause in the registrations.
SwapIsQuiet == NoRepeatedCall /\ SwapThrowsOnlyFor
=============================================================================
