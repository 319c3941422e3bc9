------------------------------ MODULE Retention -------------------------------
(***************************************************************************)
(* Time travel in packages/core/src/graph.ts: retainedSnapshots, the chain *)
(* of per-commit deltas that Phase F.6 extends and folds, and the reads    *)
(* readAt and snapshotAt that resolve through it.                          *)
(*                                                                         *)
(* A row's prev pointer is its predecessor in the sequence: the root's is  *)
(* null and eviction folds the old root into the new one.  A commit is one *)
(* step: nothing can throw after Phase F.6, and a frame that is taken back *)
(* never reaches it.  Both caps are positive here; with commitHistoryCap 0 *)
(* no row follows the one of genesis.                                      *)
(***************************************************************************)
EXTENDS Integers, SequencesExt, FiniteSetsExt

CONSTANTS Input,    \* the ids inputs are registered under
          Value,    \* what they hold
          Opaque,   \* the values JSON.stringify rejects
          Window,   \* snapshotRetentionCap
          MaxTick   \* bound on the graph clock

ASSUME OpaqueAssumption == Opaque \subseteq Value
ASSUME WindowAssumption == Window \in Nat \ {0}
ASSUME MaxTickAssumption == MaxTick \in Nat

VARIABLES
  tick,          \* the graph clock
  val,           \* the cells of the registered inputs
  registeredAt,  \* inputRegisteredAtMap; no entry reads as 0
  rows,          \* retainedSnapshots, oldest first
  past           \* history variable: the cells as tick t left them

retentionVars == <<tick, val, registeredAt, rows, past>>

Ticks      == 0..MaxTick
Cells(S)   == UNION {[D -> S] : D \in SUBSET Input}
Alive      == DOMAIN val
Serialised == Value \ Opaque

RetentionTypeOK ==
  /\ tick \in Ticks
  /\ val \in Cells(Value)
  /\ registeredAt \in [Input -> Ticks]
  /\ rows \in Seq([time : Ticks, delta : Cells(Serialised)])
  /\ past \in [0..tick -> Cells(Value)]

NoCells == [i \in {} |-> i]

\* @@ and :> of module TLC, spelt out: the prover has no definition of those.
Over(f, g)  == [x \in DOMAIN f \cup DOMAIN g |-> IF x \in DOMAIN f THEN f[x] ELSE g[x]]
Only(x, y)  == [z \in {x} |-> y]

\* The genesis row is pushed before any registration.
RetentionInit ==
  /\ tick = 0 /\ val = NoCells
  /\ registeredAt = [i \in Input |-> 0]
  /\ rows = <<[time |-> 0, delta |-> NoCells]>>
  /\ past = [t \in {0} |-> NoCells]

-----------------------------------------------------------------------------

\* input(): the initial value is written into the row of the present.
SetInRowOfNow(i, v) ==
  [k \in DOMAIN rows |->
     IF rows[k].time = tick /\ v \in Serialised
     THEN [rows[k] EXCEPT !.delta = Over(Only(i, v), @)] ELSE rows[k]]

Register(i, v) ==
  /\ i \notin Alive
  /\ val' = Over(Only(i, v), val)
  /\ registeredAt' = [registeredAt EXCEPT ![i] = tick]
  /\ rows' = SetInRowOfNow(i, v)
  /\ past' = [past EXCEPT ![tick] = val']
  /\ UNCHANGED tick

\* _dispose: the rows keep what they know of the id.
Dispose(i) ==
  /\ i \in Alive
  /\ val' = [k \in Alive \ {i} |-> val[k]]
  /\ registeredAt' = [registeredAt EXCEPT ![i] = 0]
  /\ past' = [past EXCEPT ![tick] = val']
  /\ UNCHANGED <<tick, rows>>

\* The delta of a commit leaves out what cannot be serialised.
Delta(w) == [i \in {k \in DOMAIN w : w[k] \in Serialised} |-> w[i]]

\* Evictions that go wrong: the older value wins, or is dropped.
FoldedOlderWins(old, new) == [new EXCEPT !.delta = Over(old.delta, @)]
FoldedAway(old, new)      == new

\* What the new root knows of its own wins over what it inherits.
Folded(old, new) == [new EXCEPT !.delta = Over(@, old.delta)]

\* FIFO eviction, one row at most since each commit pushes one.
Evicted(r) ==
  IF Len(r) > Window /\ Len(r) > 1
  THEN <<Folded(r[1], r[2])>> \o SubSeq(r, 3, Len(r)) ELSE r

\* commit: w holds the inputs the frame changed (none is legal: the clock and
\* the chain advance all the same).
Commit(w) ==
  /\ tick < MaxTick
  /\ DOMAIN w \subseteq Alive /\ \A i \in DOMAIN w : w[i] # val[i]
  /\ tick' = tick + 1
  /\ val' = Over(w, val)
  /\ rows' = Evicted(Append(rows, [time |-> tick', delta |-> Delta(w)]))
  /\ past' = Over(past, Only(tick', val'))
  /\ UNCHANGED registeredAt

RetentionNext ==
  \/ \E i \in Input : Dispose(i) \/ \E v \in Value : Register(i, v)
  \/ \E w \in Cells(Value) : Commit(w)

RetentionSpec == RetentionInit /\ [][RetentionNext]_retentionVars

-----------------------------------------------------------------------------
(* The reads.                                                              *)

\* The newest row not after t: rows are in order of time.
RowAt(t) == Max({k \in DOMAIN rows : rows[k].time <= t})

\* resolveRetained: the rows of k's chain that mention i.
Mentions(k, i) == {j \in 1..k : i \in DOMAIN rows[j].delta}
Resolved(k, i) == rows[Max(Mentions(k, i))].delta[i]

Oldest == rows[1].time

\* When readAt on a registered input answers "retained", and with what.
Retained(i, t) == /\ t >= registeredAt[i] /\ t >= Oldest
                  /\ Mentions(RowAt(t), i) # {}
ReadAt(i, t)   == Resolved(RowAt(t), i)

\* materialiseRetained: every id the chain mentions, disposed or not.
SnapshotAt(t) ==
  [i \in {j \in Input : Mentions(RowAt(t), j) # {}} |-> Resolved(RowAt(t), i)]

-----------------------------------------------------------------------------
(* readAt of a derived node.  The graph keeps no past values of derived    *)
(* nodes and computes the node again over the inputs as the retained row   *)
(* tells them.  An input the chain does not mention is taken as it is now, *)
(* and one that is gone makes readAt throw.                                *)
(*                                                                         *)
(* The node reads one input first, its gate, and goes on to read every     *)
(* other unless the gate holds one value.  Its value is what it has read.  *)
(* A node leaves no trace in the rows, so there is no variable for it: it  *)
(* is any node that could have lived since some tick.                      *)

\* A derived node: what it computes, and derivedRegisteredAt.
Views == [gate : Input, cut : Serialised, since : Ticks]

\* The compute of w over the cells f: the cells it reads, whether it finds them
\* all, and its value.
Wanted(w, f)      == IF f[w.gate] = w.cut THEN {w.gate} ELSE Input
Derivable(w, f)   == w.gate \in DOMAIN f /\ Wanted(w, f) \subseteq DOMAIN f
DerivedFrom(w, f) == [i \in Wanted(w, f) |-> f[i]]

\* Its compute threw in no commit since it was registered, and nobody disposed
\* of an input it read.
Living(w) == w.since <= tick /\ \A u \in w.since..tick : Derivable(w, past[u])

\* recomputeFromSnapshot of the inputs there are: the value in the chain of the
\* row or, as for an input registered after the row, the one of now.
Recalled(t) ==
  LET k == RowAt(t)
  IN [i \in Alive |-> IF Mentions(k, i) # {} THEN Resolved(k, i) ELSE val[i]]

Throws == [status |-> "throws"]

\* readAt of a derived node, where the window and its registration allow.
ReadDerivedAt(w, t) ==
  IF t < w.since THEN [status |-> "evicted", oldest |-> w.since]
  ELSE IF t < Oldest THEN [status |-> "evicted", oldest |-> Oldest]
  ELSE IF Derivable(w, Recalled(t))
  THEN [status |-> "retained", value |-> DerivedFrom(w, Recalled(t))]
  ELSE Throws

-----------------------------------------------------------------------------
(* What retention promises.                                                *)

\* The rows are those of the last ticks of the window, without a gap: what can be read
\* is a matter of the cap alone.
WindowIsFull ==
  LET kept == IF tick + 1 < Window THEN tick + 1 ELSE Window
  IN Len(rows) = kept /\ \A k \in 1..kept : rows[k].time = tick - kept + k

\* readAt of a live input at a tick of the window, since its registration,
\* answers with the value the input had when that tick ended, whatever was
\* evicted, disposed or registered again in between.  (For a value that cannot
\* be serialised it does not: see the README.)
ReadAtExact ==
  \A i \in Alive : \A t \in Oldest..tick :
    t >= registeredAt[i] /\ past[t][i] \in Serialised
      => Retained(i, t) /\ ReadAt(i, t) = past[t][i]

\* readAt never answers for a tick before the registration of an id, even if
\* an earlier input of that id left its values in the chain.
NoAnswerFromAnEarlierLife ==
  \A i \in Alive, t \in 0..tick :
    Retained(i, t) => \A u \in t..tick : i \in DOMAIN past[u]

\* A snapshot of a tick of the window holds every input that lived then, with
\* its value of then, also those disposed since.
SnapshotComplete ==
  \A t \in Oldest..tick : \A i \in DOMAIN past[t] :
    past[t][i] \in Serialised
      => i \in DOMAIN SnapshotAt(t) /\ SnapshotAt(t)[i] = past[t][i]

\* An answer about a tick does not change as long as it is given: commits,
\* evictions and registrations under other ids leave it as it was.
PastIsStable ==
  [][\A i \in Alive \cap Alive', t \in 0..tick :
       Retained(i, t) /\ Retained(i, t)' => ReadAt(i, t)' = ReadAt(i, t)]_retentionVars

\* What a retained tick is asked for is what the graph held at that tick.
RetentionSound ==
  /\ WindowIsFull
  /\ ReadAtExact
  /\ NoAnswerFromAnEarlierLife
  /\ SnapshotComplete

\* readAt of a derived node at a tick of the window, since its registration,
\* answers with the value the node had when that tick ended, though the node
\* may have read other inputs then, and these may have been registered again
\* since; it throws if one of them is gone.  (Of an input whose value of then
\* cannot be serialised it takes another value: see the README.)
DerivedReadsExact ==
  \A w \in {v \in Views : Living(v)} : \A t \in Max({Oldest, w.since})..tick :
    LET read == Wanted(w, past[t])
    IN (\A i \in read : past[t][i] \in Serialised) =>
         ReadDerivedAt(w, t) =
           IF read \subseteq Alive
           THEN [status |-> "retained", value |-> DerivedFrom(w, past[t])]
           ELSE Throws

\* readAt and snapshotAt tell what was so, of inputs and of derived nodes.
ReadsOfThePastSound == RetentionSound /\ DerivedReadsExact
=============================================================================
