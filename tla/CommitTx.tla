------------------------------- MODULE CommitTx -------------------------------
(***************************************************************************)
(* The input side of the commit pipeline of packages/core/src/graph.ts:    *)
(* commit, hydrate and simulate share one frame, tx.set either writes the  *)
(* cell directly or stages the write, and the frame is published or undone *)
(* as a whole.  Two integers stored in each cell act as sentinels for the  *)
(* frame: lastStagedAt = now says "staged in this frame", lastWriteTime >  *)
(* now says "an undo row was already captured in this frame".              *)
(*                                                                         *)
(* The derived side (Phase D, Phase F.5) is in module Recompute; here it   *)
(* either succeeds or throws, and rewires which inputs have dependents.    *)
(* Module CommitGraph puts the two together.                               *)
(***************************************************************************)
EXTENDS Integers, Sequences

CONSTANTS Input,              \* the registered input nodes
          Value,              \* the values they hold
          Allowed,            \* Allowed[i]: what the invariant of i accepts
          MaxTime,            \* bound on the graph clock
          MidTxRegistration   \* may a tx body register a derived node?

ASSUME AllowedAssumption == Allowed \in [Input -> SUBSET Value]
ASSUME MaxTimeAssumption == MaxTime \in Nat
ASSUME MidTxAssumption   == MidTxRegistration \in BOOLEAN

VARIABLES
  val,             \* InputEntry.value
  lastWrite,       \* InputEntry.lastWriteTime
  hasDependents,   \* InputEntry.hasDependents
  stagedAt,        \* InputEntry.lastStagedAt
  stagedRow,       \* InputEntry.lastStagedRow, an index of staged
  now,             \* the graph clock
  phase,           \* where the pipeline is; "idle" is committing = false
  mode,            \* which entry point opened the frame
  beforeNow,       \* the clock when the frame was opened
  staged,          \* stagedWriteEntries and stagedWriteValues, row by row
  undo,            \* the three inputRollback arrays, row by row
  live,            \* the rows of undo that survive the in-place compaction
  slot,            \* the scalar rollback slot: a set of at most one row
  changed,         \* changedInputIds
  record           \* the last Commit returned by commit or hydrate

cells     == <<val, lastWrite>>
sentinels == <<stagedAt, stagedRow>>
arrays    == <<staged, undo, live, slot, changed>>
frame     == <<mode, beforeNow>>
vars == <<cells, hasDependents, sentinels, now, phase, frame, arrays, record>>

Time   == Nat
Row    == [input : Input, value : Value, lastWrite : Time]
Write  == [input : Input, value : Value]
Modes  == {"commit", "hydrate", "simulate"}
Phases == {"idle", "run", "invariants", "publish", "tick", "recompute",
           "seal", "dispatch", "failed"}

TypeOK ==
  /\ val \in [Input -> Value]
  /\ lastWrite \in [Input -> Time]
  /\ hasDependents \in [Input -> BOOLEAN]
  /\ stagedAt \in [Input -> Time \cup {-1}]
  /\ stagedRow \in [Input -> Nat]
  /\ now \in Time /\ beforeNow \in Time
  /\ phase \in Phases /\ mode \in Modes
  /\ staged \in Seq(Write)
  /\ undo \in Seq(Row) /\ live \subseteq DOMAIN undo
  /\ slot \subseteq Row
  /\ changed \subseteq Input
  /\ record \in [time : Time, changed : SUBSET Input]

-----------------------------------------------------------------------------
(* What the frame knows about one cell.                                    *)

\* readEntry of an input: the staged value shadows the cell while the frame
\* is open and the sentinel matches.
ReadInput(i) ==
  IF phase # "idle" /\ stagedAt[i] = now
  THEN staged[stagedRow[i]].value
  ELSE val[i]

UndoRow(i) == [input |-> i, value |-> val[i], lastWrite |-> lastWrite[i]]

Rows(i)     == {k \in live : undo[k].input = i}
SlotRows(i) == {r \in slot : r.input = i}
Touched     == {i \in Input : Rows(i) # {} \/ SlotRows(i) # {}}

\* The cell as the catch arm rebuilds it: the slot is put back first, then
\* the rows from first to last, so the last row of a cell wins.
CellBefore(i) ==
  IF Rows(i) # {}
  THEN undo[CHOOSE k \in Rows(i) : \A j \in Rows(i) : j <= k]
  ELSE IF SlotRows(i) # {}
       THEN CHOOSE r \in SlotRows(i) : TRUE
       ELSE UndoRow(i)

StagedRows(i) == {k \in DOMAIN staged : staged[k].input = i}

\* The value Phase B leaves in the cell.
Published(i) ==
  IF StagedRows(i) # {}
  THEN staged[CHOOSE k \in StagedRows(i) : \A j \in StagedRows(i) : j <= k].value
  ELSE val[i]

-----------------------------------------------------------------------------

Init ==
  /\ val \in [Input -> Value]
  /\ lastWrite = [i \in Input |-> 0]
  /\ hasDependents \in [Input -> BOOLEAN]
  /\ stagedAt = [i \in Input |-> -1]
  /\ stagedRow = [i \in Input |-> 0]
  /\ now = 0 /\ beforeNow = 0
  /\ phase = "idle" /\ mode = "commit"
  /\ staged = <<>> /\ undo = <<>> /\ live = {} /\ slot = {} /\ changed = {}
  /\ record = [time |-> 0, changed |-> {}]

\* commit, hydrate or simulate is called while none of them is running (when
\* one is, the call throws CommitInProgressError before it touches anything).
Begin(m) ==
  /\ phase = "idle"
  /\ now < MaxTime
  /\ phase' = "run"
  /\ mode' = m
  /\ beforeNow' = now
  /\ UNCHANGED <<cells, hasDependents, sentinels, now, arrays, record>>

\* The dedupe of direct writes: a stamp in the future means "row captured".
FirstWriteAlways(i) == TRUE
FirstDirectWrite(i) == lastWrite[i] <= now

\* The index of the row a push appends.
LastRowOfUndo == Len(undo)
NewRow        == Len(undo) + 1

\* tx.set on an input nothing depends on: the cell is written directly, and
\* the first such write of the frame captures the undo row and stamps the
\* cell with the time the commit will have.
FastWrite(i, v) ==
  /\ phase = "run"
  /\ ~hasDependents[i]
  /\ val[i] # v
  /\ val' = [val EXCEPT ![i] = v]
  /\ IF FirstDirectWrite(i)
     THEN /\ undo' = Append(undo, UndoRow(i))
          /\ live' = live \cup {NewRow}
          /\ lastWrite' = [lastWrite EXCEPT ![i] = now + 1]
     ELSE UNCHANGED <<lastWrite, undo, live>>
  /\ UNCHANGED <<hasDependents, sentinels, now, phase, frame, staged, slot,
                 changed, record>>

\* tx.set on an input this frame has already staged: the row is overwritten.
Restage(i, v) ==
  /\ phase = "run"
  /\ hasDependents[i]
  /\ stagedAt[i] = now
  /\ staged[stagedRow[i]].value # v
  /\ staged' = [staged EXCEPT ![stagedRow[i]].value = v]
  /\ UNCHANGED <<cells, hasDependents, sentinels, now, phase, frame, undo,
                 live, slot, changed, record>>

\* The first tx.set of the frame on an input some derived node reads.
Stage(i, v) ==
  /\ phase = "run"
  /\ hasDependents[i]
  /\ stagedAt[i] # now
  /\ val[i] # v
  /\ stagedAt' = [stagedAt EXCEPT ![i] = now]
  /\ stagedRow' = [stagedRow EXCEPT ![i] = Len(staged) + 1]
  /\ staged' = Append(staged, [input |-> i, value |-> v])
  /\ UNCHANGED <<cells, hasDependents, now, phase, frame, undo, live, slot,
                 changed, record>>

\* run(tx) throws: a user error, StaleTxError of another frame's tx,
\* NotAnInputNodeError, UnknownNodeError, NodeDisposedError.  The body of
\* hydrate writes registered inputs only and cannot throw.
RunThrows ==
  /\ phase = "run"
  /\ mode # "hydrate"
  /\ phase' = "failed"
  /\ UNCHANGED <<cells, hasDependents, sentinels, now, frame, arrays, record>>

\* The rows whose cell ended where it started, and the stamps once these rows
\* are dropped.
Reverted == {k \in live : val[undo[k].input] = undo[k].value}
StampsKept == lastWrite
StampsAfterRevert ==
  [i \in Input |-> IF \E k \in Reverted : undo[k].input = i
                   THEN CellBefore(i).lastWrite ELSE lastWrite[i]]

\* run(tx) returns.  Phase A.5: a direct write that ended where it started is
\* dropped from the undo rows and gets its old stamp back, the others are the
\* first changed inputs.  simulate goes on without the invariants.
RunReturns ==
  /\ phase = "run"
  /\ live' = live \ Reverted
  /\ lastWrite' = StampsAfterRevert
  /\ changed' = {undo[k].input : k \in live \ Reverted}
  /\ phase' = IF mode = "simulate" THEN "publish" ELSE "invariants"
  /\ UNCHANGED <<val, hasDependents, sentinels, now, frame, staged, undo, slot,
                 record>>

\* Phase A.7: the invariants see the cell of every surviving direct write and
\* the staged value of every staged one.
DirectWritesHold == \A k \in live : val[undo[k].input] \in Allowed[undo[k].input]
InvariantsHold ==
  /\ DirectWritesHold
  /\ \A k \in DOMAIN staged : staged[k].value \in Allowed[staged[k].input]

CheckInvariants ==
  /\ phase = "invariants"
  /\ phase' = IF InvariantsHold THEN "publish" ELSE "failed"
  /\ UNCHANGED <<cells, hasDependents, sentinels, now, frame, arrays, record>>

OneStagedRow == mode # "simulate" /\ Len(staged) = 1 /\ live = {}

\* The scalar slot after a write to cell i.
NoSlotRow(i)  == {}
ScalarSlot(i) == {UndoRow(i)}

\* Phase B of commit with exactly one staged row: the undo row goes to the
\* scalar slot.
PublishScalar ==
  /\ phase = "publish"
  /\ OneStagedRow
  /\ LET w == staged[1]
     IN IF val[w.input] = w.value
        THEN UNCHANGED <<val, slot, changed>>
        ELSE /\ slot' = ScalarSlot(w.input)
             /\ val' = [val EXCEPT ![w.input] = w.value]
             /\ changed' = changed \cup {w.input}
  /\ phase' = "tick"
  /\ UNCHANGED <<lastWrite, hasDependents, sentinels, now, frame, staged, undo,
                 live, record>>

\* Phase B otherwise: every staged row that differs from its cell appends an
\* undo row and is written to the cell.
PublishRows ==
  /\ phase = "publish"
  /\ ~OneStagedRow
  /\ LET writes == {k \in DOMAIN staged : val[staged[k].input] # staged[k].value}
     IN /\ undo' = undo \o [k \in DOMAIN staged |-> UndoRow(staged[k].input)]
        /\ live' = live \cup {Len(undo) + k : k \in writes}
        /\ changed' = changed \cup {staged[k].input : k \in writes}
        /\ val' = [i \in Input |-> Published(i)]
  /\ phase' = "tick"
  /\ UNCHANGED <<lastWrite, hasDependents, sentinels, now, frame, staged, slot,
                 record>>

\* Phase C advances the clock, Phase C.5 stamps every cell with an undo row.
Tick ==
  /\ phase = "tick"
  /\ now' = now + 1
  /\ lastWrite' = [i \in Input |-> IF i \in Touched THEN now + 1 ELSE lastWrite[i]]
  /\ phase' = "recompute"
  /\ UNCHANGED <<val, hasDependents, sentinels, frame, arrays, record>>

\* setDeps of a node that Phase D recomputes, or that is put back afterwards:
\* inputs gain and lose dependents.
Rewire ==
  /\ changed # {}
  /\ phase \in {"recompute", "failed"} \/ (phase = "seal" /\ mode = "simulate")
  /\ hasDependents' \in [Input -> BOOLEAN]
  /\ UNCHANGED <<cells, sentinels, now, phase, frame, arrays, record>>

\* Phase D ends; when no input changed it was skipped.
RecomputeReturns ==
  /\ phase = "recompute"
  /\ phase' = "seal"
  /\ UNCHANGED <<cells, hasDependents, sentinels, now, frame, arrays, record>>

\* A compute throws, or closes a cycle once its dependencies are stored; the
\* catch arm puts them back.
RecomputeThrows ==
  /\ phase = "recompute"
  /\ changed # {}
  /\ hasDependents' \in [Input -> BOOLEAN]
  /\ phase' = "failed"
  /\ UNCHANGED <<cells, sentinels, now, frame, arrays, record>>

ClearArrays ==
  /\ staged' = <<>> /\ undo' = <<>> /\ live' = {} /\ slot' = {} /\ changed' = {}
  /\ UNCHANGED frame

\* The finally block: the arrays are emptied and committing is dropped.
StayCommitting == ClearArrays /\ phase' = IF phase = "dispatch" THEN phase ELSE "idle"
CloseFrame     == ClearArrays /\ phase' = "idle"

\* Phase E to F.6, the point of no return: the Commit is recorded and the
\* observers run next, with the commit window still open.
Seal ==
  /\ phase = "seal"
  /\ mode # "simulate"
  /\ record' = [time |-> now, changed |-> changed]
  /\ phase' = "dispatch"
  /\ UNCHANGED <<cells, hasDependents, sentinels, now, frame, arrays>>

\* The early return of a commit that changed nothing and that nobody watches.
SealEmpty ==
  /\ phase = "seal"
  /\ mode # "simulate"
  /\ changed = {}
  /\ record' = [time |-> now, changed |-> {}]
  /\ CloseFrame
  /\ UNCHANGED <<cells, hasDependents, sentinels, now>>

\* Phase F.5: a commit-metadata compute throws, even when no input changed.
MetadataThrows ==
  /\ phase = "seal"
  /\ mode # "simulate"
  /\ phase' = "failed"
  /\ UNCHANGED <<cells, hasDependents, sentinels, now, frame, arrays, record>>

\* Phases G and H end; an observer that throws is reported and skipped.
Finish ==
  /\ phase = "dispatch"
  /\ CloseFrame
  /\ UNCHANGED <<cells, hasDependents, sentinels, now, record>>

\* lastStagedAt once the frame's stagings are forgotten.
StagingKept   == stagedAt
StagingForgot == [i \in Input |-> IF StagedRows(i) # {} THEN -1 ELSE stagedAt[i]]

\* What the catch arm of commit and the finally block of simulate put back.
Restore ==
  /\ val' = [i \in Input |-> CellBefore(i).value]
  /\ lastWrite' = [i \in Input |-> CellBefore(i).lastWrite]
  /\ stagedAt' = StagingForgot
  /\ now' = beforeNow
  /\ CloseFrame
  /\ UNCHANGED <<hasDependents, stagedRow, record>>

Rollback == phase = "failed" /\ mode # "simulate" /\ Restore

\* simulate restores whether the pass went through or threw.
SimulateReturns == phase \in {"seal", "failed"} /\ mode = "simulate" /\ Restore

\* _migrateFrom on a graph that never committed: the snapshot's inputs and its
\* time are stored without a frame, an undo row or an invariant.
MigrateFrom(snapshot, time) ==
  /\ phase = "idle"
  /\ now = 0
  /\ val' = snapshot
  /\ now' = time
  /\ lastWrite' = [i \in Input |->
                     IF snapshot[i] = val[i] THEN lastWrite[i] ELSE time]
  /\ UNCHANGED <<hasDependents, sentinels, phase, frame, arrays, record>>

\* derived(...) is registered over inputs of which those in S had no dependent;
\* it computes at once, so the edges exist when the call returns.  Nothing
\* refuses the call inside a tx body.
RegisterDependent(S) ==
  /\ \/ phase \in {"idle", "dispatch"}
     \/ phase = "run" /\ MidTxRegistration
  /\ S # {} /\ \A i \in S : ~hasDependents[i]
  /\ hasDependents' = [i \in Input |-> hasDependents[i] \/ i \in S]
  /\ UNCHANGED <<cells, sentinels, now, phase, frame, arrays, record>>

\* A node is disposed that was the last dependent of the inputs in S; _dispose
\* throws while committing.
DropDependents(S) ==
  /\ phase = "idle"
  /\ S # {} /\ \A i \in S : hasDependents[i]
  /\ hasDependents' = [i \in Input |-> hasDependents[i] /\ i \notin S]
  /\ UNCHANGED <<cells, sentinels, now, phase, frame, arrays, record>>

Pipeline ==
  \/ RunThrows \/ RunReturns \/ CheckInvariants \/ PublishScalar \/ PublishRows
  \/ Tick \/ RecomputeReturns \/ RecomputeThrows \/ Seal \/ SealEmpty
  \/ MetadataThrows \/ Finish \/ Rollback \/ SimulateReturns

TxSet(i, v) == FastWrite(i, v) \/ Restage(i, v) \/ Stage(i, v)

Next ==
  \/ \E m \in Modes : Begin(m)
  \/ \E i \in Input, v \in Value : TxSet(i, v)
  \/ Pipeline
  \/ \E snapshot \in [Input -> Value], time \in 0..MaxTime : MigrateFrom(snapshot, time)
  \/ \E S \in SUBSET Input : RegisterDependent(S) \/ DropDependents(S)
  \/ Rewire

Spec == Init /\ [][Next]_vars

\* The pipeline is one synchronous call: once entered it is left, provided the
\* callbacks it calls (run, invariant, compute, observer) return or throw.
FairSpec == Spec /\ WF_vars(Pipeline)

-----------------------------------------------------------------------------
(* Correctness.                                                            *)

InWindow  == phase # "idle"
Undecided == phase \notin {"idle", "dispatch"}

\* The sentinels of every cell agree with the arrays of the frame.  Between
\* frames no cell may look staged or captured, whatever mix of successes,
\* throws and simulations came before: a stale lastStagedAt would send the
\* next tx.set to a row that does not exist, a stale lastWriteTime would make
\* a direct write skip its undo row.
SentinelsAgree ==
  \A i \in Input :
    /\ phase = "idle" => stagedAt[i] < now /\ lastWrite[i] <= now
    /\ phase = "run" =>
         /\ stagedAt[i] = now => stagedRow[i] \in StagedRows(i)
         /\ StagedRows(i) # {} => stagedAt[i] = now
         /\ lastWrite[i] > now <=> Rows(i) # {}

\* Every cell has at most one undo row: with two, the restoration in array
\* order would end on a value the transaction itself wrote.
OneUndoRowPerCell ==
  Undecided => \A i \in Input : \A j, k \in Rows(i) : j = k

\* The pipeline implements the atomic store: what the frame reads is the
\* draft, what the undo rows rebuild is the store, and only sealing moves the
\* store and the clock, to the draft and by one tick.
StoreOf == [i \in Input |-> IF Undecided THEN CellBefore(i).value ELSE val[i]]
DraftOf == CASE phase \in {"run", "invariants", "publish"} ->
                  [i \in Input |-> ReadInput(i)]
             [] phase = "failed" -> StoreOf
             [] OTHER -> val
Store == INSTANCE AtomicStore WITH
           store <- StoreOf,
           draft <- DraftOf,
           clock <- IF Undecided THEN beforeNow ELSE now,
           open  <- Undecided /\ phase # "failed"
ImplementsAtomicStore == Store!Spec

\* Cell values and write stamps as they were before the frame can be rebuilt
\* from the undo rows at every step until the commit is sealed, and a frame
\* that ends without sealing leaves them exactly so.
CellsBefore == [i \in Input |->
  IF Undecided THEN <<CellBefore(i).value, CellBefore(i).lastWrite>>
               ELSE <<val[i], lastWrite[i]>>]
RolledBackExactly ==
  [][ \/ CellsBefore' = CellsBefore
      \/ Seal \/ SealEmpty
      \/ phase = "idle" /\ phase' = "idle" ]_vars

\* No commit or hydrate reaches Phase D with a changed input its invariant
\* rejects, whether the write was direct, staged or re-staged.
InvariantsGatePublication ==
  mode # "simulate" /\ phase \in {"tick", "recompute", "seal", "dispatch"} =>
    \A i \in changed : val[i] \in Allowed[i]

\* The finally blocks: whatever throws, the committing flag is dropped again,
\* so that a failed frame never locks the graph for every later call.
WindowCloses == InWindow ~> ~InWindow

\* graph.ts says a UI can probe with simulate "whether a write would ...
\* violate any other typed engine invariant": a simulation that reaches the
\* clean arm has no change that commit's Phase A.7 would refuse.
SimulateForeseesInvariants ==
  mode = "simulate" /\ phase = "seal" =>
    \A i \in changed : val[i] \in Allowed[i]
=============================================================================
