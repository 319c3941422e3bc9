---------------------------- MODULE CommitTxProofs -----------------------------
(***************************************************************************)
(* Proofs about CommitTx for every set of inputs and values and an         *)
(* unbounded number of commits.  The theorems are about graphs whose       *)
(* transaction bodies register no derived node (MidTxRegistration = FALSE);*)
(* with such bodies the staged and the direct writes of a frame may meet   *)
(* in one cell; MCMidTx.cfg shows the consequence.                        *)
(*                                                                         *)
(* The inductive invariant says what the two integers in a cell mean at    *)
(* every step of the pipeline, and that the undo rows of a frame name each *)
(* cell once.  Its parts need each other: rows are unique because direct   *)
(* writes stamp the cell (StampsOK), because staged rows name each cell    *)
(* once (StagedOK), and because no cell is written both ways (DisjointOK). *)
(***************************************************************************)
EXTENDS CommitTx, TLAPS

Writing  == {"run", "invariants", "publish"}
Decided  == {"tick", "recompute", "seal"}

IdleOK ==
  phase = "idle" =>
    /\ staged = <<>> /\ undo = <<>> /\ live = {} /\ slot = {} /\ changed = {}
    /\ \A i \in Input : stagedAt[i] < now /\ lastWrite[i] <= now

ClockOK ==
  /\ phase \in Writing \cup {"tick"} => now = beforeNow
  /\ phase \in {"recompute", "seal", "dispatch"} => now = beforeNow + 1
  /\ phase = "failed" => now = beforeNow \/ now = beforeNow + 1

UndoOK ==
  /\ \A j, k \in live : undo[j].input = undo[k].input => j = k
  /\ \A k \in live : undo[k].lastWrite <= beforeNow
  /\ \A r \in slot : r.lastWrite <= beforeNow
  /\ \A r, s \in slot : r = s
  /\ slot # {} => live = {}
  /\ phase \in Writing => slot = {}

StampsOK ==
  /\ phase # "idle" =>
       \A i \in Input : /\ lastWrite[i] <= beforeNow + 1
                        /\ i \notin Touched => lastWrite[i] <= beforeNow
  /\ phase \in Writing => \A k \in live : lastWrite[undo[k].input] > now

StagedOK ==
  phase # "idle" =>
    /\ \A k \in DOMAIN staged : /\ stagedAt[staged[k].input] = beforeNow
                                /\ stagedRow[staged[k].input] = k
    /\ \A i \in Input :
         /\ stagedAt[i] <= beforeNow
         /\ stagedAt[i] = beforeNow => /\ stagedRow[i] \in DOMAIN staged
                                       /\ staged[stagedRow[i]].input = i

DisjointOK ==
  phase \in Writing =>
    /\ \A k \in live : ~hasDependents[undo[k].input]
    /\ \A k \in DOMAIN staged : hasDependents[staged[k].input]

ChangedOK ==
  /\ phase = "run" => changed = {}
  /\ phase \in {"invariants", "publish"} \cup Decided =>
       /\ changed = Touched
       /\ \A k \in live : val[undo[k].input] # undo[k].value
       /\ \A r \in slot : val[r.input] # r.value

AllowedOK ==
  /\ mode # "simulate" /\ phase = "publish" => InvariantsHold
  /\ InvariantsGatePublication

IInv == /\ TypeOK /\ IdleOK /\ ClockOK /\ UndoOK /\ StampsOK /\ StagedOK
        /\ DisjointOK /\ ChangedOK /\ AllowedOK

-----------------------------------------------------------------------------
(* What the rows say about the cells.                                      *)

LEMMA TouchedRows ==
  \A i \in Input : i \in Touched <=> \/ \E k \in live : undo[k].input = i
                                    \/ \E r \in slot : r.input = i
BY DEF Touched, Rows, SlotRows

LEMMA LiveRows ==
  ASSUME TypeOK
  PROVE  \A k \in live : /\ undo[k].input \in Input /\ undo[k].value \in Value
                         /\ undo[k].lastWrite \in Nat
<1>1. \A k \in live : undo[k] \in Row
  BY DEF TypeOK
<1> QED
  BY <1>1 DEF Row, Time

\* An undo row is what the catch arm puts back.
LEMMA CellOfRow ==
  ASSUME TypeOK, UndoOK, NEW k \in live
  PROVE  CellBefore(undo[k].input) = undo[k]
<1> DEFINE i == undo[k].input
<1>1. Rows(i) = {k}
  BY DEF Rows, UndoOK
<1>2. k \in Int
  BY DEF TypeOK
<1>3. \A x : (x \in Rows(i) /\ \A j \in Rows(i) : j <= x) <=> x = k
  BY <1>1, <1>2
<1>4. (CHOOSE x \in Rows(i) : \A j \in Rows(i) : j <= x) = k
  BY <1>3, Zenon
<1> QED
  BY <1>1, <1>4 DEF CellBefore

LEMMA CellOfSlot ==
  ASSUME UndoOK, NEW r \in slot
  PROVE  CellBefore(r.input) = r
<1>1. Rows(r.input) = {}
  BY DEF Rows, UndoOK
<1>2. SlotRows(r.input) = {r}
  BY DEF SlotRows, UndoOK
<1> QED
  BY <1>1, <1>2 DEF CellBefore

LEMMA CellUntouched ==
  ASSUME NEW i \in Input, i \notin Touched
  PROVE  CellBefore(i) = [input |-> i, value |-> val[i], lastWrite |-> lastWrite[i]]
BY DEF CellBefore, Touched, UndoRow

LEMMA CellBeforeRow ==
  ASSUME TypeOK, UndoOK, NEW i \in Input
  PROVE  CellBefore(i) \in Row /\ CellBefore(i).input = i
<1>1. CASE \E k \in live : undo[k].input = i
  <2>1. PICK k \in live : undo[k].input = i
    BY <1>1
  <2>2. undo[k] \in Row
    BY DEF TypeOK
  <2> QED
    BY <2>1, <2>2, CellOfRow
<1>2. CASE \E r \in slot : r.input = i
  BY <1>2, CellOfSlot DEF TypeOK
<1>3. CASE i \notin Touched
  BY <1>3, CellUntouched DEF TypeOK, Row
<1> QED
  BY <1>1, <1>2, <1>3, TouchedRows

\* A frame that is being decided stamped no cell it did not touch, so the
\* catch arm brings back stamps of the past only.
LEMMA StampBefore ==
  ASSUME TypeOK, UndoOK, StampsOK, phase # "idle", NEW i \in Input
  PROVE  CellBefore(i).lastWrite <= beforeNow
<1>1. CASE \E k \in live : undo[k].input = i
  BY <1>1, CellOfRow DEF UndoOK
<1>2. CASE \E r \in slot : r.input = i
  BY <1>2, CellOfSlot DEF UndoOK
<1>3. CASE i \notin Touched
  BY <1>3, CellUntouched DEF StampsOK
<1> QED
  BY <1>1, <1>2, <1>3, TouchedRows

\* Phase B publishes the one staged value of a staged cell.
LEMMA PublishedRow ==
  ASSUME TypeOK, StagedOK, phase # "idle", NEW k \in DOMAIN staged
  PROVE  Published(staged[k].input) = staged[k].value
<1> DEFINE i == staged[k].input
<1>1. StagedRows(i) = {k}
  BY DEF StagedRows, StagedOK
<1>2. k \in Int
  BY DEF TypeOK
<1>3. \A x : (x \in StagedRows(i) /\ \A j \in StagedRows(i) : j <= x) <=> x = k
  BY <1>1, <1>2
<1>4. (CHOOSE x \in StagedRows(i) : \A j \in StagedRows(i) : j <= x) = k
  BY <1>3, Zenon
<1> QED
  BY <1>1, <1>4 DEF Published

LEMMA PublishedElsewhere ==
  ASSUME NEW i, \A k \in DOMAIN staged : staged[k].input # i
  PROVE  Published(i) = val[i]
BY DEF Published, StagedRows

-----------------------------------------------------------------------------
(* The invariant is inductive: one lemma per action.                       *)

LEMMA InitKeeps == Init => IInv
<1> SUFFICES ASSUME Init PROVE IInv
  OBVIOUS
<1>1. TypeOK
  BY DEF Init, TypeOK, Time, Row, Write, Phases, Modes
<1>2. IdleOK /\ ClockOK /\ UndoOK /\ StampsOK /\ StagedOK /\ DisjointOK
  BY DEF Init, IdleOK, ClockOK, UndoOK, StampsOK, StagedOK, DisjointOK, Writing
<1>3. ChangedOK /\ AllowedOK
  BY DEF Init, ChangedOK, AllowedOK, InvariantsGatePublication, Decided
<1> QED
  BY <1>1, <1>2, <1>3 DEF IInv

LEMMA BeginKeeps ==
  ASSUME IInv, NEW m \in Modes, Begin(m)
  PROVE  IInv'
<1> USE DEF IInv, Begin, cells, sentinels, arrays
<1>1. TypeOK'
  BY DEF TypeOK, Phases
<1>2. (IdleOK /\ ClockOK /\ UndoOK /\ StagedOK /\ DisjointOK)'
  BY DEF TypeOK, Time, IdleOK, ClockOK, UndoOK, StagedOK, DisjointOK, Writing
<1>3. StampsOK'
  BY DEF TypeOK, Time, IdleOK, StampsOK, Writing
<1>4. (ChangedOK /\ AllowedOK)'
  BY DEF ChangedOK, AllowedOK, IdleOK, InvariantsGatePublication, Decided
<1> QED
  BY <1>1, <1>2, <1>3, <1>4

LEMMA FastWriteKeeps ==
  ASSUME IInv, NEW i \in Input, NEW v \in Value, FastWrite(i, v)
  PROVE  IInv'
<1> USE DEF IInv, FastWrite, sentinels, frame
<1>1. now = beforeNow /\ slot = {} /\ phase = "run" /\ phase \in Writing
  BY DEF ClockOK, UndoOK, Writing
<1>2. CASE ~FirstDirectWrite(i)
  <2> USE <1>1, <1>2 DEF FirstDirectWrite
  <2>1. TypeOK'
    BY DEF TypeOK
  <2>2. (IdleOK /\ ClockOK /\ UndoOK /\ StagedOK /\ DisjointOK)'
    BY DEF IdleOK, ClockOK, UndoOK, StagedOK, DisjointOK
  <2>3. StampsOK'
    BY DEF StampsOK, Touched, Rows, SlotRows
  <2>4. (ChangedOK /\ AllowedOK)'
    BY DEF ChangedOK, AllowedOK, InvariantsGatePublication, Decided
  <2> QED
    BY <2>1, <2>2, <2>3, <2>4
<1>3. CASE FirstDirectWrite(i)
  <2> DEFINE new == Len(undo) + 1
  <2>1. /\ undo' = Append(undo, UndoRow(i)) /\ live' = live \cup {new}
        /\ lastWrite' = [lastWrite EXCEPT ![i] = now + 1]
        /\ lastWrite[i] <= now
    BY <1>3 DEF FirstDirectWrite, NewRow
  <2>2. /\ UndoRow(i) \in Row /\ UndoRow(i).input = i
        /\ UndoRow(i).lastWrite = lastWrite[i]
    BY DEF UndoRow, Row, TypeOK
  <2>3. /\ new \notin live /\ new \in DOMAIN undo' /\ undo'[new] = UndoRow(i)
        /\ \A k \in live : k \in DOMAIN undo' /\ undo'[k] = undo[k]
    BY <2>1, <2>2 DEF TypeOK
  <2>4. \A k \in live : undo[k].input # i
    BY <1>1, <2>1 DEF StampsOK, TypeOK, Time
  <2>5. TypeOK'
    BY <2>1, <2>2, <2>3 DEF TypeOK, Time
  <2>6. UndoOK'
    BY <1>1, <2>1, <2>2, <2>3, <2>4 DEF UndoOK
  <2>7. StampsOK'
    <3>1. \A j \in Input : j \in Touched => j \in Touched'
      BY <2>1, <2>3, TouchedRows DEF Touched, Rows, SlotRows
    <3>2. i \in Touched'
      BY <2>1, <2>2, <2>3 DEF Touched, Rows
    <3>3. \A j \in Input : /\ lastWrite'[j] <= beforeNow + 1
                           /\ j \notin Touched' => lastWrite'[j] <= beforeNow
      BY <1>1, <2>1, <3>1, <3>2 DEF StampsOK, TypeOK, Time
    <3>4. \A k \in live' : lastWrite'[undo'[k].input] > now
      BY <1>1, <2>1, <2>2, <2>3, <2>4 DEF StampsOK, TypeOK, Time
    <3> QED
      BY <1>1, <3>3, <3>4 DEF StampsOK
  <2>8. DisjointOK'
    BY <1>1, <2>1, <2>2, <2>3 DEF DisjointOK
  <2>9. (IdleOK /\ ClockOK /\ StagedOK /\ ChangedOK /\ AllowedOK)'
    BY <1>1 DEF IdleOK, ClockOK, StagedOK, ChangedOK, AllowedOK,
                InvariantsGatePublication, Decided
  <2> QED
    BY <2>5, <2>6, <2>7, <2>8, <2>9
<1> QED
  BY <1>2, <1>3

LEMMA RestageKeeps ==
  ASSUME IInv, NEW i \in Input, NEW v \in Value, Restage(i, v)
  PROVE  IInv'
<1> USE DEF IInv, Restage, cells, sentinels, frame
<1> DEFINE row == stagedRow[i]
<1>1. now = beforeNow /\ phase = "run" /\ phase \in Writing
  BY DEF ClockOK, Writing
<1>2. row \in DOMAIN staged /\ staged[row].input = i /\ staged[row] \in Write
  BY <1>1 DEF StagedOK, TypeOK
<1>3. /\ DOMAIN staged' = DOMAIN staged
      /\ \A k \in DOMAIN staged : staged'[k].input = staged[k].input
      /\ \A k \in DOMAIN staged : staged'[k] = IF k = row THEN [staged[k] EXCEPT !.value = v]
                                                          ELSE staged[k]
  BY <1>2 DEF TypeOK, Write
<1>4. [staged[row] EXCEPT !.value = v] \in Write
  BY <1>2 DEF Write
<1>5. staged' \in Seq(Write)
  BY <1>2, <1>4 DEF TypeOK
<1>6. TypeOK'
  BY <1>5 DEF TypeOK
<1>7. (StagedOK /\ DisjointOK)'
  BY <1>1, <1>3 DEF StagedOK, DisjointOK
<1>8. (IdleOK /\ ClockOK /\ UndoOK /\ StampsOK)'
  BY <1>1 DEF IdleOK, ClockOK, UndoOK, StampsOK, Touched, Rows, SlotRows
<1>9. (ChangedOK /\ AllowedOK)'
  BY <1>1 DEF ChangedOK, AllowedOK, InvariantsGatePublication, Decided
<1> QED
  BY <1>6, <1>7, <1>8, <1>9

LEMMA StageKeeps ==
  ASSUME IInv, NEW i \in Input, NEW v \in Value, Stage(i, v)
  PROVE  IInv'
<1> USE DEF IInv, Stage, cells, frame
<1> DEFINE new == Len(staged) + 1
<1>1. now = beforeNow /\ phase = "run" /\ phase \in Writing
  BY DEF ClockOK, Writing
<1>2. [input |-> i, value |-> v] \in Write
  BY DEF Write
<1>3. /\ staged' \in Seq(Write) /\ DOMAIN staged' = DOMAIN staged \cup {new}
      /\ new \in Nat /\ new \notin DOMAIN staged
      /\ staged'[new] = [input |-> i, value |-> v]
      /\ \A k \in DOMAIN staged : staged'[k] = staged[k]
  BY <1>2 DEF TypeOK
<1>4. \A k \in DOMAIN staged : staged[k].input # i
  BY <1>1 DEF StagedOK
<1>5. TypeOK'
  BY <1>3 DEF TypeOK, Time
<1>6. StagedOK'
  <2>1. \A k \in DOMAIN staged' : /\ stagedAt'[staged'[k].input] = beforeNow'
                                  /\ stagedRow'[staged'[k].input] = k
    BY <1>1, <1>3, <1>4 DEF StagedOK, TypeOK, Write
  <2>2. \A j \in Input :
          /\ stagedAt'[j] <= beforeNow'
          /\ stagedAt'[j] = beforeNow' => /\ stagedRow'[j] \in DOMAIN staged'
                                          /\ staged'[stagedRow'[j]].input = j
    BY <1>1, <1>3 DEF StagedOK, TypeOK, Time
  <2> QED
    BY <2>1, <2>2 DEF StagedOK
<1>7. DisjointOK'
  BY <1>1, <1>3 DEF DisjointOK
<1>8. (IdleOK /\ ClockOK /\ UndoOK /\ StampsOK)'
  BY <1>1 DEF IdleOK, ClockOK, UndoOK, StampsOK, Touched, Rows, SlotRows
<1>9. (ChangedOK /\ AllowedOK)'
  BY <1>1 DEF ChangedOK, AllowedOK, InvariantsGatePublication, Decided
<1> QED
  BY <1>5, <1>6, <1>7, <1>8, <1>9

LEMMA RunReturnsKeeps ==
  ASSUME IInv, RunReturns
  PROVE  IInv'
<1> USE DEF IInv, RunReturns, sentinels, frame
<1>1. /\ now = beforeNow /\ slot = {} /\ phase = "run" /\ phase \in Writing
      /\ phase' \in {"invariants", "publish"}
      /\ mode # "simulate" => phase' = "invariants"
  BY DEF ClockOK, UndoOK, Writing
<1>2. live' \subseteq live /\ \A k \in live' : val[undo[k].input] # undo[k].value
  BY DEF Reverted
<1>3. \A j \in Input : j \in Touched <=> \E k \in live : undo[k].input = j
  BY <1>1, TouchedRows
<1>4. \A j \in Input : j \in Touched' <=> \E k \in live' : undo[k].input = j
  BY <1>1 DEF Touched, Rows, SlotRows
<1>5. \A k \in live : /\ k \in live' => lastWrite'[undo[k].input] = lastWrite[undo[k].input]
                      /\ k \notin live' => lastWrite'[undo[k].input] = undo[k].lastWrite
  <2> TAKE k \in live
  <2> DEFINE i == undo[k].input
  <2>1. i \in Input /\ lastWrite'[i] = StampsAfterRevert[i]
    BY LiveRows
  <2>2. CASE k \in Reverted
    <3>1. lastWrite'[i] = CellBefore(i).lastWrite
      BY <2>1, <2>2 DEF StampsAfterRevert
    <3> QED
      BY <2>2, <3>1, CellOfRow
  <2>3. CASE k \notin Reverted
    <3>1. ~\E j \in Reverted : undo[j].input = i
      BY <2>3 DEF UndoOK, Reverted
    <3> QED
      BY <2>1, <2>3, <3>1 DEF StampsAfterRevert
  <2> QED
    BY <2>2, <2>3
<1>6. \A j \in Input : j \notin Touched => lastWrite'[j] = lastWrite[j]
  BY <1>3 DEF StampsAfterRevert, Reverted
<1>7. TypeOK'
  <2>1. lastWrite' \in [Input -> Time]
    BY CellBeforeRow DEF StampsAfterRevert, TypeOK, Row
  <2>2. changed' \subseteq Input
    BY LiveRows
  <2> QED
    BY <1>1, <1>2, <2>1, <2>2 DEF TypeOK, Phases
<1>8. UndoOK'
  BY <1>1, <1>2 DEF UndoOK
<1>9. StampsOK'
  <2>1. ASSUME NEW j \in Input
        PROVE  lastWrite'[j] <= beforeNow + 1 /\ (j \notin Touched' => lastWrite'[j] <= beforeNow)
    <3>1. CASE j \in Touched
      <4>1. PICK k \in live : undo[k].input = j
        BY <1>3, <3>1
      <4>2. CASE k \in live'
        BY <1>1, <1>4, <1>5, <4>1, <4>2 DEF StampsOK
      <4>3. CASE k \notin live'
        BY <1>5, <4>1, <4>3, LiveRows DEF UndoOK, TypeOK, Time
      <4> QED
        BY <4>2, <4>3
    <3>2. CASE j \notin Touched
      BY <1>1, <1>6, <3>2 DEF StampsOK
    <3> QED
      BY <3>1, <3>2
  <2>2. \A k \in live' : lastWrite'[undo'[k].input] > now'
    BY <1>1, <1>2, <1>5 DEF StampsOK
  <2> QED
    BY <1>1, <2>1, <2>2 DEF StampsOK
<1>10. ChangedOK'
  <2>1. \A j : j \in changed' <=> \E k \in live' : undo[k].input = j
    OBVIOUS
  <2>2. changed' \subseteq Input /\ Touched' \subseteq Input
    BY LiveRows DEF Touched
  <2>3. changed' = Touched'
    BY <1>4, <2>1, <2>2
  <2> QED
    BY <1>1, <1>2, <2>3 DEF ChangedOK
<1>11. (IdleOK /\ ClockOK /\ StagedOK /\ DisjointOK /\ AllowedOK)'
  BY <1>1, <1>2 DEF IdleOK, ClockOK, StagedOK, DisjointOK, AllowedOK,
                    InvariantsGatePublication, Writing
<1> QED
  BY <1>7, <1>8, <1>9, <1>10, <1>11

LEMMA CheckInvariantsKeeps ==
  ASSUME IInv, CheckInvariants
  PROVE  IInv'
<1> USE DEF IInv, CheckInvariants, cells, sentinels, frame, arrays
<1>1. TypeOK'
  BY DEF TypeOK, Phases
<1>2. (IdleOK /\ ClockOK /\ UndoOK /\ StagedOK /\ DisjointOK)'
  BY DEF IdleOK, ClockOK, UndoOK, StagedOK, DisjointOK, Writing
<1>3. StampsOK'
  BY DEF StampsOK, Touched, Rows, SlotRows, Writing
<1>4. ChangedOK'
  BY DEF ChangedOK, Touched, Rows, SlotRows, Decided
<1>5. AllowedOK'
  BY DEF AllowedOK, InvariantsHold, DirectWritesHold, InvariantsGatePublication
<1> QED
  BY <1>1, <1>2, <1>3, <1>4, <1>5

LEMMA PublishScalarKeeps ==
  ASSUME IInv, PublishScalar
  PROVE  IInv'
<1> USE DEF IInv, PublishScalar, sentinels, frame
<1> DEFINE w == staged[1]
<1>1. /\ now = beforeNow /\ slot = {} /\ live = {} /\ phase \in Writing
      /\ 1 \in DOMAIN staged /\ changed = {} /\ mode # "simulate"
  BY DEF ClockOK, UndoOK, Writing, OneStagedRow, ChangedOK, Touched, Rows, SlotRows, TypeOK
<1>2. w.input \in Input /\ w.value \in Value
  <2>1. w \in Write
    BY <1>1 DEF TypeOK
  <2> QED
    BY <2>1 DEF Write
<1>3. UndoRow(w.input) \in Row /\ UndoRow(w.input).input = w.input
      /\ UndoRow(w.input).value = val[w.input]
      /\ UndoRow(w.input).lastWrite = lastWrite[w.input]
  BY <1>2 DEF UndoRow, Row, TypeOK
<1>4. \A j \in Input : lastWrite[j] <= beforeNow
  BY <1>1 DEF StampsOK, Touched, Rows, SlotRows
<1>5. slot' \subseteq {UndoRow(w.input)} /\ (val[w.input] # w.value => slot' = {UndoRow(w.input)})
  BY <1>1 DEF ScalarSlot
<1>6. TypeOK'
  BY <1>1, <1>2, <1>3, <1>5 DEF TypeOK, Phases
<1>7. UndoOK'
  BY <1>1, <1>2, <1>3, <1>4, <1>5 DEF UndoOK, Writing
<1>8. StampsOK'
  BY <1>1, <1>4 DEF StampsOK, Writing, TypeOK, Time
<1>9. ChangedOK'
  <2>1. CASE val[w.input] = w.value
    BY <1>1, <2>1 DEF ChangedOK, Touched, Rows, SlotRows
  <2>2. CASE val[w.input] # w.value
    <3>1. /\ slot' = {UndoRow(w.input)} /\ changed' = {w.input} /\ live' = {}
          /\ val'[w.input] = w.value
      BY <1>1, <1>2, <2>2, <1>5 DEF TypeOK
    <3>2. Touched' = {w.input}
      BY <1>2, <1>3, <3>1 DEF Touched, Rows, SlotRows
    <3> QED
      BY <1>3, <2>2, <3>1, <3>2 DEF ChangedOK
  <2> QED
    BY <2>1, <2>2
<1>10. AllowedOK'
  <2>1. w.value \in Allowed[w.input]
    BY <1>1 DEF AllowedOK, InvariantsHold
  <2>2. \A i \in changed' : val'[i] \in Allowed[i]
    BY <1>1, <1>2, <2>1 DEF TypeOK
  <2> QED
    BY <2>2 DEF AllowedOK, InvariantsGatePublication
<1>11. (IdleOK /\ ClockOK /\ StagedOK /\ DisjointOK)'
  BY <1>1 DEF IdleOK, ClockOK, StagedOK, DisjointOK, Writing
<1> QED
  BY <1>6, <1>7, <1>8, <1>9, <1>10, <1>11

LEMMA PublishRowsKeeps ==
  ASSUME IInv, PublishRows
  PROVE  IInv'
<1> USE DEF IInv, PublishRows, sentinels, frame
<1> DEFINE writes == {k \in DOMAIN staged : val[staged[k].input] # staged[k].value}
           rows   == [k \in DOMAIN staged |-> UndoRow(staged[k].input)]
           At(k)  == Len(undo) + k
<1>1. now = beforeNow /\ slot = {} /\ phase = "publish" /\ phase \in Writing
  BY DEF ClockOK, UndoOK, Writing
<1>2. \A k \in DOMAIN staged : staged[k].input \in Input /\ staged[k].value \in Value
  <2>1. \A k \in DOMAIN staged : staged[k] \in Write
    BY DEF TypeOK
  <2> QED
    BY <2>1 DEF Write
<1>3. rows \in Seq(Row) /\ DOMAIN rows = DOMAIN staged
  <2>1. \A k \in DOMAIN staged : UndoRow(staged[k].input) \in Row
    BY <1>2 DEF UndoRow, Row, TypeOK
  <2>2. DOMAIN staged = 1..Len(staged) /\ Len(staged) \in Nat
    BY DEF TypeOK
  <2> QED
    BY <2>1, <2>2
<1>4. /\ undo' = undo \o rows /\ live' = live \cup {At(k) : k \in writes}
      /\ undo' \in Seq(Row)
  BY <1>3 DEF TypeOK
<1>5. \A k \in live : k \in DOMAIN undo' /\ undo'[k] = undo[k]
  BY <1>3, <1>4 DEF TypeOK
<1>6. \A k \in DOMAIN staged : /\ At(k) \in DOMAIN undo' /\ At(k) \notin live
                               /\ undo'[At(k)] = UndoRow(staged[k].input)
  BY <1>3, <1>4 DEF TypeOK
<1>7. \A k \in DOMAIN staged : /\ undo'[At(k)].input = staged[k].input
                                /\ undo'[At(k)].value = val[staged[k].input]
                                /\ undo'[At(k)].lastWrite = lastWrite[staged[k].input]
  BY <1>6 DEF UndoRow
<1>8. \A k \in live' : k \in live \/ \E j \in writes : k = At(j)
  BY <1>4
<1>9. \A k \in live : k \in live'
  BY <1>4
<1>10. \A k \in writes : At(k) \in live'
  BY <1>4
<1>11. changed' = changed \cup {staged[k].input : k \in writes}
  OBVIOUS
<1>12. writes \subseteq DOMAIN staged
       /\ \A k \in writes : val[staged[k].input] # staged[k].value
  OBVIOUS
<1>13. /\ phase' = "tick"
       /\ \A i \in Input : val'[i] = Published(i)
       /\ val' = [i \in Input |-> Published(i)]
       /\ UNCHANGED <<lastWrite, hasDependents, sentinels, now, frame, staged, slot, record>>
  OBVIOUS
<1> HIDE DEF At, writes, rows, PublishRows
<1> USE <1>13
<1>14. \A k \in DOMAIN staged : \A j \in live : undo[j].input # staged[k].input
  BY <1>1 DEF DisjointOK
<1>15. \A k \in DOMAIN staged : /\ val'[staged[k].input] = staged[k].value
                               /\ lastWrite[staged[k].input] <= beforeNow
  <2> TAKE k \in DOMAIN staged
  <2>1. staged[k].input \notin Touched
    BY <1>1, <1>2, <1>14, TouchedRows
  <2>2. val'[staged[k].input] = Published(staged[k].input)
    BY <1>2
  <2> QED
    BY <1>1, <1>2, <2>1, <2>2, PublishedRow DEF StampsOK
<1>16. \A k \in live : val'[undo[k].input] = val[undo[k].input]
  BY <1>14, LiveRows, PublishedElsewhere
<1>17. TypeOK'
  <2>1. val' \in [Input -> Value]
    <3>1. \A i \in Input : Published(i) \in Value
      <4> TAKE i \in Input
      <4>1. CASE \E k \in DOMAIN staged : staged[k].input = i
        BY <1>1, <1>2, <4>1, PublishedRow
      <4>2. CASE \A k \in DOMAIN staged : staged[k].input # i
        <5>1. Published(i) = val[i]
          BY <4>2, PublishedElsewhere
        <5> QED
          BY <5>1 DEF TypeOK
      <4> QED
        BY <4>1, <4>2
    <3> QED
      BY <3>1
  <2>2. live' \subseteq DOMAIN undo'
    BY <1>5, <1>6, <1>8, <1>12
  <2>3. changed' \subseteq Input
    BY <1>2, <1>11, <1>12 DEF TypeOK
  <2> QED
    BY <1>4, <2>1, <2>2, <2>3 DEF TypeOK, Phases
<1>18. UndoOK'
  <2>1. \A j, k \in DOMAIN staged : staged[j].input = staged[k].input => j = k
    BY <1>1 DEF StagedOK
  <2>2. \A j, k \in live' : undo'[j].input = undo'[k].input => j = k
    <3> TAKE j, k \in live'
    <3>1. CASE j \in live /\ k \in live
      BY <1>5, <3>1 DEF UndoOK
    <3>2. CASE j \in live /\ k \notin live
      BY <1>5, <1>7, <1>8, <1>12, <1>14, <3>2
    <3>3. CASE j \notin live /\ k \in live
      BY <1>5, <1>7, <1>8, <1>12, <1>14, <3>3
    <3>4. CASE j \notin live /\ k \notin live
      BY <1>7, <1>8, <1>12, <2>1, <3>4
    <3> QED
      BY <3>1, <3>2, <3>3, <3>4
  <2>3. \A k \in live' : undo'[k].lastWrite <= beforeNow'
    <3> TAKE k \in live'
    <3>1. CASE k \in live
      BY <1>5, <3>1 DEF UndoOK
    <3>2. CASE k \notin live
      BY <1>7, <1>8, <1>12, <1>15, <3>2
    <3> QED
      BY <3>1, <3>2
  <2> QED
    BY <1>1, <2>2, <2>3 DEF UndoOK, Writing
<1>19. StampsOK'
  <2>1. \A j \in Input : j \in Touched => j \in Touched'
    BY <1>1, <1>4, <1>5, TouchedRows DEF Touched, Rows
  <2> QED
    BY <1>1, <2>1 DEF StampsOK, Writing
<1>20. ChangedOK'
  <2>2. \A k \in live' : val'[undo'[k].input] # undo'[k].value
    <3> TAKE k \in live'
    <3>1. CASE k \in live
      BY <1>1, <1>5, <1>16, <3>1 DEF ChangedOK
    <3>2. CASE k \notin live
      BY <1>7, <1>8, <1>12, <1>15, <3>2
    <3> QED
      BY <3>1, <3>2
  <2>3. \A i \in Input : i \in Touched' <=> i \in changed'
    <3>1. \A i \in Input : i \in Touched' <=> \E k \in live' : undo'[k].input = i
      BY <1>1 DEF Touched, Rows, SlotRows
    <3>2. \A i \in Input : (\E k \in live' : undo'[k].input = i) <=>
                             \/ \E k \in live : undo[k].input = i
                             \/ \E k \in writes : staged[k].input = i
      BY <1>5, <1>7, <1>8, <1>9, <1>10, <1>12
    <3>3. \A i \in Input : i \in changed <=> \E k \in live : undo[k].input = i
      BY <1>1, TouchedRows DEF ChangedOK
    <3>5. \A i \in Input : i \in changed' <=> \/ i \in changed
                                             \/ \E k \in writes : staged[k].input = i
      BY <1>11
    <3> QED
      BY <3>1, <3>2, <3>3, <3>5
  <2>4. Touched' = changed'
    BY <2>3, <1>17 DEF Touched, TypeOK
  <2> QED
    BY <1>1, <2>2, <2>4 DEF ChangedOK
<1>21. AllowedOK'
  <2>1. ASSUME mode # "simulate", NEW i \in changed'
        PROVE  val'[i] \in Allowed[i]
    <3>1. InvariantsHold
      BY <1>1, <2>1 DEF AllowedOK
    <3>2. CASE \E k \in writes : staged[k].input = i
      BY <1>15, <1>12, <3>1, <3>2 DEF InvariantsHold
    <3>3. CASE i \in changed
      <4>1. PICK k \in live : undo[k].input = i
        BY <1>1, <3>3, TouchedRows DEF ChangedOK, TypeOK
      <4> QED
        BY <1>16, <3>1, <4>1 DEF InvariantsHold, DirectWritesHold
    <3> QED
      BY <1>11, <3>2, <3>3
  <2> QED
    BY <2>1 DEF AllowedOK, InvariantsGatePublication
<1>22. (IdleOK /\ ClockOK /\ StagedOK /\ DisjointOK)'
  BY <1>1 DEF IdleOK, ClockOK, StagedOK, DisjointOK, Writing
<1> QED
  BY <1>17, <1>18, <1>19, <1>20, <1>21, <1>22

LEMMA TickKeeps ==
  ASSUME IInv, Tick
  PROVE  IInv'
<1> USE DEF IInv, Tick, sentinels, frame, arrays
<1>1. now = beforeNow /\ now' = beforeNow + 1 /\ beforeNow \in Nat
  BY DEF ClockOK, Writing, TypeOK, Time
<1>2. TypeOK'
  BY DEF TypeOK, Phases, Time
<1>3. Touched' = Touched
  BY DEF Touched, Rows, SlotRows
<1>4. StampsOK'
  BY <1>1, <1>3 DEF StampsOK, Writing, TypeOK, Time
<1>5. ChangedOK'
  BY <1>3 DEF ChangedOK, Decided
<1>6. (IdleOK /\ ClockOK /\ UndoOK /\ StagedOK /\ DisjointOK)'
  BY <1>1 DEF IdleOK, ClockOK, UndoOK, StagedOK, DisjointOK, Writing
<1>7. AllowedOK'
  BY DEF AllowedOK, InvariantsGatePublication
<1> QED
  BY <1>2, <1>4, <1>5, <1>6, <1>7

\* The steps that leave the cells and the arrays of the frame alone.
LEMMA QuietStepKeeps ==
  ASSUME IInv, UNCHANGED <<cells, sentinels, now, frame, arrays>>,
         TypeOK', phase # "idle", phase' \notin Writing \cup {"idle"},
         phase' = "tick" => phase = "tick",
         phase' \in {"recompute", "seal", "dispatch"} =>
           phase \in {"recompute", "seal", "dispatch"},
         phase' \in Decided => phase \in Decided,
         phase' = "failed" => phase # "dispatch"
  PROVE  IInv'
<1> USE DEF IInv, cells, sentinels, frame, arrays
<1>1. Touched' = Touched
  BY DEF Touched, Rows, SlotRows
<1>2. (IdleOK /\ UndoOK /\ StagedOK /\ DisjointOK)'
  BY DEF IdleOK, UndoOK, StagedOK, DisjointOK
<1>3. ClockOK'
  BY DEF ClockOK, Writing, TypeOK, Phases
<1>4. StampsOK'
  BY <1>1 DEF StampsOK
<1>5. ChangedOK'
  BY <1>1 DEF ChangedOK, Writing, Decided
<1>6. AllowedOK'
  BY DEF AllowedOK, InvariantsGatePublication, Writing, Decided
<1> QED
  BY <1>2, <1>3, <1>4, <1>5, <1>6

LEMMA MiddleKeeps ==
  ASSUME IInv,
         RunThrows \/ RecomputeReturns \/ RecomputeThrows \/ Seal \/ MetadataThrows
  PROVE  IInv'
<1> USE DEF cells, sentinels, frame, arrays, Writing, Decided
<1>1. TypeOK'
  BY DEF IInv, TypeOK, Phases, Time, RunThrows, RecomputeReturns, RecomputeThrows,
         Seal, MetadataThrows
<1>2. CASE RunThrows
  BY <1>1, <1>2, QuietStepKeeps DEF RunThrows
<1>3. CASE RecomputeReturns
  BY <1>1, <1>3, QuietStepKeeps DEF RecomputeReturns
<1>4. CASE RecomputeThrows
  BY <1>1, <1>4, QuietStepKeeps DEF RecomputeThrows
<1>5. CASE Seal
  BY <1>1, <1>5, QuietStepKeeps DEF Seal
<1>6. CASE MetadataThrows
  BY <1>1, <1>6, QuietStepKeeps DEF MetadataThrows
<1> QED
  BY <1>2, <1>3, <1>4, <1>5, <1>6

\* The frame ends: the arrays are empty and no cell bears its marks.
LEMMA IdleSuffices ==
  ASSUME TypeOK', IdleOK', phase' = "idle"
  PROVE  IInv'
<1>1. (ClockOK /\ UndoOK /\ StampsOK /\ StagedOK /\ DisjointOK)'
  BY DEF IdleOK, ClockOK, UndoOK, StampsOK, StagedOK, DisjointOK, Writing
<1>2. (ChangedOK /\ AllowedOK)'
  BY DEF ChangedOK, AllowedOK, InvariantsGatePublication, Decided
<1> QED
  BY <1>1, <1>2 DEF IInv

LEMMA SuccessKeeps ==
  ASSUME IInv, SealEmpty \/ Finish
  PROVE  IInv'
<1> USE DEF SealEmpty, Finish, CloseFrame, ClearArrays, cells, sentinels, frame
<1>1. now = beforeNow + 1 /\ beforeNow \in Nat /\ phase # "idle"
  BY DEF IInv, ClockOK, TypeOK, Time
<1>2. TypeOK'
  <2>1. CASE SealEmpty
    BY <2>1 DEF IInv, TypeOK, Phases
  <2>2. CASE Finish
    BY <2>2 DEF IInv, TypeOK, Phases
  <2> QED
    BY <2>1, <2>2
<1>3. \A i \in Input : stagedAt[i] < now /\ lastWrite[i] <= now
  <2> HIDE DEF SealEmpty, Finish
  <2>1. \A i \in Input : stagedAt[i] <= beforeNow /\ lastWrite[i] <= beforeNow + 1
    BY <1>1 DEF IInv, StagedOK, StampsOK
  <2>2. \A i \in Input : stagedAt[i] \in Int /\ lastWrite[i] \in Int
    BY DEF IInv, TypeOK, Time
  <2> TAKE i \in Input
  <2> QED
    BY <1>1, <2>1, <2>2
<1>4. IdleOK'
  BY <1>3 DEF IdleOK
<1> QED
  BY <1>2, <1>4, IdleSuffices

LEMMA RestoreKeeps ==
  ASSUME IInv, phase # "idle", Restore
  PROVE  IInv'
<1> USE DEF IInv, Restore, CloseFrame, ClearArrays, frame
<1>1. \A i \in Input : /\ CellBefore(i).value \in Value
                       /\ CellBefore(i).lastWrite \in Nat
                       /\ CellBefore(i).lastWrite <= beforeNow
  BY CellBeforeRow, StampBefore DEF Row, Time
<1>2. \A i \in Input : /\ stagedAt'[i] \in Time \cup {-1}
                       /\ stagedAt'[i] < beforeNow
  <2> TAKE i \in Input
  <2>1. CASE StagedRows(i) # {}
    BY <2>1 DEF StagingForgot, TypeOK, Time
  <2>2. CASE StagedRows(i) = {}
    <3>1. stagedAt[i] # beforeNow
      BY <2>2 DEF StagedOK, StagedRows
    <3> QED
      BY <2>2, <3>1 DEF StagingForgot, StagedOK, TypeOK, Time
  <2> QED
    BY <2>1, <2>2
<1>3. TypeOK'
  BY <1>1, <1>2 DEF TypeOK, Phases, Time, StagingForgot
<1>4. IdleOK'
  BY <1>1, <1>2 DEF IdleOK
<1> QED
  BY <1>3, <1>4, IdleSuffices

LEMMA MigrateFromKeeps ==
  ASSUME IInv, NEW snapshot \in [Input -> Value], NEW time \in 0..MaxTime,
         MigrateFrom(snapshot, time)
  PROVE  IInv'
<1> USE DEF IInv, MigrateFrom, sentinels, frame, arrays
<1>1. time \in Nat
  BY MaxTimeAssumption
<1>2. TypeOK'
  BY <1>1 DEF TypeOK, Time
<1>3. IdleOK'
  BY <1>1 DEF IdleOK, TypeOK, Time
<1> QED
  BY <1>2, <1>3, IdleSuffices

\* The only step whose proof needs that transaction bodies register nothing.
LEMMA DependentsKeep ==
  ASSUME IInv, ~MidTxRegistration, NEW S \in SUBSET Input,
         RegisterDependent(S) \/ DropDependents(S) \/ Rewire
  PROVE  IInv'
<1> USE DEF IInv, RegisterDependent, DropDependents, Rewire, cells, sentinels, frame, arrays
<1>1. phase \notin Writing
  BY DEF Writing
<1>2. TypeOK'
  <2>1. hasDependents' \in [Input -> BOOLEAN]
    BY DEF TypeOK
  <2> QED
    BY <2>1 DEF TypeOK
<1>3. (IdleOK /\ ClockOK /\ UndoOK /\ StagedOK /\ DisjointOK)'
  BY <1>1 DEF IdleOK, ClockOK, UndoOK, StagedOK, DisjointOK
<1>4. Touched' = Touched
  BY DEF Touched, Rows, SlotRows
<1>5. (StampsOK /\ ChangedOK)'
  BY <1>4 DEF StampsOK, ChangedOK
<1>6. AllowedOK'
  BY <1>1 DEF AllowedOK, InvariantsGatePublication, Writing
<1> QED
  BY <1>2, <1>3, <1>5, <1>6

LEMMA StutterKeeps ==
  ASSUME IInv, UNCHANGED vars
  PROVE  IInv'
<1> USE DEF IInv, vars, cells, sentinels, frame, arrays
<1>1. TypeOK'
  BY DEF TypeOK
<1>2. (IdleOK /\ ClockOK /\ UndoOK /\ StagedOK /\ DisjointOK)'
  BY DEF IdleOK, ClockOK, UndoOK, StagedOK, DisjointOK
<1>3. Touched' = Touched
  BY DEF Touched, Rows, SlotRows
<1>4. (StampsOK /\ ChangedOK)'
  BY <1>3 DEF StampsOK, ChangedOK
<1>5. AllowedOK'
  BY DEF AllowedOK, InvariantsGatePublication, InvariantsHold, DirectWritesHold
<1> QED
  BY <1>1, <1>2, <1>4, <1>5

LEMMA NextKeeps ==
  ASSUME IInv, ~MidTxRegistration, [Next]_vars
  PROVE  IInv'
<1>1. CASE \E m \in Modes : Begin(m)
  BY <1>1, BeginKeeps
<1>2. CASE \E i \in Input, v \in Value : TxSet(i, v)
  BY <1>2, FastWriteKeeps, RestageKeeps, StageKeeps DEF TxSet
<1>3. CASE Pipeline
  <2>1. CASE Rollback \/ SimulateReturns
    BY <2>1, RestoreKeeps DEF Rollback, SimulateReturns
  <2> QED
    BY <1>3, <2>1, RunReturnsKeeps, CheckInvariantsKeeps, PublishScalarKeeps,
       PublishRowsKeeps, TickKeeps, MiddleKeeps, SuccessKeeps DEF Pipeline
<1>4. CASE \E snapshot \in [Input -> Value], time \in 0..MaxTime : MigrateFrom(snapshot, time)
  BY <1>4, MigrateFromKeeps
<1>5. CASE (\E S \in SUBSET Input : RegisterDependent(S) \/ DropDependents(S)) \/ Rewire
  BY <1>5, DependentsKeep
<1>6. CASE UNCHANGED vars
  BY <1>6, StutterKeeps
<1> QED
  BY <1>1, <1>2, <1>3, <1>4, <1>5, <1>6 DEF Next

THEOREM Invariance ==
  ASSUME ~MidTxRegistration
  PROVE  Spec => []IInv
<1>1. IInv /\ [Next]_vars => IInv'
  BY NextKeeps
<1> QED
  BY <1>1, InitKeeps, PTL DEF Spec

-----------------------------------------------------------------------------
(* The properties the runs check, for every value of the constants.        *)

LEMMA InvariantImplies ==
  IInv => TypeOK /\ SentinelsAgree /\ OneUndoRowPerCell /\ InvariantsGatePublication
<1> SUFFICES ASSUME IInv PROVE SentinelsAgree /\ OneUndoRowPerCell
  BY DEF IInv, AllowedOK
<1>1. OneUndoRowPerCell
  BY DEF IInv, UndoOK, OneUndoRowPerCell, Rows
<1>2. SentinelsAgree
  <2>1. CASE phase = "idle"
    BY <2>1 DEF IInv, IdleOK, SentinelsAgree
  <2>2. CASE phase = "run"
    <3> SUFFICES ASSUME NEW i \in Input
                 PROVE  /\ stagedAt[i] = now => stagedRow[i] \in StagedRows(i)
                        /\ StagedRows(i) # {} => stagedAt[i] = now
                        /\ lastWrite[i] > now <=> Rows(i) # {}
      BY <2>2 DEF SentinelsAgree
    <3>1. now = beforeNow /\ slot = {}
      BY <2>2 DEF IInv, ClockOK, UndoOK, Writing
    <3>2. stagedAt[i] = now => stagedRow[i] \in StagedRows(i)
      BY <2>2, <3>1 DEF IInv, StagedOK, StagedRows
    <3>3. StagedRows(i) # {} => stagedAt[i] = now
      BY <2>2, <3>1 DEF IInv, StagedOK, StagedRows
    <3>4. Rows(i) # {} => lastWrite[i] > now
      BY <2>2 DEF IInv, StampsOK, Writing, Rows
    <3>5. Rows(i) = {} => ~(lastWrite[i] > now)
      <4>1. Rows(i) = {} => lastWrite[i] <= now
        BY <2>2, <3>1 DEF IInv, StampsOK, Touched, SlotRows
      <4>2. lastWrite[i] \in Int /\ now \in Int
        BY DEF IInv, TypeOK, Time
      <4> QED
        BY <4>1, <4>2
    <3> QED
      BY <3>2, <3>3, <3>4, <3>5
  <2>3. CASE phase \notin {"idle", "run"}
    BY <2>3 DEF SentinelsAgree
  <2> QED
    BY <2>1, <2>2, <2>3
<1> QED
  BY <1>1, <1>2

\* Every variable stays in its domain: in particular every row that survives
\* the compaction is a row of the undo array.
THEOREM TypeCorrect ==
  ASSUME ~MidTxRegistration
  PROVE  Spec => []TypeOK
BY Invariance, InvariantImplies, PTL

\* lastStagedAt and lastWriteTime mean what tx.set takes them to mean, after
\* every mix of successful, failed and simulated frames.
THEOREM SentinelsCorrect ==
  ASSUME ~MidTxRegistration
  PROVE  Spec => []SentinelsAgree
BY Invariance, InvariantImplies, PTL

\* The undo arrays name each cell at most once, so that the catch arm may
\* replay them in any order.
THEOREM UndoRowsUnique ==
  ASSUME ~MidTxRegistration
  PROVE  Spec => []OneUndoRowPerCell
BY Invariance, InvariantImplies, PTL

\* No value an invariant rejects gets past Phase A.7 of a commit or hydrate.
THEOREM InvariantsGate ==
  ASSUME ~MidTxRegistration
  PROVE  Spec => []InvariantsGatePublication
BY Invariance, InvariantImplies, PTL

-----------------------------------------------------------------------------
(* Rollback: what the undo rows rebuild does not move before the commit is *)
(* decided.                                                                *)

\* CellBefore without its CHOOSEs.
RowsRebuild ==
  /\ \A k \in live : CellBefore(undo[k].input) = undo[k]
  /\ \A r \in slot : CellBefore(r.input) = r
  /\ \A i \in Input : i \notin Touched =>
       CellBefore(i) = [input |-> i, value |-> val[i], lastWrite |-> lastWrite[i]]
  /\ \A i \in Input : i \in Touched <=> \/ \E k \in live : undo[k].input = i
                                        \/ \E r \in slot : r.input = i

LEMMA Rebuild == IInv => RowsRebuild
BY CellOfRow, CellOfSlot, CellUntouched, TouchedRows DEF IInv, RowsRebuild

LEMMA RebuildNext == IInv' => RowsRebuild'
BY Rebuild, PTL

\* A cell that keeps its row, or gets one that records what it holds, or
\* loses one whose content it holds, is rebuilt to the same contents.
LEMMA SameCell ==
  ASSUME IInv, IInv', NEW i \in Input,
         \A k \in live : undo[k].input = i =>
           \/ k \in live' /\ undo'[k] = undo[k]
           \/ /\ val'[i] = undo[k].value /\ lastWrite'[i] = undo[k].lastWrite
              /\ i \notin Touched',
         \A r \in slot : r.input = i => r \in slot',
         i \notin Touched =>
           \/ i \notin Touched' /\ val'[i] = val[i] /\ lastWrite'[i] = lastWrite[i]
           \/ \E k \in live' : undo'[k] = UndoRow(i)
           \/ UndoRow(i) \in slot'
  PROVE  /\ CellBefore(i)'.value = CellBefore(i).value
         /\ CellBefore(i)'.lastWrite = CellBefore(i).lastWrite
<1>1. CASE \E k \in live : undo[k].input = i
  BY <1>1, Rebuild, RebuildNext DEF RowsRebuild
<1>2. CASE \E r \in slot : r.input = i
  BY <1>2, Rebuild, RebuildNext DEF RowsRebuild
<1>3. CASE i \notin Touched
  BY <1>3, Rebuild, RebuildNext DEF RowsRebuild, UndoRow
<1> QED
  BY <1>1, <1>2, <1>3, TouchedRows

Kept(i) == /\ CellBefore(i)'.value = CellBefore(i).value
           /\ CellBefore(i)'.lastWrite = CellBefore(i).lastWrite

LEMMA FastWriteCells ==
  ASSUME IInv, IInv', NEW i \in Input, NEW v \in Value, FastWrite(i, v)
  PROVE  \A j \in Input : Kept(j)
<1>1. now = beforeNow /\ phase = "run"
  BY DEF FastWrite, IInv, ClockOK, Writing
<1>2. UndoRow(i) \in Row /\ UndoRow(i).input = i /\ undo \in Seq(Row)
  BY DEF UndoRow, Row, IInv, TypeOK
<1> HIDE DEF Row, UndoRow
<1>3. slot' = slot
  BY DEF FastWrite
<1>4. \A j \in Input \ {i} : val'[j] = val[j] /\ lastWrite'[j] = lastWrite[j]
  BY DEF FastWrite, IInv, TypeOK
<1>5. CASE ~FirstDirectWrite(i)
  <2>1. live' = live /\ undo' = undo
    BY <1>5 DEF FastWrite
  <2>2. i \in Touched
    BY <1>1, <1>5 DEF FirstDirectWrite, IInv, StampsOK, TypeOK, Time
  <2>3. Touched' = Touched
    BY <1>3, <2>1 DEF Touched, Rows, SlotRows
  <2> QED
    BY <1>3, <1>4, <2>1, <2>2, <2>3, SameCell DEF Kept
<1>6. CASE FirstDirectWrite(i)
  <2> DEFINE new == Len(undo) + 1
  <2>1. /\ live' = live \cup {new} /\ undo' = Append(undo, UndoRow(i))
    BY <1>6 DEF FastWrite, NewRow
  <2>2. \A k \in live : undo'[k] = undo[k]
    BY <1>2, <2>1 DEF IInv, TypeOK
  <2>3. new \in live' /\ undo'[new] = UndoRow(i)
    BY <1>2, <2>1 DEF IInv, TypeOK
  <2> HIDE DEF new
  <2>4. ASSUME NEW j \in Input \ {i} PROVE j \in Touched' <=> j \in Touched
    <3>1. j \in Touched' <=> \/ \E k \in live' : undo'[k].input = j
                             \/ \E x \in slot' : x.input = j
      BY RebuildNext DEF RowsRebuild
    <3>2. (\E k \in live' : undo'[k].input = j) <=> \E k \in live : undo[k].input = j
      BY <1>2, <2>1, <2>2, <2>3
    <3> QED
      BY <1>3, <3>1, <3>2, TouchedRows
  <2> QED
    BY <1>3, <1>4, <2>1, <2>2, <2>3, <2>4, SameCell DEF Kept
<1> QED
  BY <1>5, <1>6

LEMMA RunReturnsCells ==
  ASSUME IInv, IInv', RunReturns
  PROVE  \A j \in Input : Kept(j)
<1> SUFFICES ASSUME NEW j \in Input PROVE Kept(j)
  OBVIOUS
<1>1. slot = {} /\ slot' = {} /\ undo' = undo /\ val' = val /\ live' = live \ Reverted
  BY DEF RunReturns, IInv, UndoOK, Writing
<1>2. j \in Touched => \E k \in live : undo[k].input = j
  BY <1>1, TouchedRows
<1>3. j \in Touched' <=> \E k \in live' : undo[k].input = j
  BY <1>1, IInv', RebuildNext DEF RowsRebuild
<1>4. ASSUME NEW k \in live, undo[k].input = j
      PROVE  \/ k \in live' /\ undo'[k] = undo[k]
             \/ /\ val'[j] = undo[k].value /\ lastWrite'[j] = undo[k].lastWrite
                /\ j \notin Touched'
  <2>1. CASE k \in Reverted
    <3>1. val[j] = undo[k].value
      BY <1>4, <2>1 DEF Reverted
    <3>2. lastWrite'[j] = CellBefore(j).lastWrite
      BY <1>4, <2>1 DEF RunReturns, StampsAfterRevert
    <3>3. CellBefore(j) = undo[k]
      BY <1>4, Rebuild DEF RowsRebuild
    <3>4. j \notin Touched'
      BY <1>1, <1>3, <1>4, <2>1 DEF IInv, UndoOK
    <3> QED
      BY <1>1, <3>1, <3>2, <3>3, <3>4
  <2>2. CASE k \notin Reverted
    BY <1>1, <2>2
  <2> QED
    BY <2>1, <2>2
<1>5. j \notin Touched => j \notin Touched' /\ val'[j] = val[j] /\ lastWrite'[j] = lastWrite[j]
  <2> HAVE j \notin Touched
  <2>1. ~\E k \in live : undo[k].input = j
    BY TouchedRows
  <2>2. lastWrite'[j] = lastWrite[j]
    BY <2>1 DEF RunReturns, StampsAfterRevert, Reverted
  <2> QED
    BY <1>1, <1>3, <2>1, <2>2
<1> QED
  BY <1>1, <1>4, <1>5, SameCell DEF Kept

LEMMA PublishScalarCells ==
  ASSUME IInv, IInv', PublishScalar
  PROVE  \A j \in Input : Kept(j)
<1> DEFINE w == staged[1]
<1>1. live = {} /\ slot = {} /\ live' = {} /\ lastWrite' = lastWrite
  BY DEF PublishScalar, OneStagedRow, IInv, UndoOK, Writing
<1>2. w.input \in Input
  <2>1. staged \in Seq(Write) /\ Len(staged) = 1
    BY DEF PublishScalar, OneStagedRow, IInv, TypeOK
  <2>2. w \in Write
    BY <2>1
  <2> QED
    BY <2>2 DEF Write
<1>3. \A j \in Input : j \notin Touched
  BY <1>1, TouchedRows
<1>4. CASE val[w.input] = w.value
  <2>1. val' = val /\ slot' = {}
    BY <1>1, <1>4 DEF PublishScalar
  <2>2. \A j \in Input : j \notin Touched'
    BY <1>1, <2>1, RebuildNext DEF RowsRebuild
  <2> QED
    BY <1>1, <1>3, <2>1, <2>2, SameCell DEF Kept
<1>5. CASE val[w.input] # w.value
  <2>1. slot' = {UndoRow(w.input)} /\ val' = [val EXCEPT ![w.input] = w.value]
    BY <1>5 DEF PublishScalar, ScalarSlot
  <2>2. \A j \in Input : j # w.input => j \notin Touched' /\ val'[j] = val[j]
    BY <1>1, <2>1, RebuildNext DEF RowsRebuild, UndoRow, IInv, TypeOK
  <2> QED
    BY <1>1, <1>3, <2>1, <2>2, SameCell DEF Kept
<1> QED
  BY <1>4, <1>5

LEMMA PublishRowsCells ==
  ASSUME IInv, IInv', PublishRows
  PROVE  \A j \in Input : Kept(j)
<1> SUFFICES ASSUME NEW j \in Input PROVE Kept(j)
  OBVIOUS
<1> DEFINE writes == {k \in DOMAIN staged : val[staged[k].input] # staged[k].value}
           rows   == [k \in DOMAIN staged |-> UndoRow(staged[k].input)]
           At(k)  == Len(undo) + k
<1>1. /\ slot = {} /\ slot' = {} /\ lastWrite' = lastWrite /\ phase # "idle"
      /\ undo' = undo \o rows /\ live' = live \cup {At(k) : k \in writes}
      /\ val'[j] = Published(j)
  BY DEF PublishRows, IInv, UndoOK, Writing
<1>2. rows \in Seq(Row) /\ DOMAIN rows = DOMAIN staged
  <2>1. \A k \in DOMAIN staged : staged[k] \in Write
    BY DEF IInv, TypeOK
  <2>2. \A k \in DOMAIN staged : UndoRow(staged[k].input) \in Row
    BY <2>1 DEF UndoRow, Row, Write, IInv, TypeOK
  <2>3. DOMAIN staged = 1..Len(staged) /\ Len(staged) \in Nat
    BY DEF IInv, TypeOK
  <2> QED
    BY <2>2, <2>3
<1>3. \A k \in live : k \in live' /\ undo'[k] = undo[k]
  BY <1>1, <1>2 DEF IInv, TypeOK
<1>4. \A k \in writes : At(k) \in live' /\ undo'[At(k)] = UndoRow(staged[k].input)
  BY <1>1, <1>2 DEF IInv, TypeOK
<1>5. \A k \in live' : k \in live \/ \E x \in writes : k = At(x)
  BY <1>1
<1>6. /\ writes \subseteq DOMAIN staged
      /\ \A k \in writes : val[staged[k].input] # staged[k].value
      /\ \A k \in DOMAIN staged \ writes : val[staged[k].input] = staged[k].value
  OBVIOUS
<1> HIDE DEF writes, At, rows
<1>7. j \in Touched' <=> \E k \in live' : undo'[k].input = j
  BY <1>1, RebuildNext DEF RowsRebuild
<1>8. ASSUME j \notin Touched
      PROVE  \/ j \notin Touched' /\ val'[j] = val[j]
             \/ \E k \in live' : undo'[k] = UndoRow(j)
  <2>1. CASE \E k \in writes : staged[k].input = j
    BY <1>4, <2>1
  <2>2. CASE ~\E k \in writes : staged[k].input = j
    <3>1. ASSUME NEW k \in writes PROVE undo'[At(k)].input # j
      <4>1. UndoRow(staged[k].input).input = staged[k].input
        BY DEF UndoRow
      <4>2. undo'[At(k)] = UndoRow(staged[k].input)
        BY <1>4
      <4> QED
        BY <2>2, <4>1, <4>2
    <3>2. \A k \in live : undo'[k].input # j
      BY <1>3, <1>8, TouchedRows
    <3>3. j \notin Touched'
      BY <1>5, <1>7, <3>1, <3>2
    <3>4. val'[j] = val[j]
      <4>1. CASE \E k \in DOMAIN staged : staged[k].input = j
        <5>1. PICK k \in DOMAIN staged : staged[k].input = j
          BY <4>1
        <5>2. Published(staged[k].input) = staged[k].value
          BY <1>1, PublishedRow DEF IInv
        <5>3. val[staged[k].input] = staged[k].value
          BY <1>6, <2>2, <5>1
        <5> QED
          BY <1>1, <5>1, <5>2, <5>3
      <4>2. CASE \A k \in DOMAIN staged : staged[k].input # j
        BY <1>1, <4>2, PublishedElsewhere
      <4> QED
        BY <4>1, <4>2
    <3> QED
      BY <3>3, <3>4
  <2> QED
    BY <2>1, <2>2
<1> QED
  BY <1>1, <1>3, <1>8, SameCell DEF Kept

LEMMA TickCells ==
  ASSUME IInv, IInv', Tick
  PROVE  \A j \in Input : Kept(j)
<1>1. Touched' = Touched
  BY DEF Tick, arrays, Touched, Rows, SlotRows
<1>2. \A j \in Input : j \notin Touched => lastWrite'[j] = lastWrite[j]
  BY DEF Tick
<1> QED
  BY <1>1, <1>2, SameCell DEF Tick, arrays, Kept

LEMMA UntouchedCells ==
  ASSUME IInv, IInv', UNCHANGED <<val, lastWrite, undo, live, slot>>
  PROVE  \A j \in Input : Kept(j)
BY DEF Kept, CellBefore, Rows, SlotRows, UndoRow

\* Opening a frame and undoing one.
LEMMA BeginCells ==
  ASSUME IInv, IInv', NEW m \in Modes, Begin(m)
  PROVE  \A j \in Input : /\ CellBefore(j)'.value = val[j]
                          /\ CellBefore(j)'.lastWrite = lastWrite[j]
<1>1. live' = {} /\ slot' = {} /\ val' = val /\ lastWrite' = lastWrite
  BY DEF Begin, cells, arrays, IInv, IdleOK
<1>2. \A j \in Input : j \notin Touched'
  BY <1>1, RebuildNext DEF RowsRebuild
<1> QED
  BY <1>1, <1>2, RebuildNext DEF RowsRebuild

LEMMA OpenStep ==
  ASSUME Undecided, Undecided', \A j \in Input : Kept(j)
  PROVE  CellsBefore' = CellsBefore
BY DEF CellsBefore, Kept

LEMMA PipelineCells ==
  ASSUME IInv, IInv', Pipeline
  PROVE  CellsBefore' = CellsBefore \/ Seal \/ SealEmpty
<1>1. CASE RunThrows \/ CheckInvariants \/ RecomputeReturns \/ RecomputeThrows
           \/ MetadataThrows
  <2>1. UNCHANGED <<val, lastWrite, undo, live, slot>>
    BY <1>1 DEF RunThrows, CheckInvariants, RecomputeReturns, RecomputeThrows,
                MetadataThrows, cells, arrays
  <2>2. Undecided /\ Undecided'
    BY <1>1 DEF RunThrows, CheckInvariants, RecomputeReturns, RecomputeThrows,
                MetadataThrows, Undecided
  <2> QED
    BY <2>1, <2>2, UntouchedCells, OpenStep
<1>2. CASE RunReturns
  BY <1>2, RunReturnsCells, OpenStep DEF RunReturns, Undecided
<1>3. CASE PublishScalar
  BY <1>3, PublishScalarCells, OpenStep DEF PublishScalar, Undecided
<1>4. CASE PublishRows
  BY <1>4, PublishRowsCells, OpenStep DEF PublishRows, Undecided
<1>5. CASE Tick
  BY <1>5, TickCells, OpenStep DEF Tick, Undecided
<1>6. CASE Finish
  BY <1>6 DEF Finish, CloseFrame, CellsBefore, Undecided, cells
<1>7. CASE Restore /\ phase \in {"seal", "failed"}
  <2>1. Undecided /\ ~Undecided'
    BY <1>7 DEF Undecided, Restore, CloseFrame
  <2>2. \A j \in Input : /\ val'[j] = CellBefore(j).value
                         /\ lastWrite'[j] = CellBefore(j).lastWrite
    BY <1>7 DEF Restore
  <2> QED
    BY <2>1, <2>2 DEF CellsBefore
<1> QED
  BY <1>1, <1>2, <1>3, <1>4, <1>5, <1>6, <1>7 DEF Pipeline, Rollback, SimulateReturns

LEMMA CellsStep ==
  ASSUME IInv, IInv', Next, ~MidTxRegistration
  PROVE  \/ CellsBefore' = CellsBefore \/ Seal \/ SealEmpty
         \/ phase = "idle" /\ phase' = "idle"
<1>1. ASSUME NEW m \in Modes, Begin(m) PROVE CellsBefore' = CellsBefore
  <2>1. ~Undecided /\ Undecided'
    BY <1>1 DEF Begin, Undecided
  <2> QED
    BY <1>1, <2>1, BeginCells DEF CellsBefore
<1>2. ASSUME NEW i \in Input, NEW v \in Value, TxSet(i, v)
      PROVE  CellsBefore' = CellsBefore
  <2>1. Undecided /\ Undecided'
    BY <1>2 DEF TxSet, FastWrite, Restage, Stage, Undecided
  <2>2. CASE FastWrite(i, v)
    BY <2>1, <2>2, FastWriteCells, OpenStep
  <2>3. CASE Restage(i, v) \/ Stage(i, v)
    BY <2>1, <2>3, UntouchedCells, OpenStep DEF Restage, Stage, cells
  <2> QED
    BY <1>2, <2>2, <2>3 DEF TxSet
<1>3. ASSUME NEW snapshot \in [Input -> Value], NEW time \in 0..MaxTime,
             MigrateFrom(snapshot, time)
      PROVE  phase = "idle" /\ phase' = "idle"
  BY <1>3 DEF MigrateFrom
<1>4. ASSUME NEW S \in SUBSET Input, RegisterDependent(S) \/ DropDependents(S) \/ Rewire
      PROVE  CellsBefore' = CellsBefore
  <2>1. CASE RegisterDependent(S) \/ DropDependents(S)
    <3>1. ~Undecided /\ ~Undecided' /\ UNCHANGED <<val, lastWrite>>
      BY <2>1 DEF RegisterDependent, DropDependents, Undecided, cells
    <3> QED
      BY <3>1 DEF CellsBefore
  <2>2. CASE Rewire
    BY <2>2, UntouchedCells, OpenStep DEF Rewire, Undecided, cells, arrays
  <2> QED
    BY <1>4, <2>1, <2>2
<1> QED
  BY <1>1, <1>2, <1>3, <1>4, PipelineCells DEF Next

\* Nothing a frame does to the cells outlives it unless the commit is sealed:
\* whatever throws, and wherever, values and stamps come back as they were.
THEOREM RollbackExact ==
  ASSUME ~MidTxRegistration PROVE Spec => RolledBackExactly
<1>1. IInv /\ IInv' /\ [Next]_vars =>
        [ \/ CellsBefore' = CellsBefore \/ Seal \/ SealEmpty
          \/ phase = "idle" /\ phase' = "idle" ]_vars
  BY CellsStep
<1> QED
  BY <1>1, Invariance, PTL DEF Spec, RolledBackExactly

-----------------------------------------------------------------------------
(* Refinement: the pipeline implements the atomic store.                   *)

ClockOf == IF Undecided THEN beforeNow ELSE now
OpenOf  == Undecided /\ phase # "failed"

\* The abstract steps in the words of this module.
LEMMA StoreBegin ==
  ASSUME ~OpenOf, OpenOf', StoreOf' = StoreOf, DraftOf' = DraftOf,
         ClockOf' = ClockOf, record' = record
  PROVE  Store!Next
BY DEF Store!Next, Store!Begin, ClockOf, OpenOf

LEMMA StoreSet ==
  ASSUME OpenOf, OpenOf', StoreOf' = StoreOf, ClockOf' = ClockOf, record' = record,
         NEW i \in Input, NEW v \in Value, DraftOf' = [DraftOf EXCEPT ![i] = v]
  PROVE  Store!Next
<1>1. Store!Set(i, v)
  BY DEF Store!Set, ClockOf, OpenOf
<1> QED
  BY <1>1 DEF Store!Next

LEMMA StoreAbort ==
  ASSUME OpenOf, ~OpenOf', StoreOf' = StoreOf, DraftOf' = StoreOf,
         ClockOf' = ClockOf, record' = record
  PROVE  Store!Next
BY DEF Store!Next, Store!Abort, ClockOf, OpenOf

LEMMA StorePublish ==
  ASSUME OpenOf, ~OpenOf', StoreOf' = DraftOf, DraftOf' = DraftOf,
         ClockOf' = ClockOf + 1,
         record' = [time    |-> ClockOf + 1,
                    changed |-> {i \in Input : DraftOf[i] # StoreOf[i]}]
  PROVE  Store!Next
BY DEF Store!Next, Store!Publish, ClockOf, OpenOf

LEMMA StoreLoad ==
  ASSUME ~OpenOf, ~OpenOf', ClockOf = 0, ClockOf' \in Nat, record' = record,
         StoreOf' \in [Input -> Value], DraftOf' = StoreOf'
  PROVE  Store!Next
BY DEF Store!Next, Store!Load, ClockOf, OpenOf

LEMMA StoreStutter ==
  ASSUME OpenOf' <=> OpenOf, StoreOf' = StoreOf, DraftOf' = DraftOf,
         ClockOf' = ClockOf, record' = record
  PROVE  UNCHANGED Store!vars
BY DEF Store!vars, ClockOf, OpenOf

\* What tx.get reads of a cell is what Phase B will store in it.
LEMMA ReadIsPublished ==
  ASSUME IInv, phase \in Writing, NEW i \in Input
  PROVE  ReadInput(i) = Published(i)
<1>1. phase # "idle" /\ now = beforeNow
  BY DEF IInv, ClockOK, Writing
<1>2. CASE stagedAt[i] = now
  <2> DEFINE k == stagedRow[i]
  <2>1. k \in DOMAIN staged /\ staged[k].input = i
    BY <1>1, <1>2 DEF IInv, StagedOK
  <2>2. Published(staged[k].input) = staged[k].value
    BY <1>1, <2>1, PublishedRow DEF IInv
  <2> QED
    BY <1>1, <1>2, <2>1, <2>2 DEF ReadInput
<1>3. CASE stagedAt[i] # now
  <2>1. \A k \in DOMAIN staged : staged[k].input # i
    BY <1>1, <1>3 DEF IInv, StagedOK
  <2> QED
    BY <1>3, <2>1, PublishedElsewhere DEF ReadInput
<1> QED
  BY <1>2, <1>3

LEMMA DraftWhileWriting ==
  ASSUME phase \in Writing
  PROVE  DraftOf = [i \in Input |-> ReadInput(i)]
BY DEF DraftOf, Writing

LEMMA DraftWhileWritingNext ==
  ASSUME phase' \in Writing
  PROVE  DraftOf' = [i \in Input |-> ReadInput(i)']
BY DEF DraftOf, Writing

LEMMA DraftAfterWriting ==
  /\ phase \notin Writing \cup {"failed"} => DraftOf = val
  /\ phase' \notin Writing \cup {"failed"} => DraftOf' = val'
  /\ phase = "failed" => DraftOf = StoreOf
  /\ phase' = "failed" => DraftOf' = StoreOf'
BY DEF DraftOf, Writing

LEMMA SameStore ==
  ASSUME Undecided, Undecided', \A j \in Input : Kept(j)
  PROVE  StoreOf' = StoreOf
BY DEF StoreOf, Kept

LEMMA DirectWriteSets ==
  ASSUME IInv, IInv', NEW i \in Input, NEW v \in Value, FastWrite(i, v)
  PROVE  Store!Next
<1>1. phase = "run" /\ phase' = "run" /\ Undecided /\ Undecided'
  BY DEF FastWrite, Undecided
<1>2. StoreOf' = StoreOf
  BY <1>1, FastWriteCells, SameStore
<1>3. ReadInput(i)' = v
  <2>1. \A k \in DOMAIN staged : staged[k].input # i
    BY <1>1 DEF FastWrite, IInv, DisjointOK, Writing
  <2>2. stagedAt[i] # now
    BY <1>1, <2>1 DEF IInv, StagedOK, ClockOK, Writing
  <2>3. stagedAt' = stagedAt /\ now' = now /\ val'[i] = v
    BY DEF FastWrite, sentinels, IInv, TypeOK
  <2> QED
    BY <2>2, <2>3 DEF ReadInput
<1>4. \A j \in Input : j # i => ReadInput(j)' = ReadInput(j)
  BY <1>1 DEF FastWrite, ReadInput, sentinels, IInv, TypeOK
<1>5. DraftOf = [j \in Input |-> ReadInput(j)] /\ DraftOf' = [j \in Input |-> ReadInput(j)']
  BY <1>1, DraftWhileWriting, DraftWhileWritingNext DEF Writing
<1>6. DraftOf' = [DraftOf EXCEPT ![i] = v]
  BY <1>3, <1>4, <1>5
<1> QED
  BY <1>1, <1>2, <1>6, StoreSet DEF FastWrite, frame, ClockOf, OpenOf

LEMMA RestageSets ==
  ASSUME IInv, IInv', NEW i \in Input, NEW v \in Value, Restage(i, v)
  PROVE  Store!Next
<1>1. phase = "run" /\ phase' = "run" /\ Undecided /\ Undecided'
  BY DEF Restage, Undecided
<1>2. StoreOf' = StoreOf
  BY <1>1, UntouchedCells, SameStore DEF Restage, cells
<1> DEFINE k == stagedRow[i]
<1>3. k \in DOMAIN staged /\ staged[k].input = i
  BY <1>1 DEF Restage, IInv, StagedOK, ClockOK, Writing
<1>4. ReadInput(i)' = v
  <2>1. staged'[k].value = v
    <3>1. staged[k] \in Write
      BY <1>3 DEF IInv, TypeOK
    <3> QED
      BY <1>3, <3>1 DEF Restage, IInv, TypeOK, Write
  <2> QED
    BY <1>1, <2>1 DEF Restage, ReadInput, sentinels
<1>5. ASSUME NEW j \in Input, j # i PROVE ReadInput(j)' = ReadInput(j)
  <2>1. CASE stagedAt[j] = now
    <3>1. stagedRow[j] \in DOMAIN staged /\ staged[stagedRow[j]].input = j
      BY <1>1, <2>1 DEF IInv, StagedOK, ClockOK, Writing
    <3>2. staged'[stagedRow[j]] = staged[stagedRow[j]]
      BY <1>3, <1>5, <3>1 DEF Restage, IInv, TypeOK
    <3>3. ReadInput(j)' = staged'[stagedRow[j]].value
      BY <1>1, <2>1 DEF Restage, ReadInput, sentinels
    <3>4. ReadInput(j) = staged[stagedRow[j]].value
      BY <1>1, <2>1 DEF ReadInput
    <3> QED
      BY <3>2, <3>3, <3>4
  <2>2. CASE stagedAt[j] # now
    BY <1>1, <2>2 DEF Restage, ReadInput, sentinels, cells
  <2> QED
    BY <2>1, <2>2
<1>6. DraftOf = [j \in Input |-> ReadInput(j)] /\ DraftOf' = [j \in Input |-> ReadInput(j)']
  BY <1>1, DraftWhileWriting, DraftWhileWritingNext DEF Writing
<1>7. DraftOf' = [DraftOf EXCEPT ![i] = v]
  BY <1>4, <1>5, <1>6
<1> QED
  BY <1>1, <1>2, <1>7, StoreSet DEF Restage, frame, ClockOf, OpenOf

LEMMA StageSets ==
  ASSUME IInv, IInv', NEW i \in Input, NEW v \in Value, Stage(i, v)
  PROVE  Store!Next
<1>1. phase = "run" /\ phase' = "run" /\ Undecided /\ Undecided'
  BY DEF Stage, Undecided
<1>2. StoreOf' = StoreOf
  BY <1>1, UntouchedCells, SameStore DEF Stage, cells
<1> DEFINE new == Len(staged) + 1
<1>3. /\ staged' = Append(staged, [input |-> i, value |-> v])
      /\ stagedAt' = [stagedAt EXCEPT ![i] = now]
      /\ stagedRow' = [stagedRow EXCEPT ![i] = new]
      /\ now' = now /\ val' = val
  BY DEF Stage, cells
<1>4. ReadInput(i)' = v
  <2>1. staged'[new] = [input |-> i, value |-> v]
    BY <1>3 DEF IInv, TypeOK
  <2>2. stagedAt'[i] = now' /\ stagedRow'[i] = new
    BY <1>3 DEF IInv, TypeOK
  <2> HIDE DEF new
  <2> QED
    BY <1>1, <2>1, <2>2 DEF ReadInput
<1>5. ASSUME NEW j \in Input, j # i PROVE ReadInput(j)' = ReadInput(j)
  <2>1. stagedAt'[j] = stagedAt[j] /\ stagedRow'[j] = stagedRow[j]
    BY <1>3, <1>5 DEF IInv, TypeOK
  <2>2. CASE stagedAt[j] = now
    <3>1. stagedRow[j] \in DOMAIN staged
      BY <1>1, <2>2 DEF IInv, StagedOK, ClockOK, Writing
    <3>2. staged'[stagedRow[j]] = staged[stagedRow[j]]
      BY <1>3, <3>1 DEF IInv, TypeOK
    <3>3. ReadInput(j)' = staged'[stagedRow[j]].value
      BY <1>1, <1>3, <2>1, <2>2 DEF ReadInput
    <3>4. ReadInput(j) = staged[stagedRow[j]].value
      BY <1>1, <2>2 DEF ReadInput
    <3> QED
      BY <3>2, <3>3, <3>4
  <2>3. CASE stagedAt[j] # now
    BY <1>1, <1>3, <2>1, <2>3 DEF ReadInput
  <2> QED
    BY <2>2, <2>3
<1>6. DraftOf = [j \in Input |-> ReadInput(j)] /\ DraftOf' = [j \in Input |-> ReadInput(j)']
  BY <1>1, DraftWhileWriting, DraftWhileWritingNext DEF Writing
<1>7. DraftOf' = [DraftOf EXCEPT ![i] = v]
  BY <1>4, <1>5, <1>6
<1> QED
  BY <1>1, <1>2, <1>7, StoreSet DEF Stage, frame, ClockOf, OpenOf

LEMMA StagingOver ==
  ASSUME IInv, IInv', RunReturns \/ CheckInvariants
  PROVE  Store!Next \/ UNCHANGED Store!vars
<1>1. phase \in Writing /\ Undecided /\ Undecided'
  BY DEF RunReturns, CheckInvariants, Writing, Undecided
<1>2. \A j \in Input : Kept(j)
  BY RunReturnsCells, UntouchedCells DEF CheckInvariants, cells, arrays
<1>3. StoreOf' = StoreOf
  BY <1>1, <1>2, SameStore
<1>4. ClockOf' = ClockOf /\ record' = record
  BY <1>1 DEF RunReturns, CheckInvariants, ClockOf, frame
<1>5. OpenOf
  BY <1>1 DEF OpenOf, Writing
<1>6. CASE phase' = "failed"
  BY <1>3, <1>4, <1>5, <1>6, DraftAfterWriting, StoreAbort DEF OpenOf
<1>7. CASE phase' # "failed"
  <2>1. phase' \in Writing
    BY <1>7 DEF RunReturns, CheckInvariants, Writing
  <2>2. \A i \in Input : ReadInput(i)' = ReadInput(i)
    BY <1>1, <2>1 DEF RunReturns, CheckInvariants, ReadInput, Writing, sentinels,
                      cells, arrays
  <2>3. DraftOf' = DraftOf
    BY <1>1, <2>1, <2>2, DraftWhileWriting, DraftWhileWritingNext
  <2> QED
    BY <1>1, <1>3, <1>4, <1>5, <1>7, <2>3, StoreStutter DEF OpenOf
<1> QED
  BY <1>6, <1>7

LEMMA PublishingStutters ==
  ASSUME IInv, IInv', PublishScalar \/ PublishRows
  PROVE  UNCHANGED Store!vars
<1>1. phase = "publish" /\ phase' = "tick" /\ Undecided /\ Undecided'
  BY DEF PublishScalar, PublishRows, Undecided
<1>2. StoreOf' = StoreOf
  BY <1>1, PublishScalarCells, PublishRowsCells, SameStore
<1>3. ClockOf' = ClockOf /\ record' = record
  BY <1>1 DEF PublishScalar, PublishRows, ClockOf, frame
<1>4. OpenOf /\ OpenOf'
  BY <1>1 DEF OpenOf
<1>5. DraftOf = [i \in Input |-> Published(i)]
  BY <1>1, DraftWhileWriting, ReadIsPublished DEF Writing
<1>6. val' = [i \in Input |-> Published(i)]
  <2>1. CASE PublishRows
    BY <2>1 DEF PublishRows
  <2>2. CASE PublishScalar
    <3> DEFINE w == staged[1]
    <3>1. staged \in Seq(Write) /\ Len(staged) = 1
      BY <2>2 DEF PublishScalar, OneStagedRow, IInv, TypeOK
    <3>2. w \in Write /\ DOMAIN staged = {1}
      BY <3>1
    <3>3. Published(w.input) = w.value
      BY <1>1, <3>2, PublishedRow DEF IInv
    <3>4. \A i \in Input : i # w.input => Published(i) = val[i]
      BY <3>2, PublishedElsewhere
    <3>5. val' = [val EXCEPT ![w.input] = w.value]
      <4>1. val \in [Input -> Value] /\ w.input \in Input
        BY <3>2 DEF IInv, TypeOK, Write
      <4> QED
        BY <2>2, <4>1 DEF PublishScalar
    <3> QED
      BY <3>3, <3>4, <3>5 DEF IInv, TypeOK
  <2> QED
    BY <2>1, <2>2
<1>7. DraftOf' = val'
  BY <1>1, DraftAfterWriting DEF Writing
<1> QED
  BY <1>2, <1>3, <1>4, <1>5, <1>6, <1>7, StoreStutter

LEMMA QuietStutters ==
  ASSUME IInv, IInv', Tick \/ RecomputeReturns
  PROVE  UNCHANGED Store!vars
<1>1. /\ Undecided /\ Undecided' /\ phase \notin Writing \cup {"failed"}
      /\ phase' \notin Writing \cup {"failed"}
  BY DEF Tick, RecomputeReturns, Undecided, Writing
<1>2. \A j \in Input : Kept(j)
  BY TickCells, UntouchedCells DEF RecomputeReturns, cells, arrays
<1>3. StoreOf' = StoreOf
  BY <1>1, <1>2, SameStore
<1>4. DraftOf' = DraftOf
  BY <1>1, DraftAfterWriting DEF Tick, RecomputeReturns, cells
<1> QED
  BY <1>1, <1>3, <1>4, StoreStutter
     DEF Tick, RecomputeReturns, ClockOf, OpenOf, frame

\* A throw aborts before the catch arm has run: the draft is lost at once.
LEMMA ThrowAborts ==
  ASSUME IInv, IInv', RunThrows \/ RecomputeThrows \/ MetadataThrows
  PROVE  Store!Next
<1>1. /\ Undecided /\ Undecided' /\ phase # "failed" /\ phase' = "failed"
      /\ UNCHANGED <<cells, frame, arrays, record>>
  BY DEF RunThrows, RecomputeThrows, MetadataThrows, Undecided
<1>2. StoreOf' = StoreOf
  BY <1>1, UntouchedCells, SameStore DEF cells, arrays
<1>3. DraftOf' = StoreOf
  BY <1>1, <1>2, DraftAfterWriting
<1> QED
  BY <1>1, <1>2, <1>3, StoreAbort DEF ClockOf, OpenOf, frame

\* Once Phase B is over, the changed inputs are those whose cell has moved.
LEMMA ChangedIsMoved ==
  ASSUME IInv, phase \in Decided
  PROVE  changed = {i \in Input : val[i] # StoreOf[i]}
<1>1. changed = Touched /\ Touched \subseteq Input
  BY DEF IInv, ChangedOK, Touched
<1>2. ASSUME NEW i \in Input PROVE i \in Touched <=> val[i] # CellBefore(i).value
  <2>1. CASE \E k \in live : undo[k].input = i
    BY <2>1, Rebuild, TouchedRows DEF RowsRebuild, IInv, ChangedOK
  <2>2. CASE \E r \in slot : r.input = i
    BY <2>2, Rebuild, TouchedRows DEF RowsRebuild, IInv, ChangedOK
  <2>3. CASE i \notin Touched
    BY <2>3, Rebuild DEF RowsRebuild
  <2> QED
    BY <2>1, <2>2, <2>3, TouchedRows
<1> QED
  BY <1>1, <1>2 DEF StoreOf, Undecided, Decided

LEMMA SealPublishes ==
  ASSUME IInv, IInv', Seal \/ SealEmpty
  PROVE  Store!Next
<1>1. /\ phase = "seal" /\ phase' \in {"dispatch", "idle"} /\ now' = now /\ val' = val
      /\ record' = [time |-> now, changed |-> changed]
  BY DEF Seal, SealEmpty, CloseFrame, cells
<1>2. Undecided /\ ~Undecided' /\ OpenOf /\ ~OpenOf'
  BY <1>1 DEF Undecided, OpenOf
<1>3. DraftOf = val /\ DraftOf' = val /\ StoreOf' = val
  <2>1. val \in [Input -> Value]
    BY DEF IInv, TypeOK
  <2> QED
    BY <1>1, <1>2, <2>1, DraftAfterWriting DEF StoreOf, Writing
<1>4. ClockOf' = ClockOf + 1 /\ now = ClockOf + 1
  BY <1>1, <1>2 DEF ClockOf, IInv, ClockOK
<1>5. changed = {i \in Input : val[i] # StoreOf[i]}
  BY <1>1, ChangedIsMoved DEF Decided
<1> QED
  BY <1>1, <1>2, <1>3, <1>4, <1>5, StorePublish

LEMMA RestoreRefines ==
  ASSUME IInv, IInv', Rollback \/ SimulateReturns
  PROVE  Store!Next \/ UNCHANGED Store!vars
<1>1. phase \in {"seal", "failed"} /\ Restore /\ phase' = "idle"
  BY DEF Rollback, SimulateReturns, Restore, CloseFrame
<1>2. Undecided /\ ~Undecided' /\ ~OpenOf'
  BY <1>1 DEF Undecided, OpenOf
<1>3. val' = [i \in Input |-> CellBefore(i).value] /\ now' = beforeNow /\ record' = record
  BY <1>1 DEF Restore
<1>4. StoreOf' = StoreOf /\ DraftOf' = StoreOf
  BY <1>1, <1>2, <1>3, DraftAfterWriting DEF StoreOf, Writing
<1>5. ClockOf' = ClockOf
  BY <1>2, <1>3 DEF ClockOf
<1>6. CASE phase = "failed"
  BY <1>2, <1>3, <1>4, <1>5, <1>6, DraftAfterWriting, StoreStutter DEF OpenOf
<1>7. CASE phase = "seal"
  BY <1>2, <1>3, <1>4, <1>5, <1>7, StoreAbort DEF OpenOf
<1> QED
  BY <1>1, <1>6, <1>7

LEMMA FinishStutters ==
  ASSUME IInv, IInv', Finish
  PROVE  UNCHANGED Store!vars
<1>1. phase = "dispatch" /\ phase' = "idle" /\ val' = val /\ now' = now /\ record' = record
  BY DEF Finish, CloseFrame, cells
<1>2. StoreOf' = StoreOf
  BY <1>1 DEF StoreOf, Undecided
<1>3. DraftOf' = DraftOf
  BY <1>1, DraftAfterWriting DEF Writing
<1> QED
  BY <1>1, <1>2, <1>3, StoreStutter DEF ClockOf, OpenOf, Undecided

LEMMA BeginBegins ==
  ASSUME IInv, IInv', NEW m \in Modes, Begin(m)
  PROVE  Store!Next
<1>1. /\ phase = "idle" /\ phase' = "run" /\ val' = val /\ now' = now
      /\ beforeNow' = now /\ stagedAt' = stagedAt /\ record' = record
  BY DEF Begin, cells, sentinels
<1>2. ~Undecided /\ Undecided' /\ ~OpenOf /\ OpenOf'
  BY <1>1 DEF Undecided, OpenOf
<1>3. val \in [Input -> Value]
  BY DEF IInv, TypeOK
<1>4. StoreOf' = StoreOf
  BY <1>2, <1>3, BeginCells DEF StoreOf
<1>5. \A i \in Input : ReadInput(i)' = val[i]
  <2>1. \A i \in Input : stagedAt[i] # now
    <3>1. \A i \in Input : stagedAt[i] \in Int /\ stagedAt[i] < now
      BY <1>1 DEF IInv, IdleOK, TypeOK, Time
    <3> QED
      BY <3>1 DEF IInv, TypeOK, Time
  <2> QED
    BY <1>1, <2>1 DEF ReadInput
<1>6. DraftOf = val /\ DraftOf' = val
  BY <1>1, <1>3, <1>5, DraftAfterWriting, DraftWhileWritingNext DEF Writing
<1> QED
  BY <1>1, <1>2, <1>4, <1>6, StoreBegin DEF ClockOf

LEMMA MigrateLoads ==
  ASSUME IInv, IInv', NEW snapshot \in [Input -> Value], NEW time \in 0..MaxTime,
         MigrateFrom(snapshot, time)
  PROVE  Store!Next
<1>1. /\ phase = "idle" /\ phase' = "idle" /\ val' = snapshot /\ now = 0
      /\ now' = time /\ record' = record
  BY DEF MigrateFrom
<1>2. StoreOf' = val' /\ DraftOf' = val'
  BY <1>1, DraftAfterWriting DEF StoreOf, Undecided, Writing
<1>3. time \in Nat
  BY MaxTimeAssumption
<1> QED
  BY <1>1, <1>2, <1>3, StoreLoad DEF ClockOf, OpenOf, Undecided

LEMMA DependentsStutter ==
  ASSUME IInv, IInv', NEW S \in SUBSET Input, ~MidTxRegistration,
         RegisterDependent(S) \/ DropDependents(S)
  PROVE  UNCHANGED Store!vars
<1>1. /\ phase \in {"idle", "dispatch"} /\ phase' = phase
      /\ UNCHANGED <<val, now, beforeNow, record>>
  BY DEF RegisterDependent, DropDependents, cells, frame
<1>2. StoreOf' = StoreOf /\ DraftOf' = DraftOf
  BY <1>1, DraftAfterWriting DEF StoreOf, Undecided, Writing
<1> QED
  BY <1>1, <1>2, StoreStutter DEF ClockOf, OpenOf, Undecided

LEMMA RewireStutters ==
  ASSUME IInv, IInv', Rewire
  PROVE  UNCHANGED Store!vars
<1>1. /\ Undecided /\ Undecided' /\ phase \notin Writing /\ phase' = phase
      /\ UNCHANGED <<cells, now, frame, arrays, record>>
  BY DEF Rewire, Undecided, Writing
<1>2. StoreOf' = StoreOf
  BY <1>1, UntouchedCells, SameStore DEF cells, arrays
<1>3. DraftOf' = DraftOf
  BY <1>1, <1>2, DraftAfterWriting DEF cells
<1> QED
  BY <1>1, <1>2, <1>3, StoreStutter DEF ClockOf, OpenOf, frame

\* Nor do the clock and the last Commit move before the commit is sealed.
LEMMA ClockKept ==
  ASSUME Next, Undecided \/ Undecided', ~Seal, ~SealEmpty
  PROVE  ClockOf' = ClockOf /\ record' = record
<1>1. CASE \E m \in Modes : Begin(m)
  BY <1>1 DEF Begin, Undecided, ClockOf
<1>2. CASE Rollback \/ SimulateReturns
  BY <1>2 DEF Rollback, SimulateReturns, Restore, CloseFrame, Undecided, ClockOf
<1>3. CASE \/ \E S \in SUBSET Input : RegisterDependent(S) \/ DropDependents(S)
           \/ \E snapshot \in [Input -> Value], time \in 0..MaxTime : MigrateFrom(snapshot, time)
           \/ Finish
  BY <1>3 DEF RegisterDependent, DropDependents, MigrateFrom, Finish, CloseFrame, Undecided,
              ClockOf, frame
<1>4. CASE (\E i \in Input, v \in Value : TxSet(i, v)) \/ RunReturns \/ PublishScalar
           \/ PublishRows
  BY <1>4 DEF TxSet, FastWrite, Restage, Stage, RunReturns, PublishScalar, PublishRows, frame,
              Undecided, ClockOf
<1>5. CASE RunThrows \/ CheckInvariants \/ Tick \/ RecomputeReturns \/ RecomputeThrows
           \/ MetadataThrows \/ Rewire
  BY <1>5 DEF RunThrows, CheckInvariants, Tick, RecomputeReturns, RecomputeThrows,
              MetadataThrows, Rewire, frame, Undecided, ClockOf
<1> QED
  BY <1>1, <1>2, <1>3, <1>4, <1>5 DEF Next, Pipeline

LEMMA StepRefines ==
  ASSUME IInv, IInv', Next, ~MidTxRegistration
  PROVE  Store!Next \/ UNCHANGED Store!vars
<1>1. CASE \E m \in Modes : Begin(m)
  BY <1>1, BeginBegins
<1>2. CASE \E i \in Input, v \in Value : TxSet(i, v)
  BY <1>2, DirectWriteSets, RestageSets, StageSets DEF TxSet
<1>3. CASE Pipeline
  BY <1>3, StagingOver, PublishingStutters, QuietStutters, ThrowAborts,
     SealPublishes, RestoreRefines, FinishStutters DEF Pipeline
<1>4. CASE \E snapshot \in [Input -> Value], time \in 0..MaxTime : MigrateFrom(snapshot, time)
  BY <1>4, MigrateLoads
<1>5. CASE (\E S \in SUBSET Input : RegisterDependent(S) \/ DropDependents(S)) \/ Rewire
  BY <1>5, DependentsStutter, RewireStutters
<1> QED
  BY <1>1, <1>2, <1>3, <1>4, <1>5 DEF Next

LEMMA InitRefines == Init => Store!Init
BY DEF Init, Store!Init, Store!NoCommit, StoreOf, DraftOf, Undecided

\* commit, hydrate, simulate and _migrateFrom implement the atomic store, and
\* the Commit they record lists exactly the inputs whose value has moved.
THEOREM Refinement ==
  ASSUME ~MidTxRegistration PROVE Spec => ImplementsAtomicStore
<1>1. IInv /\ IInv' /\ [Next]_vars => [Store!Next]_Store!vars
  <2>1. ASSUME IInv, UNCHANGED vars PROVE UNCHANGED Store!vars
    <3>1. StoreOf' = StoreOf /\ DraftOf' = DraftOf
      BY <2>1 DEF vars, cells, sentinels, frame, arrays, StoreOf, DraftOf, Undecided,
                  ReadInput, CellBefore, Rows, SlotRows, UndoRow
    <3> QED
      BY <2>1, <3>1, StoreStutter DEF vars, frame, ClockOf, OpenOf, Undecided
  <2> QED
    BY <2>1, StepRefines
<1> QED
  BY <1>1, InitRefines, Invariance, PTL DEF Spec, ImplementsAtomicStore, Store!Spec
=============================================================================
