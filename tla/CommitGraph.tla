------------------------------ MODULE CommitGraph ------------------------------
(***************************************************************************)
(* A whole commit of packages/core/src/graph.ts: the input side (CommitTx) *)
(* and the derived side with its observers (Subscribers over Recompute) as *)
(* one pipeline.  The two share hasDependents, which Phase D rewires under *)
(* the writes of later frames.  A value of an input is in two places here: *)
(* cell, which the transaction writes, and val, which the derived side and *)
(* the observers see and which takes the cells over when Phase D starts.   *)
(*                                                                         *)
(* Every input is registered at the start and stays.  Derived nodes are    *)
(* registered and disposed between frames, and registered by observers.    *)
(***************************************************************************)
EXTENDS Subscribers

CONSTANTS Allowed, MaxTime     \* see CommitTx

ASSUME PipelineAssumption ==
  Allowed \in [Input -> SUBSET Value] /\ MaxTime \in Nat

VARIABLES
  \* CommitTx: val, lastWrite, stagedAt, stagedRow, now, phase, mode, beforeNow
  cell, writtenAt, stagedAt, stagedRow, now, at, entry, beforeNow,
  \* CommitTx: staged, undo, live, slot, changed, record
  staged, undoRows, liveRows, oneRow, changedInputs, record

inputSide == <<cell, writtenAt, stagedAt, stagedRow, now, at, entry, beforeNow,
               staged, undoRows, liveRows, oneRow, changedInputs, record>>
commitVars == <<allVars, inputSide>>

C == INSTANCE CommitTx WITH
       val <- cell, lastWrite <- writtenAt, phase <- at, mode <- entry,
       undo <- undoRows, live <- liveRows, slot <- oneRow,
       changed <- changedInputs, MidTxRegistration <- FALSE

-----------------------------------------------------------------------------

CommitInit ==
  /\ SubInit
  /\ C!Init
  /\ \A i \in Input : val[i] = cell[i]

\* The phases before D, and a throw in one of them, concern the inputs only.
Enter(m) == stage = "quiet" /\ C!Begin(m) /\ UNCHANGED allVars

BeforePhaseD ==
  /\ \/ \E i \in Input, v \in Value : C!TxSet(i, v)
     \/ C!RunThrows \/ C!RunReturns \/ C!CheckInvariants
     \/ C!PublishScalar \/ C!PublishRows
  /\ UNCHANGED allVars

\* hydrate runs the derived side as commit does; its body is not the caller's,
\* who can subscribe in the bodies of the other two.
KindOf(m) == IF m = "simulate" THEN m ELSE "commit"

\* Phase D is skipped when changedInputIds is empty.
StartPhaseD ==
  /\ C!Tick
  /\ IF changedInputs = {} THEN UNCHANGED allVars
     ELSE \/ BeginFrame(KindOf(entry), cell)
          \/ /\ entry # "hydrate"
             /\ \E h \in Handle, w \in Watch : SubscribeInBody(KindOf(entry), cell, h, w)

WalkOn(d) ==
  /\ at = "recompute"
  /\ WalkNode(d) /\ phase' = "walk"
  /\ UNCHANGED inputSide

WalkThrows(d) == WalkNode(d) /\ phase' = "failed" /\ C!RecomputeThrows

EndPhaseD ==
  /\ phase = "walk" => todo = {}
  /\ C!RecomputeReturns
  /\ UNCHANGED allVars

\* Phase E to F.6 and the gate of Phase G; with no changed input there is
\* nobody to tell.
SealFrame ==
  /\ C!Seal
  /\ IF phase = "walk" THEN PublishFrame ELSE UNCHANGED allVars

SealNothing == C!SealEmpty /\ UNCHANGED allVars

\* What unwinds the walk when it is complete: a commit-metadata compute that
\* throws, and simulate.
LeaveWalk == LeaveUnpublished /\ UNCHANGED subVars

MetadataFails ==
  /\ C!MetadataThrows
  /\ IF phase = "walk" THEN LeaveWalk ELSE UNCHANGED allVars

SimulationDone ==
  /\ at = "seal" /\ entry = "simulate"
  /\ LeaveWalk
  /\ UNCHANGED inputSide

\* The catch arm puts the derived side back, which rewires hasDependents again,
\* and drops the frame.
UnwindNode ==
  /\ \/ RestoreInputs /\ stage # "hung" /\ UNCHANGED subVars
     \/ \E d \in Derived : RestoreNode(d) \/ Spin(d)
  /\ UNCHANGED inputSide

UnwindFrame ==
  /\ C!Rollback \/ C!SimulateReturns
  /\ IF phase = "idle" THEN UNCHANGED allVars ELSE TakenBack

\* Phase G, and the finally block of commit.
Dispatch ==
  /\ (\E e \in Handle \X Node : Deliver(e)) \/ EndDispatch
  /\ UNCHANGED inputSide

FinishFrame == stage = "quiet" /\ C!Finish /\ UNCHANGED allVars

\* The program between commits, or an observer in its call.
OutsideFrames == at = "idle" \/ stage = "dispatch"

WatchOrNot ==
  /\ OutsideFrames
  /\ \E h \in Handle : Unsubscribe(h) \/ \E w \in Watch : Subscribe(h, w)
  /\ UNCHANGED inputSide

AddDerived(d, p) ==
  /\ OutsideFrames /\ CallerRuns
  /\ RegisterDerived(d, p)
  /\ UNCHANGED <<subVars, inputSide>>

DisposeDerived(d) ==
  /\ at = "idle"
  /\ DisposeNode(d)
  /\ UNCHANGED inputSide

CommitNext ==
  \/ \E m \in C!Modes : Enter(m)
  \/ BeforePhaseD
  \/ StartPhaseD
  \/ \E d \in Derived : WalkOn(d) \/ WalkThrows(d)
  \/ EndPhaseD
  \/ SealFrame \/ SealNothing \/ MetadataFails \/ SimulationDone
  \/ UnwindNode \/ UnwindFrame
  \/ Dispatch \/ FinishFrame
  \/ WatchOrNot
  \/ \E d \in Derived : DisposeDerived(d) \/ \E p \in Program : AddDerived(d, p)

CommitSpec == CommitInit /\ [][CommitNext]_commitVars

-----------------------------------------------------------------------------
(* Correctness.                                                            *)

\* The two records of one frame agree at every step: what the undo rows of the
\* inputs rebuild is what the snapshots of the derived side rebuild, Phase D
\* starts from exactly the inputs the commit will report, and it computes from
\* the cells the transaction published.  The inputs move in Phase B, before the
\* derived side takes its first snapshot, and a second later set of rows or a
\* skipped one would make a rollback leave values that never were current
\* together.
LayersAgree ==
  /\ \A i \in Input : Before[i][1] = C!StoreOf[i]
  /\ phase = "walk" =>
       seed = changedInputs /\ \A i \in Input : val[i] = cell[i]

\* All that a commit can change: values and edges of every node, the write
\* stamps, the clock and the last Commit.
WholeBefore ==
  <<Before, C!CellsBefore, IF C!Undecided THEN beforeNow ELSE now, record>>

\* A frame is all or nothing across both sides: from its opening to its end only
\* sealing moves any of that, wherever it throws and whatever Phase D had done.
FrameIsAtomic ==
  [][(C!Undecided \/ C!Undecided') /\ ~(C!Seal \/ C!SealEmpty) =>
       WholeBefore' = WholeBefore]_commitVars
=============================================================================
