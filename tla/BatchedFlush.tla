---------------------------- MODULE BatchedFlush ----------------------------
(***************************************************************************)
(* The wasm engine behind a graph, packages/core/wasm/index.ts.  Every     *)
(* commit is made on the JS graph; what the WasmBackend does on top is to  *)
(* queue it and ship the queue over the bridge, and to keep a mirror of    *)
(* the engine's inputs (marshaler.ts).  An answer of the engine is put     *)
(* into the mirror first.  In mode rust-ssot its commits are then compared *)
(* with those of the JS graph: if they are equal the mirror stays as it    *)
(* is, at the first difference it is rolled back and the engine is         *)
(* downgraded for good.  Nobody compares values.                           *)
(*                                                                         *)
(* The bridge is outside: a call may throw, answer what it was sent, put   *)
(* something else into a cell, count other commits, or give an answer that *)
(* cannot be applied to its end.                                           *)
(***************************************************************************)
EXTENDS GraphClock, SequencesExt

CONSTANTS Slot,      \* the inputs known to the backend, each with a slot
          Json,      \* what they hold
          Wrong,     \* what an engine puts into a cell that nobody sent it
          MaxAfterN  \* the batch sizes tried are 1..MaxAfterN

ASSUME WrongAssumption     == Wrong \notin Json
ASSUME MaxAfterNAssumption == MaxAfterN \in Nat \ {0}

VARIABLES
  settings,   \* afterN, intervalMs > 0, engineMode, and what the bridge can do
  cells,      \* the inputs of the JS graph
  buffer,     \* #buffer
  jsCommits,  \* #jsCommits, as times
  baseNow,    \* #pendingBaseNow; of use only while the buffer is not empty
  mirror,     \* WasmStateMirror: dictionary and inputs as one function, and now
  timerArmed, \* is a flush scheduled?
  downgraded, \* #stickyDowngraded
  error,      \* #error
  tally,      \* #shadowCompareCount, #promotedFlushCount, #divergedFlushCount
  enqueued,   \* history: the times of the commits given to the queue
  flushed,    \* history: those of the commits that left it, shipped or lost
  trouble     \* history: what went wrong up to now

counters  == <<downgraded, error, tally>>
queue     == <<buffer, jsCommits, baseNow, timerArmed, enqueued, flushed>>
batchVars == <<now, settings, cells, queue, mirror, counters, trouble>>

NonEmpty(S, T) == UNION {[D -> T] : D \in (SUBSET S) \ {{}}}
Writes  == NonEmpty(Slot, Json)
Queued  == [time : Time, writes : Writes]
\* spoiled: an answer put Wrong into the mirror; disagreed: other commits.
Troubles == {"threw", "spoiled", "disagreed", "bypassed", "disposed"}

BatchTypeOK ==
  /\ settings \in [afterN : 1..MaxAfterN, timed : BOOLEAN,
                   mode : {"js-ssot", "rust-ssot"}, batches : BOOLEAN]
  /\ cells \in [Slot -> Json]
  /\ buffer \in Seq(Queued) /\ Len(buffer) < settings.afterN
  /\ jsCommits \in Seq(Time) /\ baseNow \in Time
  /\ DOMAIN mirror.inputs \subseteq Slot /\ mirror.now \in Nat
  /\ timerArmed \in BOOLEAN /\ downgraded \in BOOLEAN
  /\ error \in {"none", "threw", "downgraded"}
  /\ tally \in [compared : Nat, promoted : Nat, diverged : Nat]
  /\ enqueued \in Seq(Time) /\ flushed \in Seq(Time)
  /\ trouble \subseteq Troubles

Times(batch) == [k \in DOMAIN batch |-> batch[k].time]

-----------------------------------------------------------------------------
(* Marshalling.                                                            *)

\* Both marshallers throw NodeDisposedError for a node without a slot.
Marshals(batch) == \A k \in DOMAIN batch : DOMAIN batch[k].writes \subseteq DOMAIN mirror.inputs

\* The inputs of an envelope: what the mirror has under what the commit wrote.
Upon(writes, inputs) ==
  [i \in DOMAIN writes \cup DOMAIN inputs |->
     IF i \in DOMAIN writes THEN writes[i] ELSE inputs[i]]

\* marshalBatchEnvelope ships the values of the first commit alone; of the
\* others the engine is told which inputs they wrote.
BatchShipped(batch) == Upon(batch[1].writes, mirror.inputs)

\* The mirrors an answer may make of inputs the engine was sent: it sends them
\* back, or a cell of them is wrong.
Spoiled(inputs) == {[inputs EXCEPT ![i] = Wrong] : i \in DOMAIN inputs}
Answers(inputs, time) == {[inputs |-> a, now |-> time] : a \in {inputs} \cup Spoiled(inputs)}

Blames(inputs) ==
  trouble' = IF mirror'.inputs = inputs THEN trouble ELSE trouble \cup {"spoiled"}

-----------------------------------------------------------------------------
(* flush() on a given queue.                                               *)

Armed == settings.mode = "rust-ssot" /\ ~downgraded

\* The batch leaves the queue before anything can throw.
Drained(batch) ==
  /\ buffer' = <<>> /\ timerArmed' = FALSE
  /\ flushed' = flushed \o Times(batch)

\* commit_batch on an engine that is not compared.
Applied(batch, from) ==
  /\ ~Armed
  /\ mirror' \in Answers(BatchShipped(batch), from + Len(batch))
  /\ Blames(BatchShipped(batch))
  /\ error' = IF downgraded THEN error ELSE "none"
  /\ UNCHANGED <<downgraded, tally>>

\* v2ByteCompareResult: times, intents and changed nodes, no values.  The engine
\* counts its commits on from the base.
SameCommits(batch, from, commits) == commits = [k \in 1..Len(batch) |-> from + k]

\* The commits are equal: whatever the answer put into the mirror stays.
Promoted(batch, from, commits) ==
  /\ Armed /\ SameCommits(batch, from, commits)
  /\ mirror' \in Answers(BatchShipped(batch), from + Len(batch))
  /\ Blames(BatchShipped(batch))
  /\ error' = "none"
  /\ tally' = [tally EXCEPT !.compared = tally.compared + 1,
                         !.promoted = tally.promoted + 1]
  /\ UNCHANGED downgraded

\* A Diverged that does not put back what the answer overwrote.
DivergedKeeps(batch, from, commits) ==
  /\ Armed
  /\ mirror' \in Answers(BatchShipped(batch), from)
  /\ downgraded' = TRUE /\ error' = "downgraded"
  /\ tally' = [tally EXCEPT !.compared = tally.compared + 1,
                         !.diverged = tally.diverged + 1]
  /\ trouble' = trouble \cup {"disagreed"}

\* The commits differ, because the engine does or because the times on the JS
\* side have a gap: the mirror has its inputs of before the answer again.
\* STICKY_DOWNGRADE_K is 1.
Diverged(batch, from, commits) ==
  /\ Armed
  /\ mirror' = [mirror EXCEPT !.now = from]
  /\ downgraded' = TRUE /\ error' = "downgraded"
  /\ tally' = [tally EXCEPT !.compared = tally.compared + 1,
                         !.diverged = tally.diverged + 1]
  /\ trouble' \in {trouble \cup {"disagreed"}}
                  \cup {t \in {trouble} : ~SameCommits(batch, from, commits)}

\* A bridge without commit_batch is given one commit after the other, and
\* nothing is compared.  Of every input the last write stays.
Overlaid(inputs, batch) ==
  [i \in DOMAIN inputs \cup UNION {DOMAIN batch[k].writes : k \in DOMAIN batch} |->
     LET writers == {k \in DOMAIN batch : i \in DOMAIN batch[k].writes}
     IN IF writers = {} THEN inputs[i] ELSE batch[Max(writers)].writes[i]]

Degraded(batch, from) ==
  /\ ~settings.batches
  /\ mirror' \in Answers(Overlaid(mirror.inputs, batch), from + Len(batch))
  /\ Blames(Overlaid(mirror.inputs, batch))
  /\ error' = IF downgraded THEN error ELSE "none"
  /\ UNCHANGED <<downgraded, tally>>

\* An answer that throws while it is applied has set the clock and some cells.
HalfApplied(writes, inputs, time) ==
  UNION {Answers(Upon([i \in taken |-> writes[i]], inputs), time) :
           taken \in SUBSET DOMAIN writes}

BreaksOff(batch, from) ==
  IF settings.batches
  THEN Marshals(batch) /\ mirror' \in HalfApplied(batch[1].writes, mirror.inputs, from + Len(batch))
  ELSE \E k \in DOMAIN batch :
         /\ Marshals(SubSeq(batch, 1, k))
         /\ mirror' \in HalfApplied(batch[k].writes,
                            Overlaid(mirror.inputs, SubSeq(batch, 1, k - 1)), from + k)

\* The catch arm: what was not applied is lost, what was is not taken back.
Lost(batch, from) ==
  /\ mirror' = [mirror EXCEPT !.now = from] \/ BreaksOff(batch, from)
  /\ error' = "threw"
  /\ trouble' = trouble \cup {"threw"}
  /\ UNCHANGED <<downgraded, tally>>

Flush(batch, commits, from) ==
  /\ Drained(batch)
  /\ jsCommits' = IF Armed THEN <<>> ELSE commits
  /\ \/ Lost(batch, from)
     \/ /\ Marshals(batch)
        /\ \/ Degraded(batch, from)
           \/ /\ settings.batches
              /\ \/ Applied(batch, from)
                 \/ Promoted(batch, from, commits)
                 \/ Diverged(batch, from, commits)

-----------------------------------------------------------------------------

BatchInit ==
  /\ now = 0
  /\ settings \in [afterN : 1..MaxAfterN, timed : BOOLEAN,
                   mode : {"js-ssot", "rust-ssot"}, batches : BOOLEAN]
  /\ \E v \in Json : cells = [i \in Slot |-> v]
  /\ buffer = <<>> /\ jsCommits = <<>> /\ baseNow = 0 /\ timerArmed = FALSE
  /\ mirror = [inputs |-> cells, now |-> 0]
  /\ downgraded = FALSE /\ error = "none"
  /\ tally = [compared |-> 0, promoted |-> 0, diverged |-> 0]
  /\ enqueued = <<>> /\ flushed = <<>> /\ trouble = {}

\* enqueue: the time before the first commit of the batch.
Base == IF buffer = <<>> THEN now ELSE baseNow

\* The timer is armed by the first commit of a batch; armed too late, by the
\* second, it leaves a lone commit waiting.
ArmsSecond == Len(buffer) = 1 /\ settings.timed
Arms == buffer = <<>> /\ settings.timed

Full(batch)     == Len(batch) >= settings.afterN

\* The commit as the JS graph made it is kept as long as there is something to
\* compare it with.
Comparable(time) == IF Armed THEN Append(jsCommits, time) ELSE jsCommits

\* WasmBackend.commit: the JS graph, then enqueue.
BatchCommit(writes) ==
  LET input   == [time |-> now + 1, writes |-> writes]
      commits == Comparable(now + 1)
      batch   == Append(buffer, input)
  IN /\ Tick
     /\ cells' = Upon(writes, cells)
     /\ enqueued' = Append(enqueued, now + 1)
     /\ baseNow' = Base
     /\ IF Full(batch)
        THEN Flush(batch, commits, Base)
        ELSE /\ buffer' = batch /\ jsCommits' = commits
             /\ timerArmed' = (Arms \/ timerArmed)
             /\ UNCHANGED <<flushed, mirror, counters, trouble>>
     /\ UNCHANGED settings

\* flush(), asked for or implied by snapshot() and dispose().
FlushNow ==
  /\ buffer # <<>>
  /\ Flush(buffer, jsCommits, baseNow)
  /\ UNCHANGED <<now, settings, cells, baseNow, enqueued>>

TimerFires == timerArmed /\ FlushNow

\* hydrate, and a commit on the graph that __graph() hands out, go round the
\* queue.
Bypass(writes) ==
  /\ Tick
  /\ cells' = Upon(writes, cells)
  /\ trouble' = trouble \cup {"bypassed"}
  /\ UNCHANGED <<settings, queue, mirror, counters>>

\* WasmStateMirror.dispose: commits that are still queued may name the slot.
DisposeSlot(i) ==
  /\ i \in DOMAIN mirror.inputs
  /\ mirror' = [mirror EXCEPT !.inputs = [j \in DOMAIN @ \ {i} |-> @[j]]]
  /\ trouble' = trouble \cup {"disposed"}
  /\ UNCHANGED <<now, settings, cells, queue, counters>>

BatchNext ==
  \/ \E writes \in Writes : BatchCommit(writes) \/ Bypass(writes)
  \/ FlushNow \/ TimerFires
  \/ \E i \in Slot : DisposeSlot(i)

BatchSpec == BatchInit /\ [][BatchNext]_batchVars

\* The event loop runs timers that are due.
BatchFairness == WF_batchVars(TimerFires)

-----------------------------------------------------------------------------

\* Every commit made through the backend leaves the queue once and in order,
\* whatever throws, diverges or downgrades on the way.
EveryCommitLeavesOnce == enqueued = flushed \o Times(buffer)

\* No commit waits without a timer, and no timer is left running for nobody.
TimerMatchesQueue == timerArmed <=> settings.timed /\ buffer # <<>>

\* With an interval configured, a commit is not in the queue for ever.
EveryCommitIsFlushed == (settings.timed /\ buffer # <<>>) ~> buffer = <<>>

\* The commits kept for the comparison are those in the queue, as long as
\* anything is compared, and none are kept after that.
ComparedWithItsOwn ==
  jsCommits = IF Armed THEN Times(buffer) ELSE <<>>

\* The engine is downgraded only if it disagreed, or if a commit went round
\* the queue: batches of any size, lost batches and timers do not do it.
DowngradeIsEarned == downgraded => trouble \cap {"disagreed", "bypassed"} # {}

\* Once downgraded nothing is promoted any more, and nobody who looks at the
\* error is told that all is well.
DowngradeIsSticky ==
  [][downgraded => /\ downgraded' /\ error' # "none"
                   /\ tally' = tally]_batchVars

\* As long as the engine is compared, no cell of its answers stays in the mirror
\* but by a promotion, and what is promoted was committed in a row: a batch with
\* a commit in its midst that went round the queue is found out.  Left out are the
\* two ways round the comparison: a bridge without commit_batch, and an answer
\* that throws while it is applied.
CommittedInARow(times, before) ==
  \A k \in Len(before) + 1 .. Len(times) - 1 : times[k + 1] = times[k] + 1

BelievedWhenCompared ==
  [][Armed /\ settings.batches /\ error' # "threw"
       => \/ /\ tally'.promoted = tally.promoted + 1
             /\ CommittedInARow(flushed', flushed)
          \/ \A i \in DOMAIN mirror'.inputs : mirror'.inputs[i] = mirror.inputs[i]]_batchVars

\* An engine that was caught leaves nothing behind: what is wrong in the mirror
\* came with an answer whose commits were equal or were not compared, or with
\* one that threw.
CaughtLeavesNothing ==
  (\E i \in DOMAIN mirror.inputs : mirror.inputs[i] = Wrong)
    => trouble \cap {"spoiled", "threw"} # {}

\* The mirror has the inputs of the JS graph whenever the queue is empty and
\* nothing went wrong, if no more than one commit is shipped at a time: marshaler.ts:804
\* says the same of more, but a batch ships the values of its first commit only.
MirrorIsCurrent ==
  buffer = <<>> /\ trouble = {} /\ (settings.afterN = 1 \/ ~settings.batches)
    => mirror.inputs = cells /\ mirror.now = Len(enqueued)

\* The queue loses no commit and keeps company with its timer and with the
\* commits to compare; what it does to the engine and its mirror is accounted for.
BatchSound ==
  /\ EveryCommitLeavesOnce
  /\ TimerMatchesQueue
  /\ ComparedWithItsOwn
  /\ DowngradeIsEarned
  /\ CaughtLeavesNothing
  /\ MirrorIsCurrent

\* A downgrade is for good, and up to it an answer is kept only after its commits
\* were compared.
DowngradeIsSound == DowngradeIsSticky /\ BelievedWhenCompared
=============================================================================
