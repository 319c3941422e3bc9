------------------------------ MODULE CommitLog -------------------------------
(***************************************************************************)
(* The commit history of packages/core/src/graph.ts and those who read it: *)
(* the bounded ring commitHistory, the node commitLog whose entry caches   *)
(* the ring, the counter commitLogConsumerCount that lets a commit skip    *)
(* the rebuild of that entry (Phase F.4), and the commit-metadata nodes    *)
(* that Phase F.5 recomputes once the ring has the new row.                *)
(*                                                                         *)
(* The entry is rebuilt in two places: by Phase F.4 if somebody counts as  *)
(* a consumer, and by any read that finds the entry older than the clock.  *)
(* A row of the ring is the time of its commit.  Inputs are left out: a    *)
(* frame recomputes some set of nodes, each may read the log or not, and   *)
(* each may throw (CommitTx and Recompute have the rest of the frame).     *)
(***************************************************************************)
EXTENDS GraphClock, SequencesExt, FiniteSetsExt

CONSTANTS Plain,     \* derived nodes that choose, each time, to read the log
          Metadata,  \* nodes that commitMetadataDerived may register
          Handle,    \* subscriptions to commitLog
          Cap        \* commitHistoryCap

ASSUME NodesAssumption == Plain \cap Metadata = {} /\ Plain \cap Handle = {}
                          /\ Metadata \cap Handle = {}
ASSUME CapAssumption   == Cap \in Nat \ {0}

Log == "commitLog"

VARIABLES
  history,    \* commitHistory
  log,        \* commitLogEntry: value and lastTime
  consumers,  \* commitLogConsumerCount
  reading,    \* the plain nodes with commitLog among their deps
  metadata,   \* commitMetadataIds in registration order
  source,     \* what a metadata node gets: the log or an earlier metadata node
  seen,       \* the rows a node or subscriber last got
  subs,       \* the subscriptions to commitLog
  phase,      \* where the frame is
  mode,       \* commit or simulate
  beforeNow,  \* the clock when the frame was opened
  logAtEntry, \* commitLogValueBeforeF4 and commitLogLastTimeBeforeF4
  saved,      \* commitHistorySnapshot, a set of at most one ring
  todo,       \* nodes Phase D has yet to recompute
  queue,      \* metadata nodes Phase F.5 has yet to recompute
  undo        \* derivedRollback: what a node had before the frame

nodes == <<reading, metadata, source>>
frame == <<mode, beforeNow, logAtEntry, todo, queue>>
vars  == <<now, history, log, consumers, nodes, seen, subs, phase, frame, saved, undo>>

Reader   == Plain \cup Metadata \cup Handle
Ring     == Seq(1..MaxTime)
LogEntry == [value : Ring, time : 0..MaxTime]

TypeOK ==
  /\ now \in 0..MaxTime /\ beforeNow \in 0..MaxTime
  /\ history \in Ring /\ log \in LogEntry /\ logAtEntry \in LogEntry
  /\ consumers \in Int
  /\ reading \subseteq Plain
  /\ metadata \in Seq(Metadata) /\ queue \in Seq(Metadata)
  /\ source \in [Metadata -> Metadata \cup {Log}]
  /\ seen \in [Reader -> Ring]
  /\ subs \subseteq Handle
  /\ phase \in {"idle", "run", "compute", "metadata", "dispatch", "failed"}
  /\ mode \in {"commit", "simulate"}
  /\ saved \subseteq Ring
  /\ todo \subseteq Plain \cup Metadata
  /\ \E D \in SUBSET (Plain \cup Metadata) :
       undo \in [D -> [seen : Ring, reads : BOOLEAN]]

Registered == ToSet(metadata)
NoUndo     == [n \in {} |-> [seen |-> <<>>, reads |-> FALSE]]

Init ==
  /\ now = 0 /\ beforeNow = 0 /\ history = <<>> /\ log = [value |-> <<>>, time |-> 0]
  /\ consumers = 0 /\ reading = {} /\ metadata = <<>>
  /\ source = [m \in Metadata |-> Log]
  /\ seen = [r \in Reader |-> <<>>]
  /\ subs = {} /\ phase = "idle" /\ mode = "commit" /\ logAtEntry = log
  /\ saved = {} /\ todo = {} /\ queue = <<>>
  /\ undo = NoUndo

-----------------------------------------------------------------------------
(* Reading the log, and who counts as a consumer.                          *)

\* A rebuilt entry stamped one tick too late.
RefreshedLate == IF log.time < now THEN [value |-> history, time |-> now + 1] ELSE log

\* readEntryFromResolved: an entry older than the clock is rebuilt.
Refreshed == IF log.time < now THEN [value |-> history, time |-> now] ELSE log
ReadLog   == log' = Refreshed

\* setDeps of a plain node: only a change of membership moves the counter.
SetReads(n, reads) ==
  /\ reading' = IF reads THEN reading \cup {n} ELSE reading \ {n}
  /\ consumers' = consumers + (IF reads /\ n \notin reading THEN 1
                               ELSE IF ~reads /\ n \in reading THEN -1 ELSE 0)

-----------------------------------------------------------------------------
(* Between frames, in tx bodies and in observers: none of these operations *)
(* but disposal asks whether a frame is open.                              *)

Open == {"idle", "run", "dispatch"}

Read ==
  /\ phase \in Open
  /\ ReadLog
  /\ UNCHANGED <<now, history, consumers, nodes, seen, subs, phase, frame, saved, undo>>

Subscribe(h) ==
  /\ phase \in Open /\ h \notin subs
  /\ ReadLog
  /\ seen' = [seen EXCEPT ![h] = log'.value]
  /\ subs' = subs \cup {h} /\ consumers' = consumers + 1
  /\ UNCHANGED <<now, history, nodes, phase, frame, saved, undo>>

Unsubscribe(h) ==
  /\ phase \in Open /\ h \in subs
  /\ seen' = [seen EXCEPT ![h] = <<>>]
  /\ subs' = subs \ {h} /\ consumers' = consumers - 1
  /\ UNCHANGED <<now, history, log, nodes, phase, frame, saved, undo>>

\* derived(...): the first compute reads the log or not.  (A plain node that
\* does not read it is like one that is not registered.)
RegisterPlain(n) ==
  /\ phase \in Open /\ n \notin reading
  /\ ReadLog
  /\ seen' = [seen EXCEPT ![n] = log'.value]
  /\ SetReads(n, TRUE)
  /\ UNCHANGED <<now, history, metadata, source, subs, phase, frame, saved, undo>>

DisposePlain(n) ==
  /\ phase = "idle" /\ n \in reading
  /\ seen' = [seen EXCEPT ![n] = <<>>]
  /\ reading' = reading \ {n} /\ consumers' = consumers - 1
  /\ UNCHANGED <<now, history, log, metadata, source, subs, phase, frame, saved, undo>>

\* What a compute of metadata node m gets when its source is s; reading the
\* log may rebuild the entry.
Gets(m, s) ==
  IF s = Log THEN ReadLog /\ seen' = [seen EXCEPT ![m] = log'.value]
             ELSE UNCHANGED log /\ seen' = [seen EXCEPT ![m] = seen[s]]

\* A registration that leaves the counter to setDeps, which skips the tag.
RegisterMetadataUncounted(m, s) ==
  /\ phase \in Open /\ m \notin Registered /\ s \in Registered \cup {Log}
  /\ Gets(m, s)
  /\ source' = [source EXCEPT ![m] = s]
  /\ metadata' = Append(metadata, m)
  /\ UNCHANGED <<now, history, consumers, reading, subs, phase, frame, saved, undo>>

\* commitMetadataDerived(...): counted by its tag, whatever it reads; a first
\* compute that throws takes the registration back but not a rebuilt entry.
RegisterMetadata(m, s) ==
  /\ phase \in Open /\ m \notin Registered /\ s \in Registered \cup {Log}
  /\ Gets(m, s)
  /\ source' = [source EXCEPT ![m] = s]
  /\ metadata' = Append(metadata, m) /\ consumers' = consumers + 1
  /\ UNCHANGED <<now, history, reading, subs, phase, frame, saved, undo>>

DisposeMetadata(m) ==
  /\ phase = "idle"
  /\ \A k \in Registered : source[k] # m
  /\ \E i \in DOMAIN metadata : metadata[i] = m /\ metadata' = RemoveAt(metadata, i)
  /\ consumers' = consumers - 1
  /\ source' = [source EXCEPT ![m] = Log] /\ seen' = [seen EXCEPT ![m] = <<>>]
  /\ UNCHANGED <<now, history, log, reading, subs, phase, frame, saved, undo>>

-----------------------------------------------------------------------------
(* The frame of commit and simulate.                                       *)

\* commit captures the entry before the tx body runs (simulate does not, and
\* never looks at logAtEntry).
Begin(m) ==
  /\ phase = "idle" /\ now < MaxTime
  /\ phase' = "run" /\ mode' = m /\ beforeNow' = now
  /\ logAtEntry' = log
  /\ UNCHANGED <<now, history, log, consumers, nodes, seen, subs, todo, queue, saved, undo>>

RunThrows ==
  /\ phase = "run"
  /\ phase' = "failed"
  /\ UNCHANGED <<now, history, log, consumers, nodes, seen, subs, frame, saved, undo>>

\* The clock advances before Phase D; which nodes are affected is left open.
AdvanceClock ==
  /\ phase = "run"
  /\ Tick /\ phase' = "compute"
  /\ todo' \in SUBSET (Plain \cup Registered)
  /\ UNCHANGED <<history, log, consumers, nodes, seen, subs, mode, beforeNow,
                 logAtEntry, queue, saved, undo>>

\* recordDerivedRollback: the first capture of a frame is the one that counts.
Recorded(n) ==
  [k \in DOMAIN undo \cup {n} |->
     IF k \in DOMAIN undo THEN undo[k] ELSE [seen |-> seen[k], reads |-> k \in reading]]

ComputePlain(n, reads) ==
  /\ phase = "compute" /\ n \in todo \cap Plain
  /\ IF reads THEN ReadLog /\ seen' = [seen EXCEPT ![n] = log'.value]
              ELSE UNCHANGED log /\ seen' = [seen EXCEPT ![n] = <<>>]
  /\ SetReads(n, reads)
  /\ todo' = todo \ {n} /\ undo' = Recorded(n)
  /\ UNCHANGED <<now, history, metadata, source, subs, phase, mode, beforeNow,
                 logAtEntry, queue, saved>>

ComputeMetadata(m) ==
  /\ phase = "compute" /\ m \in todo \cap Metadata /\ source[m] \notin todo
  /\ Gets(m, source[m])
  /\ todo' = todo \ {m} /\ undo' = Recorded(m)
  /\ UNCHANGED <<now, history, consumers, nodes, subs, phase, mode, beforeNow,
                 logAtEntry, queue, saved>>

\* A compute that throws may have read the log before.
MayHaveRead(n) ==
  log' \in {log} \cup {e \in {Refreshed} : n \in Plain \/ source[n] = Log}

ComputeThrows(n) ==
  /\ phase = "compute" /\ n \in todo
  /\ MayHaveRead(n)
  /\ phase' = "failed" /\ undo' = Recorded(n)
  /\ UNCHANGED <<now, history, consumers, nodes, seen, subs, frame, saved>>

\* Phase F and F.4: append the row, trim the ring, rebuild the entry if
\* somebody counts.  The ring is saved only if F.5 has something to compute.
Trimmed(h)    == IF Len(h) > Cap THEN Tail(h) ELSE h

AppendRow ==
  /\ phase = "compute" /\ todo = {} /\ mode = "commit"
  /\ saved' = IF metadata = <<>> THEN {} ELSE {history}
  /\ history' = Trimmed(Append(history, now))
  /\ log' = IF consumers > 0 THEN [value |-> history', time |-> now] ELSE log
  /\ queue' = metadata /\ phase' = "metadata"
  /\ UNCHANGED <<now, consumers, nodes, seen, subs, mode, beforeNow, logAtEntry,
                 todo, undo>>

\* Phase F.5, in the order of registration.
RecomputeCommitMetadata ==
  /\ phase = "metadata" /\ queue # <<>>
  /\ LET m == Head(queue) IN Gets(m, source[m]) /\ undo' = Recorded(m)
  /\ queue' = Tail(queue)
  /\ UNCHANGED <<now, history, consumers, nodes, subs, phase, mode, beforeNow,
                 logAtEntry, todo, saved>>

CommitMetadataThrows ==
  /\ phase = "metadata" /\ queue # <<>>
  /\ MayHaveRead(Head(queue))
  /\ phase' = "failed" /\ undo' = Recorded(Head(queue))
  /\ UNCHANGED <<now, history, consumers, nodes, seen, subs, frame, saved>>

\* Phase G: the subscribers of the log are told if F.4 marked it changed.
Publish ==
  /\ phase = "metadata" /\ queue = <<>>
  /\ seen' = [r \in Reader |-> IF r \in subs /\ consumers > 0 THEN log.value ELSE seen[r]]
  /\ phase' = "dispatch" /\ saved' = {} /\ undo' = NoUndo
  /\ UNCHANGED <<now, history, log, consumers, nodes, subs, frame>>

Finish ==
  /\ phase = "dispatch"
  /\ phase' = "idle"
  /\ UNCHANGED <<now, history, log, consumers, nodes, seen, subs, frame, saved, undo>>

-----------------------------------------------------------------------------
(* Taking a frame back.                                                    *)

\* Values and, through setDeps, dependency sets of every captured node.
RestoreNodes ==
  /\ seen' = [r \in Reader |-> IF r \in DOMAIN undo THEN undo[r].seen ELSE seen[r]]
  /\ reading' = (reading \ DOMAIN undo)
                \cup {n \in Plain \cap DOMAIN undo : undo[n].reads}
  /\ consumers' = consumers + Cardinality(reading') - Cardinality(reading)

FrameOver == /\ now' = beforeNow /\ phase' = "idle"
             /\ todo' = {} /\ queue' = <<>> /\ saved' = {} /\ undo' = NoUndo
             /\ UNCHANGED <<metadata, source, subs, mode, beforeNow, logAtEntry>>

\* A catch arm without the two assignments to commitLogEntry.
RollbackKeepsLog ==
  /\ phase = "failed" /\ mode = "commit"
  /\ RestoreNodes
  /\ IF saved = {} THEN UNCHANGED history ELSE history' \in saved
  /\ UNCHANGED log
  /\ FrameOver

\* The catch arm of commit.
Rollback ==
  /\ phase = "failed" /\ mode = "commit"
  /\ RestoreNodes
  /\ IF saved = {} THEN UNCHANGED <<history, log>>
                   ELSE history' \in saved /\ log' = logAtEntry
  /\ FrameOver

\* The finally arm of simulate, whether the frame threw or not.
Discard ==
  /\ mode = "simulate"
  /\ phase = "failed" \/ (phase = "compute" /\ todo = {})
  /\ RestoreNodes
  /\ FrameOver
  /\ UNCHANGED <<history, log>>

Next ==
  \/ Read
  \/ \E h \in Handle : Subscribe(h) \/ Unsubscribe(h)
  \/ \E n \in Plain : RegisterPlain(n) \/ DisposePlain(n)
  \/ \E n \in Plain, reads \in BOOLEAN : ComputePlain(n, reads)
  \/ \E m \in Metadata : \/ DisposeMetadata(m) \/ ComputeMetadata(m)
                         \/ \E s \in Metadata \cup {Log} : RegisterMetadata(m, s)
  \/ \E m \in {"commit", "simulate"} : Begin(m)
  \/ \E n \in Plain \cup Metadata : ComputeThrows(n)
  \/ RunThrows \/ AdvanceClock \/ AppendRow \/ RecomputeCommitMetadata
  \/ CommitMetadataThrows \/ Publish \/ Finish \/ Rollback \/ Discard

Spec == Init /\ [][Next]_vars

-----------------------------------------------------------------------------
(* What the commit log promises.                                           *)

\* commitLogConsumerCount is moved at nine places; whatever the order in which
\* nodes read, stop reading, throw and are rolled back, it is the number of
\* subscriptions, metadata nodes and plain readers, also in mid-frame.
ConsumersCounted ==
  consumers = Cardinality(subs) + Len(metadata) + Cardinality(reading)

\* The last Cap of the commits 1 to t.
RingOf(t) == LET kept == IF t < Cap THEN t ELSE Cap
             IN [k \in 1..kept |-> t - kept + k]

\* Between frames the ring holds the last Cap commits: no row of a frame that
\* was taken back, none missing, none out of order.
HistoryExact ==
  phase = "idle" => history = RingOf(now)

\* Nobody ever keeps a row of a commit that did not happen: neither the cached
\* entry nor a node or subscriber, once a frame that threw in F.5, after the
\* row was appended and the entry rebuilt, has been taken back.
NoPhantomRow ==
  phase = "idle" => /\ ToSet(log.value) \subseteq 1..now
                    /\ \A r \in Reader : ToSet(seen[r]) \subseteq 1..now

\* When observers run, every metadata node and every subscriber to the log has
\* the ring with the row of this commit, even if the entry was already rebuilt,
\* without it, by a compute of the same frame.
ConsumersSeeTheCommit ==
  [][Publish => \A r \in Registered \cup subs : seen'[r] = history]_vars

\* SPEC.md, 5.1 Amendment 5, on observers, and the comment of readEntry, on
\* reads between frames: both get the ring with the last commit.
LogIsCurrent == phase \in {"idle", "dispatch"} => Refreshed.value = history

\* Ring, cached log and consumer count agree, in and between frames.
LogSound == ConsumersCounted /\ HistoryExact /\ NoPhantomRow
=============================================================================
